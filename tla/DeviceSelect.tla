--------------------------- MODULE DeviceSelect ---------------------------
(***************************************************************************)
(* Which device an outgoing call gets: channel_request, the search through   *)
(* the list of devices (find_device_by_resource_ex) and what becomes of the  *)
(* device until the call ends.                                               *)
(*                                                                          *)
(* Any number of callers search at the same time.  They share the lock of    *)
(* the list, take the lock of one device after the other, and leave the      *)
(* mutex of the round robin alone: the marks by which a search begins where  *)
(* the last one ended are read and cleared by one pass over the list and set *)
(* by another.  A device in the list is known by its place.                  *)
(***************************************************************************)
EXTENDS Integers, Sequences, FiniteSets

CONSTANTS
  N,              \* devices in the list
  MaxList,        \* how many of them a round robin considers: MAXDONGLEDEVICES
  Callers,
  Resources,      \* what a caller may ask for
  Kind,           \* resource -> the form of the name, which says how to search
  MembersOf,      \* resource -> the devices it may name
  ActsFor,        \* caller -> the device whose incoming call it continues, or 0
  Asks,           \* what is asked: caller, resource, with "holdother" or not
  MaxPassed,      \* how many searches may pass a free device
  Unsteady        \* bound: the devices that also have other troubles than callers

Devices  == 1..N
NoDev    == 0
NoCaller == "nobody"
RoundRobin == { "rgroup", "provider", "sim" }
FirstFound == { "name", "group", "imei" }
Learned    == { "provider", "sim", "imei" }

ASSUME SelectAssumption ==
  /\ N \in Nat /\ MaxList \in Nat /\ MaxList >= N
  /\ NoCaller \notin Callers
  /\ Resources # {} /\ Kind \in [Resources -> RoundRobin \cup FirstFound]
  /\ MembersOf \in [Resources -> SUBSET Devices]
  /\ ActsFor \in [Callers -> Devices \cup {NoDev}]
  /\ Asks \subseteq Callers \X Resources \X BOOLEAN
  /\ MaxPassed \in Nat /\ Unsteady \subseteq Devices

VARIABLES
  pvt,     \* device -> what can_dial asks of it, and its incoming call
  lock,    \* device -> the caller that has pvt->lock, or NoCaller
  marks,   \* kind of round robin -> devices whose *_last_used is set
  find,    \* caller -> its place in the search and its locals
  call,    \* caller -> its call
  free,    \* caller -> members that were dialable since its search began (history)
  member,  \* caller -> members since its search began (history)
  passed   \* device -> searches that passed it although it was free (history)

vars == << pvt, lock, marks, find, call, free, member, passed >>

CallState == { "none", "init", "dialing", "active", "onhold" }
Pvt  == [ready : BOOLEAN, known : SUBSET Learned, incoming : {"none", "setup", "active", "onhold"}]
Find == [at : {"idle", "first", "collect", "seek", "found", "refused"},
         res : Resources, hold : BOOLEAN, exists : BOOLEAN,
         next : 0..N + 1, list : Seq(Devices), last : 0..N, left : 0..N,
         got : Devices \cup {NoDev}]
Call == [dev : Devices \cup {NoDev}, state : CallState, hold : BOOLEAN, called : BOOLEAN]
NoCall == [dev |-> NoDev, state |-> "none", hold |-> FALSE, called |-> FALSE]

TypeOK ==
  /\ pvt \in [Devices -> Pvt]
  /\ lock \in [Devices -> Callers \cup {NoCaller}]
  /\ marks \in [RoundRobin -> SUBSET Devices]
  /\ find \in [Callers -> Find]
  /\ call \in [Callers -> Call]
  /\ \A c \in Callers : call[c].state = "none" <=> call[c].dev = NoDev
  /\ free \in [Callers -> SUBSET Devices]
  /\ member \in [Callers -> SUBSET Devices]
  /\ passed \in [Devices -> Nat]

(* What a search that is over leaves of its locals does not matter. *)
Idle == [at |-> "idle", res |-> CHOOSE r \in Resources : TRUE, hold |-> FALSE, exists |-> FALSE,
         next |-> 1, list |-> << >>, last |-> 0, left |-> 0, got |-> NoDev]

Init ==
  /\ pvt = [d \in Devices |-> [ready |-> FALSE, known |-> {}, incoming |-> "none"]]
  /\ lock = [d \in Devices |-> NoCaller]
  /\ marks = [k \in RoundRobin |-> {}]
  /\ find = [c \in Callers |-> Idle]
  /\ call = [c \in Callers |-> NoCall]
  /\ free = [c \in Callers |-> {}]
  /\ member = [c \in Callers |-> {}]
  /\ passed = [d \in Devices |-> 0]

-----------------------------------------------------------------------------
(* The states of the calls on a device, but for that of a caller. *)
States(p, calls, d, but) ==
  { calls[c].state : c \in { x \in Callers \ but : calls[x].dev = d } }
    \cup IF p[d].incoming \in {"active", "onhold"} THEN { p[d].incoming } ELSE {}

(* Mutant: a call that is not dialed yet is no hindrance. *)
DialPossibleIgnoresInit(p, calls, d, hold, but) ==
  LET states == States(p, calls, d, but)
  IN  /\ p[d].incoming # "setup"
      /\ "dialing" \notin states
      /\ states \cap {"active", "onhold"} # {} => hold
      /\ ~({"active", "onhold"} \subseteq states)

(* is_dial_possible2 *)
DialPossible(p, calls, d, hold, but) ==
  LET states == States(p, calls, d, but)
  IN  /\ p[d].incoming # "setup"
      /\ states \cap {"init", "dialing"} = {}
      /\ states \cap {"active", "onhold"} # {} => hold
      /\ ~({"active", "onhold"} \subseteq states)

(* channels_loop: the caller continues a call of this device. *)
ChannelsLoop(p, c, d) == ActsFor[c] = d /\ p[d].incoming # "none"

CanDialIn(p, calls, c, d, hold) ==
  /\ ~(hold /\ ChannelsLoop(p, c, d))
  /\ p[d].ready
  /\ DialPossible(p, calls, d, hold, {})

CanDial(c, d) == CanDialIn(pvt, call, c, d, find[c].hold)

MatchesIn(p, r, d) == d \in MembersOf[r] /\ (Kind[r] \in Learned => Kind[r] \in p[d].known)
Matches(r, d)      == MatchesIn(pvt, r, d)

(* The history: which devices have been members, and free for the search,   *)
(* since it began, and by how many searches a device has been passed since   *)
(* it became free.  A device that was found is no longer free.               *)
Begun(c, set)  == IF find[c].at = "idle" THEN Devices ELSE set
Searches(c)    == find'[c].at \in {"first", "collect", "seek", "refused"}
History(count) ==
  /\ member' = [c \in Callers |->
       { d \in Begun(c, member[c]) : Searches(c) /\ MatchesIn(pvt', find'[c].res, d) }]
  /\ free' = [c \in Callers |->
       { d \in Begun(c, free[c]) : /\ Searches(c) /\ MatchesIn(pvt', find'[c].res, d)
                                   /\ CanDialIn(pvt', call', c, d, find'[c].hold) }]
  /\ passed' = [d \in Devices |->
       IF /\ pvt'[d].ready /\ lock'[d] = NoCaller /\ DialPossible(pvt', call', d, FALSE, {})
          /\ \A r \in Resources : d \in MembersOf[r] => MatchesIn(pvt', r, d)
       THEN count[d] ELSE 0]

(* A round robin of c took d: it has passed the devices that were free. *)
PassedBy(c, d) ==
  [e \in Devices |-> IF e = d THEN 0 ELSE IF e \in free[c] THEN passed[e] + 1 ELSE passed[e]]

-----------------------------------------------------------------------------
Becomes(c, f) == find' = [find EXCEPT ![c] = f]

(* channel_request and the beginning of find_device_by_resource_ex: which   *)
(* search it is depends on the form of the name.                            *)
Request(c) ==
  \E r \in Resources, hold \in BOOLEAN :
    /\ << c, r, hold >> \in Asks
    /\ find[c].at = "idle" /\ call[c] = NoCall
    /\ Becomes(c, [Idle EXCEPT !.at = IF Kind[r] \in RoundRobin THEN "collect" ELSE "first",
                               !.res = r, !.hold = hold])
    /\ UNCHANGED << pvt, lock, marks, call >>
    /\ History(passed)

(* The device stays locked for the one who found it. *)
Take(c, d) == /\ Becomes(c, [Idle EXCEPT !.at = "found", !.got = d, !.hold = find[c].hold])
              /\ lock' = [lock EXCEPT ![d] = c]

Step(c, exists) == /\ Becomes(c, [find[c] EXCEPT !.next = @ + 1, !.exists = @ \/ exists])
                   /\ UNCHANGED lock

(* By group, name or IMEI: the first member that can dial. *)
First(c) ==
  LET d == find[c].next
  IN  /\ find[c].at = "first" /\ d \in Devices
      /\ lock[d] = NoCaller
      /\ IF Matches(find[c].res, d) /\ CanDial(c, d)
         THEN Take(c, d)
         ELSE Step(c, Matches(find[c].res, d))
      /\ UNCHANGED << pvt, marks, call >>
      /\ History(passed)

FirstEnds(c) ==
  /\ find[c].at = "first" /\ find[c].next > N
  /\ Becomes(c, [find[c] EXCEPT !.at = "refused"])
  /\ UNCHANGED << pvt, lock, marks, call >>
  /\ History(passed)

(* Round robin, first pass: the members in the order of the list, and where  *)
(* the last search ended, whose mark is taken away.                          *)
Collect(c) ==
  LET d == find[c].next
      k == Kind[find[c].res]
  IN  /\ find[c].at = "collect" /\ d \in Devices /\ Len(find[c].list) < MaxList
      /\ lock[d] = NoCaller
      /\ IF Matches(find[c].res, d)
         THEN /\ Becomes(c, [find[c] EXCEPT !.list = Append(@, d), !.next = @ + 1,
                               !.last = IF d \in marks[k] THEN Len(find[c].list) ELSE @])
              /\ marks' = [marks EXCEPT ![k] = @ \ {d}]
         ELSE Becomes(c, [find[c] EXCEPT !.next = @ + 1]) /\ UNCHANGED marks
      /\ UNCHANGED << pvt, lock, call >>
      /\ History(passed)

(* Behind the device that was used last.  The places in the list of members *)
(* count from 0, and without a mark the search begins at the second.        *)
Start(last) == last + 1

CollectEnds(c) ==
  /\ find[c].at = "collect" /\ (find[c].next > N \/ Len(find[c].list) = MaxList)
  /\ Becomes(c, [find[c] EXCEPT !.at = "seek", !.next = Start(find[c].last), !.last = 0,
                                !.left = Len(find[c].list)])
  /\ UNCHANGED << pvt, lock, marks, call >>
  /\ History(passed)

(* Mutant: at the end of the list of members the search stays at its last. *)
AroundNot(j, len) == IF j = len THEN len - 1 ELSE j

Around(j, len) == IF j = len THEN 0 ELSE j

(* Mutant: the mark is not set. *)
Unmarked(k, d) == marks

(* The next search of this kind begins behind the device that was found. *)
Marked(k, d) == [marks EXCEPT ![k] = @ \cup {d}]

(* Round robin, second pass: the next member, round the end of the list; the *)
(* one that can dial gets the mark.                                          *)
Seek(c) ==
  LET j == Around(find[c].next, Len(find[c].list))
      d == find[c].list[j + 1]
  IN  /\ find[c].at = "seek" /\ find[c].left > 0
      /\ lock[d] = NoCaller
      /\ IF CanDial(c, d)
         THEN /\ Take(c, d)
              /\ marks' = Marked(Kind[find[c].res], d)
              /\ UNCHANGED << pvt, call >>
              /\ History(PassedBy(c, d))
         ELSE /\ Becomes(c, [find[c] EXCEPT !.exists = TRUE, !.next = j + 1, !.left = @ - 1])
              /\ UNCHANGED << pvt, lock, marks, call >>
              /\ History(passed)

SeekEnds(c) ==
  /\ find[c].at = "seek" /\ find[c].left = 0
  /\ Becomes(c, [find[c] EXCEPT !.at = "refused"])
  /\ UNCHANGED << pvt, lock, marks, call >>
  /\ History(passed)

(* The answer to a caller that gets no device; the message says by exists   *)
(* whether there is such a device.                                         *)
Refuse(c) ==
  /\ find[c].at = "refused"
  /\ Becomes(c, Idle)
  /\ UNCHANGED << pvt, lock, marks, call >>
  /\ History(passed)

(* new_channel, with the lock of the device still held: its cpvt is in INIT; *)
(* or it fails.                                                              *)
NewChannel(c) ==
  LET d == find[c].got
  IN  /\ find[c].at = "found"
      /\ \/ call' = [call EXCEPT ![c] =
                       [dev |-> d, state |-> "init", hold |-> find[c].hold, called |-> FALSE]]
         \/ UNCHANGED call
      /\ lock' = [lock EXCEPT ![d] = NoCaller]
      /\ Becomes(c, Idle)
      /\ UNCHANGED << pvt, marks >>
      /\ History(passed)

-----------------------------------------------------------------------------
(* What else happens to a device, by a thread that has its lock. *)
Sets(c, state) == /\ call[c].dev # NoDev /\ lock[call[c].dev] = NoCaller
                  /\ call' = [call EXCEPT ![c].state = state]
                  /\ UNCHANGED << pvt, lock, marks, find >>
                  /\ History(passed)

(* channel_call: asks again, for the device may have changed since it was   *)
(* found.  When the answer is no, the cpvt of the call stays in INIT.        *)
ChannelCall(c) ==
  LET d == call[c].dev
  IN  /\ call[c].state = "init" /\ ~call[c].called /\ lock[d] = NoCaller
      /\ pvt[d].ready /\ DialPossible(pvt, call, d, call[c].hold, {c})
      /\ call' = [call EXCEPT ![c].called = TRUE]
      /\ UNCHANGED << pvt, lock, marks, find >>
      /\ History(passed)

(* ^ORIG, ^CONN, and calls held and taken back. *)
Dialing(c)  == call[c].state = "init" /\ call[c].called /\ Sets(c, "dialing")
Answered(c) == call[c].state = "dialing" /\ Sets(c, "active")
Held(c)     == call[c].state = "active" /\ Sets(c, "onhold")
Resumed(c)  == call[c].state = "onhold" /\ Sets(c, "active")

(* A call that was given to the modem ends, or is refused by it. *)
Ended(c) ==
  /\ call[c].called /\ lock[call[c].dev] = NoCaller
  /\ call' = [call EXCEPT ![c] = NoCall]
  /\ UNCHANGED << pvt, lock, marks, find >>
  /\ History(passed)

DeviceBecomes(d, p) == /\ lock[d] = NoCaller
                       /\ pvt' = [pvt EXCEPT ![d] = p]
                       /\ UNCHANGED << lock, marks, find, call >>
                       /\ History(passed)

(* IMEI and IMSI are learned once per connection, the provider comes and goes. *)
Asked(d) == Learned \cap { Kind[r] : r \in { x \in Resources : d \in MembersOf[x] } }

Learn(d) ==
  \E k \in Asked(d) :
    /\ k \in pvt[d].known => k = "provider"
    /\ DeviceBecomes(d, [pvt[d] EXCEPT !.known = IF k \in @ THEN @ \ {k} ELSE @ \cup {k}])

(* All that ready4voice_call wants: connected, initialized, voice,          *)
(* registered and enabled; and one of them ends.                            *)
Ready(d)   == /\ ~pvt[d].ready /\ (Asked(d) \cap {"imei", "sim"}) \subseteq pvt[d].known
              /\ DeviceBecomes(d, [pvt[d] EXCEPT !.ready = TRUE])
Unready(d) == pvt[d].ready /\ DeviceBecomes(d, [pvt[d] EXCEPT !.ready = FALSE])

IncomingCall(d) ==
  \E from, to \in {"none", "setup", "active", "onhold"} :
    /\ pvt[d].incoming = from /\ from # to
    /\ from = "none" => pvt[d].ready /\ to = "setup"
    /\ to = "setup" => from = "none"
    /\ DeviceBecomes(d, [pvt[d] EXCEPT !.incoming = to])

(* disconnect_dongle *)
Disconnect(d) ==
  /\ lock[d] = NoCaller
  /\ pvt' = [pvt EXCEPT ![d] = [ready |-> FALSE, known |-> {}, incoming |-> "none"]]
  /\ call' = [c \in Callers |-> IF call[c].dev = d THEN NoCall ELSE call[c]]
  /\ UNCHANGED << lock, marks, find >>
  /\ History(passed)

Caller(c) ==
  \/ Request(c) \/ First(c) \/ FirstEnds(c) \/ Collect(c) \/ CollectEnds(c)
  \/ Seek(c) \/ SeekEnds(c) \/ Refuse(c) \/ NewChannel(c)
  \/ ChannelCall(c) \/ Dialing(c) \/ Answered(c) \/ Held(c) \/ Resumed(c) \/ Ended(c)

Device(d) ==
  \/ Learn(d) \/ Ready(d)
  \/ d \in Unsteady /\ (Unready(d) \/ IncomingCall(d) \/ Disconnect(d))

Next == (\E c \in Callers : Caller(c)) \/ (\E d \in Devices : Device(d))

Spec == Init /\ [][Next]_vars

-----------------------------------------------------------------------------
(* A device that was given to a caller is given to no other until that call *)
(* is set up or gone, however the searches meet: at most one call on a       *)
(* device is not dialed or dialing.                                         *)
OneDialing ==
  \A c, e \in Callers :
    /\ call[c].state \in {"init", "dialing"} /\ call[e].state \in {"init", "dialing"}
    /\ call[c].dev = call[e].dev
    => c = e

(* A caller is refused only when every device it may mean was, at some time  *)
(* of its search, no member or not to be dialed; and is told that there is   *)
(* no such device only when none was a member all the time.                  *)
RefusedRightly ==
  \A c \in Callers :
    find[c].at = "refused" => free[c] = {} /\ (find[c].exists \/ member[c] = {})

(* Nobody's turn is left out: although searches overlap and nobody holds    *)
(* round_robin_mtx, a free device is passed by few searches before it is    *)
(* found.  Each caller's search may be under way when it becomes free.       *)
EveryonesTurn == \A d \in Devices : passed[d] <= MaxPassed
=============================================================================
