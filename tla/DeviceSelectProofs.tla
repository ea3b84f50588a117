------------------------ MODULE DeviceSelectProofs ------------------------
(***************************************************************************)
(* Theorems about DeviceSelect, for any number of devices and callers.      *)
(***************************************************************************)
EXTENDS DeviceSelect, TLAPS

(* What a search knows at each of its places: the list of members is shorter *)
(* than the way through the list of devices, and the second pass stays in it.*)
SearchOK(f) ==
  /\ f.at = "collect" => /\ f.next >= 1 /\ Len(f.list) < f.next
                         /\ f.last = 0 \/ f.last < Len(f.list)
  /\ f.at = "seek" => /\ Len(f.list) <= N /\ f.left <= Len(f.list)
                      /\ Len(f.list) = 0 \/ f.next <= Len(f.list)
  /\ f.at = "first" => f.next >= 1

Setup == {"init", "dialing"}

(* A device that was found stays locked, and nobody has a call there that    *)
(* is not set up.                                                           *)
FoundIsFree(c) ==
  find[c].at = "found" =>
    /\ find[c].got \in Devices /\ lock[find[c].got] = c
    /\ \A e \in Callers : call[e].dev = find[c].got => call[e].state \notin Setup

IInv ==
  /\ TypeOK
  /\ \A c \in Callers : SearchOK(find[c])
  /\ \A c \in Callers : FoundIsFree(c)
  /\ OneDialing

-----------------------------------------------------------------------------
LEMMA SizeTypes == N \in Nat
  BY SelectAssumption

(* The history stays what it is: sets of devices and numbers. *)
LEMMA HistoryTypes ==
  ASSUME TypeOK, NEW count \in [Devices -> Nat], History(count)
  PROVE  /\ free' \in [Callers -> SUBSET Devices]
         /\ member' \in [Callers -> SUBSET Devices]
         /\ passed' \in [Devices -> Nat]
  <1>1. \A c \in Callers : Begun(c, free[c]) \subseteq Devices /\ Begun(c, member[c]) \subseteq Devices
    BY DEF TypeOK, Begun
  <1>2. free' \in [Callers -> SUBSET Devices]
    BY <1>1 DEF History
  <1>3. member' \in [Callers -> SUBSET Devices]
    BY <1>1 DEF History
  <1>4. passed' \in [Devices -> Nat]
    BY DEF History
  <1> QED  BY <1>2, <1>3, <1>4

LEMMA PassedByTypes ==
  ASSUME TypeOK, NEW c \in Callers, NEW d \in Devices
  PROVE  PassedBy(c, d) \in [Devices -> Nat]
  <1>1. \A e \in Devices : passed[e] \in Nat
    BY DEF TypeOK
  <1> QED  BY <1>1 DEF PassedBy

LEMMA IdleTypes == Idle \in Find /\ SearchOK(Idle) /\ Idle.at = "idle"
  <1>1. (CHOOSE r \in Resources : TRUE) \in Resources
    BY SelectAssumption
  <1>2. << >> \in Seq(Devices)
    OBVIOUS
  <1> QED  BY <1>1, <1>2, SelectAssumption DEF Idle, Find, SearchOK, NoDev

LEMMA InitHolds == Init => IInv
  <1> SUFFICES ASSUME Init PROVE IInv
    OBVIOUS
  <1>1. TypeOK
    BY IdleTypes DEF Init, TypeOK, Pvt, Call, NoCall, CallState, NoDev
  <1>2. \A c \in Callers : SearchOK(find[c]) /\ FoundIsFree(c)
    BY IdleTypes DEF Init, FoundIsFree
  <1>3. OneDialing
    BY DEF Init, OneDialing, NoCall
  <1> QED  BY <1>1, <1>2, <1>3 DEF IInv

-----------------------------------------------------------------------------
(* A caller's own step in the search: it has no device yet, its new place    *)
(* is in order, and the locks, if it has not found one, are the old ones.    *)
LEMMA SearchStep ==
  ASSUME IInv, NEW c \in Callers, NEW f \in Find, NEW count \in [Devices -> Nat],
         find[c].at # "found",
         find' = [find EXCEPT ![c] = f], f.at # "found", SearchOK(f),
         marks' \in [RoundRobin -> SUBSET Devices],
         UNCHANGED << pvt, lock, call >>, History(count)
  PROVE  IInv'
  <1>1. TypeOK'
    BY HistoryTypes DEF IInv, TypeOK
  <1>2. \A e \in Callers : SearchOK(find'[e])
    BY DEF IInv, TypeOK
  <1>3. ASSUME NEW e \in Callers PROVE FoundIsFree(e)'
    <2>1. CASE e = c
      BY <2>1 DEF FoundIsFree, IInv, TypeOK
    <2>2. CASE e # c
      BY <2>2 DEF FoundIsFree, IInv, TypeOK
    <2> QED  BY <2>1, <2>2
  <1>4. OneDialing'
    BY DEF IInv, OneDialing
  <1> QED  BY <1>1, <1>2, <1>3, <1>4 DEF IInv

(* A device is found: it was not locked, and can be dialed. *)
LEMMA TakeStep ==
  ASSUME IInv, NEW c \in Callers, NEW d \in Devices, NEW count \in [Devices -> Nat],
         find[c].at # "found", lock[d] = NoCaller, CanDial(c, d), Take(c, d),
         marks' \in [RoundRobin -> SUBSET Devices],
         UNCHANGED << pvt, call >>, History(count)
  PROVE  IInv'
  <1> DEFINE f == [Idle EXCEPT !.at = "found", !.got = d, !.hold = find[c].hold]
  <1>1. f \in Find /\ SearchOK(f) /\ f.at = "found" /\ f.got = d
    BY IdleTypes DEF Find, SearchOK, IInv, TypeOK, Idle
  <1>2. find' = [find EXCEPT ![c] = f] /\ lock' = [lock EXCEPT ![d] = c]
    BY DEF Take, Becomes
  <1> HIDE DEF f
  <1>3. TypeOK'
    BY <1>1, <1>2, HistoryTypes DEF IInv, TypeOK
  <1>4. \A e \in Callers : SearchOK(find'[e])
    BY <1>1, <1>2 DEF IInv, TypeOK
  <1>5. \A e \in Callers : call[e].dev = d => call[e].state \notin Setup
    BY DEF CanDial, CanDialIn, DialPossible, States, Setup
  <1>6. ASSUME NEW e \in Callers PROVE FoundIsFree(e)'
    <2>1. CASE e = c
      BY <1>1, <1>2, <1>5, <2>1 DEF FoundIsFree, IInv, TypeOK
    <2>2. CASE e # c
      <3>1. find'[e] = find[e]
        BY <1>2, <2>2 DEF IInv, TypeOK
      <3>2. find[e].at = "found" => find[e].got # d
        BY SelectAssumption DEF IInv, FoundIsFree
      <3> QED  BY <1>2, <3>1, <3>2 DEF FoundIsFree, IInv, TypeOK
    <2> QED  BY <2>1, <2>2
  <1>7. OneDialing'
    BY DEF IInv, OneDialing
  <1> QED  BY <1>3, <1>4, <1>6, <1>7 DEF IInv

(* What happens to the calls of a device whose lock nobody has: no call is   *)
(* set up that was not.                                                     *)
LEMMA CallStep ==
  ASSUME IInv, NEW count \in [Devices -> Nat],
         pvt' \in [Devices -> Pvt],
         call' \in [Callers -> Call],
         \A c \in Callers : call'[c].state = "none" <=> call'[c].dev = NoDev,
         \A c \in Callers : call'[c].state \in Setup =>
                             call[c].state \in Setup /\ call'[c].dev = call[c].dev,
         UNCHANGED << lock, marks, find >>, History(count)
  PROVE  IInv'
  <1>1. TypeOK'
    BY HistoryTypes DEF IInv, TypeOK
  <1>2. \A e \in Callers : SearchOK(find'[e])
    BY DEF IInv
  <1>3. \A e \in Callers : FoundIsFree(e)'
    BY DEF IInv, FoundIsFree
  <1>4. OneDialing'
    BY DEF IInv, OneDialing, Setup
  <1> QED  BY <1>1, <1>2, <1>3, <1>4 DEF IInv

-----------------------------------------------------------------------------
LEMMA RequestHolds == ASSUME IInv, NEW c \in Callers, Request(c) PROVE IInv'
  <1>1. PICK r \in Resources, hold \in BOOLEAN : Request(c)!(r, hold)
    BY DEF Becomes, Request
  <1> DEFINE f == [Idle EXCEPT !.at = IF Kind[r] \in RoundRobin THEN "collect" ELSE "first",
                               !.res = r, !.hold = hold]
  <1>2. Idle.next = 1 /\ Idle.list = << >> /\ Idle.last = 0 /\ Idle.left = 0
    BY DEF Idle
  <1>3. f \in Find /\ SearchOK(f) /\ f.at # "found"
    <2>1. (IF Kind[r] \in RoundRobin THEN "collect" ELSE "first") \in {"collect", "first"}
      OBVIOUS
    <2>2. f \in Find /\ f.at \in {"collect", "first"}
      BY <2>1, IdleTypes DEF Find
    <2>3. f.next = 1 /\ f.list = << >> /\ f.last = 0
      BY <1>2, IdleTypes DEF Find
    <2> QED  BY <2>2, <2>3 DEF SearchOK
  <1>4. find' = [find EXCEPT ![c] = f]
    BY <1>1 DEF Becomes
  <1> HIDE DEF f
  <1>5. find[c].at # "found" /\ History(passed) /\ passed \in [Devices -> Nat]
    BY <1>1 DEF IInv, TypeOK
  <1>6. marks' \in [RoundRobin -> SUBSET Devices] /\ UNCHANGED << pvt, lock, call >>
    BY <1>1 DEF IInv, TypeOK
  <1> QED  BY <1>3, <1>4, <1>5, <1>6, SearchStep

LEMMA FirstHolds == ASSUME IInv, NEW c \in Callers, First(c) PROVE IInv'
  <1> DEFINE d == find[c].next
  <1>1. CASE Matches(find[c].res, d) /\ CanDial(c, d)
    BY <1>1, TakeStep DEF Becomes, First, IInv, TypeOK
  <1>2. CASE ~(Matches(find[c].res, d) /\ CanDial(c, d))
    <2> DEFINE f == [find[c] EXCEPT !.next = @ + 1, !.exists = @ \/ Matches(find[c].res, d)]
    <2>1. find[c] \in Find /\ d \in Devices /\ find[c].at = "first" /\ SearchOK(find[c])
      BY DEF Becomes, First, IInv, TypeOK
    <2>0. (find[c].exists \/ Matches(find[c].res, d)) \in BOOLEAN
      OBVIOUS
    <2>4. d + 1 \in 0..N + 1 /\ d + 1 >= 1
      BY <2>1, SizeTypes DEF Devices
    <2>5. f \in Find
      BY <2>0, <2>1, <2>4 DEF Find
    <2>6. f.at = "first" /\ f.next = d + 1
      BY <2>1 DEF Find
    <2>2. f \in Find /\ SearchOK(f) /\ f.at # "found"
      BY <2>4, <2>5, <2>6 DEF SearchOK
    <2>3. find' = [find EXCEPT ![c] = f]
      BY <1>2 DEF Becomes, First, Step
    <2> QED  BY <1>2, <2>1, <2>2, <2>3, SearchStep DEF Becomes, First, Step, IInv, TypeOK
  <1> QED  BY <1>1, <1>2

LEMMA EndsHold ==
  ASSUME IInv, NEW c \in Callers, FirstEnds(c) \/ SeekEnds(c) PROVE IInv'
  <1> DEFINE f == [find[c] EXCEPT !.at = "refused"]
  <1>1. f \in Find /\ SearchOK(f) /\ f.at # "found"
    BY DEF IInv, TypeOK, Find, SearchOK
  <1> QED  BY <1>1, SearchStep DEF Becomes, FirstEnds, SeekEnds, IInv, TypeOK

LEMMA CollectHolds == ASSUME IInv, NEW c \in Callers, Collect(c) PROVE IInv'
  <1> DEFINE d == find[c].next
             k == Kind[find[c].res]
             f == [find[c] EXCEPT !.list = Append(@, d), !.next = @ + 1,
                     !.last = IF d \in marks[k] THEN Len(find[c].list) ELSE @]
             g == [find[c] EXCEPT !.next = @ + 1]
  <1>1. find[c] \in Find /\ d \in Devices /\ find[c].at = "collect" /\ SearchOK(find[c])
    BY DEF Becomes, Collect, IInv, TypeOK
  <1>4. /\ d \in Nat /\ d + 1 \in 0..N + 1 /\ d + 1 >= 1
        /\ Len(find[c].list) \in 0..N /\ Len(find[c].list) < d
        /\ find[c].list \in Seq(Devices) /\ find[c].last \in 0..N
    BY <1>1, SizeTypes DEF Find, SearchOK, Devices
  <1>2. CASE Matches(find[c].res, d)
    <2> DEFINE l == IF d \in marks[k] THEN Len(find[c].list) ELSE find[c].last
               q == Append(find[c].list, d)
    <2>3. /\ l \in 0..N /\ (l = 0 \/ l < Len(find[c].list) + 1)
          /\ q \in Seq(Devices) /\ Len(q) = Len(find[c].list) + 1
      BY <1>1, <1>4 DEF SearchOK
    <2>4. f.at = "collect" /\ f.next = d + 1 /\ f.list = q /\ f.last = l
      BY <1>1 DEF Find
    <2> HIDE DEF l, q
    <2>5. f \in Find
      BY <1>1, <1>4, <2>3 DEF Find, l, q
    <2>6. f.next >= 1 /\ Len(f.list) < f.next /\ (f.last = 0 \/ f.last < Len(f.list))
      <3> HIDE DEF d, f
      <3> QED  BY <1>4, <2>3, <2>4
    <2>1. f \in Find /\ SearchOK(f) /\ f.at # "found"
      BY <2>4, <2>5, <2>6 DEF SearchOK
    <2>2. marks' \in [RoundRobin -> SUBSET Devices]
      BY <1>2 DEF Becomes, Collect, IInv, TypeOK
    <2> QED  BY <1>1, <1>2, <2>1, <2>2, SearchStep DEF Becomes, Collect, IInv, TypeOK
  <1>3. CASE ~Matches(find[c].res, d)
    <2>1. g \in Find /\ SearchOK(g) /\ g.at # "found"
      BY <1>1, SizeTypes DEF Find, SearchOK, Devices
    <2> QED  BY <1>1, <1>3, <2>1, SearchStep DEF Becomes, Collect, IInv, TypeOK
  <1> QED  BY <1>2, <1>3

LEMMA CollectEndsHolds == ASSUME IInv, NEW c \in Callers, CollectEnds(c) PROVE IInv'
  <1> DEFINE f == [find[c] EXCEPT !.at = "seek", !.next = Start(find[c].last), !.last = 0,
                                  !.left = Len(find[c].list)]
  <1>1. find[c] \in Find /\ find[c].at = "collect" /\ SearchOK(find[c])
    BY DEF Becomes, CollectEnds, IInv, TypeOK
  <1>3. /\ find[c].last + 1 \in 0..N + 1 /\ 0 \in 0..N /\ Len(find[c].list) \in 0..N
        /\ Len(find[c].list) = 0 \/ find[c].last + 1 <= Len(find[c].list)
    BY <1>1, SizeTypes DEF Find, SearchOK
  <1>4. f \in Find
    BY <1>1, <1>3 DEF Find, Start
  <1>5. /\ f.at = "seek" /\ f.list = find[c].list /\ f.left = Len(find[c].list)
        /\ f.next = find[c].last + 1
    BY <1>1 DEF Find, Start
  <1>2. f \in Find /\ SearchOK(f) /\ f.at # "found"
    BY <1>3, <1>4, <1>5 DEF SearchOK
  <1> QED  BY <1>1, <1>2, SearchStep DEF Becomes, CollectEnds, IInv, TypeOK

LEMMA SeekHolds == ASSUME IInv, NEW c \in Callers, Seek(c) PROVE IInv'
  <1> DEFINE j == Around(find[c].next, Len(find[c].list))
             d == find[c].list[j + 1]
             f == [find[c] EXCEPT !.exists = TRUE, !.next = j + 1, !.left = @ - 1]
  <1>1. find[c] \in Find /\ find[c].at = "seek" /\ find[c].left > 0 /\ SearchOK(find[c])
    BY DEF Becomes, Seek, IInv, TypeOK
  <1>2. j \in 0..Len(find[c].list) - 1 /\ d \in Devices
    BY <1>1 DEF Find, SearchOK, Around
  <1>3. CASE CanDial(c, d)
    <2>2. marks' = [marks EXCEPT ![Kind[find[c].res]] = @ \cup {d}]
      BY <1>3 DEF Seek, Marked
    <2>1. marks' \in [RoundRobin -> SUBSET Devices]
      BY <1>2, <2>2 DEF IInv, TypeOK
    <2> QED  BY <1>1, <1>2, <1>3, <2>1, TakeStep, PassedByTypes DEF Becomes, Seek, IInv
  <1>4. CASE ~CanDial(c, d)
    <2>2. /\ j + 1 \in 0..N + 1 /\ find[c].left - 1 \in 0..N /\ j + 1 <= Len(find[c].list)
          /\ find[c].left - 1 <= Len(find[c].list) /\ Len(find[c].list) <= N
      BY <1>1, <1>2, SizeTypes DEF Find, SearchOK
    <2>3. f \in Find
      BY <1>1, <2>2 DEF Find
    <2>4. f.at = "seek" /\ f.next = j + 1 /\ f.left = find[c].left - 1 /\ f.list = find[c].list
      BY <1>1 DEF Find
    <2>1. f \in Find /\ SearchOK(f) /\ f.at # "found"
      BY <2>2, <2>3, <2>4 DEF SearchOK
    <2> QED  BY <1>1, <1>4, <2>1, SearchStep DEF Becomes, Seek, IInv, TypeOK
  <1> QED  BY <1>3, <1>4

LEMMA RefuseHolds == ASSUME IInv, NEW c \in Callers, Refuse(c) PROVE IInv'
  BY IdleTypes, SearchStep DEF Becomes, Refuse, IInv, TypeOK

(* The one step that sets up a call: the device was found, hence locked, and *)
(* no other call is being set up there.                                     *)
LEMMA NewChannelHolds == ASSUME IInv, NEW c \in Callers, NewChannel(c) PROVE IInv'
  <1> DEFINE d == find[c].got
             new == [dev |-> d, state |-> "init", hold |-> find[c].hold, called |-> FALSE]
  <1>1. /\ find[c] \in Find /\ find[c].at = "found" /\ d \in Devices /\ lock[d] = c
        /\ \A e \in Callers : call[e].dev = d => call[e].state \notin Setup
    BY DEF Becomes, NewChannel, IInv, TypeOK, FoundIsFree
  <1>2. call' \in [Callers -> Call] /\ \A e \in Callers : call'[e].state = "none" <=> call'[e].dev = NoDev
    <2>1. new \in Call /\ new.state # "none" /\ new.dev # NoDev
      BY <1>1 DEF Call, CallState, Find, NoDev, Devices
    <2>2. call' = call \/ call' = [call EXCEPT ![c] = new]
      BY DEF NewChannel
    <2> HIDE DEF new
    <2> QED  BY <2>1, <2>2 DEF IInv, TypeOK
  <1>3. \A e \in Callers : e # c => call'[e] = call[e] /\ find'[e] = find[e]
    BY DEF Becomes, NewChannel, IInv, TypeOK
  <1>4. TypeOK'
    BY <1>1, <1>2, IdleTypes, HistoryTypes DEF Becomes, NewChannel, IInv, TypeOK
  <1>5. \A e \in Callers : SearchOK(find'[e])
    BY IdleTypes DEF Becomes, NewChannel, IInv, TypeOK
  <1>6. ASSUME NEW e \in Callers PROVE FoundIsFree(e)'
    <2>1. CASE e = c
      BY <2>1, IdleTypes DEF Becomes, NewChannel, FoundIsFree, IInv, TypeOK
    <2>2. CASE e # c
      <3> SUFFICES ASSUME find[e].at = "found" PROVE FoundIsFree(e)'
        BY <1>3, <2>2 DEF FoundIsFree
      <3>1. find[e].got \in Devices /\ lock[find[e].got] = e /\ find[e].got # d
        BY <1>1, <2>2 DEF IInv, FoundIsFree
      <3>2. lock'[find[e].got] = e
        BY <3>1, <1>1 DEF Becomes, NewChannel, IInv, TypeOK
      <3>3. \A x \in Callers : call'[x].dev = find[e].got => call'[x].state \notin Setup
        BY <3>1 DEF Becomes, NewChannel, IInv, TypeOK, FoundIsFree
      <3> QED  BY <1>3, <2>2, <3>1, <3>2, <3>3 DEF FoundIsFree
    <2> QED  BY <2>1, <2>2
  <1>7. OneDialing'
    <2>1. CASE call' = call
      BY <2>1 DEF IInv, OneDialing
    <2>2. CASE call' = [call EXCEPT ![c] = new]
      BY <1>1, <2>2 DEF IInv, OneDialing, TypeOK, Setup
    <2> QED  BY <2>1, <2>2 DEF Becomes, NewChannel
  <1> QED  BY <1>4, <1>5, <1>6, <1>7 DEF IInv

LEMMA SetsHolds ==
  ASSUME IInv, NEW c \in Callers, NEW s \in CallState \ {"none"}, Sets(c, s),
         s \in Setup => call[c].state \in Setup
  PROVE  IInv'
  <1>1. call' \in [Callers -> Call] /\ \A e \in Callers : call'[e].state = "none" <=> call'[e].dev = NoDev
    BY DEF Sets, IInv, TypeOK, Call
  <1>2. \A e \in Callers : call'[e].state \in Setup =>
                             call[e].state \in Setup /\ call'[e].dev = call[e].dev
    BY DEF Sets, IInv, TypeOK, Call
  <1> QED  BY <1>1, <1>2, CallStep DEF Sets, IInv, TypeOK

LEMMA ProgressHolds ==
  ASSUME IInv, NEW c \in Callers, Dialing(c) \/ Answered(c) \/ Held(c) \/ Resumed(c)
  PROVE  IInv'
  BY SetsHolds DEF Dialing, Answered, Held, Resumed, CallState, Setup

LEMMA ChannelCallHolds == ASSUME IInv, NEW c \in Callers, ChannelCall(c) PROVE IInv'
  <1>1. call' \in [Callers -> Call] /\ \A e \in Callers :
          call'[e].state = call[e].state /\ call'[e].dev = call[e].dev
    BY DEF ChannelCall, IInv, TypeOK, Call
  <1> QED  BY <1>1, CallStep DEF ChannelCall, IInv, TypeOK

LEMMA EndedHolds == ASSUME IInv, NEW c \in Callers, Ended(c) PROVE IInv'
  <1>1. call' \in [Callers -> Call]
    BY DEF Ended, IInv, TypeOK, Call, NoCall, CallState
  <1>2. \A e \in Callers : call'[e] = call[e] \/ call'[e] = NoCall
    BY DEF Ended, IInv, TypeOK
  <1> QED  BY <1>1, <1>2, CallStep DEF Ended, IInv, TypeOK, NoCall, Setup

LEMMA DeviceHolds == ASSUME IInv, NEW d \in Devices, Device(d) PROVE IInv'
  <1>1. ASSUME NEW p \in Pvt, DeviceBecomes(d, p) PROVE IInv'
    BY <1>1, CallStep DEF DeviceBecomes, IInv, TypeOK
  <1>2. pvt[d] \in Pvt
    BY DEF IInv, TypeOK
  <1>3. CASE Learn(d)
    BY <1>1, <1>2, <1>3 DEF Learn, Pvt, Asked
  <1>4. CASE Ready(d) \/ Unready(d) \/ IncomingCall(d)
    BY <1>1, <1>2, <1>4 DEF Ready, Unready, IncomingCall, Pvt
  <1>5. CASE Disconnect(d)
    <2>1. pvt' \in [Devices -> Pvt]
      BY <1>5 DEF Disconnect, IInv, TypeOK, Pvt
    <2>2. call' \in [Callers -> Call] /\ \A e \in Callers : call'[e] = call[e] \/ call'[e] = NoCall
      BY <1>5 DEF Disconnect, IInv, TypeOK, Call, NoCall, CallState
    <2> QED  BY <1>5, <2>1, <2>2, CallStep DEF Disconnect, IInv, TypeOK, NoCall, Setup
  <1> QED  BY <1>3, <1>4, <1>5 DEF Device

(* The invariant of the search: whatever the number of devices and callers,  *)
(* and however their searches meet.                                         *)
THEOREM SearchInvariant == Spec => []IInv
  <1>1. IInv /\ [Next]_vars => IInv'
    <2> SUFFICES ASSUME IInv, [Next]_vars PROVE IInv'
      OBVIOUS
    <2>1. ASSUME NEW c \in Callers, Caller(c) PROVE IInv'
      BY <2>1, RequestHolds, FirstHolds, EndsHold, CollectHolds, CollectEndsHolds, SeekHolds,
         RefuseHolds, NewChannelHolds, ChannelCallHolds, ProgressHolds, EndedHolds DEF Caller
    <2>2. ASSUME NEW d \in Devices, Device(d) PROVE IInv'
      BY <2>2, DeviceHolds
    <2>3. CASE UNCHANGED vars
      BY <2>3 DEF vars, IInv, TypeOK, FoundIsFree, OneDialing
    <2> QED  BY <2>1, <2>2, <2>3 DEF Next
  <1> QED  BY InitHolds, <1>1, PTL DEF Spec

(* A device that was given to a caller is given to nobody else before that   *)
(* call is set up or gone.                                                  *)
THEOREM OneCallerDials == Spec => []OneDialing
  BY SearchInvariant, PTL DEF IInv

THEOREM SearchTypes == Spec => []TypeOK
  BY SearchInvariant, PTL DEF IInv

-----------------------------------------------------------------------------
(* RefusedRightly.  A device that is free for a search, or a member, is      *)
(* still to be visited: in the second pass, on the rest of the round.        *)
OnTheWay(f, d) ==
  \/ f.at = "first" /\ d >= f.next
  \/ f.at = "collect" /\ (d >= f.next \/ \E i \in 1..Len(f.list) : f.list[i] = d)
  \/ f.at = "seek" /\ \E i \in 1..Len(f.list) :
       /\ f.list[i] = d
       /\ (f.next < i /\ i <= f.next + f.left) \/ i <= f.next + f.left - Len(f.list)

NothingMissed(c) ==
  /\ \A d \in free[c] : OnTheWay(find[c], d)
  /\ ~find[c].exists => \A d \in member[c] : OnTheWay(find[c], d)
  /\ find[c].at = "seek" /\ ~find[c].exists => find[c].left = Len(find[c].list)

(* What the history becomes: what is no longer free, or no search any more, *)
(* is gone, and nothing is added to a search that goes on.                  *)
LEMMA HistoryShrinks ==
  ASSUME NEW count, History(count), NEW c \in Callers
  PROVE  /\ ~Searches(c) => free'[c] = {} /\ member'[c] = {}
         /\ find[c].at # "idle" => free'[c] \subseteq free[c] /\ member'[c] \subseteq member[c]
         /\ \A d \in free'[c] : CanDialIn(pvt', call', c, d, find'[c].hold)
         /\ \A d \in free'[c] : MatchesIn(pvt', find'[c].res, d)
         /\ \A d \in member'[c] : MatchesIn(pvt', find'[c].res, d)
         /\ find[c].at = "idle" => free'[c] \subseteq Devices /\ member'[c] \subseteq Devices
  BY DEF History, Begun

(* Steps of others leave a search complete. *)
LEMMA OthersMissNothing ==
  ASSUME NEW count, History(count), NEW c \in Callers, NothingMissed(c), find'[c] = find[c]
  PROVE  NothingMissed(c)'
  <1>1. CASE find[c].at = "idle"
    BY <1>1, HistoryShrinks DEF NothingMissed, Searches
  <1>2. CASE find[c].at # "idle"
    BY <1>2, HistoryShrinks DEF NothingMissed, OnTheWay
  <1> QED  BY <1>1, <1>2

(* A search that is over, or found what it wanted, has nothing to miss. *)
LEMMA OverMissesNothing ==
  ASSUME NEW count, History(count), NEW c \in Callers, ~Searches(c)
  PROVE  NothingMissed(c)'
  BY HistoryShrinks DEF NothingMissed, Searches

LEMMA BecomesThat ==
  ASSUME IInv, NEW c \in Callers, NEW f, Becomes(c, f)
  PROVE  find'[c] = f /\ \A e \in Callers : e # c => find'[e] = find[e]
  BY DEF Becomes, IInv, TypeOK

LEMMA FirstMissesNothing ==
  ASSUME IInv, NEW c \in Callers, NothingMissed(c), First(c)
  PROVE  NothingMissed(c)'
  <1> DEFINE d == find[c].next
  <1>1. /\ History(passed) /\ find[c].at = "first" /\ d \in Nat /\ UNCHANGED << pvt, call >>
        /\ find[c] \in Find
    BY SizeTypes DEF First, IInv, TypeOK, Devices
  <1>2. CASE Matches(find[c].res, d) /\ CanDial(c, d)
    <2> DEFINE f == [Idle EXCEPT !.at = "found", !.got = d, !.hold = find[c].hold]
    <2>0. f.at = "found"
      BY IdleTypes DEF Find
    <2>1. find'[c].at = "found"
      <3> HIDE DEF f
      <3> QED  BY <1>2, <2>0, BecomesThat DEF First, Take, f
    <2> QED  BY <1>1, <2>1, OverMissesNothing DEF Searches
  <1>3. CASE ~(Matches(find[c].res, d) /\ CanDial(c, d))
    <2> DEFINE f == [find[c] EXCEPT !.next = @ + 1, !.exists = @ \/ Matches(find[c].res, d)]
    <2>0. find'[c] = f
      BY <1>3, BecomesThat DEF First, Step
    <2>8. f.exists = (find[c].exists \/ Matches(find[c].res, d))
      BY <1>1 DEF Find
    <2>9. f.at = find[c].at /\ f.next = d + 1 /\ f.res = find[c].res /\ f.hold = find[c].hold
      BY <1>1 DEF Find
    <2>1. /\ find'[c].at = "first" /\ find'[c].next = d + 1 /\ find'[c].res = find[c].res
          /\ find'[c].hold = find[c].hold
          /\ find'[c].exists = (find[c].exists \/ Matches(find[c].res, d))
      <3> HIDE DEF f
      <3> QED  BY <1>1, <2>0, <2>8, <2>9
    <2>2. free'[c] \subseteq free[c] /\ member'[c] \subseteq member[c]
      BY <1>1, HistoryShrinks
    <2>3. d \notin free'[c]
      BY <1>1, <1>3, <2>1, HistoryShrinks DEF CanDial, Matches
    <2>4. ~find'[c].exists => d \notin member'[c]
      BY <1>1, <2>1, HistoryShrinks DEF Matches
    <2>5. \A e \in free[c] \cup member[c] : e \in Nat
      BY SizeTypes DEF IInv, TypeOK, Devices
    <2>6. \A e \in free'[c] : OnTheWay(find'[c], e)
      BY <1>1, <2>1, <2>2, <2>3, <2>5 DEF NothingMissed, OnTheWay
    <2>7. ~find'[c].exists => \A e \in member'[c] : OnTheWay(find'[c], e)
      <3> SUFFICES ASSUME ~find'[c].exists, NEW e \in member'[c] PROVE OnTheWay(find'[c], e)
        OBVIOUS
      <3>1. ~find[c].exists
        BY <2>1
      <3>2. OnTheWay(find[c], e) /\ e \in Nat /\ e # d
        BY <2>2, <2>4, <2>5, <3>1 DEF NothingMissed
      <3> QED  BY <1>1, <2>1, <3>2 DEF OnTheWay
    <2> QED  BY <2>1, <2>6, <2>7 DEF NothingMissed
  <1> QED  BY <1>2, <1>3

LEMMA CollectMissesNothing ==
  ASSUME IInv, NEW c \in Callers, NothingMissed(c), Collect(c)
  PROVE  NothingMissed(c)'
  <1> DEFINE d == find[c].next
             q == find[c].list
  <1>1. /\ History(passed) /\ find[c].at = "collect" /\ d \in Devices /\ d \in Nat
        /\ UNCHANGED << pvt, call >> /\ find[c] \in Find /\ q \in Seq(Devices)
    BY SizeTypes DEF Collect, IInv, TypeOK, Devices, Find
  <1>2. free'[c] \subseteq free[c] /\ member'[c] \subseteq member[c]
    BY <1>1, HistoryShrinks
  <1>3. \A e \in free[c] \cup member[c] : e \in Nat
    BY SizeTypes DEF IInv, TypeOK, Devices
  <1>4. CASE Matches(find[c].res, d)
    <2> DEFINE f == [find[c] EXCEPT !.list = Append(@, d), !.next = @ + 1,
                       !.last = IF d \in marks[Kind[find[c].res]] THEN Len(find[c].list) ELSE @]
    <2>0. find'[c] = f
      BY <1>4, BecomesThat DEF Collect
    <2>9. /\ f.at = find[c].at /\ f.next = d + 1 /\ f.list = Append(q, d)
          /\ f.exists = find[c].exists
      BY <1>1 DEF Find
    <2>1. /\ find'[c].at = "collect" /\ find'[c].next = d + 1 /\ find'[c].list = Append(q, d)
          /\ find'[c].exists = find[c].exists
      <3> HIDE DEF f
      <3> QED  BY <1>1, <2>0, <2>9
    <2>2. /\ Len(Append(q, d)) = Len(q) + 1 /\ Len(q) \in Nat /\ Append(q, d)[Len(q) + 1] = d
          /\ \A i \in 1..Len(q) : Append(q, d)[i] = q[i]
      BY <1>1
    <2>3. \A e \in Nat : OnTheWay(find[c], e) => OnTheWay(find'[c], e)
      <3> SUFFICES ASSUME NEW e \in Nat, OnTheWay(find[c], e) PROVE OnTheWay(find'[c], e)
        OBVIOUS
      <3>1. CASE e >= d + 1
        BY <2>1, <3>1 DEF OnTheWay
      <3>2. CASE e = d
        <4>1. Len(q) + 1 \in 1..Len(find'[c].list) /\ find'[c].list[Len(q) + 1] = e
          BY <2>1, <2>2, <3>2
        <4> QED  BY <2>1, <4>1 DEF OnTheWay
      <3>3. CASE \E i \in 1..Len(q) : q[i] = e
        <4>1. PICK i \in 1..Len(q) : q[i] = e
          BY <3>3
        <4>2. i \in 1..Len(find'[c].list) /\ find'[c].list[i] = e
          BY <2>1, <2>2, <4>1
        <4> QED  BY <2>1, <4>2 DEF OnTheWay
      <3> QED  BY <1>1, <3>1, <3>2, <3>3 DEF OnTheWay
    <2> QED  BY <1>2, <1>3, <2>1, <2>3 DEF NothingMissed
  <1>5. CASE ~Matches(find[c].res, d)
    <2>1. /\ find'[c].at = "collect" /\ find'[c].next = d + 1 /\ find'[c].list = q
          /\ find'[c].exists = find[c].exists /\ find'[c].res = find[c].res
      BY <1>1, <1>5 DEF Collect, Becomes, IInv, TypeOK, Find
    <2>2. d \notin free'[c] /\ d \notin member'[c]
      BY <1>1, <1>5, <2>1, HistoryShrinks DEF Matches
    <2>3. \A e \in Nat \ {d} : OnTheWay(find[c], e) => OnTheWay(find'[c], e)
      BY <1>1, <2>1 DEF OnTheWay
    <2> QED  BY <1>2, <1>3, <2>1, <2>2, <2>3 DEF NothingMissed
  <1> QED  BY <1>4, <1>5

LEMMA CollectEndsMissesNothing ==
  ASSUME IInv, NEW c \in Callers, NothingMissed(c), CollectEnds(c)
  PROVE  NothingMissed(c)'
  <1> DEFINE q == find[c].list
             l == find[c].last
             f == [find[c] EXCEPT !.at = "seek", !.next = Start(l), !.last = 0, !.left = Len(q)]
  <1>1. /\ History(passed) /\ find[c].at = "collect" /\ find[c] \in Find /\ SearchOK(find[c])
        /\ find'[c] = f
    BY BecomesThat DEF CollectEnds, IInv, TypeOK
  <1>2. /\ f.at = "seek" /\ f.next = l + 1 /\ f.list = q /\ f.left = Len(q)
        /\ f.exists = find[c].exists
    BY <1>1 DEF Find, Start
  <1>3. /\ find'[c].at = "seek" /\ find'[c].next = l + 1 /\ find'[c].list = q
        /\ find'[c].left = Len(q) /\ find'[c].exists = find[c].exists
    <2> HIDE DEF f
    <2> QED  BY <1>1, <1>2
  <1>4. free'[c] \subseteq free[c] /\ member'[c] \subseteq member[c]
    BY <1>1, HistoryShrinks
  <1>5. \A e \in free[c] \cup member[c] : e \in Nat /\ e <= N
    BY SizeTypes DEF IInv, TypeOK, Devices
  <1>6. /\ find[c].next \in Nat /\ find[c].next > N /\ Len(q) \in Nat /\ q \in Seq(Devices)
        /\ l \in Nat /\ (l = 0 \/ l < Len(q))
    <2>1. /\ find[c].next \in 0..N + 1 /\ Len(q) \in Nat /\ l \in Nat /\ Len(q) < find[c].next
          /\ (l = 0 \/ l < Len(q)) /\ q \in Seq(Devices)
      BY <1>1, SizeTypes DEF Find, SearchOK
    <2>2. find[c].next > N \/ Len(q) = MaxList
      BY DEF CollectEnds
    <2> QED  BY <2>1, <2>2, SelectAssumption
  <1>7. ASSUME NEW e \in Nat, e <= N, OnTheWay(find[c], e) PROVE OnTheWay(find'[c], e)
    <2>3. ~(e >= find[c].next)
      BY <1>6, <1>7, SizeTypes
    <2>1. PICK i \in 1..Len(q) : q[i] = e
      BY <1>1, <1>7, <2>3 DEF OnTheWay
    <2>2. (l + 1 < i /\ i <= l + 1 + Len(q)) \/ i <= l + 1 + Len(q) - Len(q)
      BY <1>6, <2>1
    <2> QED  BY <1>3, <2>1, <2>2 DEF OnTheWay
  <1> QED  BY <1>3, <1>4, <1>5, <1>7 DEF NothingMissed

(* In the second pass a device that cannot be dialed is taken from the rest  *)
(* of the round; whoever is told that it exists was refused it.             *)
LEMMA SeekMissesNothing ==
  ASSUME IInv, NEW c \in Callers, NothingMissed(c), Seek(c)
  PROVE  NothingMissed(c)'
  <1> DEFINE q == find[c].list
             n == find[c].next
             j == Around(n, Len(q))
             d == q[j + 1]
  <1>1. /\ find[c].at = "seek" /\ find[c] \in Find /\ SearchOK(find[c]) /\ find[c].left > 0
        /\ UNCHANGED << pvt, call >>
    BY DEF Seek, IInv, TypeOK
  <1>2. CASE CanDial(c, d)
    <2> DEFINE f == [Idle EXCEPT !.at = "found", !.got = d, !.hold = find[c].hold]
    <2>0. f.at = "found"
      BY IdleTypes DEF Find
    <2>1. find'[c].at = "found"
      <3> HIDE DEF f
      <3> QED  BY <1>2, <2>0, BecomesThat DEF Seek, Take, f
    <2> QED  BY <1>2, <2>1, OverMissesNothing DEF Searches, Seek
  <1>3. CASE ~CanDial(c, d)
    <2> DEFINE f == [find[c] EXCEPT !.exists = TRUE, !.next = j + 1, !.left = @ - 1]
    <2>1. find'[c] = f /\ History(passed)
      BY <1>3, BecomesThat DEF Seek
    <2>2. /\ f.at = "seek" /\ f.next = j + 1 /\ f.list = q /\ f.left = find[c].left - 1
          /\ f.exists = TRUE /\ f.hold = find[c].hold
      BY <1>1 DEF Find
    <2>3. /\ find'[c].at = "seek" /\ find'[c].next = j + 1 /\ find'[c].list = q
          /\ find'[c].left = find[c].left - 1 /\ find'[c].exists = TRUE
          /\ find'[c].hold = find[c].hold
      <3> HIDE DEF f
      <3> QED  BY <2>1, <2>2
    <2>4. free'[c] \subseteq free[c] /\ d \notin free'[c]
      BY <1>1, <1>3, <2>1, <2>3, HistoryShrinks DEF CanDial
    <2>5. /\ n \in Nat /\ Len(q) \in Nat /\ find[c].left \in Nat /\ n <= Len(q)
          /\ find[c].left <= Len(q) /\ j = IF n = Len(q) THEN 0 ELSE n
      BY <1>1, SizeTypes DEF Find, SearchOK, Around
    <2>6. ASSUME NEW e \in free'[c] PROVE OnTheWay(find'[c], e)
      <3>1. OnTheWay(find[c], e)
        BY <2>4 DEF NothingMissed
      <3>2. PICK i \in 1..Len(q) :
              /\ q[i] = e
              /\ (n < i /\ i <= n + find[c].left) \/ i <= n + find[c].left - Len(q)
        BY <1>1, <3>1 DEF OnTheWay
      <3>3. i # j + 1
        BY <2>4, <3>2
      <3>4. (j + 1 < i /\ i <= j + 1 + (find[c].left - 1)) \/ i <= j + 1 + (find[c].left - 1) - Len(q)
        <4> HIDE DEF j, q, n
        <4> QED  BY <1>1, <2>5, <3>2, <3>3
      <3> QED  BY <2>3, <3>2, <3>4 DEF OnTheWay
    <2> QED  BY <2>3, <2>6 DEF NothingMissed
  <1> QED  BY <1>2, <1>3

LEMMA EndsMissNothing ==
  ASSUME IInv, NEW c \in Callers, NothingMissed(c), FirstEnds(c) \/ SeekEnds(c)
  PROVE  NothingMissed(c)'
  <1> DEFINE f == [find[c] EXCEPT !.at = "refused"]
  <1>1. /\ find[c] \in Find /\ SearchOK(find[c]) /\ find'[c] = f /\ History(passed)
        /\ find[c].at \in {"first", "seek"}
    BY BecomesThat DEF FirstEnds, SeekEnds, IInv, TypeOK
  <1>2. f.at = "refused" /\ f.exists = find[c].exists
    BY <1>1 DEF Find
  <1>3. find'[c].at = "refused" /\ find'[c].exists = find[c].exists
    <2> HIDE DEF f
    <2> QED  BY <1>1, <1>2
  <1>4. free'[c] \subseteq free[c] /\ member'[c] \subseteq member[c]
    BY <1>1, HistoryShrinks
  <1>5. free[c] \subseteq Devices /\ member[c] \subseteq Devices
    BY DEF IInv, TypeOK
  <1>6. ASSUME NEW e \in Devices PROVE ~OnTheWay(find[c], e)
    <2>1. CASE FirstEnds(c)
      BY <1>1, <2>1, SizeTypes DEF FirstEnds, OnTheWay, Devices, Find
    <2>2. CASE SeekEnds(c)
      <3>1. /\ find[c].at = "seek" /\ find[c].left = 0 /\ find[c].next \in Nat
            /\ Len(find[c].list) \in Nat
            /\ Len(find[c].list) = 0 \/ find[c].next <= Len(find[c].list)
        BY <1>1, <2>2, SizeTypes DEF SeekEnds, Find, SearchOK
      <3> SUFFICES ASSUME NEW i \in 1..Len(find[c].list),
                         \/ find[c].next < i /\ i <= find[c].next + find[c].left
                         \/ i <= find[c].next + find[c].left - Len(find[c].list)
                   PROVE  FALSE
        BY <3>1 DEF OnTheWay
      <3> QED  BY <3>1
    <2> QED  BY <2>1, <2>2
  <1> QED  BY <1>3, <1>4, <1>5, <1>6 DEF NothingMissed

(* A search that begins has everything before it. *)
LEMMA RequestMissesNothing ==
  ASSUME IInv, NEW c \in Callers, Request(c)
  PROVE  NothingMissed(c)'
  <1>1. PICK r \in Resources, hold \in BOOLEAN : Request(c)!(r, hold)
    BY DEF Request
  <1> DEFINE at == IF Kind[r] \in RoundRobin THEN "collect" ELSE "first"
             f  == [Idle EXCEPT !.at = at, !.res = r, !.hold = hold]
  <1>2. f.at = at /\ f.next = 1
    <2>1. Idle.next = 1
      BY DEF Idle
    <2> QED  BY <2>1, IdleTypes DEF Find
  <1>3. find'[c] = f /\ History(passed) /\ find[c].at = "idle"
    BY <1>1, BecomesThat
  <1>4. free'[c] \subseteq Devices /\ member'[c] \subseteq Devices
    BY <1>3, HistoryShrinks
  <1>5. find'[c].at \in {"first", "collect"} /\ find'[c].next = 1
    <2>1. at \in {"first", "collect"}
      OBVIOUS
    <2> HIDE DEF f, at
    <2> QED  BY <1>2, <1>3, <2>1
  <1>6. \A e \in Devices : OnTheWay(find'[c], e)
    BY <1>5, SizeTypes DEF OnTheWay, Devices
  <1> QED  BY <1>4, <1>5, <1>6 DEF NothingMissed

LEMMA CallerMissesNothing ==
  ASSUME IInv, NEW c \in Callers, NothingMissed(c), Caller(c)
  PROVE  NothingMissed(c)'
  <1>1. CASE Refuse(c) \/ NewChannel(c)
    <2>1. find'[c].at = "idle" /\ History(passed)
      BY <1>1, BecomesThat, IdleTypes DEF Refuse, NewChannel
    <2> QED  BY <2>1, OverMissesNothing DEF Searches
  <1>2. CASE ChannelCall(c) \/ Dialing(c) \/ Answered(c) \/ Held(c) \/ Resumed(c) \/ Ended(c)
    <2>1. find' = find /\ History(passed)
      BY <1>2 DEF ChannelCall, Dialing, Answered, Held, Resumed, Ended, Sets
    <2> QED  BY <2>1, OthersMissNothing
  <1> QED  BY <1>1, <1>2, RequestMissesNothing, FirstMissesNothing, CollectMissesNothing,
              CollectEndsMissesNothing, SeekMissesNothing, EndsMissNothing DEF Caller

(* A step of a caller leaves the places of the others. *)
LEMMA OthersStay ==
  ASSUME IInv, NEW c \in Callers, Caller(c), NEW e \in Callers, e # c
  PROVE  find'[e] = find[e] /\ \E count : History(count)
  <1>1. CASE Request(c)
    <2>1. PICK r \in Resources, hold \in BOOLEAN : Request(c)!(r, hold)
      BY <1>1 DEF Request
    <2> QED  BY <2>1, BecomesThat
  <1>2. CASE First(c) \/ FirstEnds(c)
    BY <1>2, BecomesThat DEF First, FirstEnds, Take, Step
  <1>3. CASE Collect(c) \/ CollectEnds(c)
    BY <1>3, BecomesThat DEF Collect, CollectEnds
  <1>4. CASE Seek(c) \/ SeekEnds(c)
    BY <1>4, BecomesThat DEF Seek, SeekEnds, Take
  <1>5. CASE Refuse(c) \/ NewChannel(c)
    BY <1>5, BecomesThat DEF Refuse, NewChannel
  <1>6. CASE ChannelCall(c) \/ Dialing(c) \/ Answered(c) \/ Held(c) \/ Resumed(c) \/ Ended(c)
    BY <1>6 DEF ChannelCall, Dialing, Answered, Held, Resumed, Ended, Sets
  <1> QED  BY <1>1, <1>2, <1>3, <1>4, <1>5, <1>6 DEF Caller

LEMMA DeviceStays ==
  ASSUME NEW d \in Devices, Device(d)
  PROVE  find' = find /\ History(passed)
  BY DEF Device, Learn, Ready, Unready, IncomingCall, Disconnect, DeviceBecomes

(* No caller is refused while a device that it may mean was free all the     *)
(* time of its search, whatever the other callers did to the marks.         *)
THEOREM RefusalsAreRight == Spec => []RefusedRightly
  <1> DEFINE AllSeen == \A c \in Callers : NothingMissed(c)
  <1>1. Init => AllSeen
    <2> SUFFICES ASSUME Init, NEW c \in Callers PROVE NothingMissed(c)
      OBVIOUS
    <2>1. free[c] = {} /\ member[c] = {} /\ find[c].at = "idle"
      BY IdleTypes DEF Init
    <2> QED  BY <2>1 DEF NothingMissed
  <1>2. IInv /\ AllSeen /\ [Next]_vars => AllSeen'
    <2> SUFFICES ASSUME IInv, AllSeen, [Next]_vars, NEW c \in Callers PROVE NothingMissed(c)'
      OBVIOUS
    <2>1. ASSUME NEW e \in Callers, Caller(e) PROVE NothingMissed(c)'
      <3>1. CASE e = c
        BY <2>1, <3>1, CallerMissesNothing
      <3>2. CASE e # c
        BY <2>1, <3>2, OthersStay, OthersMissNothing
      <3> QED  BY <3>1, <3>2
    <2>2. ASSUME NEW d \in Devices, Device(d) PROVE NothingMissed(c)'
      BY <2>2, DeviceStays, OthersMissNothing
    <2>3. CASE UNCHANGED vars
      BY <2>3 DEF vars, NothingMissed, OnTheWay
    <2> QED  BY <2>1, <2>2, <2>3 DEF Next
  <1>3. AllSeen => RefusedRightly
    BY DEF NothingMissed, OnTheWay, RefusedRightly
  <1> QED  BY SearchInvariant, <1>1, <1>2, <1>3, PTL DEF Spec
=============================================================================
