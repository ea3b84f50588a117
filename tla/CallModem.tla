----------------------------- MODULE CallModem -----------------------------
(***************************************************************************)
(* The calls a modem carries and what the call commands do to them, as the   *)
(* driver relies on it (external to the driver).  An operator takes the      *)
(* calls by their index and gives the calls after it with the results the    *)
(* modem writes, in their order.                                             *)
(***************************************************************************)
EXTENDS Integers, FiniteSets, SequencesExt

CONSTANT ModemCalls    \* how many calls the modem can carry

ASSUME ModemAssumption == ModemCalls \in Nat \ {0}

ModemIdx  == 1..ModemCalls
Dir       == { "out", "in" }
ModemCall == [dir : Dir,
              state : {"active", "held", "dialing", "alerting", "incoming", "waiting"}]
NoCall    == << >>
CallTable == [ModemIdx -> ModemCall \cup {NoCall}]

Ok    == [res |-> "OK"]
Error == [res |-> "ERROR"]
About(event, i) == [res |-> event, idx |-> i]

CallResult ==
  [res : {"OK", "ERROR", "RING", "CCWA"}] \cup [res : {"ORIG", "CONN", "CEND"}, idx : ModemIdx]
  \cup [res : {"CLCC"}, list : CallTable]

LiveCalls(m) == { i \in ModemIdx : m[i] # NoCall }
CallsIn(m, states) == { i \in LiveCalls(m) : m[i].state \in states }
FreeIdx(m) == ModemIdx \ LiveCalls(m)

Outcome(m, out) == [calls |-> m, out |-> out]
Refused(m) == Outcome(m, << Error >>)

Move(m, from, to) ==
  [i \in ModemIdx |-> IF i \in from THEN [m[i] EXCEPT !.state = to] ELSE m[i]]

(* Calls end, each with its ^CEND; a call that waited for them then rings.   *)
Ends(m, ended) ==
  LET left == [i \in ModemIdx |-> IF i \in ended THEN NoCall ELSE m[i]]
  IN  IF CallsIn(left, {"active", "held"}) = {}
      THEN Move(left, CallsIn(left, {"waiting"}), "incoming") ELSE left

Cends(ended) ==
  LET inTurn == SetToSeq(ended)
  IN  [n \in 1..Len(inTurn) |-> About("CEND", inTurn[n])]

(* ATD: possible when no call is active or being set up; OK, then ^ORIG.     *)
Dial(m) ==
  IF FreeIdx(m) = {} \/ LiveCalls(m) # CallsIn(m, {"held"}) THEN Refused(m)
  ELSE LET i == Min(FreeIdx(m))
       IN  Outcome([m EXCEPT ![i] = [dir |-> "out", state |-> "dialing"]],
                   << Ok, About("ORIG", i) >>)

(* ATA: ^CONN comes before OK.  *)
Answer(m) ==
  LET rings == CallsIn(m, {"incoming"})
  IN  IF rings = {} THEN Refused(m)
      ELSE Outcome(Move(m, rings, "active"), << About("CONN", Min(rings)), Ok >>)

(* AT+CHUP: the calls that are neither held nor waiting, or else the held.    *)
HangUp(m) ==
  LET current == CallsIn(m, {"active", "dialing", "alerting", "incoming"})
      ended   == IF current = {} THEN CallsIn(m, {"held"}) ELSE current
  IN  Outcome(Ends(m, ended), << Ok >> \o Cends(ended))

(* AT+CHLD=1x  *)
HangUpOne(m, i) ==
  IF i \notin LiveCalls(m) THEN Refused(m)
  ELSE Outcome(Ends(m, {i}), << Ok >> \o Cends({i}))

(* Calls cannot be switched while one is being placed.  *)
SettingUp(m) == CallsIn(m, {"dialing", "alerting"}) # {}

(* AT+CHLD=2x: the other active calls are held; a waiting call connects.     *)
Activate(m, i) ==
  IF i \notin CallsIn(m, {"held", "waiting"}) \/ SettingUp(m) THEN Refused(m)
  ELSE Outcome(Move(Move(m, CallsIn(m, {"active"}), "held"), {i}, "active"),
               IF m[i].state = "waiting" THEN << About("CONN", i), Ok >> ELSE << Ok >>)

(* AT+CHLD=2: active and held calls change places.  *)
Flip(m) ==
  LET active == CallsIn(m, {"active"})
      held   == CallsIn(m, {"held"})
  IN  IF active \cup held = {} \/ SettingUp(m) THEN Refused(m)
      ELSE Outcome(Move(Move(m, active, "held"), held, "active"), << Ok >>)

(* AT+CHLD=3: the held calls join the active one.  *)
Join(m) ==
  IF CallsIn(m, {"active"}) = {} \/ CallsIn(m, {"held"}) = {} THEN Refused(m)
  ELSE Outcome(Move(m, CallsIn(m, {"held"}), "active"), << Ok >>)

(* AT+CLCC: the list, when there is a call to list, then OK.  *)
List(m) ==
  Outcome(m, IF LiveCalls(m) = {} THEN << Ok >>
             ELSE << [res |-> "CLCC", list |-> m], Ok >>)

(* A command on the modem; the index is the one its text names.  *)
Execute(cmd, i, m) ==
  CASE cmd = "D"       -> Dial(m)
    [] cmd = "A"       -> Answer(m)
    [] cmd = "CHUP"    -> HangUp(m)
    [] cmd = "CHLD_1x" -> HangUpOne(m, i)
    [] cmd = "CHLD_2x" -> Activate(m, i)
    [] cmd = "CHLD_2"  -> Flip(m)
    [] cmd = "CHLD_3"  -> Join(m)
    [] cmd = "CLCC"    -> List(m)
    [] OTHER           -> Outcome(m, << Ok >>)
=============================================================================
