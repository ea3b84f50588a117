----------------------------- MODULE SerialLine -----------------------------
(***************************************************************************)
(* What the command queue promises the modem: tasks are served one after    *)
(* the other.  Of all open tasks at most one has begun; its commands go out  *)
(* in the order of its script, each after the answer of the one before, and  *)
(* no other task begins until it is over or the connection is.  An answer    *)
(* may be lost; then nothing is written any more on this connection.         *)
(***************************************************************************)
EXTENDS Naturals, Sequences

CONSTANT TaskIds

VARIABLES
  open,   \* the tasks accepted and not over
  cur,    \* the task that has begun, and where it is in its script
  line    \* "busy": a command is on it, its answer not yet handled; "lost": nor will be

vars == << open, cur, line >>

NoTask == << >>
Position == (TaskIds \X (Nat \ {0})) \cup {NoTask}

Init == open = {} /\ cur = NoTask /\ line = "free"

(* Tasks come, and tasks that have not begun may be given up.  *)
Hold ==
  /\ open' \in SUBSET TaskIds
  /\ UNCHANGED << cur, line >>
  /\ cur # NoTask => cur[1] \in open'

(* The begun task goes on: a later command, or this one, not yet written.  *)
GoOn ==
  /\ open' \in SUBSET TaskIds
  /\ cur # NoTask /\ cur' # NoTask
  /\ cur'[1] = cur[1] /\ cur[1] \in open'
  /\ \/ cur'[2] > cur[2] /\ line # "lost" /\ line' \in {"free", "busy"}
     \/ cur'[2] = cur[2] /\ line = "free" /\ line' = "busy"

(* The begun task, if there is one, is over; another may begin. *)
Switch ==
  /\ open' \in SUBSET TaskIds
  /\ cur # NoTask => cur[1] \notin open'
  /\ line # "lost"
  /\ \/ cur' = NoTask /\ line' = "free"
     \/ cur' # NoTask /\ cur'[1] \in open' /\ line' \in {"free", "busy"}

(* The answer of the command on the line is lost. *)
Lose ==
  /\ open' \in SUBSET TaskIds
  /\ cur # NoTask => cur[1] \in open'
  /\ UNCHANGED cur
  /\ line = "busy" /\ line' = "lost"

(* The connection is over. *)
Reset == open' = {} /\ cur' = NoTask /\ line' = "free"

Next == Hold \/ GoOn \/ Switch \/ Lose \/ Reset

Spec == Init /\ [][Next]_vars
=============================================================================
