------------------------------ MODULE AtQueue ------------------------------
(***************************************************************************)
(* The command queue of a device (at_queue.c) as a value: a record of the   *)
(* list of tasks and of the two counters kept beside it, with one operator  *)
(* per function of the source.  The modules that have a queue as a variable *)
(* apply these operators in the order their handlers call them.             *)
(*                                                                          *)
(* A task is its identity, the script it runs, the index of its current     *)
(* command (cindex, counted from 1 here) and whether that command has been  *)
(* written: the source marks a written command with length = 0.             *)
(***************************************************************************)
EXTENDS AtCommands, Integers, FiniteSets

CONSTANT TaskIds    \* identities of the tasks that can be queued at once

Task ==
  { t \in [id : TaskIds, kind : Kind, idx : Nat \ {0}, sent : BOOLEAN] :
      t.idx <= Len(Script(t.kind)) }

Queue == [tasks : Seq(Task), ntasks : Nat, ncmds : Int]

EmptyQueue == [tasks |-> << >>, ntasks |-> 0, ncmds |-> 0]

Queued(q) == { q.tasks[i].id : i \in 1..Len(q.tasks) }

NonEmpty(q) == q.tasks # << >>

(* at_queue_task_cmd and at_queue_head_cmd, for a queue that has a head. *)
CmdOf(t)   == Script(t.kind)[t.idx]
HeadCmd(q) == CmdOf(Head(q.tasks))

(* The head command is written, its answer outstanding. *)
HeadSent(q) == NonEmpty(q) /\ Head(q.tasks).sent

Remaining(t) == Len(Script(t.kind)) - t.idx + 1

(* Mutant: at_queue_remove forgets that cindex commands are counted off. *)
RemoveCountsWhole(q) ==
  [tasks  |-> Tail(q.tasks),
   ntasks |-> q.ntasks - 1,
   ncmds  |-> q.ncmds - Len(Script(Head(q.tasks).kind))]

(* at_queue_remove: the head task goes with the commands it has left. *)
AtQueueRemove(q) ==
  [tasks  |-> Tail(q.tasks),
   ntasks |-> q.ntasks - 1,
   ncmds  |-> q.ncmds - Remaining(Head(q.tasks))]

NewTask(id, kind) == [id |-> id, kind |-> kind, idx |-> 1, sent |-> FALSE]

(* Mutant: a priority task goes in front of the head. *)
AddInFront(q, id, kind) ==
  [tasks  |-> IF kind \in Prio THEN << NewTask(id, kind) >> \o q.tasks
              ELSE Append(q.tasks, NewTask(id, kind)),
   ntasks |-> q.ntasks + 1,
   ncmds  |-> q.ncmds + Len(Script(kind))]

(* at_queue_add: behind the head when prio, else at the tail. *)
AtQueueAdd(q, id, kind) ==
  LET t == NewTask(id, kind)
  IN  [tasks  |-> IF kind \in Prio /\ NonEmpty(q)
                  THEN << Head(q.tasks), t >> \o Tail(q.tasks)
                  ELSE Append(q.tasks, t),
       ntasks |-> q.ntasks + 1,
       ncmds  |-> q.ncmds + Len(Script(kind))]

(* The head task moved past its current command (cindex++, at_cmds--). *)
AtQueueNext(q) ==
  LET t == Head(q.tasks)
  IN  [tasks  |-> << [t EXCEPT !.idx = @ + 1, !.sent = FALSE] >> \o Tail(q.tasks),
       ntasks |-> q.ntasks,
       ncmds  |-> q.ncmds - 1]

(* Mutant: the result is not compared with the expected one. *)
RemoveCmdAnyResult(q, res) ==
  IF ~NonEmpty(q) THEN q
  ELSE IF Head(q.tasks).idx >= Len(Script(Head(q.tasks).kind))
       THEN AtQueueRemove(AtQueueNext(q))
       ELSE AtQueueNext(q)

(* at_queue_remove_cmd (and at_queue_handle_result): the head command is    *)
(* done with result res; a result it did not expect ends the whole task,    *)
(* unless the command ignores mismatches.                                   *)
AtQueueRemoveCmd(q, res) ==
  IF ~NonEmpty(q) THEN q
  ELSE LET t == Head(q.tasks)
       IN  IF \/ t.idx >= Len(Script(t.kind))
              \/ Expect(CmdOf(t)) # res /\ CmdOf(t) \notin Ignore
           THEN AtQueueRemove(AtQueueNext(q))
           ELSE AtQueueNext(q)

(* Mutant: a written command is written again. *)
MustWriteAlways(q) == NonEmpty(q)

(* at_queue_run has a command to write. *)
MustWrite(q) == NonEmpty(q) /\ ~Head(q.tasks).sent

(* at_queue_run: ok says whether the write succeeds.  A command that could  *)
(* not be written is removed with a result that no command expects.         *)
AtQueueRun(q, ok) ==
  IF ~MustWrite(q) THEN q
  ELSE IF ok THEN [q EXCEPT !.tasks[1].sent = TRUE]
  ELSE AtQueueRemoveCmd(q, "unwritten")

(* The value at_queue_run returns, as "failed".  *)
RunFails(q, ok) == MustWrite(q) /\ ~ok

(* The commands the queued tasks have left, each named by its task and its   *)
(* index, and their number.                                                  *)
CmdsOf(t) == {t.id} \X (t.idx .. Len(Script(t.kind)))

OpenCmds(tasks) == UNION { CmdsOf(tasks[i]) : i \in 1..Len(tasks) }

CmdsLeft(tasks) == Cardinality(OpenCmds(tasks))

(* at_queue_flush: at_queue_remove until the list is empty. *)
AtQueueFlush(q) ==
  [tasks  |-> << >>,
   ntasks |-> q.ntasks - Len(q.tasks),
   ncmds  |-> q.ncmds - CmdsLeft(q.tasks)]
=============================================================================
