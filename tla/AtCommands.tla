----------------------------- MODULE AtCommands -----------------------------
(***************************************************************************)
(* The AT commands the driver sends, the response each one expects, what   *)
(* a failed answer does, and the scripts (tasks) at_command.c builds from   *)
(* them.  A command stands for its cmd id: its text, arguments and timeout  *)
(* length are left out.                                                     *)
(***************************************************************************)
EXTENDS Naturals, Sequences

CONSTANTS InitScript,     \* the initialization task; FullInit is the whole one
          NoVoiceScript   \* its part from "CMGF" on, for a device without voice

(* Initialization as at_enque_initialization(CMD_AT) lists it: the order    *)
(* of the static table.  "Z" is sent only with resetdongle, "U2DIAG" only   *)
(* with a u2diag setting.                                                   *)
FullInit ==
  << "AT", "Z", "E", "U2DIAG", "CGMI", "CGMM", "CGMR", "CMEE", "CGSN", "CIMI",
     "CPIN", "COPS_INIT", "CREG_INIT", "CREG", "CNUM", "CVOICE", "CSCA", "CSSN",
     "CMGF", "CSCS", "CPMS", "CNMI", "CSQ" >>

InitCmd == { FullInit[i] : i \in 1..Len(FullInit) }

(* "PING" is CMD_AT as at_enque_ping sends it: the same command with the    *)
(* ignore flag.                                                             *)
Cmd == InitCmd \cup
  { "PING", "COPS", "CCWA_SET", "CCWA_STATUS", "CMGS", "SMSTEXT", "CUSD", "DTMF",
    "CFUN", "CLIR", "D", "CLCC", "DDSETEX", "A", "CHLD_2x", "CHLD_2", "CHLD_3",
    "CHUP", "CHLD_1x", "CLVL", "CMGR", "CMGD", "USER" }

Result == { "OK", "ERROR", "CMGR", "PROMPT" }

(* at_queue_cmd_t.res *)
Expect(c) ==
  CASE c = "CMGS" -> "PROMPT"
    [] c = "CMGR" -> "CMGR"
    [] OTHER      -> "OK"

(* Mutant: a message is deleted though its reading gave none. *)
IgnoreCmgr == { "PING", "CREG_INIT", "CSCS", "CCWA_SET", "CCWA_STATUS", "CLIR", "D", "CMGR" }

(* ATQ_CMD_FLAG_IGNORE: a mismatching response does not end the task. *)
Ignore == { "PING", "CREG_INIT", "CSCS", "CCWA_SET", "CCWA_STATUS", "CLIR", "D" }

(* The commands whose ERROR answer means the device is lost.  *)
Critical ==
  { "AT", "PING", "Z", "E", "CLCC", "CGMI", "CGMM", "CGMR", "CMEE", "CGSN", "CIMI",
    "CPIN", "COPS_INIT", "CREG_INIT", "CNUM", "CSSN" }

(* Before the device is initialized an ERROR to one of these loses it too.  *)
SmsSetup == { "CMGF", "CPMS", "CNMI" }

Kind == { "init", "noVoice", "ping", "cops", "ccwa", "sms", "ussd", "dtmf", "reset",
          "dial", "dialPlain", "dialHeld", "dialPlainHeld",
          "answer", "answerWaiting", "activate", "flip", "hangup", "hangup1",
          "volsync", "clcc", "conference", "retrieve", "read", "user" }

(* The commands of each task.  "dial" sets CLIR first, "dialPlain" does not; *)
(* the forms with "Held" first put an active call on hold.                   *)
Scripts ==
  [ init          |-> InitScript,
    noVoice       |-> NoVoiceScript,
    ping          |-> << "PING" >>,
    cops          |-> << "COPS" >>,
    ccwa          |-> << "CCWA_SET", "CCWA_STATUS" >>,
    sms           |-> << "CMGS", "SMSTEXT" >>,
    ussd          |-> << "CUSD" >>,
    dtmf          |-> << "DTMF" >>,
    reset         |-> << "CFUN" >>,
    dial          |-> << "CLIR", "D", "CLCC", "DDSETEX" >>,
    dialPlain     |-> << "D", "CLCC", "DDSETEX" >>,
    dialHeld      |-> << "CHLD_2", "CLIR", "D", "CLCC", "DDSETEX" >>,
    dialPlainHeld |-> << "CHLD_2", "D", "CLCC", "DDSETEX" >>,
    answer        |-> << "A", "DDSETEX" >>,
    answerWaiting |-> << "CHLD_2x" >>,
    activate      |-> << "CHLD_2x", "CLCC" >>,
    flip          |-> << "CHLD_2", "CLCC" >>,
    hangup        |-> << "CHUP", "CLCC" >>,
    hangup1       |-> << "CHLD_1x", "CLCC" >>,
    volsync       |-> << "CLVL", "CLVL" >>,
    clcc          |-> << "CLCC" >>,
    conference    |-> << "CHLD_3", "CLCC" >>,
    retrieve      |-> << "CMGR", "CMGD" >>,
    read          |-> << "CMGR" >>,
    user          |-> << "USER" >> ]

Script(k) == Scripts[k]

(* The tasks inserted right behind the head (athead = 1) instead of at the  *)
(* tail.                                                                    *)
Prio == { "ping", "dtmf", "dial", "dialPlain", "dialHeld", "dialPlainHeld",
          "answer", "answerWaiting", "activate", "flip", "hangup", "hangup1",
          "volsync", "clcc", "conference", "user" }

ASSUME ScriptAssumption ==
  /\ InitScript    \in Seq(InitCmd) /\ InitScript # << >>
  /\ NoVoiceScript \in Seq(InitCmd) /\ NoVoiceScript # << >>
=============================================================================
