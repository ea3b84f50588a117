------------------------------- MODULE AtRead ------------------------------
(***************************************************************************)
(* How the monitor thread cuts what the data port gives it into results:    *)
(* at_read puts whatever has arrived into the ring buffer, wherever that     *)
(* ends, and at_read_result_iov looks for the next result in it.             *)
(*                                                                          *)
(* A header such as "+CMGR:" is two characters here, the name and its colon, *)
(* so that a read can end inside it; "sp" is the space behind a ">", and "x" *)
(* stands for any other text.                                               *)
(***************************************************************************)
EXTENDS RingBuffer

CONSTANTS
  Messages,    \* the kinds of messages the modem sends
  MaxSent      \* bound: how many it sends

VARIABLES
  sent,        \* history: the messages the modem has sent
  line,        \* their bytes that were not read yet
  rb,          \* the ring buffer of do_monitor_phone
  readResult,  \* read_result: a leading "\r\n" was skipped
  pc,          \* where the monitor is: "wait", "search", "overflow" or "lost"
  results,     \* what it took for results
  astray       \* the search has met one of the two cases it gets wrong

readVars == << sent, line, rb, readResult, pc, results, astray >>

Chars == {"\r", "\n", "O", "K", ">", "sp", ":", "x", "+R", "+L", "+I", "+S"}

CrLf      == << "\r", "\n" >>
Cmgr      == << "+R", ":" >>         \* "+CMGR:"
Clcc      == << "+L", ":" >>         \* "+CLCC:", "+CNUM:", "ERROR+CNUM:"
Cssi      == << "+I", ":" >>         \* "+CSSI:"
Cssu      == << "+S", ":" >>         \* "+CSSU:", "+CMS ERROR:", "+CMGS:"
Prompt    == << ">", "sp" >>
EndOfList == << "\n" >> \o CrLf \o << "O", "K" >> \o CrLf

MessageKinds == {"ok", "line", "echo", "more", "prompt", "cssi", "cssu", "cmgr", "clcc", "clcc2"}

ASSUME AtReadAssumption ==
  /\ Char = Chars
  /\ Messages \subseteq MessageKinds
  /\ MaxSent \in Nat

-----------------------------------------------------------------------------
(* The modem.                                                                *)

(* What the modem writes for a message.  at_read.c has the forms: the prompt *)
(* and +CSSI end without a line end, +CSSU comes with its "\r\n" twice, the   *)
(* echo of a command and a further line of an answer have none in front.     *)
Bytes(m) ==
  CASE m = "ok"     -> CrLf \o << "O", "K" >> \o CrLf
    [] m = "line"   -> CrLf \o << "x" >> \o CrLf
    [] m = "echo"   -> << "x", "x", "\r" >>
    [] m = "more"   -> << "x" >> \o CrLf
    [] m = "prompt" -> CrLf \o Prompt
    [] m = "cssi"   -> CrLf \o Cssi \o << "x", "x" >>
    [] m = "cssu"   -> CrLf \o CrLf \o Cssu \o << "x" >> \o CrLf
    [] m = "cmgr"   -> CrLf \o Cmgr \o << "x" >> \o CrLf \o << "x", "\r" >> \o EndOfList
    [] m = "clcc"   -> CrLf \o Clcc \o << "x", "\r" >> \o EndOfList
    [] m = "clcc2"  -> CrLf \o Clcc \o << "x" >> \o CrLf \o Clcc \o << "x", "\r" >> \o EndOfList

Taken(res, text) == [res |-> res, text |-> text]

(* What at_response has to get for it: the "OK" behind the text of a +CMGR   *)
(* belongs to it, the one behind a +CLCC is a result of its own.             *)
ResultsOf(m) ==
  LET ok == Taken("ok", << "O", "K", "\r" >>)
  IN  CASE m = "ok"     -> << ok >>
        [] m = "line"   -> << Taken("unknown", << "x", "\r" >>) >>
        [] m \in {"echo", "more"} -> << >>
        [] m = "prompt" -> << Taken("prompt", Prompt) >>
        [] m = "cssi"   -> << Taken("cssi", Cssi \o << "x", "x" >>) >>
        [] m = "cssu"   -> << Taken("cssu", Cssu \o << "x", "\r" >>) >>
        [] m = "cmgr"   -> << Taken("cmgr", Cmgr \o << "x" >> \o CrLf \o << "x", "\r" >>) >>
        [] m = "clcc"   -> << Taken("clcc", Clcc \o << "x", "\r" >>), ok >>
        [] m = "clcc2"  -> << Taken("clcc", Clcc \o << "x" >> \o CrLf \o Clcc \o << "x", "\r" >>), ok >>

(* Each message is kept with all bytes written up to its end and with all   *)
(* results in them.                                                          *)
Wire == IF sent = << >> THEN << >> ELSE sent[Len(sent)].wire
Due  == IF sent = << >> THEN << >> ELSE sent[Len(sent)].due

ReadInit ==
  /\ sent = << >> /\ line = << >> /\ results = << >>
  /\ rb = RbInit /\ readResult = FALSE
  /\ pc = "wait" /\ astray = FALSE

ModemSends(m) ==
  /\ Len(sent) < MaxSent
  /\ sent' = Append(sent, [msg |-> m, wire |-> Wire \o Bytes(m), due |-> Due \o ResultsOf(m)])
  /\ line' = line \o Bytes(m)
  /\ UNCHANGED << rb, readResult, pc, results, astray >>

-----------------------------------------------------------------------------
(* at_wait and at_read.                                                      *)

(* The doubled header of a +CSSU is looked for as one string: with only part *)
(* of it read, its second "\r\n" looks like the end of an empty line.        *)
EndsInDoubled(n) ==
  LET text == Text(RbReadAll(rb)) \o SubSeq(line, 1, n)
  IN  /\ n < Len(line)
      /\ \/ line[n + 1] = "+S"
         \/ line[n + 1] = ":" /\ text[Len(text)] = "+S"

(* at_wait says there is something to read; n bytes of it arrive, none when  *)
(* readv was interrupted.                                                    *)
Read(n) ==
  /\ pc = "wait" /\ line # << >>
  /\ RbFree(rb) > 0 /\ n <= RbFree(rb) /\ n <= Len(line)
  /\ rb' = RbFill(rb, SubSeq(line, 1, n))
  /\ line' = SubSeq(line, n + 1, Len(line))
  /\ astray' = (astray \/ EndsInDoubled(n))
  /\ pc' = "search"
  /\ UNCHANGED << sent, readResult, results >>

(* No room is left: the monitor gives the device up.                         *)
ReadOverflow ==
  /\ pc = "wait" /\ line # << >>
  /\ RbFree(rb) = 0
  /\ pc' = "overflow"
  /\ UNCHANGED << sent, line, rb, readResult, results, astray >>

(* readv fails with an error of the port.                                    *)
ReadFails ==
  /\ pc = "wait" /\ line # << >>
  /\ RbFree(rb) > 0
  /\ pc' = "lost"
  /\ UNCHANGED << sent, line, rb, readResult, results, astray >>

-----------------------------------------------------------------------------
(* at_read_result_iov, one action for each level of its recursion, and       *)
(* at_read_result_classification for the result it returns.                  *)

Skip(n) ==
  /\ rb' = RbReadUpd(rb, n)
  /\ UNCHANGED << sent, line, pc, results, astray >>

SkipLeader ==
  /\ pc = "search" /\ ~readResult
  /\ RbStarts(rb, CrLf)
  /\ readResult' = TRUE
  /\ Skip(2)

(* Two bytes are there and they are not "\r\n".                              *)
NoLeader ==
  /\ pc = "search" /\ ~readResult
  /\ rb.used >= 2 /\ ~RbStarts(rb, CrLf)

SkipMultiline ==
  /\ NoLeader
  /\ RbStarts(rb, << "\n" >>)
  /\ UNCHANGED readResult
  /\ Skip(1)

(* Anything else is dropped up to the end of its line, or as far as it goes. *)
SkipGarbage ==
  /\ NoLeader
  /\ ~RbStarts(rb, << "\n" >>)
  /\ UNCHANGED readResult
  /\ LET iov == RbReadUntil(rb, << "\r" >>)
     IN  Skip(IF iov = << >> THEN rb.used ELSE Len(Text(iov)) + 1)

(* at_responses_list, as far as it is told apart here.                       *)
Class ==
  CASE RbStarts(rb, Cmgr)   -> "cmgr"
    [] RbStarts(rb, Clcc)   -> "clcc"
    [] RbStarts(rb, Cssi)   -> "cssi"
    [] RbStarts(rb, Cssu)   -> "cssu"
    [] RbStarts(rb, Prompt) -> "prompt"
    [] RbStarts(rb, << "O", "K", "\r" >>) -> "ok"
    [] OTHER                -> "unknown"

(* Mutant: the "OK" behind a +CMGR is left. *)
ConsumedNoOk(res, len) == IF res = "prompt" THEN 2 ELSE IF res = "cssi" THEN 4 ELSE len + 1

(* How far at_read_result_classification moves on from a result.             *)
Consumed(res, len) ==
  CASE res = "prompt" -> Len(Prompt)
    [] res = "cmgr"   -> len + Len(EndOfList)
    [] res = "cssi"   -> Len(Cssi) + 2
    [] OTHER          -> len + 1

Take(iov) ==
  /\ readResult' = FALSE
  /\ results' = Append(results, Taken(Class, Text(iov)))
  /\ rb' = RbReadUpd(rb, Consumed(Class, Len(Text(iov))))
  /\ UNCHANGED << sent, line, pc >>

Searching == pc = "search" /\ readResult

TakeCssi ==
  /\ Searching /\ RbStarts(rb, Cssi)
  /\ rb.used >= Len(Cssi) + 2
  /\ Take(RbReadN(rb, Len(Cssi) + 2))
  /\ UNCHANGED astray

SkipDoubled ==
  /\ Searching /\ RbStarts(rb, CrLf \o Cssu)
  /\ UNCHANGED readResult
  /\ Skip(2)

TakePrompt ==
  /\ Searching /\ RbStarts(rb, Prompt)
  /\ Take(RbReadN(rb, Len(Prompt)))
  /\ UNCHANGED astray

StartsList == RbStarts(rb, Cmgr) \/ RbStarts(rb, Clcc)

(* The end of a list that lies across the end of the buffer is not found.    *)
ListEndsAcross == Searching /\ StartsList /\ LiesAcross(rb, EndOfList)

TakeList ==
  /\ Searching /\ StartsList
  /\ LET iov == RbReadUntil(rb, EndOfList)
     IN  iov # << >> /\ Take(iov)
  /\ astray' = (astray \/ ListEndsAcross)

(* A line is everything up to "\r\n", with the "\r".                         *)
TakeLine ==
  /\ Searching
  /\ ~StartsList /\ ~RbStarts(rb, Prompt) /\ ~RbStarts(rb, Cssi) /\ ~RbStarts(rb, CrLf \o Cssu)
  /\ LET iov == RbReadUntil(rb, CrLf)
     IN  iov # << >> /\ Take(RbReadN(rb, Len(Text(iov)) + 1))
  /\ UNCHANGED astray

(* Mutant: the monitor waits after every result. *)
NoneYetEarly == rb.used < 2 \/ results # << >>

(* Nothing at all, not yet two bytes, or no end of the result that began.    *)
NoneYet ==
  \/ rb.used = 0
  \/ ~readResult /\ rb.used < 2
  \/ /\ readResult
     /\ IF RbStarts(rb, Cssi) THEN rb.used < Len(Cssi) + 2
        ELSE /\ ~RbStarts(rb, CrLf \o Cssu) /\ ~RbStarts(rb, Prompt)
             /\ RbReadUntil(rb, IF StartsList THEN EndOfList ELSE CrLf) = << >>

WaitForMore ==
  /\ pc = "search" /\ NoneYet
  /\ pc' = "wait"
  /\ astray' = (astray \/ ListEndsAcross)
  /\ UNCHANGED << sent, line, rb, readResult, results >>

-----------------------------------------------------------------------------
ReadNext ==
  \/ \E m \in Messages : ModemSends(m)
  \/ \E n \in 0..Size : Read(n)
  \/ ReadOverflow \/ ReadFails
  \/ SkipLeader \/ SkipMultiline \/ SkipGarbage \/ SkipDoubled
  \/ TakeCssi \/ TakePrompt \/ TakeList \/ TakeLine
  \/ WaitForMore

ReadSpec == ReadInit /\ [][ReadNext]_readVars

-----------------------------------------------------------------------------
IsAt(s, n, t) == SubSeq(t, n + 1, n + Len(s)) = s

(* The ring buffer neither loses nor doubles nor reorders a byte: what is in *)
(* it and what the port still has are the end of what the modem wrote.       *)
BytesInOrder ==
  LET rest == Text(RbReadAll(rb)) \o line
  IN  Len(rest) <= Len(Wire) /\ IsAt(rest, Len(Wire) - Len(rest), Wire)

(* The search in three parts takes nothing for mem that is none, and finds   *)
(* the first one, as a search in one text would; but for one of more than two *)
(* characters that lies across the end of the buffer, which ringbuffer.c:183  *)
(* compares wrongly.                                                         *)
SearchFindsFirst ==
  \A mem \in {CrLf, EndOfList, << "\r" >>} :
    LET text == Text(RbReadAll(rb))
        iov  == RbReadUntil(rb, mem)
    IN  /\ iov = << >> \/ Len(Text(iov)) \in Found(text, mem)
        /\ \/ Len(mem) > 2 /\ LiesAcross(rb, mem)
           \/ IF Found(text, mem) = {} THEN iov = << >>
              ELSE iov # << >> /\ Text(iov) = Before(text, mem)

(* However the bytes are spread over the reads, the monitor gets the results *)
(* the modem sent, each whole, in order and with its class, as long as no    *)
(* read ends inside a doubled header and no list ends across the end of the  *)
(* buffer.                                                                   *)
ResultsAsSent ==
  ~astray => /\ Len(results) <= Len(Due)
             /\ IsAt(results, 0, Due)

(* No complete result stays in the buffer: when the monitor waits and the    *)
(* port has nothing more, it has got every result; again as long as no read  *)
(* has ended inside a doubled header and no list across the end of the        *)
(* buffer, where one does stay.  A result that stayed would be seen as a      *)
(* command timed out.                                                        *)
NothingLeft ==
  pc = "wait" /\ line = << >> /\ ~astray => results = Due

=============================================================================
