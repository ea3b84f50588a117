# A TLA+ model of chan_dongle

chan_dongle is an Asterisk channel driver for Huawei GSM/UMTS dongles. A dongle
is driven by AT commands over one serial port and carries its voice over
another. This directory holds a model of the driver in TLA+, the configurations
that check it with TLC, and theorems about it that TLAPS has checked.

Line numbers refer to the files of the repository; `PROJECT.json` gives for
every definition of the model the lines it stands for.

## 1. The system

| Component | Source | State | Operations | Model |
|---|---|---|---|---|
| AT command queue | `at_queue.c`, `at_command.c` | `pvt->at_queue`: tasks with their commands, the counters `at_tasks`, `at_cmds` | insert (front or back), run, handle a result, remove, flush, time out | `AtCommands`, `AtQueue` |
| Monitor thread | `chan_dongle.c` do_monitor_phone, `at_response.c` | the results read and not yet handled, `initialized` | start, wait, read, handle each kind of response, ping, give up | `Monitor` |
| Calls of a device | `cpvt.c`, `channel.c`, `at_response.c` | the list of cpvts, their states, indices, flags; counts per state; `ring`, `dialing`, `cwaiting`, `last_dialed_cpvt` | request, call, answer, hang up, activate; `^ORIG`, `^CONN`, `^CEND`, RING, `+CCWA`, `+CLCC` | `Calls`, `CallModem` |
| Device lifecycle | `chan_dongle.c` do_discovery, pvt_start, pvt_stop, reload_config, discovery_stop | desired and current state, restart time, `must_remove`, `terminate_monitor`, `monitor_thread`; the device list | discovery's rounds, commands, reload, loss of a device, unload | `Lifecycle` |
| Audio of a channel | `channel.c` activate_call, channel_read, channel_write | which channel reads the audio tty, which are mixed | activate, disactivate, read, write, timing | the way to the device in `CallAudio`; the way from it left out |
| Mixing of outgoing audio | `mixbuffer.c`, `ringbuffer.c` | rings, attached streams | attach, detach, write, read | `MixBuffer`, `Mixer` |
| Channel threads and locks | `channel.c`, `chan_dongle.c` | channel lock, `pvt->lock`, list lock, `tech_pvt` | callbacks of channels against the monitor | not modelled, see section 6 |
| Device selection | `chan_dongle.c` find_device_by_resource, `channel.c` channel_request, channel_call | the marks of the three round robins | select by name, group, provider, IMSI, IMEI; call; end | `DeviceSelect` |
| Reading of responses | `at_read.c`, `ringbuffer.c`, `memmem.c` | the ring the monitor reads into | read what has come, find the next result, classify it | `RingBuffer`, `AtRead` |
| SMS and USSD | `at_response.c`, `at_command.c` | `incoming_sms`, `outgoing_sms`; the PDU of a queued task | receive, read, delete, send, report | `Sms`; the task and its prompt also in `Monitor`; USSD is a task of one command |
| PDUs and characters | `pdu.c`, `char_conv.c` | none | encode, decode | `Pdu` |
| Parsing of responses | `at_parse.c` | none | text to fields | not modelled: fields are data of the results |
| Port discovery | `pdiscovery.c`, `chan_dongle.c` opentty, closetty | a cache of the places' IMEI and IMSI, the lock files of the ttys | search for a device's ports, ask a dongle who it is, open, close | `Discovery`; sysfs and the programs in `tools/` left out |
| Configuration | `dc_config.c` | settings | parse | not modelled: a reload takes any settings in `Lifecycle` |
| Front ends | `cli.c`, `manager.c`, `app.c`, `helpers.c` | none | check arguments, call one operation | the operations are actions, the formatting is left out |
| Tests, build, packaging | `test/` and others | - | - | not part of the driver |

### How they interact

One discovery thread connects devices; each connected device has one monitor
thread. Channels call in from Asterisk's threads, commands from those of the
command line, the manager and the dialplan. All of them meet at `pvt->lock`,
which guards nearly everything of a device, and at the lock of the device list.

* A channel callback, a command or a handler of the monitor *inserts a task*
  into the queue under `pvt->lock`; if nothing is outstanding its first command
  is written at once.
* The monitor reads results without the lock, then takes it and hands one
  result to `at_response`, which moves the queue on (`at_queue_handle_result`)
  and changes the calls, then runs the queue.
* Calls end in `cpvt_free`, which asks `pvt_try_restate` whether a postponed
  command is due now and then wakes discovery.
* Discovery stops monitors by `terminate_monitor` and a join; for the join and
  for the lookup of ports it *releases the lock of the device in the middle of
  its work on it*.

### What is hard in it

* The line is a queue between threads and a modem that may be slow, dead, or
  talkative; whether an answer belongs to a command is known only by order.
* The driver's calls and the modem's calls are two views kept together by
  notifications and by lists (`+CLCC`) made at another time; indices are
  guessed until `^ORIG` tells them.
* Decisions are made when a task is queued and carried out when it is sent.
* State is read under a lock, the lock is let go, and the state is acted on.
* A result may arrive in any number of reads and lie anywhere in a ring; it is
  recognized by what of it is there.
* Flags (`must_remove`, `restart_time`, `ring`, `incoming_sms`) are written by
  several parts of the driver, each for its own purpose.
* Who is behind a port is found out by asking, remembered for a while, and not
  asked again when the port is opened for good; dongles may be exchanged in
  between.
* Searches of several callers overlap, and each changes what the others read.

`PROJECT.json` lists these as hazards, each at its line with the properties
about it, and with a note where the code does go wrong and the properties
except that case.

### What makes each part correct

* Queue and monitor: tasks are served one after the other; an answer is taken
  for the command it answers; the text of an SMS meets its prompt; counters
  agree with the list; the head of the queue moves on.
* Calls: counts agree with the list, nothing points to a freed cpvt; once the
  line is quiet each call has a channel that can end it, each cpvt a call, and
  both sides agree about its state.
* Lifecycle: one monitor per device, nothing freed under a monitor, no call cut
  without an order, no order lost, what is due is done.
* Audio, mixing: at most one call is the master and waits for the timer; the
  streams in the mix buffer are those of the activated calls; every voice is
  played once and in its order, from the moment it was attached.
* Selection: a device has one call that is being set up; nobody is refused while
  a device is free for him; every free device is reached in turn.
* SMS: what the sender is told is so; a message is read as it was written, passed
  on once, and deleted only then; the restart it holds back comes.
* PDUs: what one side packs the other unpacks, at every length.
* Discovery: a remembered identity is that of one dongle; a port that is open is
  not opened again; a device whose dongle is there is found.
* Reading: a result is never split, joined or lost, however it is spread over
  reads and round the ring's end.

The code does not have all of this: section 4 says where it fails, and section 3
what the properties therefore leave out.

## 2. Modules

    AtCommands      the commands, their expected responses, the scripts
      AtQueue       at_queue.c as operators on a queue value
        Monitor     one device's line: queue, monitor thread, modem  --> SerialLine
          MCMonitor, MonitorProofs (with AtQueueProofs; also about AtRead)
        Calls       cpvts, channels, call responses; with CallModem
          MCCalls, CallsProofs (with AtQueueProofs)
        Sms         sending, notices, reading, deleting; with Pdu
          MCSms, SmsProofs (with AtQueueProofs; also about Pdu)
    Pdu             pdu.c and char_conv.c as functions
    DeviceSelect    which device a call gets
      MCDeviceSelect, DeviceSelectProofs
    Discovery       the search for ports, its cache, the lock files
      MCDiscovery, DiscoveryProofs
    Lifecycle       discovery, monitors, commands, reload, unload
      MCLifecycle, LifecycleProofs
    RingBuffer      the read side of ringbuffer.c, as operators on one value
      AtRead        the bytes of the data port cut into results
        MCAtRead
    MixBuffer       mixbuffer.c and its ring as operators on one value
      CallAudio     master, streams and frames of a device's calls    --> Mixer
        MCCallAudio, CallAudioProofs

**AtCommands, AtQueue.** A command is its id; a task is its identity, its kind
(which names its script), `cindex` and whether the current command is written.
Each function of `at_queue.c` is an operator on the record of the list and its
two counters, so `Monitor`, `Calls` and `Sms` apply the same queue. The scripts list
what `at_command.c` sends, in order, with the flag
`ATQ_CMD_FLAG_IGNORE` and the priority.

**Monitor.** `mpc` is the place of the monitor thread: `start` (drain the tty,
queue initialization), `top` (take the lock, compute the wait), `wait`
(`at_wait`, no lock), `handle` (one result of the last read at a time, other
threads step in between), `timedout`. There is one action per handler:
`HandleOk`, `HandleError`, `HandlePrompt`, `HandleCmgr`, and `HandleUrc` for
everything nobody asked for. `Disconnect` is `disconnect_dongle`. `Insert` is
any other thread with a task. `Expire` lets the time of a written command run
out; `armed` says whether `at_wait` was given that command's time. Writes may
fail (`WriteFaults`) and ports may be lost (`PortFaults`). The modem is
external: it answers commands in order, with any final result, or not at all.

**SerialLine** is what the queue promises the modem: of the open tasks at most
one has begun, its commands go out in order and each after the answer of the one
before, and no other task begins until it is over. An answer may be lost
(`Lose`); from then on nothing is written until the connection is over.
`Monitor` implements it with `open` the queued tasks, `cur` the place of the head
task once it has begun, and `line` busy while a command is on it or its answer
unhandled, lost when that answer was dropped with what `clean_read_data` drops
(`SerialService == Line!Spec`).

**CallModem, Calls.** `CallModem` is the modem's side: its calls by index and
what each call command does to them and writes back. `Calls` has the device's
record (`pvt`: list of cpvts, counts, flags, queue, targets of tasks), the
results not yet read and the modem's calls. Every step is what one thread does
under `pvt->lock`: the channel callbacks, a handler with the queue run that
follows it, or a step of the modem and the network. `change_channel_state` and
`cpvt_free` are operators, and the handlers apply them in the order of the code;
`+CLCC` is handled line by line by a recursive function over the list, each line
with its own search of a cpvt. The sweep that follows the loop in the code is
never reached, because of the `return` at `at_response.c:1002`, and is left out. Writes succeed and answers come
in time in `Calls`; what happens when not is the subject of `Monitor`.

**Lifecycle.** `disc` is the place of the discovery thread: in a round's visits
(`loop`), in a join, in a lookup, before the sweep, asleep. `pvt[d]` holds the
fields of `struct pvt` that are read by more than one party; `threads` counts
the monitors that really run, which the code cannot know. `reload` is the pass
`reload_config` is in, `unload` how far `public_state_fini` is. `urgent` is
history: the last command of the connection was for now.

Where the discovery thread or a reload has not got the lock of a device,
commands, ends of calls and losses step in, at any moment. `raced` is history:
the devices that were given an order while discovery, in the middle of its work on
them, had let go of their lock (`LetGo`: in the join, in the lookup, or between
the mark of a device and the sweep). The code loses some of these orders, and three
properties name them by it. Two constants say what else may happen:
`ReloadOverlaps` (reloads during a round) and `MayUnload`.

**RingBuffer, AtRead.** What `Monitor` takes for granted, that reading yields
results: the bytes on the wire, the ring, and `at_read_result_iov` with one
action for each level of its recursion (`SkipLeader`, `SkipMultiline`,
`SkipGarbage`, `SkipDoubled`, then `TakeCssi`, `TakePrompt`, `TakeList`,
`TakeLine`, which include the classification that follows). `Read(n)` takes any
number of the bytes that are there. A header is two characters, its name and
its colon, and lengths that the code writes as numbers are those of the shorter
strings. What the modem writes (`Bytes`) is external and has the forms that
`at_read.c` is written for. `ResultsOf` says what results are in a message, and
is independent of the ring and of the reads: the properties compare the two.
`astray` is history: one of the two cases has come up in which the code is
wrong, a read that ends inside a doubled header or a list whose end lies across
the end of the ring.

**MixBuffer.** The ring and the streams are one record; each function of
`mixbuffer.c` and the two of `ringbuffer.c` it uses are operators on it. A slot
of the ring stands for a sample and holds the *set* of the sounds added up in
it, where a sound is a call and the place in its frame. Copying replaces the
set, adding unites, and what was read is marked `Old`, so that a voice added to
the wrong slot shows. The two `memmove`s of a write that goes round the end are
one function over the slots by their distance from the write position.

**CallAudio.** A call has the flags ACTIVATED and MASTER and what its channel's
thread waits for: `fd0` sound, `fd1` the timer. `Activate` is `activate_call`
with its test of the wrong flag; `Sounding`, `Holding`, `Released` and
`Following` are the ways through `change_channel_state`; `Hangup` is
`channel_hangup`, `Write` `channel_write`, `Timing` the timer's turn in
`channel_read`. Which states a call goes through is the modem's business
(`Follows`, external): `Calls` has it in detail and leaves the audio out,
`CallAudio` the other way round. A device that has a call has its audio port
and its timer.

**Mixer** is what the mixing promises, without a ring: a line of slots still to
be played; a voice adds its frame where it stopped, a frame that does not fit
costs everyone the oldest slots, and no more than it needs. `CallAudio`
implements it with `line` the contents of the ring, `on` the streams and `ahead`
their fill levels (`MixesVoices == Mixer!Spec`).

**DeviceSelect.** `find[c]` is a caller's place in `find_device_by_resource_ex`
with its locals: the pass over the list that takes the first match (`First`), the
pass that collects the members of a round robin and takes the mark away
(`Collect`), the pass over what was collected from behind the mark on (`Seek`),
which is also where the new mark is set. The list's lock is shared by all
searches, a device's lock is taken and let go device after device, and
`round_robin_mtx` is commented out in the code, so each of these steps is an
action and the searches interleave. What follows a find belongs to it:
`NewChannel` under the same lock, `ChannelCall` later with its own test. The
fields of the device that `can_dial` reads are data that `Device(d)` changes.
`free`, `member` and `passed` are history.

**Pdu.** Functions on sequences: septets into octets and back, UTF-16 code units
into octets, digits into swapped semi-octets, minutes into the relative validity,
and the two functions that put a PDU together and take it apart, `pdu_build` and
`pdu_parse` with its rejections. They have no state; `Sms` uses them for every
message, and the theorems are about all lengths.

**Sms.** The same queue once more, now with what its tasks are about (`arg`: a
message or a place of the store). `SendSms` inserts the task, `HandlePrompt`
writes the PDU, `HandleOk` and `HandleError` report; `+CMTI` sets `incoming` and
inserts the reading of the place, `HandleCmgr` clears it, parses, passes on and
deletes. Modem, store and network are external: the modem may refuse anything,
a place may be emptied by the user and filled again, the network returns own
messages to the device and brings foreign ones, of which one cannot be read. The
restart that waits for messages (`want`) is that of `Lifecycle`, seen from here;
`Lose` is `disconnect_dongle` with the flush of the queue.

**Discovery.** `disc` is the thread's place in a round with the
`pdiscovery_result` it fills: `Visit` a device, `Seek` the next place,
`CacheLookup`, `Open` the port with its lock file, `Ask`, `Connect`. A cache item has
what is known, whether asking failed, and the ticks until it is old. `lock` says
whose open tty the lock file of a port names; one that names none counts as no
file, as `lock_try` has it. `lock_create` writes the number its own file had, which is
that of the tty only if no other thread opens or closes a file in between: that it
is not is one of the faults. `Close` and `Unlink` are the two halves of `closetty`,
and anybody may take the port between them. `exposed` is history: the ports open
without the lock file of who has them open, by a wrong number or by an
`Unlink` that came late. Dongles are plugged in and out at any time.

## 3. Runs

| Run | Instance | Checks | Shows |
|---|---|---|---|
| `monitor_line` | an initialization of three commands, one of each way to fail; SMS, dial and user tasks; one unsolicited result per connection, which may queue `+CLCC` or the reading of an SMS | CountersMatch, BegunIsHead, AnswersInStep, TextMeetsPrompt, NothingDroppedUnanswered, SerialService, HeadMovesOn | the line stays in step and moves on |
| `at_read` | three messages of ten forms, every way to spread them over reads, a ring of 16 characters | BytesInOrder, SearchFindsFirst, ResultsAsSent, NothingLeft | the results are those sent, but for the two cases |
| `calls_safety` | two cpvts, two calls, everything may go wrong | TypeOK, CountsAgree, NoDangling | counts and pointers stay right |
| `calls_life` | three cpvts, two calls, conference and hold; one request at a time, no glare, no hangup before `^ORIG` | CallHasChannel, CpvtHasCall, StatesAgree | driver and modem agree when the line is quiet |
| `calls_zombie` | a hangup before `^ORIG` | NoZombie | **violated** |
| `lifecycle_safety` | two devices with lookups, all commands at any time, losses, faults, unload | OneMonitor, FreedStopped, PostponedWaits, CutOnlyIfUrgent, CommandsKept, CarriedOut | monitors and devices end in order, orders are carried out and, but for those given in the middle of discovery's work, not lost |
| `lifecycle_reload` | two devices, reloads between rounds, commands at any time | OnlyUnwantedFreed, ReloadFollowsConfig | reloads follow the file |
| `lifecycle_unload` | one device | UnloadCompletes | **violated** |
| `audio_mixing` | two calls, a ring of four slots, frames of three, the port takes two | PositionsAgree, OneMaster, StreamsFollowCalls, MixesVoices | the voices are mixed as promised |
| `device_select` | three devices, two callers: a round robin of all, an IMEI, one caller continuing an incoming call, calls that hold the other | OneDialing, RefusedRightly, EveryonesTurn | overlapping searches give a device once, refuse rightly and are fair enough |
| `sms` | one message from here, two from elsewhere, a store of two places, one restart, one loss, refusals and failing writes everywhere | TypeOK, ReportsTrue, ArrivesAsSent, NothingDeletedUnread, RestartComes | reports are true, messages arrive as sent and once, none is lost by the driver |
| `discovery` | two places, a device by IMEI and IMSI, one by IMEI, a third dongle without SIM; one swap, one fault, one loss, one early round | NoMixedIdentity, TtyOpenedOnce, DongleFound | identities are not mixed, dongles are found, an open port is opened again only in the two cases |

Where a component has theorems its type invariant is proved, and run only in
`Calls` and `Sms`.

Every passing property has a mutant in `PROJECT.json`: a plausible mistake in
one definition under which TLC finds the property violated.

### Bounds, and why they are enough

* `MonitorLine`: four task identities, insertions while fewer than two tasks are
  queued (the monitor's own tasks come on top, so three tasks meet in the
  queue: a begun head, a priority task behind it, a tail), two results in the
  tty, one unsolicited result per connection. A task of two commands with a
  prompt (SMS) and one that ignores the failure of its first command (dial)
  cover the ways a script goes on; a user's command is the one that may be
  queued, and written, before the monitor has drained the tty. 90,453 states. Identities are reused once nothing refers to
  them.
* `AtRead`: the ring holds exactly the longest answer, a list of two lines. It
  overflows all the same, when a list's end across its own end was not found.
  Three messages move the positions to every place of the ring before the third
  is read. Reads may be empty (`readv` interrupted) or end anywhere. The theorems
  cover every size of the ring and any number of messages.
* `CallsSafety`, `CallsLife`: two calls are what a GSM modem carries as active,
  held and waiting; the third cpvt is the one too many. `MaxTasks` and `TtyCap`
  hold back new requests and new events of the network while that many tasks or
  results wait; what was begun is not bounded.
* `CallAudio`: two calls give master and other, ahead and behind. The ring has
  five frames in the driver; here a frame of three slots in a ring of four
  goes round the end, two of them overflow it, and the port's two slots cut
  frames and leave odd rests, in every position. The theorems cover all sizes
  and any number of calls. The two calls are symmetric.
* `Lifecycle*`: devices only meet in discovery's round, in the list and in a
  reload's passes, for which two are enough; one call and one message per device
  tell "idle" from "busy". `LifecycleSafety` looks the ports of both devices up, so
  that each is let go of twice in a visit. `LifecycleReload` has commands for now and for a
  convenient time: a graceful one differs only in that it admits no new calls.
  Symmetry of the two devices is used in `LifecycleReload`, which checks no
  liveness.

* `DeviceSelect`: three devices are the fewest in which a search can pass one and
  stop at another before the mark comes round; two callers overlap. Only the
  first device has troubles of its own (`Unsteady`: loses readiness, gets calls,
  is lost), the others become ready and have the callers' calls. `MaxPassed` is
  tight: with one caller a free device is passed by at most two searches (N - 1),
  with two by up to seven.
* `Sms`: one own message whose text has sixteen septets (a multiple of eight, the
  length at which the code packs an octet too many), a number that is neither
  international nor plain digits; one message that cannot be read; two places, so
  that two readings are queued. A queue of four identities holds all of it.
* `Discovery`: two places and two devices are enough for a device to meet
  another's item and another's port; three dongles for a wrong one. One swap
  already gives a device a cached identity and a port that are no longer its own.

### Fairness

* `Monitor`: the monitor thread runs and time passes. The modem need not answer
  and nobody need insert anything. A thread that loops over `at_wait` with a
  timeout justifies the first, the clock the second.
* `Lifecycle`: the discovery thread goes on with its rounds (`sleep` ends), a
  reload or unload that has begun goes on, a monitor told to end looks at
  `terminate_monitor` between two waits, and a call or message that has begun
  ends. Devices need not be lost, commands not be given. `CarriedOut` only asks
  that an order for now does not stay due for ever; where new orders keep coming,
  each is a new one.

* `Sms`: the device goes on while the monitor has a result, the modem a command or
  discovery a device to stop or connect (`GoesOn`, one weak fairness). The modem
  here always answers, as `Monitor` deals with one that does not. Messages need
  not come, users not send, the network need not deliver.
* `Discovery`: the discovery thread runs, time passes, and a monitor whose dongle
  is gone ends and removes its lock file. Nobody need plug a dongle in;
  DongleFound asks only about those that stay.

`CHECK_DEADLOCK FALSE` stands where the system may rest or end: a device of
`Calls` without calls and with a silent network, an `AtRead` whose modem has said
everything or whose port is given up, a `Lifecycle` whose module is unloaded, an `Sms`
without messages, a `DeviceSelect` whose callers want nothing they may ask for.

### What the passing runs do not allow

The passing runs exclude the situations in which the code is known to go wrong;
each of those is a finding or listed in the next section.

* `monitor_line` bounds the unsolicited results of a connection (`MaxUrcs`);
  without the bound (`Chatty`) HeadMovesOn fails. It assumes that a
  modem abandons what it runs when its tty is closed (`ModemForgets`).
* `at_read` says nothing of what is taken for results once `astray` is set, and
  SearchFindsFirst lets a longer string across the ring's end be passed over.
* `calls_life` has `Glare`, `EarlyHangup` and `Switches` off and one task at a
  time.
* `lifecycle_safety` has no reloads, `lifecycle_reload` keeps reloads out of
  discovery's rounds. Commands come at any moment in both; three properties
  except, by `raced`, an order given while discovery had let go of the device:
  CommandsKept one given during the join of a restart, PostponedWaits one given
  during the lookup, OnlyUnwantedFreed one given between the mark and the sweep.
* `sms` excuses RestartComes where reading was answered by a plain OK (`plain`)
  and where the connection was lost while the restart waited (`Forgotten`), and
  the passing on of a message twice where the user deletes messages too.
* `discovery` has the two ways in which a lock file fails, and TtyOpenedOnce
  excepts the ports they expose (`exposed`) until these are closed. DongleFound
  speaks of devices that no earlier one of the configuration asks less than
  (`Served`) and excuses a device connected to the wrong dongle (`Mistaken`).

## 4. Where the code does not do what it says

Those with a run, told in full in `PROJECT.json`:

1. `calls_zombie` - a channel hung up before its call has an index leaves a cpvt
   that nothing releases; dialing is impossible from then on
   (`at_response.c:1002`).
2. `lifecycle_unload` - unloading holds `discovery_lock` while it joins
   discovery, which joins a monitor, which waits for that lock
   (`chan_dongle.c:723`).

Seen with the same modules under other constants, or while reading, and not
kept as runs. The line, the calls, the audio:

* The end of a list (`+CLCC`, `+CMGR`, `+CNUM`) that lies across the end of the
  ring is compared with the wrong part of "\n\r\nOK\r\n" and never found
  (`ringbuffer.c:183`); `memmem.c:38` compares the same way. In `AtRead`, the
  second reason for `astray`.
* A command that has expired makes its remaining time negative, which is
  replaced by ten seconds (`chan_dongle.c:420`); a modem that does not answer but
  keeps talking is never given up. In `Monitor` with `Chatty = TRUE`, HeadMovesOn
  fails.
* A hangup is inserted in front of the dial task it is for, and the call is
  placed for nobody (`at_command.c:857`). In `Calls`, with two tasks.
* A read that ends inside "\r\n\r\n+CMGS:" (or `+CSSU:`, `+CMS ERROR:`) after
  its second line end has an empty line taken for a result and the real one
  dropped as garbage (`at_read.c:164`). In `AtRead`, the first reason for
  `astray`.
* A command that a user queues between the connection and the start of its
  monitor is written at once; if the answer is among what `clean_read_data`
  drops, the command times out and the device is given up
  (`chan_dongle.c:391`). In `SerialLine`, Lose.
* The wait of the monitor is timed before it begins (`chan_dongle.c:419`); a
  command written by another thread meanwhile is given up with the old wait,
  however young it is (`chan_dongle.c:428`), against `at_queue.h:27`. In
  `Monitor`, MonitorTimedOut with `expired` false.

Lifecycle:

* With `ReloadOverlaps = TRUE`, OnlyUnwantedFreed fails: a reload marks all
  devices with the flag by which discovery's sweep frees them, and a sweep
  between the mark and the section of a device frees it while its monitor runs
  (`chan_dongle.c:1529`).
* A stop given while discovery joins the monitor of a device it restarts is
  overwritten, and the device starts (`chan_dongle.c:503`, `chan_dongle.c:648`). In
  `Lifecycle`, CommandsKept without its exception.
* `activate_call` is to "drop any other from MASTER, any set pipe for actives"
  (`channel.c:246`), and tests the flags of the call it activates
  (`channel.c:252`, `channel.c:261`), not of the other: the previous master
  keeps the descriptor of the audio port and gets its pipe only if the new one
  was already active. In `CallAudio`, two calls have `fd0 = "audio"`.
* When the master of two active calls is held or ends, nobody makes the other
  the master (`channel.c:223`): no channel has the timer or the audio port until
  some call changes its state. In `CallAudio`, an active call without a master.
* With `ModemForgets = FALSE`, NothingDroppedUnanswered fails: a slow modem's
  answer arrives after `clean_read_data` and is taken for that of the first
  command of the next connection.
* `at_queue_insert_task` fails when the queue cannot be run, although the task
  stays queued if the failed write was another's or was `AT+CLIR`: a dial that
  was refused to its caller is sent later.
* With `Glare = TRUE` the `^CEND` of an incoming call releases the cpvt of an
  outgoing one that guessed the same index (`at_response.c:742`).
* With two tasks queued, an `AT+CHUP` chosen when there was one call ends
  another by the time it is sent (`at_command.c:844`).
* A caller that gives up before the first `+CLCC` is answered leaves `pvt->ring`
  set (`at_response.c:1099`).
* A graceful stop given during the lookup of ports leaves an idle device that
  connects and is not stopped until it has had a call (`chan_dongle.c:541`,
  `chan_dongle.c:595`). In `Lifecycle`, PostponedWaits without its exception.
* A device that is marked for removal is freed by the sweep even if it was ordered
  to start again in between (`chan_dongle.c:673`). In `Lifecycle`,
  OnlyUnwantedFreed without its exception.
* With `ReloadOverlaps = TRUE`, ReloadFollowsConfig fails: discovery's visit
  takes a reload's mark back (`chan_dongle.c:640`).
* With reloads `gracefully`, CutOnlyIfUrgent fails: `reload_config` asks
  `pvt_time4restate` before it stores its restart time (`chan_dongle.c:1592`).
* A device lost while a restart or stop waits for a message is not connected
  again until the next command: `disconnect_dongle` forgets the message without
  `pvt_try_restate`, and discovery starts a device only for an order that is due
  now (`chan_dongle.c:642`). In `Sms`, `Forgotten`; in `Lifecycle`, when
  PostponedWaits is asked of stopped devices too.

Messages:

* `outgoing_sms` is tested in three places and set in none: sending an SMS does
  not hold back a graceful restart (`chan_dongle.c:1430`), which cuts it.
* `incoming_sms` is one flag for any number of messages: the first `+CMGR` clears
  it while a second reading is queued, and a restart comes in between. When the
  reading is answered by a plain OK it stays set, and holds back a graceful
  restart until the connection ends (`at_response.c:1152`).
* Messages that come while the device is not connected, or while a restart is
  awaited, stay in the modem's store: nothing asks for them later.
* A message that `pdu_parse` rejects (from a sender with a name, among others) is
  deleted like one that was read, when `autodeletesms` is set. NothingDeletedUnread
  excepts them (`ReadableOnes`).
* A message is passed on twice if a place is read again because its deletion was
  refused and another notice came for the place.
* Tasks that a disconnect flushes are reported to nobody: ReportsTrue says what
  holds of the reports there are.
* A text of 8k septets is written with one octet more than it needs, and one of
  8k + 7 is read back with a zero at its end, which shows in SMS_BASE64
  (`SeptetsRoundTrip` has both). Seven-bit text behind a user data header is
  unpacked without its fill bits.
* "PDU has limit 140 octets" (`at_command.c:321`, `pdu.c:557`): the code takes
  160 octets of user data and 178 in all.
* Seven-bit texts are packed as they are; the characters of the GSM alphabet are
  not converted. An empty number passes the test for a valid one.

Devices and ports:

* `round_robin_mtx` is commented out (`chan_dongle.c:910`), and every search
  takes the mark away before it sets a new one: two searches that overlap both
  begin where the other did, a search that finds nothing loses the mark, and one
  without a mark begins at the second member. EveryonesTurn says how many
  searches pass a free device then.
* The cache's test whether an item is enough looks inverted
  (`pdiscovery.c:213`): of IMEI and IMSI each has to be asked for *or* in the item,
  so what is asked for and missing counts as there.
  A device by IMEI and IMSI that is listed after one by IMEI only never gets its
  dongle while the earlier one is absent, for the item without an IMSI is renewed
  by every search. Without `Served`, DongleFound fails. The same test is what
  keeps identities from being mixed: NoMixedIdentity fails when it is the other
  way round.
* A search that does not find what it asks for still renews what the item had:
  an IMEI that was read from a dongle that has gone stays (`pdiscovery.c`
  cache_update). Connecting does not ask again, so an old item leads a device to
  another's dongle (`Mistaken`).
* `lock_create` writes the descriptor of the lock file for that of the tty to be
  opened next ("not thread-safe", `chan_dongle.c:123`): if another thread opens or
  closes a file in between, the lock file does not count, and the port can be
  opened a second time. In `Discovery`, the first way into `exposed`. (That the test and the
  creation are two steps, the FIXME at `chan_dongle.c:147`, harms only against other
  processes: in this one the discovery thread alone opens ports.)
* `closetty` closes the port before it removes the lock file (`chan_dongle.c:182`):
  in between another device can take the port, whose new lock file is then
  removed, and the port can be opened a second time. In `Discovery`, the second way;
  TtyOpenedOnce fails without the exception of either.

## 5. Theorems

All are checked by TLAPS for every value of the constants that satisfies the
named assumptions of the modules.

* `AtQueueProofs`: lemmas on the queue's operators. Each of them keeps `QueueOK`:
  the list is made of distinct tasks, only the head has begun, and the counters
  are the length of the list and the number of commands left. That last number
  is a cardinality, so that no induction over the list is needed: a flush takes
  off exactly what is there.
  A second view of the list, the set of its jobs (`Jobs`), says what each operation
  adds, takes off or moves on without speaking of places in the list; the
  invariants about *which* tasks are queued are stated on it.
* `MonitorProofs`: `InvHolds`, with TypeOK, CountersMatch and BegunIsHead as its
  consequences. TypeOK is not inductive: `at_cmds` is an integer that stays a
  count only because it agrees with the list, and the handlers take the head of
  `inbuf`. The inductive invariant is TypeOK, `QueueOK(q)`, and that `inbuf` is
  not empty while the monitor handles results. The proof has one case per
  action; the handlers share the lemma about `Finish`.

  `SyncHolds` adds `SyncInv`, under `ModemForgets`. AnswersInStep and
  TextMeetsPrompt are not inductive either: that an answer under way is that of
  the head says nothing of the command the modem still runs, and that the modem
  is at its prompt when the text comes needs that it is there *only* from the
  prompt to the text, and that the text is never at the head unwritten. With
  `SyncInv` come `AnswersAreInStep`, `TextMeetsItsPrompt` and
  `NoneDroppedUnanswered`. `ServiceIsSerial` is the refinement: every step of
  `Monitor` is a step or a stutter of `SerialLine` under the mapping of section 2.
  One lemma (`StepServes`) says what each action does to the head, the
  commands on the line and the answers, and the refinement is read off it. Without
  `ModemForgets` the statements are false (section 4).
* `MonitorProofs`, on the reading (the constants of `AtRead`: any size of the ring,
  any of the messages in any number, any way to spread them over reads). What the
  ring means is the text `Held` in it; one lemma for each operation says what it
  does to that text, round the ring's end too (`StartsText`, `FillText`,
  `UpdText`). `RingKeepsOrder` (BytesInOrder) has the invariant `BytesInv`: that
  text and what the port still has are the end of what the modem wrote.
  `SearchIsRight` (SearchFindsFirst): what a search finds is what it looked for, and
  the first of it, unless a longer string lies across the ring's end, for the
  code's comparison there is wrong (section 4). It needs from the wire only what
  follows an "O" and a "K" in it (`Chained`): what the code would wrongly take for
  the end of a list is no part of any sequence of messages.

  `ResultsAreSent` and `NoResultStays` (ResultsAsSent, NothingLeft) are about the
  search as a whole, up to the two cases of `astray`. Their invariant `RightInv`
  says, as long as it is not set: the search is at a place of a message (`IsPlace`: so many bytes dropped,
  so many results taken, a leading "\r\n" skipped or not), what it has taken are
  the first results due, no read has ended inside a doubled header (`EndRight`,
  without which the search would leave its places), and while the monitor waits
  there is nothing to find yet (`Waits`). `PlaceRight` says that from each place of
  each form only the right level of the search is enabled, leads to the next
  place, and is enabled as soon as the whole message is in the ring; there is one
  lemma for each of the ten forms, from what the ring shows of it (`View`).
  TLC checked `RightInv` on the run's instance before it was proved.
* `CallsProofs`: `CallsTyped`, `CountsHold` and `NothingDangles` (TypeOK,
  CountsAgree, NoDangling), for any number of cpvts, any modem, any options
  and every fault. TypeOK is not inductive, since a count is decremented and
  has to stay a number, nor is CountsAgree, since a cpvt that were twice in
  the list would be taken off once. The invariant (`CallsInv`) says that a cpvt
  is in the list once, that each count is the cardinality of the set of
  cpvts of the list in that state, that the target of *every* task, and
  `last_dialed_cpvt`, is in the list, and `QueueOK`. Each operation of `cpvt.c`
  and `channel.c` has a lemma that it keeps `PvtOK` and what it does to the
  list (`CpvtAllocOK`, `CpvtFreeOK`, `ChangeStateOK`), and the handlers are
  composed of these. The two loops, over the lines of `+CLCC` and over the
  list at a disconnect, are recursive functions: their existence and the invariant
  along them are proved from the least index at which they would fail
  (`LinesOK`, `ReleasedOK`); at a disconnect the invariant is that the cpvts whose
  turn has not come are still there. `NewIdLeft` says that identities for
  tasks do not run out (`TaskIds` is infinite): a task is newly allocated. TLC has
  as many identities as its bounds let tasks be.
* `LifecycleProofs`: `DeviceInvHolds`, with TypeOK (`LifecycleTypes`) and
  OneMonitor (`MonitorUnique`) as consequences. The invariant says of each
  device that at most one monitor runs, that the handle is set while one does,
  that the device counts as connected exactly then, that discovery has no
  monitor to wait for once it is in a lookup, and that a reload only reads
  sections that exist. Commands and reloads may come at any time here, also
  where the runs keep reloads out. `FreedAfterStop` adds FreedStopped when there
  are no reloads (`ReloadWhens = {}`): a mark then stands only on a device that
  discovery has stopped itself, in this round, and that nobody can start again
  before the sweep. A reload during a round shows why the assumption is needed (section 4).

  `PostponedNotForgotten` and `CommandsNotOverwritten` (PostponedWaits,
  CommandsKept) assume nothing of the timing: commands come during joins and
  lookups too, and reloads during rounds; what discovery loses of them is in the
  properties. Their invariant, `Undisturbed`, follows an order through the places
  where discovery lets go of the lock: unless another one came meanwhile
  (`raced`), what it began on a device is still due now, and a restart still
  wanted, when it goes on. `WantedStay` and
  `ReloadRemovesDisabled` (OnlyUnwantedFreed, ReloadFollowsConfig) assume only that
  reloads come between rounds (not `ReloadOverlaps`); they say that a
  device is freed only if it is to be removed (or with the module, or when
  another order came after the mark), and that a
  reload schedules the removal of just those its file does not have or disables.
  `must_remove` is used for both, and their invariant, `Marked`, says what a mark
  means where: in a round, that a device already visited is to be removed; in a
  reload, pass by pass, that its section has not been met yet, is missing or
  disables it. Section 4 has what overlapping reloads do to both.
  `CutsAreOrdered` (CutOnlyIfUrgent) holds without
  reloads, with commands at any time; its invariant `Ordered` is that
  whatever is due on a busy device was ordered for now.
* `CallAudioProofs`: `AudioInvariant`, with TypeOK, PositionsAgree, OneMaster and
  StreamsFollowCalls as consequences. The four are inductive together: a frame
  is only written at a position that agrees if the call that writes is in the
  list of streams, which it is because an active call with a channel is
  activated. `WriteMixes` is the lemma about `mixb_write`: for a ring of any
  size it says slot by slot what is in the ring afterwards, where the new voice
  begins and ends, and that the positions still agree, in the three cases of the
  code (mix, mix and copy, copy) and over the ring's end.

  `VoicesAreMixed`: `CallAudio` implements `Mixer` (MixesVoices). The contents of
  the ring are a sequence (`Contents`), reading takes its beginning off
  (`ReadContents`), and `WriteMixes` is Say once the room has been made
  (`SayMaps`); every other step joins, leaves, plays, clears or changes nothing.
  The mapping needs the invariant above: without PositionsAgree a write is no
  Say, without StreamsFollowCalls an attach no Join.
* `DeviceSelectProofs`: `SearchInvariant`, with `SearchTypes`, `OneCallerDials`
  (OneDialing) and `RefusalsAreRight` (RefusedRightly) as consequences, for any
  number of devices, callers and resources. The invariant says that the places
  of a search stay in its list, and that the device a search has found is locked
  by it and has no call that is being set up. For refusals there is a second one on
  top, `NothingMissed`: every device that was free for a search since it began,
  and as long as the search knows of none every member, is still on its way, in
  the rest of the list or of the round. When nothing is left of the way, nothing
  was free.
* `DiscoveryProofs`: `NeverMixed` (NoMixedIdentity), for any places, dongles and
  devices, with dongles exchanged at any moment. NoMixedIdentity speaks of the
  cache; what keeps it so is that a search which brings something along from
  the cache can have it completed by one dongle only (`StillOne`), and that is
  what the test of `cache_lookup` provides, inverted as it looks (section 4).
  `OpenedOnce` (TtyOpenedOnce) assumes nothing of threads and descriptors: by its
  invariant each port that is open and not `exposed` has one owner, a device or the
  search that asks, and a lock file with his number. What it shows is that nothing
  exposes a port but the two ways of section 4: not the removals of a lock file by
  a search that reads the cache, by an open that fails, or after an answer.
* `SmsProofs`, on PDUs: the four conversions, for every length. `SeptetsRoundTrip`
  needs no induction: packing and unpacking are explicit functions of the index,
  and each septet is recovered from the two octets it lies in, by one lemma for
  each of the eight positions. `Ucs2RoundTrip` is stated for the basic plane, the
  rest is refused; `NumberRoundTrip` covers odd lengths with their filler;
  `ValidityCovers` the four scales of the validity with their rounding up.
* `SmsProofs`, on the device: `FlagReason`, that `incoming_sms` is set only while
  the reading of a message is queued and its answer has not come, or after a plain
  OK. The queue has to be well formed for that (`QueueOK` again), and the head's
  command written whenever the lock is free, so that `+CMGR` meets the task it
  answers. On top of it `Base` (with it `SmsTypes`): what each task is about, and
  that the line, the answers and the head are in step. `SenderToldTrue`
  (ReportsTrue) needs `Reporting`, which follows each own message from its
  task through the prompt to the network's OK, for a report is given two
  steps after what it reports. `NoneLost` (NothingDeletedUnread) needs
  `Deleting`: between the reading of a place and its deletion the place still
  has the message that was read, and that message was passed on. `ArrivesTrue`
  (ArrivesAsSent) puts both together with where messages can be (`OnlyAccepted`,
  `Fit`), with the conversions' theorems for what is in them (`AsPassed`), and with
  `ReadOnce` for the number of times: while no user deletes messages himself, a
  notice and a reading are never both due for a place, so it is read once.
  The assumption on `Content` is that numbers are made of digits, which
  `is_valid_phone_number` sees to (`helpers.c`), and texts of code points.

Only model-checked, and why: `HeadMovesOn`, `CarriedOut`, `RestartComes`,
`DongleFound` and `UnloadCompletes` are liveness under fairness, which the prover
does not reach. EveryonesTurn is a bound that depends on the numbers of devices
and callers in a way no formula here gives. CallHasChannel, CpvtHasCall and StatesAgree of `Calls` compare the driver with a
modem that answers later: an invariant would have to say, for every sequence of
results under way, what they will make of the driver's state, and it would hold
only for the orders of events that `calls_life` admits.

## 6. Left out

* Text: formatting and parsing of commands and results, logging, manager events.
* Values that nothing here decides by: RSSI, provider, registration, IMEI.
* Allocation failures, except a cpvt that cannot be allocated.
* `at_response_busy`, which with an empty queue reads through a null pointer.
* DTMF, gains, bridging loops; the sound from the device to the channels and
  their pipes; a device without a timer, which writes frames as they come.
* What `ast_slinear_saturated_add` makes of two samples.
* `clean_read_data`, which drops what came before the first command and may cut a
  result in two; results inside a list.
* Channel threads and locks: `tech_pvt` read before `pvt->lock`, the order of
  channel, device and list lock. What Asterisk holds when it calls back is not
  in the repository; a model would rest on assumed locking and show those
  assumptions.
* "dongle discovery" of the command line, which searches in a thread of its own and
  inserts into the cache without its lock; sysfs and the table of interfaces;
  the misplaced copy of the second part of an answer in `handle_response`
  (`pdiscovery.c`), which such short answers never reach.
* SMS in text mode (`use_pdu = 0`), full message stores, timestamps, service centre
  addresses, hexadecimal digits.
* The parsing of dongle.conf and of the fields of results (`at_parse.c`): functions
  from text to fields; the models take the fields.
* The front ends: they check arguments and call one operation, which is an action
  of the model.

## 7. Plan

Done, in this order because the line carries everything else and the calls and
the lifecycle are where the driver's users are hurt: `AtCommands`, `AtQueue`,
`Monitor` with `SerialLine`; `RingBuffer`, `AtRead`; `Calls` with `CallModem`;
`Lifecycle`; `MixBuffer` with `CallAudio` and `Mixer`; the proofs of their
invariants; then `DeviceSelect` with its proofs, `Pdu`, `Sms`, `Discovery`.

Next, each with its properties:

1. The sound from the device: `write_conference`, the pipes, bridging loops.
2. The list of the command line in `Discovery`, as a second searcher of the cache.
