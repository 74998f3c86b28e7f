# Verification of s4_mk1_usb2midi

TLA+ modules of the bridge between a Traktor S4 MK1 and CoreMIDI, the TLC runs
that check them and the TLAPS proofs about them. `PROJECT.json` is the index:
components, runs, the line of code each definition stands for, findings, hazards
and theorems.

Run from this directory: `tlc -config MCBridge_threads.cfg MCBridge`,
`tlapm BridgeProofs.tla`.

## 1. The system

| component | code | state | operations | talks to |
|---|---|---|---|---|
| UsbDevice | `usb_device.cpp` | `handle_`, `disconnected_`, endpoint types; the claim, in the kernel | open, close, read_input, write_output, destructor | libusb |
| bridge mode | `main.cpp` run_bridge | `running`, the locals of run_bridge, previous raw packet | connect (retry), loop, reconnect, unwinding | everything below |
| feedback callback | `main.cpp:379-389` | none of its own | one call per MIDI packet, on the CoreMIDI thread | UsbDevice, without a lock |
| s4_mk1_init | `s4_init.cpp` | transfers, their `XferState` on the stack, the static `s_drain` | 17 commands, 23 LED packets, start and stop of the drain | libusb's asynchronous calls, whose callbacks run in its event loops |
| S4GenericProtocol | `s4_generic_protocol.cpp` | `previous_report_`, a warned flag | decode_input, encode_output | called by the loop and by the callback |
| CoreMidiBridge | `core_midi_bridge.cpp` | client, source, destination | constructor, send, read_proc, destructor | CoreMIDI |
| options | `main.cpp` parse_args | `AppOptions` | one flag after the other, the tests at the end | both modes |
| probe mode | `main.cpp` run_probe | locals | descriptors, write loop, read loop | UsbDevice |
| MIDI dev tester | `tools/midi_dev_tester.py` | two ports, an event queue, rules and their index, the byte map | connect, drain the queue, apply rules, route to the byte map | the ports of the bridge |

Two threads share the UsbDevice: the main thread opens, reads and closes it, the
CoreMIDI thread writes to it. A signal handler clears `running`. The controller
comes and goes. libusb callbacks run on whichever thread handles events, which
is the main thread in s4_mk1_init and also the CoreMIDI thread while a
synchronous write of the callback waits.

What is hard:

- the callback's three separate reads of `handle_` and `disconnected_` against
  close, open and init of the main thread;
- `connect()` failing at any of its libusb calls with the handle half open, and
  being retried;
- a loss that shows only in the return code of a read, an end that shows only in
  a flag that a blocked read does not look at;
- the transfers of the handshake: deadline against completion, cancellation
  against resubmission, buffers on the stack, a static that outlives a failed
  attempt;
- the delta encoding of decode_input: the host knows only what it was sent, on
  addresses that mapped and raw sources may share;
- two streams of one controller in one queue, raw packets and CCs, with sends that
  fail and sessions that end, and a byte map that must not be left on an old value;
- SysEx that CoreMIDI cuts where it likes, in lists of several packets, with writes
  that fail in the middle of a list.

What makes each part correct: no handle is leaked and none is read before it is
initialised (UsbDevice, bridge mode); the ports, the exit code and the retries
agree with what happened (bridge mode); nothing that libusb still holds is freed
and success means every operation was acknowledged (s4_mk1_init); what the host
learned is what the controller shows (S4GenericProtocol), and what the tester
rebuilds from it is the report (byte map); no payload is invented or takes another
one with it (feedback path); options are in range, and the handle and the exit
code come out right on every path (probe mode).

## 2. The modules

    UsbDevice      <-- Bridge                   <-- BridgeProofs;             <-- MCBridge
                   <-- Probe                    <-- ProbeProofs;              <-- MCProbe
    Hotswap        <--INSTANCE-- Bridge
    S4Init                                      <-- S4InitProofs;             <-- MCS4Init
    Handshake      <--INSTANCE-- S4Init
    S4Mapping      <-- S4MappingProofs
                   <-- S4GenericProtocol        <-- S4GenericProtocolProofs;  <-- MCS4GenericProtocol
                   <-- Monitor                  <-- MonitorProofs;            <-- MCMonitor
    Feedback                                    <-- FeedbackProofs;           <-- MCFeedback
    PayloadChannel <--INSTANCE-- Feedback
    MidiTester                                  <-- MidiTesterProofs;         <-- MCMidiTester

An arrow is EXTENDS where it does not say INSTANCE. S4GenericProtocolProofs and
MonitorProofs also extend S4MappingProofs.

**UsbDevice** holds the state of the device object and of the part of libusb it
uses: the units on the bus (`attached`), the handles libusb has open, the unit
behind each (`peer`, none after it was unplugged), those whose interface is
claimed, and the members `handle` and `disconnected`. Each operator is the effect
of one libusb call or of one assignment. Handles are identities: a new one never
equals a pointer that the callback still holds, so an address that the allocator
reuses does not hide a use after close.

**Bridge** is run_bridge. `mpc` is the point the main thread has reached, from
`connect` over `close` ... `init` to `loop`, `read`, `check`, `publish`, and down
through `unwindMidi`, `drainMidi`, `unwindDevice` to `exited`; each step is one
libusb call, one test or one assignment that the other thread could see. `wpc` is
the point of the callback: `guard` (disconnected), `guardOpen` (is_open),
`encode`, `nullCheck`, `capture` (handle_ is read as an argument), `enter` (the
call into libusb), `transfer`. Any call of `connect()` may throw
(`ConnectStepFails`), keeping what it had done; `Catch` is the catch clause with its
two cases. A read yields data or nothing, raises the flag (`ReadGone`), or throws.
The environment plugs and unplugs units, sends feedback (`Receive`) and signals;
`signalled` remembers that one came, because the main thread clears `running` itself in
one case. The disposal of the endpoints waits for nobody: a callback that runs then may
go on, and find run_bridge's locals destroyed (`CallbackOutlives`).

**Hotswap** is the promise without threads or handles: down, up, stopped or
crashed; ports that appear with the first session and stay; an exit code of 0
only for a bridge that had its ports and was told to stop, by a signal or by itself. `ImplementsHotswap`
maps Bridge to it: `stop` is `~running`, `phase` follows `mpc`, `code` is `exitCode`.

**S4Init** is s4_mk1_init over a constant `Script` of operations (`S4Script` is
the code's: 9 commands, a packet, 8 commands, the drain, 22 packets, its end).
Each transfer is idle, flying or, once it was freed too early, dangling.
`Complete` is libusb ending a transfer with any status and running xfer_cb or
drain84_cb, in the event loops of the main thread or, once the MIDI `ports` exist, at
any time: a feedback write handles the same events. `Restart` is the next attempt of `connect()`: the transfers go with the
old handle, `s_drain` stays.

**Handshake** is what `connect()` relies on, without transfers, callbacks or the drain:
an attempt begins the operations of a script in their order, each once, and none before
the controller took its predecessors; it is ready when all were taken, may fail at any
moment, and the next one starts over. `ImplementsHandshake` maps S4Init to it: `Begun`
counts the operations under way or behind, `taken` is `acked`, `Outcome` follows `pc`.

**S4Mapping** is the pure part of decode_input. A source is a byte or a bit of a
byte, `EmitAddresses` says where the change of a source is sent, `Messages` is the
set of CCs of two reports, in the order of `at`. Bytes are numbers, with the code's
shifts and masks (`V7`, `BitOf`, the `uint16_t` in `RawAddress`). The tables are
constants; `ShippedBytes` and `ShippedBits` are those of the code.

**S4GenericProtocol** adds the state: the baseline, replaced by every report, and a
host that keeps the last value of each CC. Reports may have several lengths: only the
bytes two neighbours have in common are compared, so `ViewExact` is about `held`, the
bytes that every report so far had.

**Monitor** composes the bridge with the tester: the part of the loop that
publishes a report (`at` is `read`, `raw`, `decode`, or `gone` after a CC that could
not be sent), the queue between bridge and tester, and the byte map. `outgoing` are
the CCs decode_input returned and the loop has not sent yet. `RouteCC` and
`RouteSysEx` are the two routes into `data`, the second of which writes the bytes that
differ (`differing`); `window` is the source filter, `mapBase`
the base channel field. `learned` remembers which bytes the map was told since it
was opened or set (a closed one takes its bytes with it), because the window marks no byte as unknown, and `NeverCut` are the
bytes that every report has: a byte that one lacked is not compared with the next one.

**Feedback** is the other direction, byte by byte. The DAW's frames, other SysEx
and short messages become `packets`, whole or in two pieces; read_proc takes a list
of them (`inList`) and the callback deals with each: `Drop` (not usable), `Ignore` (no
payload, the warning), `WriteOutput` (any number of bytes gets through). Why the
device is usable or not is Bridge's subject; here `up` changes at any time.

**PayloadChannel** is its promise: of the payloads sent, in order, each arrives as
some beginning of itself or not at all, at most once. `ImplementsChannel` maps
`got` to the history of transfers.

**Probe** is main from the command line on. `ReadFlag` is one turn of the loop of
parse_args, with `Accepted` its tests and `With` its branches, one line each, those of
options.usb in `UsbOption` and the others in `AppOption`; values are the numbers or
bytes the text stands for, `Bad` a text that stands for none, and `ParseU16` and
`ParseU8` drop the upper bits. What a flag means (`Meant`, `Fits`) is stated beside the
properties, without those branches. run_probe follows, with the steps of
open() of module UsbDevice, the write cycle, the stream, and `Return` from wherever
an exception leaves. Bridge mode ends here in `pc = "bridge"` and starts in Bridge.

**MidiTester** is the engine, the queue and the rules of `tools/midi_dev_tester.py`.
mido's thread puts messages at any time (`Receive`, `MidiCallback`); `tk` is what the
Tk thread is in: its loop, `drain` (between two events of _drain_event_queue) or
`rules` (inside _handle_event), or a step of MidiEngine.connect: `OpenOutput`,
`OpenInput`, and `RollBack` in its except clause. Every open and every close may raise
(`DisconnectRaises`; `closeFailed` remembers it until the window is set again). A user's
action needs the Tk loop. `Raise` is an
exception that leaves the drain; `timer` says whether it is scheduled again. The
index is rebuilt by each edit (`SetRules`). A rule of the index, or of `matches`, those
_apply_rules has still to look at, comes with its position in the list: the lists of
the code are in that order, and `ApplyRule` takes the first.

Definitions marked `(mutant)` in a comment are the faulty variants that show each
property can fail; no specification uses them.

## 3. The runs

All runs are exhaustive. Deadlock is checked in all but those of MidiTester, whose
window the user may close, and of Probe, which ends: the environment of Bridge can always plug or unplug, S4Init
is restarted, decode_input takes any report, the DAW's messages run out but the session
still changes, the byte map can always be opened or closed.

| run | question |
|---|---|
| bridge | handle leaks, session readiness, ports, late callbacks, exit code, hard stop, signal, loss, recovery, and the refinement of Hotswap with its fairness |
| init_attempts | deadlines, failing submits, repeated attempts, read before write, the flag of the drain, and the refinement of Handshake, whose fairness says that every attempt ends |
| decode | the host's view is exact and no change is silent, in hybrid mode with every kind of table entry and a report that is cut |
| monitor | the byte map follows the controller over CCs, and exactly over SysEx, across failed sends, reconnections and a report that is cut |
| feedback | the refinement of PayloadChannel, no packet hides another, read_proc returns |
| probe | options in range, each flag to its own option and the last one wins, handles closed, claims and endpoints before transfers, exit codes, and what ends the program |
| tester_drain | ports that fail to open or close and what the window says of them, only listed rules fire, every drain ends |

The other five runs each refute one sentence of the documentation (section 6).

Bounds, and why they are enough:

- Bridge: two units, two handles. One unit that is lost, another that is plugged
  and a third state of the bus, both attached, is all `open()` tells apart; a handle
  that the callback kept plus the one the main thread opens is all that is ever
  in use at a time, because NoHandleLeak holds. No counter is modelled, so nothing is
  cut off.
- S4Init: the real script of 42 operations. Attempts are not bounded, and the first
  success brings the ports, hence the other thread.
- S4GenericProtocol: `Controls` has four bytes that change, one of them past bit number
  127 so that the raw channel wraps from the last base channel, under `MoreBytes` and
  `MoreBits`, which have every kind of entry. One report ends before that byte. The properties relate
  two sources at most.
- Monitor: reports of 131 bytes and a map of 130. Two bytes change: the first, and byte 128,
  whose CC is on the channel after channel 16. Byte 129 is the last the map has, byte 130
  is past its end, and with a wrong base channel a CC lands there as well. One report is
  cut behind byte 128, so that the two that change are in every report and compared.
  Values differ in the lowest bit only, or in all. `MaxQueue` is 2: messages of two reports and of both kinds
  are on their way together. Two base channels, the right one and a wrong one.
- Feedback: `MaxMessages` is 3, so that a list can hold a frame between two others and
  a SysEx in two pieces before a frame. An empty payload, one that reads like a report
  of the bridge itself, SysEx of other makers as close to a frame as MIDI allows.
- Probe: a command line for each path of run_probe, and one on each side of each limit
  of parse_args. Two writes at most: the loop compares a counter with a number.
- MidiTester: `MaxQueue` and `MaxRules` are 2, and `Batch` (200 in the code) is 2: a
  drain can find more than it may take, because the queue fills up while it runs, and
  two rules can share a key or be the same. The code bounds neither list.

## 4. Fairness

- Both threads of Bridge are weakly fair. libusb calls return; a synchronous
  transfer on an idle unit returns because of `--timeout-ms`, which is what
  `TimeoutFinite` says. With `--timeout-ms 0` SignalStops is false: the read of an idle
  controller never returns. Reads of data, errors on a
  live handle, signals, units and MIDI are never forced.
- `Healthy`, the premise of `Recovers` and of nothing else, is strong fairness of the
  successful outcomes of `connect()`: a unit that fails every attempt for ever cannot be
  recovered by any code. A unit that stays attached is then found again and again.
- S4Init: the main thread is weakly fair, its deadlines included, and libusb ends
  every transfer, all of which have a timeout (2000 ms; `s4_init.cpp:57-58`, `168`).
- MidiTester: Tk runs its callbacks, and a port that is opened or closed answers, if only by
  an exception; messages and the user are never forced.
- Feedback: the CoreMIDI thread goes on with the list it has (a write returns because of `--timeout-ms`, finite as in Bridge);
  the DAW, CoreMIDI and the session are never forced.
- Probe: main runs, except while it waits for a unit that is there with `--timeout-ms
  0`; `Ends` names that case. Signals and units are never forced.
- Monitor states safety only: nothing says that a message is ever sent.
- Hotswap: told to stop, it stops, with the ports published first if it was about
  to.

## 5. The proofs

`tlapm` checks them without any assumption beyond those of the modules: `None` is
neither a unit nor a handle, options are in the ranges parse_args lets through
(which ProbeProofs proves of parse_args), the fields of table entries are bytes and their
deadzones integers, the script starts the drain at most once, reports are non-empty
sequences of bytes, SysEx data is below 0x80. Theorems with further hypotheses name them in an ASSUME of their own.

**BridgeProofs.** For any sets of units and handles. `TypeOK` and the properties
are not inductive: that the loop only reads a ready handle depends on what was
done at each point of `connect()`, whoever interferes. `HandleInv` says what the
main thread knows of `handle_` at each point (none after close, open after open,
claimed after claim, initialised in the loop), `PortsInv` when the ports exist,
when a callback can run and why the bridge leaves. `IInv` is their conjunction with
`TypeOK`; `NextInv` has one step per action. From it follow HandlesClosed,
LoopIsReady, SuccessHasItsCause, and, with the action taken, NoCallbackStartsLate,
PortsFollowSession and NoRetryAfterMultiple. `StepRefines` maps every
step to one of Hotswap or a stutter, which gives RefinesHotswap.

**S4InitProofs.** For any script. `StackInv` ties the state of each transfer to the
point of the code: in `led_async` the transfer is in flight exactly until its
`done`; `AckInv` says that the operations behind the current one were acknowledged;
`DrainInv` says when the flag of the drain can be relied on. LedSafe,
SuccessIsComplete, DrainFlagRight and ReadBeforeWrite need no assumption on threads.
The last one has a second case for that reason: while another thread handles events,
the pending read may be answered between the two submits. `RefinesHandshake` maps every
step to one of Handshake or a stutter, from the same `IInv`: `Follows` is where `AckInv`
is needed, because an operation may only begin when its predecessors were taken, and
`StackInv` is what makes an acknowledgement that of the operation under way.

**S4GenericProtocolProofs.** `ExactView`: if there is no deadzone (`NoDeadzone`) and no
two sources share a home (`HomesDistinct`), the host's view of the bytes that every
report so far held is exact for ever, for reports of any lengths. `Emission` says that a
source is sent to its homes exactly when its value changed, `MessagesAt` and `ReceivedAt`
that a home hears from no other source. Without `NoDeadzone` a slow movement is never
sent (decode_drift), without `HomesDistinct` two sources overwrite each other, and of a
byte that a report lacked nothing can be said: its change is never compared. Three
theorems discharge `HomesDistinct`. `ByteModeExact` does for the shipped tables in byte
mode, for up to 2048 bytes on any base channel, by the injectivity of `RawAddress`.
`BitModeExact` does in bit mode from the second base channel on, while the raw bits stay
below channel 17; on the first, the default, it is false: the mapped buttons have the
addresses of bits 4 to 7 of byte 2 and bit 0 of byte 3. `FinishedMapExact` does for any
custom map whose entries have controllers of their own, once the raw mappings are off as
`s4_generic_protocol.cpp:28` asks (`FinishedMap`), in every mode.

`HomesOnly` is about every message: it goes to the home of the byte or bit it is about
(`OnlyHomes`). Its hypothesis is that raw bytes are off or no entry has a deadzone over the
global one. With the shipped `kEmitUnmappedByte` and such an entry it is false: a small
movement of the mapped byte falls through to the raw number (`s4_generic_protocol.cpp:147`).
For that reason no run states it.

`ChangesReported` holds wherever bits are decoded and raw bits are sent; in byte mode it
is false, a change of the lowest bit has no message. `TypeCorrect` says that every
address and value is one of MIDI's, for any tables.

**S4MappingProofs.** The lemmas about the mapping both use: `Split` and `BitsTell` (a
byte is its seven upper bits and its lowest one, and its bits), `RawAddressDistinct`,
`MessagesTyped`, `LatestExists` (the host's CHOOSE finds a message), `ChangeSpoken`.

**MonitorProofs.** `RawIsExact` needs `RawInv`: the last raw packet in the queue is the
one `rawPrevious` holds (`LastRaw`), and with none in the queue the map shows it already
(`ShownRaw`). `RawRoundTrip` says that the tester's nibbles are the bridge's.
`MapFollowsController` is about two streams in one queue. `MapInv` says that the last
word about a byte, wherever it is, in `outgoing`, in the queue or on the map, is its
current value: `Meant` for the CCs not sent yet, `LastWords` for the last message in the
queue that speaks of the byte, `ShownWords` for a byte no message speaks of. A raw packet
is ahead of the CCs of its own report by one step of the loop, hence the two meanings of
"current" in `Current`. `RouteInverts`: on the right base channel the tester finds the
byte back. The theorem holds in byte mode with no byte mapped, no deadzone and reports
of any lengths up to 2048 bytes (`RawBytes`), the shipped build among them.

**FeedbackProofs.** `OnlyFramesDecode` and `PieceIsNoFrame` are about encode_output and
any bytes MIDI allows: what decodes is a frame of that payload, and no piece of a SysEx
decodes, because data bytes are below 0x80. `IInv` ties each packet to the payload
it frames, keeps the packets in the order of the log and behind what was written; every
step then is one of PayloadChannel or a stutter.

**ProbeProofs.** For any command lines, units and handles. `WithFacts` goes through
the branches of parse_args one by one: a flag sets its own option and no other, but for the
two of the debug output; `RangeInv`, `LastInv` and `DebugLast` carry the ranges and the last
flags through the loop, and `StoredIsMeant` compares what the conversions store with what
was meant; `DeviceInv`, `EndpointInv` and `WriteInv`
say what main knows of the handle, the endpoints and the cycles at each point, and the
exit code 0 is only set where `Success` holds.

**MidiTesterProofs.** For any rules, keys, messages and batch. `IInv` adds to `TypeOK` and
the connection that the index is the one of the list at every moment (`ruleByKey =
Index(rules)`), and that what is left to fire is the rest of the list for its key behind
the rules already fired: `RestBehindFirst` says that firing the first leaves such a rest,
and no edit happens meanwhile because the Tk thread is in the drain. `ConnectInv` says
which ports are open at each step of connect: the output alone while the input is being
opened and in the rollback, unless a close() raised.

Only model-checked: liveness, and the fairness half of the two refinements that have one
(Hotswap, Handshake); PayloadChannel states safety only and is proved whole. Temporal
properties under fairness are outside what the provers do. The refuted sentences of
section 6 are counterexamples of TLC's.

## 6. What the code does not do

The refuted sentences, with the trace each run gives:

- *"Device closed concurrently; main loop will handle reconnect"* (`main.cpp:387`):
  the callback reads `handle_`, the main thread closes it, libusb is entered with a
  freed handle. A catch clause cannot help.
- *"until both complete"* (`s4_init.cpp:39`): cmd frees transfers in flight.
- *"Drain ep 0x84 during LED dump"* (`s4_init.cpp:300`): the drain outlives a dump that
  failed, and one that succeeded when its cancellation comes too late.
- *"used to filter out deadzone noise"* (`s4_generic_protocol.cpp:122`): a slow movement
  is filtered whatever its length.
- *"Live incoming MIDI event log"* (`midi_dev_tester.py:5`): after one exception, such as
  an empty channel field on the byte map, the log stands still.

All five are listed as defects of the code.

Seen while translating, and not the subject of a run:

- Bridge: several units seen on a reconnection end the bridge with exit code 0, against
  *"Throws immediately"* (`main.cpp:354`): the handler clears `running` (367), and the break
  at 400 leads to the `return 0` of 440. `CleanExit` is stated accordingly. A callback that
  is running when ~CoreMidiBridge disposes its endpoints (`core_midi_bridge.cpp:45-55`) is
  not waited for, and may use the device after its destruction. On a reconnection the guard of the callback
  passes as soon as open() has stored a handle, so feedback can be written in the middle
  of the handshake, against *"before the bridge loop"* (`s4_init.hpp:6`).
- decode_input: the five mapped buttons share CCs with raw bits on the default base
  channel, against *"a unique CC number"* (`README.md:19`); in byte mode a change of the
  lowest bit has no message, against *"For every byte that changed"* (`README.md:19`); in
  hybrid mode raw bytes and raw bits have the same numbers; a mapped byte inside its own
  deadzone goes to its raw CC, against the example of `s4_generic_protocol.cpp:51`; a
  short report hides changes of the bytes it lacks.
- encode_output ignores the type byte, against the comment of `main.cpp:422` (*"0x01 = LED
  out"*): a report of the bridge that is looped back is written to the controller. A
  payload has to be below 0x80, against *"arbitrary USB output packets"* (`README.md:176`).
  Without `--out-ep` every frame is dropped without a word.
- Probe: the usage offers `--write-hex` without `--in-ep` (`main.cpp:204`), which open()
  then refuses; the example `--pid 0x0000` (`README.md:95`) is refused by parse_args; the
  write loop does not test `running`, and `--timeout-ms 0` makes a read that may not
  return, against *"both loops to exit cleanly"* (`README.md:25`).
- Tester: a close() that raises on a disconnection leaves the window saying "Connected"
  with the output alone open; messages queued under one connection are sent to the output
  of the next.
- Byte map: bit and hybrid mode send bits on CCs the map takes for bytes; with source
  *Both* a CC overwrites the exact byte of a packet with its lowest bit cleared; a window
  opened while the controller rests is told nothing, because a packet equal to the last
  is not published again.

## 7. What is not modelled, and the plan

A freed handle that is entered is undefined
behaviour and taken as the end of the process or a failed call; so is a callback on destroyed
locals. Which of two matching units resolve_endpoint_types looks at is not kept: they are
one product, and nothing says which it should be. The order of data
races on plain booleans is that of interleaved accesses. Left out for good: the
contents of the packets of the handshake, output on the console, the widgets of
the tester, memory that is lost without a wrong state.

Left out as well: the debug print, print_descriptors, the unused transfers of
UsbDevice, the layout of the byte map, log and counters of the tester.

What the plan has left, in this order:

1. **MidiTester**: the manual test, the values rules send, the log with its limit.
2. **Short transfers** in S4Init, whose length the code records and never reads.
3. **Composition** of Feedback with Bridge: the `up` of Feedback is the guard that
   Bridge takes apart.
