# TLA+ models of the polyrhythmic instrument

This directory holds TLA+ modules for the C++ firmware of the polyrhythmic
hardware instrument, TLC configurations that check them on small instances, and
proofs that TLAPS checks for every value of the constants. Paths are relative to
the root of the repository; `PROJECT.json` lists the runs, the mutants, the
theorems, the hazards and, for every definition, the source lines it stands for.

To check a run: `tlc -workers 2 -config MCAudioPath.cfg MCAudioPath`; to
check proofs: `tlapm AudioEngineProofs.tla`.

## 1. The system

Two processes and four threads that matter, joined by two shared-memory segments:

```
 GUI process (fork, LVGL.cpp)              engine process (main.cpp, App.cpp)
 +-------------------------------+         +-----------------------------------+
 | main loop: pop messages,      |         | main thread: AudioEngine::start() |
 |  carousel, touches, keys -----+---+     |  pop messages, handlers, audio    |
 | reader thread -> MessageQueue |   |     | reader thread -> MessageQueue     |
 +--------------^----------------+   |     | HardwareInputService worker --+   |
                |                    |     +--+-----------------^----------|---+
                |                    |        |                 |          |
         segment AudioToGUI <--------|--------+         segment GUIToAudio |
                                     +------------------------^------------+
```

A segment has one slot of 1024 bytes, one interprocess mutex and **one**
condition variable. `send()` waits (without a timeout) until the slot is free,
copies the message and notifies; the reader thread of the segment's owner waits
100 ms at a time for a full slot, empties it, notifies, and pushes the message to
an unbounded `MessageQueue` that the owner's main loop polls with `tryPop()`.
GUIToAudio has two senders: the GUI's main loop and the hardware worker, which
opens the segment anew for every message.

The engine owns everything musical: 16 instruments, each with a
`PolyRhythmModule` (a *ring*): a list of shapes, the timeline merged from them and
a mask of active points. The GUI keeps copies: a staging area filled between
`POLY_REBUILD` and `POLY_READY`, and for every *set* of four rings a
`PolyRhythmUI` that touches change directly. The engine answers most edits with a
full rebuild (about a hundred messages), toggles with a short answer.

### Inventory

| Component | State | Operations | Interacts by | Must hold | Modelled by |
|---|---|---|---|---|---|
| Channel (`ipc/SharedMemory`) | slot, `data_ready`, `_running`, queue, waiting threads | `send`, reader thread, `tryPop`, stop | the segment, used by two processes | FIFO, nothing lost, no sender asleep on a free slot, reader can be joined | `SharedMemory`, `MessageChannel` |
| Rhythm of a ring (`PolyRhythmModule`) | `_shapes`, `_timeline`, one mask, phase | add, remove, update shape; toggle; rotate; `process` | called by the engine; notes go to the sampler | mask and timeline belong to the shapes; edits can be undone | `PolyRhythm` (not `process`) |
| Engine messages (`AudioEngine.cpp`) | rings, `_selectedRing`, `_selectedPoints`, `_hardwareMode`, `_isPlaying` | one handler per message, `sendFullRebuild`, the playhead | both channels | selection stays in range; an edited ring is the selected one | `AudioEngine` |
| GUI loop and carousel (`LVGL.cpp`, `PolyRhythmCarousel.cpp`) | `_staged`, `_sets`, `_currentSet`, pending selection, animation, mode, `is_playing` | a handler per message, navigation, staging, rebuild | both channels; callbacks of the sets | shows what the engine plays | `PolyCarousel` |
| One set (`PolyRhythmUI.cpp`) | rings, masks, selected points, selected ring, mode, playing flag | touch handlers, setters | callbacks to carousel and IPC | panel, labels and slot agree | `PolyCarousel` |
| Hardware input (`HardwareInputService.cpp`) | debounce times, encoder mode, play flag, offset in the command file | poll, command file, send | GUIToAudio | every press is one command | `HardwareInput`, `HardwareSystem`, `CommandFile`; as a free sender in `PolySystem` |
| Start (`App.cpp`, `main.cpp`, `LVGL.cpp`) | segments, child process, threads | create, open, fork, start, die, start again | everything | a GUI shows its own engine; nobody waits for a peer that is there | `AppStartup` |
| Playing (`PolyRhythmModule::process`, `SamplerModule`, `InputPort`) | phase of each ring, port, pool of voices | one buffer | ports | each point once per cycle; a hit is heard; a sample rings out | `AudioPath`, `Sampler`, `Ports` |
| Audio graph and ports (`AudioGraph.cpp`, `port/`) | modules, connections, links, execution order | add, remove, connect, disconnect, sort | called by the engine | the order is topological; signals go where the list says, or to modules that are gone | `AudioGraph` |
| Commands of the TUI (`AudioEngine.cpp`, `TUI.cpp`, `common/`) | two queues, scope, lists shown | create, delete, connect, disconnect, enter, exit | two `SPSCQueue`s | what is shown is what the scope lists; what is typed goes to an instrument that is there | `EngineSession` |
| Queues (`common/SPSCQueue.hpp`) | buffer, two indices | enqueue, dequeue | engine and TUI threads | a bounded FIFO without a lock | `SPSCQueue`, `BoundedFifo` |
| Instruments (`Instrument`, `VoiceManager`, `Voice`, `ADSRModule`) | pool of voices, active list, stages | note on and off, release, process | event port | a voice is free or active, never both; envelopes do not mix | `Instrument` |
| Event sources (`StepSequencer`, `Arpegiator`, `EventEmitter`) | counters, last note | `process` | event port | notes do not pile up, new ones sound | `InstrumentPath` |
| Audio output (`AudioOutModule`, `RtAudioOutputBackend`, states of `RtApiAlsa`) | ring of frames, stream state | process, write, callback, close | callback thread | frames in order; nobody waits for ever | `AudioOutput` |
| Oscillator, filter, mixer | floating point | `process` | ports | – | no: signal processing |
| ALSA variant, rest of RtAudio, WAV files, JSON configuration | handles | I/O | devices, files | – | no: vendored, not built in, or pure I/O |

### What is hard about it

* Both directions of waiting share one condition variable, and `notify_one` may
  wake the wrong thread.
* Toggles are applied twice: by the GUI at once and by the engine later. Anything
  that rewrites one copy in between separates them.
* Every message may cross messages in the other direction; edits cross rebuilds,
  navigation falls between two messages of a rebuild.
* Selected ring and selected point are kept by the engine, by the carousel and by
  each set, and are moved by touches, the encoder, navigation and raw commands.
* A selected point is an index stored by one message and used by later ones,
  after the shapes have changed.
* A message too long for the slot is refused and the refusal is ignored.
* The child opens the segments the parent creates; either may be restarted, and
  segments outlive both.
* A port gives its events back last in, first out, so that the NOTE_OFF that is
  sent after a NOTE_ON is read before it.
* Three threads share a lock-free queue, a ring of frames and the state of a
  stream, each with its own way of waiting.
* TUI and engine work on lists that the other one has changed since.

`PROJECT.json` lists each such hazard at its line, with the properties that
would show it going wrong, or a note that says why no property can. Left off that
list, since nothing here models them: a command line read before its end was
written; malformed or huge numbers in a raw command (`std::stoi` throws, and
`subdivision + amount` may overflow); the inner loop that handles messages until
there are none before it plays another buffer; `clone()` of a graph, which finds ports
by name and shares them with the original.

## 2. Modules

| Module | Models | Built from |
|---|---|---|
| `MessageChannel` | abstract: a FIFO that loses nothing it accepts and may refuse a message | – |
| `SharedMemory` | one segment with its senders, reader and owner | implements `MessageChannel` |
| `PolyRhythm` | the operators of `PolyRhythmModule` on one ring | – |
| `AudioEngine` | `AudioEngine::start()`: one action per message | extends `PolyRhythm` |
| `PolyCarousel` | GUI loop, carousel and sets: one action per message, touch and key | extends `PolyRhythm` |
| `PolySystem` | engine, GUI and hardware joined by two queues | extends `AudioEngine`, `PolyCarousel` |
| `HardwareInput` | the poll of buttons, knob and potentiometer, and the command lines | – |
| `HardwareSystem` | the hardware service, the engine and the GUI as another sender | extends `AudioEngine`, `HardwareInput` |
| `CommandFile` | a pass over the command file while others write to it | – |
| `AppStartup` | start, death and restart of engine and GUI, with the segments | – |
| `Ports` | events and the input port | – |
| `Sampler` | `SamplerModule` | extends `Ports` |
| `AudioPath` | the engine's loop: messages, then a buffer of rings and sampler | extends `AudioEngine`, `Sampler` |
| `AudioGraph` | the operators of `AudioGraph` | – |
| `EngineSession` | a TUI and the engine's command handlers | extends `AudioGraph` |
| `BoundedFifo` | abstract: a queue with a bound | – |
| `SPSCQueue` | the lock-free queue, load by load | implements `BoundedFifo` |
| `AudioOutput` | output module, back end, callback thread | extends `SPSCQueue` |
| `Instrument` | `Instrument`, `VoiceManager`, `Voice`, stages of `ADSRModule` | extends `Ports` |
| `InstrumentPath` | an instrument with sequencer, arpeggiator and emitter | extends `Instrument` |
| `Lists` | what is kept of a vector | – |
| `MC...` | constants for TLC | extends the module |
| `QueueProofs` (of `SharedMemory`, `SPSCQueue` and `AudioOutput`), `AudioEngineProofs`, `PolySystemProofs`, `AudioPathProofs`, `HardwareProofs` (of `HardwareSystem` and `CommandFile`), `InstrumentProofs` (of `InstrumentPath`), `EngineSessionProofs` (of `AudioGraph` and `EngineSession`) | theorems and proofs | extends the module and `TLAPS` |
| `SequenceLemmas` | lemmas on sequences, recursive functions and queues that the proofs share | – |

**SharedMemory.** An action is one critical section: the code from taking the
mutex to releasing it or to `cond.wait`, which releases it. `pc` says where a
thread stands (`"blocked"` in a wait, `"awake"` after a notification or a spurious
wakeup, `"expired"` after the timeout). `NotifyOne` picks any waiting thread.
`delivered` is a history of what the owner popped. `send(std::vector)` and
`receive()` have no caller and are left out; creating, opening and removing
segments belongs to `AppStartup`.

**PolyRhythm.** A phase is one of `Ticks` instants of a cycle. When every
subdivision in use divides `Ticks`, two points share an instant exactly when the
code merges them, so the sorted, merged timeline is a set of instants. Offsets are
chosen among `Offsets` accordingly. Resizing, toggling and `std::rotate` are those
of the code, out-of-range indices included. No code path sets `euclideanHits` to
more than zero, so every step of a shape is a point.

**AudioEngine.** One action per message, with everything the handler sends. The
answers are appended to the queue in one step, although the engine sends them one
by one: the GUI may take any prefix before it does anything else, nothing but the
engine reads what the handler works on, and the GUI never waits for the engine,
so no outcome is lost. A message that would be longer than the slot is dropped
(`Fits`), as `send` does with its result ignored. `Receives` and `GuiTakes` form
the engine on its own, for properties that need no GUI.

**PolyCarousel.** One action per message, touch or key: the process has one thread
besides the reader. `staged` is the staging area, `sets` holds per set what
`PolyRhythmUI` and `SetSlot` keep. `AnimationEnds` is the end of the sliding
animation, during which navigation is refused and a selection is deferred.

**PolySystem.** Two queues stand for the two channels; that a channel is a queue
is what `SharedMemory` is shown to implement. Two history variables delimit what
holds from what does not: `overtaken` (a point touched, or a navigation key
pressed, while messages are under way, or a `POLY_TOGGLE` sent by the hardware service,
which a `toggle` line of the command file makes it do) and `unannounced` (the engine took
another ring from `POLY_TOGGLE` and has sent no `POLY_SELECT` since). `Settled` means that
nothing is under way in either direction.

**HardwareInput.** Time is counted in polls of 10 ms. The world is part of the
state: `held` and `since` say whether a button is pressed and for how many polls,
`phase` where the knob stands between two rests. For the first `Bounce` polls
after a movement a contact reads either way (`CanRead`). `Poll` is
`pollHardware()`: the knob, its switch, the potentiometer, the pins of the
MCP23017 in ascending order, each with the messages it sends: `PinsHandled` runs
through the pins, `PinClicked` is what one click does to the play state and the mode
that the service remembers. `age` is the time
since `lastEvent`, cut off at the debounce time. `endpoint` says whether the
engine has created its segment: until then every send fails. The encoder's own
debounce time (2 ms) is shorter than a poll and never matters; with a configured
time longer than a poll, fast turns would lose steps, which is not modelled.
`owed` (presses minus clicks) and `lag` (rests passed minus steps) are histories;
they are cut off at 2, beyond what the properties allow.

**HardwareSystem.** One queue to the engine, filled by the service and by the GUI.
The messages of one poll are appended together; no message of the GUI falls
between them. Three histories delimit the properties: `playElsewhere`, `modeSent`
and `shapeElsewhere`.

**CommandFile.** `processCommandFile()` in four steps: sample the size, read a
line, meet the end, store the offset; the writers act between any two. Lines are
appended whole.

**AppStartup.** `main` walks through `App::start()`: the hardware service sends its
mode, starts its worker, the GUI is forked, the engine creates both segments (each
remove, truncate and construction being a step of its own) and loops. `run` is the
start under way, `bound` says which run's memory a name stands for, and each process
has the memory of some run mapped: removing a segment unlinks the name only. `Kill`
ends either process anywhere, also inside a critical section (`LeavesLocked`).
`app.stop()` cannot be reached, since the engine's loop has no end.

**AudioPath.** `Buffer` is one pass of `AudioGraph::process`: each ring turns the points
of its window into NOTE_ON and NOTE_OFF, the sampler empties its port from the back,
plays and frees voices. Time is ticks of a cycle, a buffer lasts `Span` of them and need
not divide the cycle. Samples are measured in grains, of which a buffer has `Grains`.

**Ports, AudioGraph.** A port is a stack. `AudioGraph` keeps, as the code does, the list of
connections, the links held by output ports (a list, in which one pair may occur
twice), and the cached order, computed anew by each edit as the code computes it; names are
compared by the digits they contain, which is what `find` on the name does. Removing a
module takes its connections from the list and disconnects no port, so that links to it
stay (`RemoveModule`, `UnlistedLinks`).

**EngineSession.** The TUI puts a command into one queue at any moment; the engine
takes one between two buffers and answers with lists; the TUI reads them when
it likes. A scope is the number that was typed. `enter` and `getScopedAudioGraph` look for
"instrument_" and that number within names (`StartsWith`), so that `enter 3` is taken with
instrument_31 shown and edits the first such instrument (`ScopedGraph`);
`getScopedParams` looks for the number alone, and casts every module that has it
to an `Instrument` (`ScopedModules`). Reading a module that is none is undefined
behaviour: the engine ends, or it happens to list nothing (`Answer`).
`doubled`, `refused`, `hasty` and `terminated` delimit the properties:
a connection made twice, a full queue, a scope entered with its deletion under way or
from inside another scope, an exception that nothing catches or an invalid cast. The TUI is not started by `main.cpp`; the model is
of the engine with the TUI of the repository attached.

**SPSCQueue, AudioOutput.** One step per load or store of an index and per move of an
item. A slot moved out of is empty, as a `std::unique_ptr` is. The release stores and
acquire loads make each sequentially consistent step a sound reading of the C++ code.
`AudioOutput` numbers frames so that a lost or repeated one can be seen; the callback
thread follows `alsaCallbackHandler` and `RtApiAlsa::callbackEvent`, as far as the
state of the stream decides what it does.

**Instrument, InstrumentPath.** A voice is Free, active or released; what it holds while
inactive is never read and is left out. The two things that a voice shares with the
others, the flag and the note in the context, are set anew for each voice as in the
code. Levels are left out: whether a stage of an envelope ends is a choice. The
sequencer counts samples; arpeggiator and emitter look at the clock, so that they may fire
at any pass.

## 3. What is checked

Passing runs:

| Run | Instance | Properties | States |
|---|---|---|---|
| `channel` | 3 senders x 2 sends, may stop | `NoStrandedSender`, `RefinesFifo`, `SendReturns`, `EventuallyDelivered`, `StopJoins` | 238 821 |
| `audio_path` | 2 rings, all messages, indices in and out of range, 2 voices | `EngineIsSound`, `EditsAreUndone`, `EditSelects`, `OncePerCycle`, `RingsInStepUnlessEmptied`, `HitsAreHeard`, `OneVoicePerNote`, `SamplesRingOut` | 1.0 million |
| `system_edits` | 3 rings in 2 sets; 2 touches (9 kinds), 2 hardware edits (6 kinds) | `SetsConsistent`, `ShapesAgree`, `MasksAgreeUnlessOvertaken`, `SelectionAgreesUnlessUnannounced` | 4.5 million |
| `system_modes` | 3 touches or keys, 2 hardware commands, mode and play | `PlayStateAgrees`, `ModesAgree` | 2.4 million |
| `hardware_inputs` | 1 button, the switch, the knob, 2 pot readings; bounce 2, debounce 3, hold 5 | `OneClickPerPress`, `StepsFollowKnob` | 988 038 |
| `hardware_system` | 2 buttons, 3 pot readings around a deadband, 3 lines, 1 GUI message | `ServiceMirrorsEngine`, `PotSetsShape` | 2.1 million |
| `command_file` | 4 lines, 2 truncations | `NothingSkipped`, `OnceUnlessOverlapping` | 62 010 |
| `startup` | 2 runs, 1 touch, each process may die anywhere | `RingsAreShown`, `NobodyWaitsForever`, `StartsWhenLeftClean` | 226 401 |
| `instrument` | 5 voices, sequencer of 3 steps, 3 sequences for the arpeggiator, emitter | `VoicesAccountedFor`, `NotesDoNotPileUp`, `NotesAreHeard`, `EnvelopeFollowsNote` | 227 169 |
| `session` | 4 commands typed, queues of 3 and 4, nested instruments, scopes by an id or its first digit | `OrdersAreSound`, `SignalsFollowList`, `ShownIsCurrent`, `ScopeIsLive` | 397 637 |
| `audio_output` | queue of 3 slots, ring of 5, buffers of 2, callbacks of 3 | `QueueIsFifo`, `FramesInOrder`, `WriteReturns`, `CloseReturns` | 414 690 |

A type invariant is stated in every module (`TypeOK`, `HardwareTypeOK`, `SessionTypeOK`
...) and holds on these instances; the runs list `EngineIsSound`, of which one is a part, and
leave the others, which say little more than the definitions, to whoever changes a module.

What they show, and what a test would hardly reach:

* `NoStrandedSender`: `cond.wait` in `send()` has no timeout, so a lost wakeup
  would hang the engine. Whatever thread `notify_one` picks, and whatever wakes
  spuriously, a sender asleep on a free slot has another sender awake beside it
  that is about to test the slot.
* `RefinesFifo`: slot, queue and threads together are a FIFO channel.
* `SendReturns`, `EventuallyDelivered`, `StopJoins`: a waiting `send()` comes
  back, a message in the slot reaches the owner, the reader can be joined. The
  second and the third rest on the 100 ms timeout of the reader: without it
  (a mutant) a notification that woke the other sender would leave the message
  in the slot.
* `EngineIsSound`, `EditSelects`, `EditsAreUndone`: after any sequence of messages
  mask and timeline belong to the shapes, stored point indices are valid, an edited
  ring is the selected one, and adding a shape, rotating and toggling can be taken
  back exactly.
* `OncePerCycle`, `RingsInStepUnlessEmptied`, `HitsAreHeard`, `OneVoicePerNote`,
  `SamplesRingOut`: whatever is edited between two buffers, the window neither skips a
  point nor plays it twice, the rings stay in step (but for one that was empty for a
  while, which falls behind), a hit finds a voice in a pool of as many as there are
  rings, and a sample is cut by the next hit of its own ring only. The last two rest on
  the port that is read from its end, against what the code says of the NOTE_OFF (below).
* `SetsConsistent`: every set has a mask, a selected point and a selected ring
  that fit what it shows, also half-way through a rebuild.
* `ShapesAgree`, `MasksAgreeUnlessOvertaken`, `SelectionAgreesUnlessUnannounced`,
  `PlayStateAgrees`, `ModesAgree`: once nothing is under way, both ends agree.
* `OneClickPerPress`, `StepsFollowKnob`: whatever is read while a contact bounces, a
  press of a button of the MCP23017 is one click, and the knob is followed.
* `ServiceMirrorsEngine`, `PotSetsShape`: what the service remembers (play state,
  mode, subdivision) agrees with the engine once the queue is empty, also when a send
  was refused, as long as nobody else changes the same thing.
* `NothingSkipped`, `OnceUnlessOverlapping`: storing the size from before the pass is
  what keeps lines from being missed; its price is that a line written during a pass
  may come twice. (`LinesAreHandled`, liveness, holds on the same instance.)
* `RingsAreShown`, `NobodyWaitsForever`, `StartsWhenLeftClean`: a GUI that has the
  segments of the running engine open gets and shows its rings; engine, GUI and worker,
  which wait without a timeout, do not wait for ever while the reader on the other side
  lives; a start that finds a clean segment goes through. What they except is as telling:
  a GUI that opens the segment between its truncation and its construction loses its
  request; an engine without a GUI blocks at its second answer; a segment left with a
  full slot makes the next start hang (below).
* `VoicesAccountedFor`, `NotesDoNotPileUp`, `NotesAreHeard`, `EnvelopeFollowsNote`: no voice
  is lost or used twice, at most one voice is held per note of a source (a hit of the
  sequencer is held until the next one of its track), a new note
  sounds (five voices are the least for which that holds here), and the envelope of a
  voice follows its own note although all share one context.
* `OrdersAreSound`, `SignalsFollowList`, `ShownIsCurrent`, `ScopeIsLive`: the execution
  order of every graph is topological and empty on a cycle; signals go along listed
  connections and, unless a pair was connected twice, along all of them; whatever else
  they go along leads to a deleted module, and never to one that is there; the TUI ends
  up showing what the scope it is in lists, and what is typed there goes to an
  instrument of the engine's graph, to the one that was named if there is one. Not so in a
  scope whose list casts a module that is no instrument.
* `QueueIsFifo`, `FramesInOrder`, `WriteReturns`, `CloseReturns`: queue and ring lose and
  reorder nothing where they wrap; the engine is not left in a full ring, nor in the
  join of a callback thread that waits on a stream that never started.

Each property of a passing run has a mutant in `PROJECT.json`: an operator beside
the original in the module, marked `mutant`, that changes it the way a plausible
bug would; with it in place of the original TLC finds the property violated.

### Disagreements between the code and what it says

`delete_by_id` checks what AudioGraph.hpp:46 says of `removeModule`
(`DeletesWhatIsNamed`) and ends with a counterexample: a module is found by the digits its
name contains, so that with no `sampler_1` left `delete 1` removes `poly_rhythm_10`.

The others that are known have no run of their own; a small change of a cfg, the
property added to it, shows each:

| Property, and where TLC refutes it | What happens |
|---|---|
| `ServiceIsNotHeldUp` in `AppStartup.cfg` | the service opens the segment left by the last run ("Audio endpoint may not be available yet"); when its slot is full nobody ever empties it and `App::start` waits for ever |
| `MasksAgree` in `MCPolySystemEdits.cfg` | a dot touched between `POLY_REBUILD` and `POLY_READY` is toggled in the set, overwritten by the mask staged before, and toggled in the engine: it shows one state and plays the other; so does a `toggle` line of the command file, which the engine takes for the GUI's own and does not send back (AudioEngine.cpp:522-535) |
| `SelectionAgrees` in `MCPolySystemEdits.cfg` | touching a dot of another ring selects that ring in the engine only: encoder and shape panel then edit different rings |
| `InitialModeArrives` in `MCHardware.cfg`, with `HardwareSystemFairSpec` | the mode "pending" at start is never sent again: the service is in mode toggle and the engine in mode rotate |
| `HandledOnce` in `CommandFile.cfg` | a line appended during a pass is handled by that pass and by the next |
| `SelectedPointAgrees` in `MCPolySystemEdits.cfg` | `POLY_SELECTED_POINT` is sent before `POLY_READY` (AudioEngine.cpp:317), whose handling sets every selected point to 0 |
| `PlayheadsMove` in `MCPolySystemModes.cfg` | `PLAY` handled before the first `POLY_READY`: the sets are created afterwards with a playhead that never moves (PolyRhythmCarousel.cpp:237) |
| `ShapesAgree` in `MCPolySystemEdits.cfg` with `MaxTimelinePoints = 3` | `POLY_RING_TIMELINE` longer than the slot is refused (with the real figures, from 112 points on, e.g. shapes of 4, 32, 31, 29 and 27) and the ring shows no points |
| `HitsAreShort` in `MCAudioPath.cfg` | "NOTE_OFF — short hit" (PolyRhythmModule.cpp:289): the NOTE_OFF a quarter of a buffer after its hit is read before it, from the back of the port (InputPort.cpp:21), and its offset by nobody; it ends the hit before, and every sample rings out (`SamplesRingOut`, which holds). Were the port read in order, no hit would sound at all |
| `ScopeIsNamed` in `MCEngineSession.cfg` | "Scope id ... not found" (TUI.cpp:282) is the answer to an id that is no instrument's, but `enter 3` is taken with instrument_31 shown: what is typed then goes to the first instrument whose id begins so, while the list shows the modules of all whose name has a 3 and casts modules that are none. In the program as `AudioEngine` builds it, ids 1 to 18 belong to modules that are no instruments, so that the cast is undefined after every `enter` with one of the digits 1 to 9 alone |
| `SwitchClicksOnPress` in `MCHardwareInput.cfg` | the switch of the knob sets its last event on clicks only (HardwareInputService.cpp:858): held for longer than the debounce time, its bounce on release is another click |

Met while modelling, without a property: `disconnect` of ports that are not connected
throws through the engine's loop and ends it (AudioGraph.cpp:164, AudioEngine.cpp:736;
`terminated` in `EngineSession`); `removeModule` leaves the links to the removed module
(AudioGraph.cpp:96-129), so that modules before it go on sending into its port, which nobody
reads and which grows for ever; a connection that closes a cycle silences the whole
graph; a note that the arpeggiator repeats is silenced by its own NOTE_OFF; an empty
sequence leaves the last note on; without an `instrument_audio_out` voices are never freed.

### Bounds, and why they are enough

* Channel: a lost wakeup needs at most a sender waiting, another one that takes
  its notification, and the reader; three senders cover one more than the program
  has. Symmetry would be unsound for liveness and is not used. Two sends per
  sender let a thread come back while the others still wait.
* Audio path: two rings distinguish the selected one from another, and one hit from
  another's sample; rings of zero points occur. A buffer of 3 ticks in a cycle of 4 wraps at
  every position. One sample lasts two buffers, the other ends within one. The
  length limits are within reach (`MaxTimelinePoints`), so that the refused message occurs.
  `MaxShapes` is 1 here: timelines merged from several shapes are what the theorems of
  `AudioEngineProofs` cover for any number, and `system_edits` has two.
* System: three rings in sets of two give a full set, a partly filled one and
  navigation between them. `MaxTouches` and `MaxCommands` bound what the user
  and the hardware do; each of them takes place at any moment, so two or three
  suffice for an edit to cross another edit, its rebuild and a navigation. One
  `POLY_PLAYHEAD` is under way at a time.
* Hardware: `Bounce` 2 is the least for which a bounce can fall and rise between
  polls, `Debounce` 3 is one more, `MinHold` their sum, which is the least for which
  `OneClickPerPress` is claimed (`HardwareAssumption`): a button released earlier,
  while its own debounce time ends, may click twice. The composed runs take
  contacts that do not bounce (`Bounce` 0), since `hardware_inputs` has shown what
  bouncing does, and `hardware_system` leaves the knob and its switch alone
  (`Ways`, `Movable`): their messages change neither play state nor mode, and void
  `PotSetsShape`. A message may be under way when a poll, a line or the GUI adds its
  own (`MaxPending` 2), so commands and GUI messages cross.
* Command file: four lines are more than one pass, an overlapping write and a pass
  after it need; two truncations give one before and one during a pass.
* Start: two runs have every pair of an old and a new process; a third adds nothing that
  could be open. One touch suffices for both sides to send at a time (`MaxTouches`). The
  last run is not killed, or nothing could be asked of it.
* Instrument: two steps in a row and a rest, three sequences (two notes, one, none), one
  emitter: the most notes that can be on at a time, and one voice fewer is too few.
* Session: four commands fill the queue of three; every answer is two lists, and the
  queue of four holds two. The ids 1, 10, 19 and 20 of the
  first graph contain each other's digits; new modules are 31 and on, so that `enter 3`
  names every instrument by its first digit and lists, and casts, filters that are made as well.
* Output: sizes of which none divides another, so that every wrap occurs; `Buffers`
  is the least for which frames in the ring can be told apart. `CallbackFrames <= Capacity`
  is assumed: otherwise no callback would read and `write()` would wait for ever.
* The system runs use `CHECK_DEADLOCK FALSE` because the budget of touches and
  commands runs out; `channel` because it ends once every sender has
  made its calls or the reader was stopped; `startup` because a GUI left by itself waits for
ever, as the code has it; `session` because the budget of commands runs out; `audio_output`
because it ends with the stream closed. `audio_path`, `instrument` and the hardware runs
check deadlock.

### Fairness

Channel, start-up and audio output state liveness.
Channel: weak fairness of `SenderResumes`, of the
reader's steps and of `TryPop`: the scheduler runs a thread that can run, a mutex
is not withheld for ever, the owner's loop polls. Strong fairness of
`ReaderTimesOut`: the 100 ms of `timed_wait` are an absolute deadline, which a
wakeup with a false predicate does not push back, so a reader that waits again
and again times out. There is no fairness for starting a send, for spurious
wakeups or for stopping. `SendReturns` is shown under finitely many competing
calls (`MaxSends`): the code gives a waiting sender no precedence over new ones.
Start-up: weak fairness of the main thread, of the engine's and the GUI's readers, of the
worker and of every GUI: threads that can go on do; none for dying, starting, or touching. A
sender that waits for a slot is not enabled until a reader has emptied it, so the fairness
does not hide a wait. Output: weak fairness of the engine's thread and of the callback
thread, which a device error does not end; none of the TUI, on which nothing depends.
The other runs state safety only; `CommandFile` and `HardwareSystem` state the fairness of
their loops for the properties named above.

## 4. What is proved

Every theorem holds for all values of the constants that its assumptions admit; tlapm
checks every leaf. Each safety property below is proved from an inductive invariant;
the property, and the invariant where TLC can evaluate it, was checked first on the
instance of the run.

`QueueProofs`, first of `SharedMemory`, for any set of senders, any number of sends,
stopping or not, from `ChannelAssumption` (the reader is not a sender, the bound is a natural
number):

* `TypeCorrect`. `TypeOK` is inductive. Two of its parts say more than a type: a
  full slot holds a message, and a sender inside `send()` has begun a call. The
  refinement rests on both.
* `NoSenderIsStranded`. Only `TakeSlot` frees the slot, and at that moment the
  reader itself is not waiting, so its one notification goes to a sender if one
  waits; a sender leaves `"awake"` only by filling the slot or by finding it full.
* `ImplementsFifo`. With `channel` the queue followed by a full slot, filling the
  slot is `Accept`, an oversized message is `Refuse`, popping is `Deliver` and
  every other step is a stutter. This is what entitles `PolySystem` to use queues.

`AudioEngineProofs`, for any number of rings, any cycle and any `Inbox` of
commands, from `RhythmAssumption` and `EngineAssumption`:

* `TypeCorrect`, `MasksAlwaysFit`, `SelectionStaysInRange`. None of the three is
  inductive alone: a selected point stays in range because the mask fits, and
  toggling keeps its type because the index is in range. The inductive invariant
  is their conjunction, written ring by ring (`Sound`); there is one lemma per
  operator of `PolyRhythm` (it returns a sound ring) and one per message
  (`...Keeps`). The conjunction is `EngineIsSound`, which `audio_path` checks and
  `EngineIsAlwaysSound` states.
* `EditsAlwaysSelect`, from the same lemmas, which also state that a step that
  changes ring `r` ends with `r` selected.
* `EditsCanBeUndone`, from `Sound` and the lemmas that adding a shape and removing
  the last one, rotating by `k` and `-k`, and toggling twice give a sound ring
  back. It needs `Sound`: on a mask longer than its timeline it is false.

Its lemmas `HandlePlays`, `HandleModes` and `HandleShapes` say, for any message, what a
handler does to the play state, the mode and the shapes, and what it tells the GUI of
them; the modules that compose the engine with others cite them.

`PolySystemProofs`, for any number of rings, sets, touches and commands of the hardware,
from the assumptions above, `CarouselAssumption` and `SystemAssumption`:

* `CarouselIsConsistent` (`SetsConsistent`). A set that the engine's messages fill is
  consistent only if what is staged is, and what is staged comes out of the queue: the
  invariant `SystemSound` adds that every message under way either way and every staged
  ring is of its type, and that the rings a set shows have masks as long as their timelines.
* `PlayStatesMeet` (`PlayStateAgrees`). Several `PLAY_STATE` and `POLY_PLAYHEAD` messages
  may be under way one way and several `PLAY` and `PAUSE` the other. `PlayInv` says what
  the GUI will believe once all of them have been handled: the last `PLAY` or `PAUSE` under
  way decides; with none, the last `PLAY_STATE`; with neither, both ends agree already.
* `ModesMeet` (`ModesAgree`), by the same argument on `POLY_HW_MODE` (`ModeInv`), with
  one more case: a touch changes the mode of the centre set only and relies on the echo of
  the engine for the others.

The second half of the module is about agreement. `SystemAssumption` has a part that only
these proofs need: the rings fit in the sets, as the 16 rings of `AudioEngine.cpp` do in the 5 sets
of 4 of `PolyRhythmCarousel.hpp`.

* `RingsAreShownAsSent`, and from it `ShapesMeet` (`ShapesAgree`). The invariant `ShapesInv`
  says what the GUI would show were it to handle all that is under way. Either the
  `POLY_READY` of a rebuild is among it with no other rebuild behind (`Told`); then the
  messages in front of it, from the staging area as it is or from the last `POLY_REBUILD`
  on, lead to the rings of the engine (`Fills`, the relation `Leads` of `SequenceLemmas`).
  Or none is; then that is what is drawn (`Drawn`, `Layout`). On the side of the engine,
  `HandleTells` shows for every message that it is answered by a whole rebuild, or by
  nothing about rings and with their outlines unchanged. On the side of the GUI, whatever
  is touched or navigated leaves what is drawn alike but for masks; a navigation between
  two messages of a rebuild refills two sets from the staging area, which matters only once
  the area is whole again. `sendMessage` refuses a timeline that does not fit in the slot and
  `POLY_READY` comes all the same: such a ring is shown without a timeline, and `ShapesMeet`
  needs `TimelinesFit`, which the run meets by its figures.
* `SelectionsMeet` (`SelectionAgreesUnlessUnannounced`). `ChoiceInv` adds that the last
  `POLY_SELECT` under way names the engine's ring and, when there is none, the pending ring
  of the carousel is that one (`Announced`); that the GUI has no sets before it has got a
  `POLY_SELECT`, because in a rebuild that message is in front of the `POLY_READY`
  (`SelectsFirst`); and that the centre is at the pending ring when nothing that chooses is
  under way either way (`ChoiceKnown`). That the engine is asked by `POLY_SET_SELECTED_RING`
  whenever the GUI chooses a ring by itself, and answers each by a `POLY_SELECT`, closes the
  circle. `ShapesInv` is needed: a `POLY_SELECT` chooses only a ring that is drawn.
* `MasksMeet` (`MasksAgreeUnlessOvertaken`). The invariant `MaskInv` follows each mask through
  the `POLY_TOGGLE` messages under way (`Flips`, again a case of `Leads`): from what a rebuild
  under way will have staged (`MasksTold`), or from what is shown (`MasksDrawn`), they lead to the
  engine's mask. While the engine has yet to hear of a touch, the only `POLY_TOGGLE` for it is at
  the head of its queue, nothing under way to the GUI concerns masks, and the GUI is ahead by that
  point (`MasksAsked`). `HandleReports` shows for every other message that it is answered by a
  whole rebuild, or by the flips that the engine made itself. A navigation copies the masks
  shown back to the staging area, which is why it changes none (`NavigateShown`). As for
  `ShapesMeet`, a mask or a timeline too long for the slot is left out (`MasksAreSent`).

`AudioPathProofs`, all eight properties of the run `audio_path`, from
`AudioPathAssumption`, of which the proofs use that there are no fewer voices than rings:

* `SoundWhilePlaying`, `UndoneWhilePlaying`, `SelectedWhilePlaying` carry the engine's
  theorems over to the loop that also plays.
* `PointsFoundOncePerCycle`. The points that a ring sent in the running cycle are those
  between the start of the cycle and its position, and the window of a buffer meets each
  instant once although it wraps.
* `RingsKeepInStep`, `NotesHaveOneVoice`, `HitsAlwaysHeard`, `SamplesAlwaysRingOut`. The
  invariant `PathSound` says of the pool that the voices in use belong to different notes
  and that the list of active voices is the pool seen from the other side; since a buffer
  is a fold over the events of its port, it is proved of one event and carried over the
  port by `StepByStep` of `SequenceLemmas`.

`HardwareProofs`, from `HardwareAssumption` (the bounce is shorter than the
debounce time, a contact stays for both, and the MCP23017 has sixteen pins) and
`SendersAssumption` (GUI and command lines send what the engine knows):

* `PressesAreClicks`. A button is either moved and unnoticed, its readings still
  the old one and its debounce time over (`Unnoticed`), or noticed, and then the rest
  of its bounce falls within the debounce time and the next movement after it
  (`Noticed`). The disjunction is inductive; no bound on debounce or bounce.
* `KnobIsFollowed`. The phase seen last, the direction and the steps not yet
  accounted for determine `lag`.
* `ServiceAlwaysMirrors` (`ServiceMirrorsEngine`), `PotAlwaysShapes` (`PotSetsShape`).
  The last message of a kind that is under way tells what the engine will do, and it is
  what the service remembers; a poll appends the messages of all pins, in turn
  (`MirrorInv`). That a refused send changes nothing is used at every pin.

The same module proves of `CommandFile`, for any number of lines and truncations:

* `FileTypeCorrect`; `NoLineIsSkipped`, from the invariant that the lines before
  the offset (between passes) or the position (during one) are handled and that
  the sampled size is not ahead of the position at the end of a pass.
* `OnlyLateLinesComeTwice` (`OnceUnlessOverlapping`): a line handled beyond the offset was
  appended after the size was sampled, as long as the file was never truncated (`OnceInv`).

The same module proves of `SPSCQueue` and `AudioOutput`, for any size of the queue, the
ring, the buffers and the callbacks, from `SizeAssumption`, `NothingAssumption` and `AudioOutputAssumption`:

* `QueueIsSafe`, from `QueueIInv`: what a thread found when it looked at the other's index
  stays so, because the other can only make room or add an item; hence they never work
  on one slot, and what is published holds an item.
* `QueueImplementsFifo`, `EventsAreFifo`. An item is in the FIFO from the store of `head` to
  the store of `tail`; the four steps between are stutters. The second carries it to
  the queue between the engine and the TUI.
* `FramesPlayedInOrder`, from `RingIInv`: the next frame to be written follows the last one
  in the ring wherever the engine is, and `writeIndex` is `readIndex` plus what is available.
  The core is `ChunkLands`: a chunk, in two parts where it wraps, lands behind what is
  read and takes no place of it. Modulo is folded into `InRing` and `Id`, of which the
  proof uses that they wrap once.

`InstrumentProofs`, for any number of voices and samples, any tracks and any sequences of the
arpeggiator, from `InstrumentAssumption` and `InstrumentPathAssumption`:

* `VoicesAlwaysAccountedFor` (`VoicesAccountedFor`). At the end of a pass a voice that was
  given back may still be listed; `removeInactiveVoices` at the start of the next one makes
  the list exact (`ListedOnly`), before a NOTE_ON hands out a free voice. `Follows` carries
  that over the events of the port, `Outcome` over the loop of the voices, in which each
  voice is processed once because the list has no doubles.
* `EnvelopesFollowNotes` (`EnvelopeFollowsNote`). The stages that a buffer can lead to
  (`AfterBuffer`) are described sample by sample (`EnvelopeGoesOn`); a voice that is active
  after the pass was either active before, with the same stage when its graph is processed,
  or starts with its envelope off.
* `NotesNeverPileUp` (`SourcesApart => NotesDoNotPileUp`). `NotesInv` bounds the voices held for
  every note by `Most`: one for a track, one for the emitter while it is on, one for the
  arpeggiator's last note, none for any other. The port is read from its end; `Reads` carries a
  relation over it in that order (`ReadsBoth`), so that what a module sends is described by itself
  (`StepHolds`, `ArpHolds`, `EmitterHolds`) and the port by putting these together
  (`PortHolds`). `SourcesApart` says that the three sources send different notes: with a note in
  common, one may end or double what another started.
* `NotesAlwaysHeard` (`SourcesApart /\ EnoughVoices => NotesAreHeard`). A NOTE_ON is heard when
  a voice is free. `EnoughVoices` asks for a sink (without one no voice is ever given
  back) and for 2 voices per track and 3 more, which the instance of the run has
  exactly: by `NotesInv` each track holds at most one voice, emitter and arpeggiator another two
  (`PlayingCounts`), and a pass takes one for each track, the arpeggiator and the
  emitter (`PortTakes`). Where two steps of the sequencer fall into a pass it is the first one,
  when nothing plays yet and the arpeggiator is silent (`RoomLeft`).

`EngineSessionProofs`, for any ids of at most two digits that come with their first digits, queues of any length, any number of
commands, from `EngineSessionAssumption`. Of the graph it assumes `PutTogether`: what
`AudioEngine` builds by `addModule` and `connect` before the TUI starts, nothing in it twice.

* `OrdersAlwaysSound` (`OrdersAreSound`). The core is Kahn's algorithm. `KahnInv` says that
  `inDegree` of a module is the number of edges into it from modules not yet sorted, that a
  module is sorted or in the queue exactly when that number is 0, that none is so twice, and that
  what is sorted comes behind what feeds it. It does not hold within the loop over the
  neighbours, where the edges handled so far are counted out one by one (`Meeting`). As many
  steps as there are modules empty the queue (`KahnEnds`); modules left over then feed one
  another (`SortIsSound`), which is why the code throws and the order is empty. Every operation on a
  graph ends with the sort, and the modules it sorts are distinct since a new id is new: it is
  beyond all ids in graphs and links (`Older`), and enough of them are left for the commands
  under way (`IdsSuffice`).
* `SignalsAlwaysFollowList` (`SignalsFollowList`). A pair not in `doubled` is listed at most
  once (`Carries`); without that, removing one of two would leave the other without a signal.
  The other direction is that a link between two modules of a graph is listed
  (`LinksListed`), that no graph has a module to which another one sends (`Separate`),
  and that a module which is gone stays gone:
  ids are never given twice (`Older`), so that no link can come to lead to a present
  module by a later creation.
* `ShownAlwaysCurrent` (`ShownIsCurrent`). For each kind of list (`ShownInv`): either the TUI
  has asked for it and nothing behind the request is for another scope (`Requested`), or all
  commands under way are for the scope the TUI is in, and the last list under way, or the one
  on the screen if there is none, is the current one (`Known`). A command that changes a
  graph sends both lists; one that fails changes nothing. The lists are those of the scope as a
  number that may be only the first digit of ids (`ListNow`); what an edit of one graph
  leaves of the lists of such a scope follows from its modules alone (`SameModules`). An
  engine that was ended, and a scope whose list casts a module that is no instrument, are excepted.
* `ScopeAlwaysLive` (`ScopeIsLive`). While no scope was entered too early, all commands under
  way are for the scope the TUI is in, some instrument of the engine's graph answers to it
  (`StandsFor`), and no command for an instrument's graph deletes an instrument of the
  engine's (`LiveInv`). What lets the scope be entered is `ShownInv`: with nothing under way,
  what is on the screen is there. Instruments have two digits (`TypesKnown`), so that the id
  of one names it and no other, while a first digit may come to stand for the next one.

`SequenceLemmas` states once what these proofs share. Induction is by the least number
with a property (`LeastNumber`), since the induction theorems of the library take an
operator as a parameter; `UpTo`, `Runs` and `StepByStep` are its forms for a position in a
sequence and for a recursive function over one; `FlattenSeq` is described by its pieces; what `Keep` leaves of
appended, joined and shortened sequences, and how many, is stated once (`KeepAppended`,
`KeepParts`, `FirstGoes`, `CountDistinct`...); and
`None`, `EndsIn` say which message of a kind is the last in a queue, and what appending and
taking the head do to it; `Leads` says what handling a queue, message by message, may end in.

Only model-checked: all liveness (outside the reach of the prover), and
`AppStartup`, whose theorems would say little more than its runs, since it has no
parameter but the number of starts.

## 5. What is not modelled

Within the modelled components: BPM, instrument names and colours, layout and
drawing, logging; the position of the playhead; phases rounded to six decimals in
`POLY_RING_TIMELINE` (a set of instants crosses the channel unchanged); overflow
of `int` in `subdivision + amount`; devices that fail while polled (but for the
potentiometer, which may be unreadable at any poll); malformed messages, on which `std::stoi`
throws; `clone()` of a graph (AudioGraph.cpp:28-70) and `SetParameterCommand` except for
the note sequence of the arpeggiator; levels, velocities and mixing; the offset of an
event within its buffer, which no module reads.

Not modelled at all: oscillator, filter and mixer (floating-point signal processing,
no control to speak of); WAV and JSON input (pure I/O, the latter without a caller); the
ALSA back end that is not built in; widgets of the TUI. About half of the C++ lines in the repository are not the program's own and stay out:
`RtAudio.cpp` and `RtAudio.h` (12 500 lines; the states of a stream are in
`AudioOutput`) and three copies of LVGL's `lv_conf.h` (4 500 lines of
macros). What the modules map is to be read against the remaining 14 000.

## 6. Plan

1. `HardwareSystem` in place of the free `Commands` of `PolySystem`; partial lines
   in `CommandFile`; messages of the GUI between those of one poll.
2. `clone()`: a voice's graph as a copy that shares ports; `SetParameterCommand` on it.
3. `Bjorklund`, checked against its reference definition, although the running program
   never asks for more than zero hits.
