---------------------------- MODULE AudioOutput ----------------------------
(***************************************************************************)
(* The end of the audio path.  AudioOutModule::process, on the engine's    *)
(* thread, puts an AudioWaveEvent for each buffer into the queue that the  *)
(* TUI's thread empties (SPSCQueue), then writes the buffer to the ring of *)
(* RtAudioOutputBackend and waits there while it is full.  The callback    *)
(* thread of RtAudio (RtApiAlsa) reads the ring.  The module's stream is   *)
(* opened by its constructor and closed when the module is deleted.        *)
(***************************************************************************)
EXTENDS SPSCQueue, FiniteSets

CONSTANTS
  Capacity,        (* _bufferSizeFrames: 8192                             *)
  WriteFrames,     (* frames of an audio buffer: 512                      *)
  CallbackFrames,  (* frames of a callback: 512                           *)
  Buffers          (* bound: buffers are counted modulo this              *)

ASSUME AudioOutputAssumption ==
  /\ Capacity \in Nat \ {0} /\ WriteFrames \in Nat \ {0} /\ Buffers \in Nat \ {0}
  /\ CallbackFrames \in 1 .. Capacity   \* or no callback would ever read
  /\ Item = 0 .. Buffers - 1
  /\ Buffers * WriteFrames > Capacity   \* frames of the ring can be told apart

VARIABLES
  engine,     (* where the engine's thread is                             *)
  number,     (* of the buffer that it processes                          *)
  left,       (* framesToWrite                                            *)
  ring,       (* _ringBuffer: numbers of frames                           *)
  writeIndex,
  readIndex,
  available,  (* _availableData                                           *)
  heard,      (* number of the last frame that was played                 *)
  streamOpen, (* _streamOpen                                              *)
  stream,     (* stream_.state of RtAudio                                 *)
  runnable,   (* of its AlsaHandle, with runnable_cv                      *)
  isRunning,  (* of its callbackInfo                                      *)
  callback    (* where the callback thread is                             *)

engineVars == <<engine, number, left>>
ringVars == <<ring, writeIndex, readIndex, available, heard>>
streamVars == <<streamOpen, stream, runnable, isRunning>>
audioVars == <<queueVars, engineVars, ringVars, streamVars, callback>>

FrameIds == Buffers * WriteFrames
RingIndex == 0 .. Capacity - 1
Least(a, b) == IF a <= b THEN a ELSE b

(* The constructor has called openStream, which has made the thread.       *)
AudioInit ==
  /\ QueueInit
  /\ engine = "starting"
  /\ number = 0
  /\ left = 0
  /\ ring = [i \in RingIndex |-> 0]
  /\ writeIndex = 0
  /\ readIndex = 0
  /\ available = 0
  /\ heard = FrameIds - 1
  /\ streamOpen = FALSE
  /\ stream = "STOPPED"
  /\ runnable = FALSE
  /\ isRunning = TRUE
  /\ callback = "loop"

-----------------------------------------------------------------------------
(* RtAudioOutputBackend::open: startStream.  When it cannot prepare the    *)
(* device, the constructor throws and the backend is closed again.         *)
StartStream ==
  /\ engine = "starting"
  /\ runnable' = TRUE
  /\ \/ stream' = "RUNNING" /\ streamOpen' = TRUE /\ engine' = "process"
     \/ engine' = "closing" /\ UNCHANGED <<stream, streamOpen>>
  /\ UNCHANGED <<queueVars, number, left, ringVars, isRunning, callback>>

(* AudioOutModule::process: the event, whether or not there is room.       *)
Writes == engine' = "write" /\ left' = WriteFrames /\ UNCHANGED number

EmitIsRefused == engine = "process" /\ EnqueueRefuses /\ Writes
EmitBegins ==
  engine = "process" /\ EnqueueBegins(number) /\ engine' = "emit" /\ UNCHANGED <<number, left>>
EmitMoves == engine = "emit" /\ EnqueueMoves /\ UNCHANGED engineVars
EmitStores == engine = "emit" /\ EnqueueStores /\ Writes

Emit ==
  /\ EmitIsRefused \/ EmitBegins \/ EmitMoves \/ EmitStores
  /\ UNCHANGED <<ringVars, streamVars, callback>>

(***************************************************************************)
(* write: under the mutex, as many frames as there is room for, in two     *)
(* parts when they wrap; then again, until all are written.                *)
(***************************************************************************)
Room == Capacity - available
ChunkUnbounded == left  \* mutant: the room is only checked before
Chunk == Least(left, Room)
FirstPart == Least(Chunk, Capacity - writeIndex)
Frame(i) == number * WriteFrames + (WriteFrames - left) + i

Copied ==
  [j \in RingIndex |->
     IF j \in writeIndex .. writeIndex + FirstPart - 1 THEN Frame(j - writeIndex)
     ELSE IF j < Chunk - FirstPart THEN Frame(FirstPart + j)
     ELSE ring[j]]

CopiedUnsplit ==  \* mutant: the second part begins with the source again
  [j \in RingIndex |->
     IF j \in writeIndex .. writeIndex + FirstPart - 1 THEN Frame(j - writeIndex)
     ELSE IF j < Chunk - FirstPart THEN Frame(j)
     ELSE ring[j]]
RingAfterWrite == Copied

WriteChunk ==
  /\ engine = "write"
  /\ available < Capacity
  /\ ring' = RingAfterWrite
  /\ writeIndex' = (writeIndex + Chunk) % Capacity
  /\ available' = available + Chunk
  /\ left' = left - Chunk
  /\ IF Chunk = left
     THEN engine' = "process" /\ number' = (number + 1) % Buffers
     ELSE UNCHANGED <<engine, number>>
  /\ UNCHANGED <<queueVars, readIndex, heard, streamVars, callback>>

(* _cvBlockWrite.wait: the condition is looked at before and after.        *)
WriteWaits ==
  /\ engine = "write"
  /\ available = Capacity
  /\ engine' = "waiting"
  /\ UNCHANGED <<queueVars, number, left, ringVars, streamVars, callback>>

(* DeleteModuleCommand, between two buffers: ~AudioOutModule.              *)
DeleteModule ==
  /\ engine = "process"
  /\ producing = "idle"
  /\ engine' = "closing"
  /\ UNCHANGED <<queueVars, number, left, ringVars, streamVars, callback>>

(* closeStream: the flag, the signal under the mutex, the join.            *)
CloseSetsFlag ==
  /\ engine = "closing"
  /\ isRunning
  /\ isRunning' = FALSE
  /\ UNCHANGED <<queueVars, engineVars, ringVars, streamOpen, stream, runnable, callback>>

CloseSignals ==
  /\ engine = "closing"
  /\ ~ isRunning
  /\ runnable' = (runnable \/ stream = "STOPPED")
  /\ engine' = "join"
  /\ UNCHANGED <<queueVars, number, left, ringVars, streamOpen, stream, isRunning, callback>>

CloseJoins ==
  /\ engine = "join"
  /\ callback = "ended"
  /\ stream' = "CLOSED"
  /\ streamOpen' = FALSE
  /\ engine' = "closed"
  /\ UNCHANGED <<queueVars, number, left, ringVars, runnable, isRunning, callback>>

EngineStep ==
  StartStream \/ Emit \/ WriteChunk \/ WriteWaits \/ DeleteModule
    \/ CloseSetsFlag \/ CloseSignals \/ CloseJoins

-----------------------------------------------------------------------------
(* alsaCallbackHandler and RtApiAlsa::callbackEvent.                       *)
CallbackLoops ==
  /\ callback = "loop"
  /\ callback' = IF isRunning THEN "event" ELSE "ended"
  /\ UNCHANGED <<queueVars, engineVars, ringVars, streamVars>>

CallbackEvent ==
  /\ callback = "event"
  /\ callback' = IF stream = "STOPPED" THEN "wait" ELSE "call"
  /\ UNCHANGED <<queueVars, engineVars, ringVars, streamVars>>

MayGoWhenRunning == runnable /\ stream = "RUNNING"
  \* mutant: goes on waiting for a stream that is not started
MayGo == runnable

CallbackWaits ==
  /\ callback = "wait"
  /\ MayGo
  /\ callback' = IF stream = "RUNNING" THEN "call" ELSE "loop"
  /\ UNCHANGED <<queueVars, engineVars, ringVars, streamVars>>

(***************************************************************************)
(* audioCallback: silence when there is less than it needs; it notifies    *)
(* the writer in any case.                                                 *)
(***************************************************************************)
NotifiesWhenEmpty == available' = 0  \* mutant: the writer is only woken by an empty ring
Notifies == TRUE

AudioCallback ==
  /\ callback = "call"
  /\ IF available < CallbackFrames
     THEN UNCHANGED <<readIndex, available, heard>>
     ELSE /\ heard' = ring[(readIndex + CallbackFrames - 1) % Capacity]
          /\ readIndex' = (readIndex + CallbackFrames) % Capacity
          /\ available' = available - CallbackFrames
  /\ engine' = IF engine = "waiting" /\ Notifies THEN "write" ELSE engine
  /\ callback' = "device"
  /\ UNCHANGED <<queueVars, number, left, ring, writeIndex, streamVars>>

(* snd_pcm_writei: it returns, be it with an error, and the thread goes on. *)
DeviceWrites ==
  /\ callback = "device"
  /\ callback' = "loop"
  /\ UNCHANGED <<queueVars, engineVars, ringVars, streamVars>>

CallbackStep ==
  CallbackLoops \/ CallbackEvent \/ CallbackWaits \/ AudioCallback \/ DeviceWrites

(* TUI::processEvents, whenever it likes.                                  *)
TuiStep == Dequeue /\ UNCHANGED <<engineVars, ringVars, streamVars, callback>>

AudioNext == EngineStep \/ CallbackStep \/ TuiStep

(* Each thread goes on when it can; the TUI is not needed.                 *)
AudioSpec ==
  /\ AudioInit
  /\ [][AudioNext]_audioVars
  /\ WF_audioVars(EngineStep)
  /\ WF_audioVars(CallbackStep)

-----------------------------------------------------------------------------
AudioTypeOK ==
  /\ QueueTypeOK
  /\ engine \in {"starting", "process", "emit", "write", "waiting", "closing", "join", "closed"}
  /\ number \in Item
  /\ left \in 0 .. WriteFrames
  /\ ring \in [RingIndex -> 0 .. FrameIds - 1]
  /\ writeIndex \in RingIndex
  /\ readIndex \in RingIndex
  /\ available \in 0 .. Capacity
  /\ heard \in 0 .. FrameIds - 1
  /\ stream \in {"STOPPED", "RUNNING", "CLOSED"}
  /\ callback \in {"loop", "event", "wait", "call", "device", "ended"}
  /\ <<streamOpen, runnable, isRunning>> \in BOOLEAN \X BOOLEAN \X BOOLEAN

(***************************************************************************)
(* No frame is lost, repeated or played out of order, whatever the sizes   *)
(* of buffer, callback and ring: what is in the ring follows what was last *)
(* played, without a gap, up to the frame that is written next.            *)
(***************************************************************************)
FramesInOrder ==
  /\ \A i \in 0 .. available - 1 :
       ring[(readIndex + i) % Capacity] = (heard + 1 + i) % FrameIds
  /\ engine \in {"write", "waiting"} =>
       Frame(0) = (heard + 1 + available) % FrameIds

(***************************************************************************)
(* write() returns: the engine does not wait for ever in a full ring, also *)
(* when what is left in it is less than a callback needs and when the TUI  *)
(* does not empty the queue of events.                                     *)
(***************************************************************************)
WriteReturns == (engine = "write") ~> (engine = "process")

(***************************************************************************)
(* Deleting the module ends: the callback thread is never left waiting on  *)
(* runnable_cv, also when the stream could not be started.                 *)
(***************************************************************************)
CloseReturns == (engine = "closing") ~> (engine = "closed")
=============================================================================
