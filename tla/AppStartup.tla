----------------------------- MODULE AppStartup -----------------------------
(***************************************************************************)
(* App::start() and what it sets going: the hardware service and its       *)
(* worker thread, the GUI as a forked process, the engine's loop, and the  *)
(* two segments of shared memory by which they talk; killed and started    *)
(* again any number of times.                                              *)
(*                                                                         *)
(* app.start() does not return while the engine runs, so app.stop() is     *)
(* never reached: a process ends by being killed or by an exception.  The  *)
(* child is not told when its parent dies.  Nothing removes a segment but  *)
(* the next engine that creates one of that name, and removing it leaves   *)
(* the memory to those that have it mapped.                                *)
(*                                                                         *)
(* Sending and receiving are single steps here (SharedMemory has them in   *)
(* detail).  A process that dies in a critical section leaves the mutex    *)
(* locked for ever, since an interprocess_mutex does not notice.           *)
(***************************************************************************)
EXTENDS Naturals, Sequences

CONSTANTS
  MaxRuns,     (* bound: how many times the program is started             *)
  MaxTouches   (* bound: touches of the screen and of the buttons, in all  *)

ASSUME StartupAssumption ==
  /\ MaxRuns \in Nat \ {0}
  /\ MaxTouches \in Nat

Run == 1 .. MaxRuns
Nowhere == 0                           (* no run: no segment              *)
Endpoint == {"AudioToGUI", "GUIToAudio"}

(* What a message asks for, or says, as far as start-up is concerned.      *)
Request == {"GET_INITIAL_SETUP", "POLY_HW_MODE", "edit"}
Answer == {"POLY_REBUILD", "POLY_READY", "answer"}
Empty == "empty"

VARIABLES
  run,       (* the run that was started last                             *)
  main,      (* where its main thread is                                  *)
  worker,    (* its HardwareInputService worker: what it does, and the    *)
             (* segment it has open                                       *)
  touches,   (* how many touches of screen and buttons there were         *)
  queue,     (* MessageQueue of the engine                                *)
  owes,      (* the answers the engine has yet to send                    *)
  gui,       (* per run, the process that was forked                      *)
  bound,     (* per endpoint, the run whose segment has the name          *)
  segment    (* per endpoint and run                                      *)

app == <<run, main, worker, touches, queue, owes>>
vars == <<run, main, worker, touches, queue, owes, gui, bound, segment>>

(* "off" stands for a process that is not there.                           *)
MainPc == {"off", "mode", "fork", "create", "size", "build", "create2", "size2", "build2",
           "loop"}
WorkerPc == {"off", "idle", "sending"}
GuiPc == {"off", "forked", "half", "asking", "loop", "editing"}

(* A segment is mapped with success once it has a size; its slot and its   *)
(* mutex are constructed later ("built").                                  *)
SegmentType ==
  [made : {"no", "sized", "built"}, slot : Request \cup Answer \cup {Empty}, locked : BOOLEAN]
GuiType ==
  [pc : GuiPc, from : Run \cup {Nowhere}, to : Run \cup {Nowhere},
   ready : BOOLEAN, shown : BOOLEAN, early : BOOLEAN]

NoGui == [pc |-> "off", from |-> Nowhere, to |-> Nowhere, ready |-> FALSE,
          shown |-> FALSE, early |-> FALSE]

Init ==
  /\ run = 0
  /\ main = "off"
  /\ worker = [pc |-> "off", to |-> Nowhere]
  /\ touches = 0
  /\ queue = << >>
  /\ owes = << >>
  /\ gui = [r \in Run |-> NoGui]
  /\ bound = [e \in Endpoint |-> Nowhere]
  /\ segment = [s \in Endpoint \X Run |-> [made |-> "no", slot |-> Empty, locked |-> FALSE]]

-----------------------------------------------------------------------------
(* open_only and mapping: fail without such a name, or without a size.     *)
CanOpen(e) == bound[e] # Nowhere /\ segment[<<e, bound[e]>>].made # "no"

CanSend(e, r) == ~ segment[<<e, r>>].locked /\ segment[<<e, r>>].slot = Empty
CanTake(e, r) == ~ segment[<<e, r>>].locked /\ segment[<<e, r>>].slot # Empty

Put(e, r, m) == segment' = [segment EXCEPT ![<<e, r>>].slot = m]
Take(e, r) == Put(e, r, Empty)

(***************************************************************************)
(* The main thread: App::start() up to the loop of AudioEngine::start().   *)
(***************************************************************************)
StartApp ==
  /\ main = "off"
  /\ run < MaxRuns
  /\ run' = run + 1
  /\ main' = "mode"
  /\ UNCHANGED <<worker, touches, queue, owes, gui, bound, segment>>

(* _hardwareInputService.start() sends its mode, then starts the worker.   *)
StartServiceWaits ==        \* mutant: the service waits for the segment to appear
  /\ main = "mode"
  /\ CanOpen("GUIToAudio")
  /\ CanSend("GUIToAudio", bound["GUIToAudio"])
  /\ Put("GUIToAudio", bound["GUIToAudio"], "POLY_HW_MODE")
  /\ main' = "fork"
  /\ worker' = [pc |-> "idle", to |-> Nowhere]
  /\ UNCHANGED <<run, touches, queue, owes, gui, bound>>

StartService ==
  /\ main = "mode"
  /\ \/ ~ CanOpen("GUIToAudio") /\ UNCHANGED segment
     \/ /\ CanOpen("GUIToAudio")
        /\ CanSend("GUIToAudio", bound["GUIToAudio"])
        /\ Put("GUIToAudio", bound["GUIToAudio"], "POLY_HW_MODE")
  /\ main' = "fork"
  /\ worker' = [pc |-> "idle", to |-> Nowhere]
  /\ UNCHANGED <<run, touches, queue, owes, gui, bound>>

(* _gui->start(): LVGL forks; NullGUI, which TINYFW_HEADLESS in the        *)
(* environment asks for, does nothing.                                     *)
StartGui ==
  /\ main = "fork"
  /\ main' = "create"
  /\ \/ UNCHANGED gui
     \/ gui' = [gui EXCEPT ![run].pc = "forked"]
  /\ UNCHANGED <<run, worker, touches, queue, owes, bound, segment>>

(* The constructor for "audio": remove and create, truncate, placement new. *)
CreateSegment(e, before, after) ==
  /\ main = before
  /\ main' = after
  /\ bound' = [bound EXCEPT ![e] = run]
  /\ UNCHANGED <<run, worker, touches, queue, owes, gui, segment>>

SizeSegment(e, before, after) ==
  /\ main = before
  /\ main' = after
  /\ segment' = [segment EXCEPT ![<<e, run>>].made = "sized"]
  /\ UNCHANGED <<run, worker, touches, queue, owes, gui, bound>>

BuildSegment(e, before, after) ==
  /\ main = before
  /\ main' = after
  /\ segment' = [segment EXCEPT ![<<e, run>>] =
                   [made |-> "built", slot |-> Empty, locked |-> FALSE]]
  /\ UNCHANGED <<run, worker, touches, queue, owes, gui, bound>>

StartEngine ==
  \/ CreateSegment("AudioToGUI", "create", "size")
  \/ SizeSegment("AudioToGUI", "size", "build")
  \/ BuildSegment("AudioToGUI", "build", "create2")
  \/ CreateSegment("GUIToAudio", "create2", "size2")
  \/ SizeSegment("GUIToAudio", "size2", "build2")
  \/ BuildSegment("GUIToAudio", "build2", "loop")

(***************************************************************************)
(* The engine's loop and its reader thread.                                *)
(***************************************************************************)
Echo(m) == <<m>>            \* mutant: a request is sent on to the GUI

(* A full rebuild is cut down to its two ends, "answer" is any short one.    *)
AnswersTo(m) ==
  IF m = "GET_INITIAL_SETUP" THEN <<"POLY_REBUILD", "POLY_READY">> ELSE <<"answer">>

EngineReadsWhenIdle ==      \* mutant: no thread of its own for reading
  /\ main = "loop"
  /\ owes = << >>
  /\ CanTake("GUIToAudio", run)
  /\ queue' = Append(queue, segment[<<"GUIToAudio", run>>].slot)
  /\ Take("GUIToAudio", run)
  /\ UNCHANGED <<run, main, worker, touches, owes, gui, bound>>

EngineReads ==
  /\ main = "loop"
  /\ CanTake("GUIToAudio", run)
  /\ queue' = Append(queue, segment[<<"GUIToAudio", run>>].slot)
  /\ Take("GUIToAudio", run)
  /\ UNCHANGED <<run, main, worker, touches, owes, gui, bound>>

EngineHandles ==
  /\ main = "loop"
  /\ owes = << >>
  /\ queue # << >>
  /\ owes' = AnswersTo(Head(queue))
  /\ queue' = Tail(queue)
  /\ UNCHANGED <<run, main, worker, touches, gui, bound, segment>>

EngineSends ==
  /\ main = "loop"
  /\ owes # << >>
  /\ CanSend("AudioToGUI", run)
  /\ Put("AudioToGUI", run, Head(owes))
  /\ owes' = Tail(owes)
  /\ UNCHANGED <<run, main, worker, touches, queue, gui, bound>>

(***************************************************************************)
(* The worker opens the segment anew for each message; a message that      *)
(* finds no segment is dropped.                                            *)
(***************************************************************************)
WorkerOpens ==
  /\ worker.pc = "idle"
  /\ touches < MaxTouches
  /\ touches' = touches + 1
  /\ CanOpen("GUIToAudio")
  /\ worker' = [pc |-> "sending", to |-> bound["GUIToAudio"]]
  /\ UNCHANGED <<run, main, queue, owes, gui, bound, segment>>

WorkerSends ==
  /\ worker.pc = "sending"
  /\ CanSend("GUIToAudio", worker.to)
  /\ Put("GUIToAudio", worker.to, "edit")
  /\ worker' = [worker EXCEPT !.pc = "idle"]
  /\ UNCHANGED <<run, main, touches, queue, owes, gui, bound>>

(***************************************************************************)
(* The child of run r: it opens both segments, or dies of an exception.    *)
(***************************************************************************)
GuiOpensFrom(r) ==
  /\ gui[r].pc = "forked"
  /\ gui' = [gui EXCEPT ![r] = IF CanOpen("AudioToGUI")
                               THEN [@ EXCEPT !.pc = "half", !.from = bound["AudioToGUI"]]
                               ELSE NoGui]
  /\ UNCHANGED <<app, bound, segment>>

GuiOpensTo(r) ==
  /\ gui[r].pc = "half"
  /\ gui' = [gui EXCEPT ![r] =
               IF CanOpen("GUIToAudio")
               THEN LET s == bound["GUIToAudio"]
                    IN  [@ EXCEPT !.pc = "asking", !.to = s,
                                  !.early = segment[<<"GUIToAudio", s>>].made # "built"]
               ELSE NoGui]
  /\ UNCHANGED <<app, bound, segment>>

GuiSends(r, pc, m) ==
  /\ gui[r].pc = pc
  /\ CanSend("GUIToAudio", gui[r].to)
  /\ Put("GUIToAudio", gui[r].to, m)
  /\ gui' = [gui EXCEPT ![r].pc = "loop"]
  /\ UNCHANGED <<app, bound>>

GuiAsks(r) == GuiSends(r, "asking", "GET_INITIAL_SETUP")
GuiSendsEdit(r) == GuiSends(r, "editing", "edit")

(* Its reader thread runs from then on, whatever its main loop does.       *)
Attached(r) == gui[r].pc \in {"asking", "loop", "editing"}

GuiReadsOnceShown(r) ==     \* mutant: the reader is started after the first rebuild
  /\ Attached(r)
  /\ gui[r].shown
  /\ CanTake("AudioToGUI", gui[r].from)
  /\ Take("AudioToGUI", gui[r].from)
  /\ gui' = [gui EXCEPT ![r].ready =
               @ \/ segment[<<"AudioToGUI", gui[r].from>>].slot = "POLY_READY"]
  /\ UNCHANGED <<app, bound>>

GuiReads(r) ==
  /\ Attached(r)
  /\ CanTake("AudioToGUI", gui[r].from)
  /\ Take("AudioToGUI", gui[r].from)
  /\ gui' = [gui EXCEPT ![r].ready =
               @ \/ segment[<<"AudioToGUI", gui[r].from>>].slot = "POLY_READY"]
  /\ UNCHANGED <<app, bound>>

GuiShows(r) ==
  /\ gui[r].pc = "loop"
  /\ gui[r].ready
  /\ gui' = [gui EXCEPT ![r].ready = FALSE, ![r].shown = TRUE]
  /\ UNCHANGED <<app, bound, segment>>

UserTouches(r) ==
  /\ gui[r].pc = "loop"
  /\ touches < MaxTouches
  /\ touches' = touches + 1
  /\ gui' = [gui EXCEPT ![r].pc = "editing"]
  /\ UNCHANGED <<run, main, worker, queue, owes, bound, segment>>

(***************************************************************************)
(* A process may die at any moment, also while one of its threads holds a  *)
(* mutex: then that of some of the segments it was using stays locked.     *)
(***************************************************************************)
LeavesLocked(used) ==
  \E stuck \in SUBSET used :
    segment' = [s \in DOMAIN segment |->
                  IF s \in stuck THEN [segment[s] EXCEPT !.locked = TRUE] ELSE segment[s]]

UsedByApp ==
  {s \in DOMAIN segment :
     /\ segment[s].made # "no"
     /\ \/ main = "mode" /\ s = <<"GUIToAudio", bound["GUIToAudio"]>>
        \/ worker.pc = "sending" /\ s = <<"GUIToAudio", worker.to>>
        \/ main = "loop" /\ s = <<"GUIToAudio", run>>
        \/ main = "loop" /\ owes # << >> /\ s = <<"AudioToGUI", run>>}

(* Bound: the last run of all is not killed, since none comes after it.    *)
AppDies ==
  /\ main # "off"
  /\ run < MaxRuns
  /\ main' = "off"
  /\ worker' = [pc |-> "off", to |-> Nowhere]
  /\ queue' = << >>
  /\ owes' = << >>
  /\ LeavesLocked(UsedByApp)
  /\ UNCHANGED <<run, touches, gui, bound>>

UsedByGui(r) ==
  {<<"AudioToGUI", gui[r].from>>}
    \cup {s \in {<<"GUIToAudio", gui[r].to>>} : gui[r].pc \in {"asking", "editing"}}

(* Where it had been is kept as history.                                   *)
GuiDies(r) ==
  /\ gui[r].pc # "off"
  /\ gui' = [gui EXCEPT ![r] = [NoGui EXCEPT !.from = gui[r].from, !.to = gui[r].to]]
  /\ IF Attached(r) THEN LeavesLocked(UsedByGui(r)) ELSE UNCHANGED segment
  /\ UNCHANGED <<app, bound>>

-----------------------------------------------------------------------------
GuiNext(r) ==
  GuiOpensFrom(r) \/ GuiOpensTo(r) \/ GuiAsks(r) \/ GuiSendsEdit(r) \/ GuiShows(r)

MainNext == StartService \/ StartGui \/ StartEngine \/ EngineHandles \/ EngineSends

Next ==
  \/ StartApp
  \/ MainNext
  \/ EngineReads
  \/ WorkerOpens \/ WorkerSends
  \/ \E r \in Run : GuiNext(r) \/ GuiReads(r) \/ UserTouches(r) \/ GuiDies(r)
  \/ AppDies

Spec == Init /\ [][Next]_vars

(* Threads that can run do.  Nobody has to start the program, to touch the *)
(* screen or a button, or to die.                                          *)
Fairness ==
  /\ WF_vars(MainNext)
  /\ WF_vars(EngineReads)
  /\ WF_vars(WorkerSends)
  /\ \A r \in Run : WF_vars(GuiNext(r)) /\ WF_vars(GuiReads(r))

FairSpec == Spec /\ Fairness

-----------------------------------------------------------------------------
StartTypeOK ==
  /\ run \in Run \cup {Nowhere}
  /\ main \in MainPc
  /\ worker.pc \in WorkerPc
  /\ worker.to \in Run \cup {Nowhere}
  /\ touches \in 0 .. MaxTouches
  /\ queue \in Seq(Request)
  /\ owes \in Seq(Answer)
  /\ gui \in [Run -> GuiType]
  /\ bound \in [Endpoint -> Run \cup {Nowhere}]
  /\ segment \in [Endpoint \X Run -> SegmentType]

(* The engine runs, its GUI and never any other opened both of its         *)
(* segments, and no process died in a critical section of theirs.          *)
Connected ==
  /\ main = "loop"
  /\ Attached(run)
  /\ gui[run].from = run
  /\ gui[run].to = run
  /\ \A e \in Endpoint : ~ segment[<<e, run>>].locked
  /\ \A q \in Run \ {run} :
       gui[q].pc \notin {"forked", "half"} /\ gui[q].from # run /\ gui[q].to # run

(***************************************************************************)
(* Whatever is killed and restarted before, a GUI that has the segments of *)
(* its own engine open gets its rings and shows them, unless it opened the *)
(* second one between truncate and the construction of its buffer, which   *)
(* wipes the request out.                                                  *)
(***************************************************************************)
RingsAreShown ==
  Connected /\ ~ gui[run].early ~> (Connected => gui[run].shown)

(***************************************************************************)
(* The engine and the GUI both send while the other may be sending to them *)
(* and wait without a timeout; neither waits for ever as long as the other *)
(* is there, because each has a thread that does nothing but read.         *)
(***************************************************************************)
PeersAreServed ==
  /\ Connected /\ owes # << >> ~> (Connected => owes = << >>)
  /\ Connected /\ gui[run].pc \in {"asking", "editing"} ~> (Connected => gui[run].pc = "loop")

(***************************************************************************)
(* The first start of the program after boot finds no segment by that name *)
(* and is not held up; nor is one that finds the slot free and no GUI of   *)
(* an earlier run that could fill it.                                      *)
(***************************************************************************)
NoOrphans == \A r \in Run : r # run => gui[r].pc = "off"
LeftClean ==
  bound["GUIToAudio"] # Nowhere => CanSend("GUIToAudio", bound["GUIToAudio"])

StartsWhenLeftClean == main = "mode" /\ LeftClean /\ NoOrphans ~> main # "mode"

(***************************************************************************)
(* A message of the hardware service that reached the segment of a running *)
(* engine is taken, with a GUI or without: without one the engine waits    *)
(* for ever to send its second answer, but it reads in another thread.     *)
(***************************************************************************)
WorkerIsServed ==
  LET Waiting == main = "loop" /\ worker.pc = "sending" /\ worker.to = run
  IN  Waiting ~> (Waiting => segment[<<"GUIToAudio", run>>].locked)

(* None of the three senders is left waiting.                              *)
NobodyWaitsForever == PeersAreServed /\ WorkerIsServed

(***************************************************************************)
(* "Audio endpoint may not be available yet" (HardwareInputService.cpp,    *)
(* sendToAudio): the service, which starts before the engine, is to drop   *)
(* its mode then and start-up is to go on, if nobody died while he held a  *)
(* mutex.  But the segment of an earlier run is still there to be opened,  *)
(* and nobody will ever empty its slot.                                    *)
(***************************************************************************)
ServiceIsNotHeldUp ==
  main = "mode" ~> \/ main # "mode"
                   \/ \E s \in DOMAIN segment : segment[s].locked
=============================================================================
