---------------------------- MODULE CommandFile ----------------------------
(***************************************************************************)
(* processCommandFile: the worker of HardwareInputService follows a file   *)
(* to which other programs append lines, and which they may empty.         *)
(*                                                                         *)
(* Lines are numbered in the order of their writing and appended whole, as *)
(* echo does; offsets and sizes are counted in lines.  A pass over the     *)
(* file takes several steps, and the writers act between any two of them.  *)
(***************************************************************************)
EXTENDS Integers, Sequences

CONSTANTS
  MaxLines,      (* bound: lines that are ever written                     *)
  MaxTruncations (* bound: how often the file is emptied                   *)

ASSUME FileAssumption == MaxLines \in Nat /\ MaxTruncations \in Nat

Line == 1 .. MaxLines

VARIABLES
  file,        (* the lines in the file                                    *)
  readOffset,  (* _readOffset                                              *)
  pc,          (* "idle" between passes, "reading", or "ended" at the end  *)
  fileSize,    (* file_size() at the start of the pass                     *)
  position,    (* of the stream                                            *)
  written,     (* history: lines written so far                            *)
  handled,     (* history: per line, how often it was handled, 2 for more  *)
  overlapping, (* history: lines written while a pass was under way        *)
  truncations, (* history: how often the file was emptied                  *)
  unseen       (* history: it was, and readOffset is not to be trusted     *)

pass == <<readOffset, pc, fileSize, position>>
fileVars == <<file, pass, written, handled, overlapping, truncations, unseen>>

(* start() skips what the file holds already.                              *)
FileInit ==
  /\ file = << >>
  /\ readOffset = 0
  /\ pc = "idle"
  /\ fileSize = 0
  /\ position = 0
  /\ written = 0
  /\ handled = [n \in Line |-> 0]
  /\ overlapping = {}
  /\ truncations = 0
  /\ unseen = FALSE

Write ==
  /\ written < MaxLines
  /\ written' = written + 1
  /\ file' = Append(file, written')
  /\ overlapping' = IF pc = "idle" THEN overlapping ELSE overlapping \cup {written'}
  /\ UNCHANGED <<pass, handled, truncations, unseen>>

Truncate ==
  /\ truncations < MaxTruncations
  /\ truncations' = truncations + 1
  /\ file' = << >>
  /\ unseen' = TRUE
  /\ UNCHANGED <<pass, written, handled, overlapping>>

(* A file shorter than before is read from its beginning.                  *)
StartOffset == IF Len(file) < readOffset THEN 0 ELSE readOffset

StartPass ==
  /\ pc = "idle"
  /\ pc' = "reading"
  /\ fileSize' = Len(file)
  /\ readOffset' = StartOffset
  /\ position' = StartOffset
  /\ unseen' = (unseen /\ StartOffset # 0)
  /\ UNCHANGED <<file, written, handled, overlapping, truncations>>

Twice(n) == IF n < 2 THEN n + 1 ELSE 2

ReadLine ==
  /\ pc = "reading"
  /\ position < Len(file)
  /\ position' = position + 1
  /\ handled' = [handled EXCEPT ![file[position + 1]] = Twice(@)]
  /\ UNCHANGED <<file, readOffset, pc, fileSize, written, overlapping, truncations, unseen>>

(* getline has reached the end: the stream has failed.                     *)
ReachEnd ==
  /\ pc = "reading"
  /\ position >= Len(file)
  /\ pc' = "ended"
  /\ UNCHANGED <<file, readOffset, fileSize, position, written, handled, overlapping,
                 truncations, unseen>>

NewOffsetLate ==  \* mutant: file_size() is called after the loop
  Len(file)

NewOffsetUnknown ==  \* mutant: a negative tellg() leaves _readOffset alone
  readOffset

NewOffsetFailed ==  \* mutant: tellg() is stored as it is
  -1

(* tellg() of a stream that has failed is -1, so the size takes its place. *)
NewOffset == fileSize

EndPass ==
  /\ pc = "ended"
  /\ pc' = "idle"
  /\ readOffset' = NewOffset
  /\ UNCHANGED <<file, fileSize, position, written, handled, overlapping, truncations, unseen>>

WorkerActs == StartPass \/ ReadLine \/ ReachEnd \/ EndPass

FileNext == Write \/ Truncate \/ WorkerActs

(* The worker loops for ever; nobody has to write.                         *)
FileSpec == FileInit /\ [][FileNext]_fileVars /\ WF_fileVars(WorkerActs)

-----------------------------------------------------------------------------
FileTypeOK ==
  /\ file \in Seq(Line)
  /\ readOffset \in Nat /\ fileSize \in Nat /\ position \in Nat
  /\ pc \in {"idle", "reading", "ended"}
  /\ written \in 0 .. MaxLines
  /\ handled \in [Line -> 0 .. 2]
  /\ overlapping \subseteq Line
  /\ truncations \in 0 .. MaxTruncations
  /\ unseen \in BOOLEAN

(***************************************************************************)
(* A line is never skipped: whenever the worker is between two passes,     *)
(* what lies before its offset has been handled, although lines arrive     *)
(* while it reads.  Only a file that was emptied and has grown beyond the  *)
(* offset before the worker looked escapes it.                             *)
(***************************************************************************)
NothingSkipped ==
  pc = "idle" /\ ~ unseen =>
    \A i \in 1 .. Len(file) : i <= readOffset => handled[file[i]] # 0

(***************************************************************************)
(* As long as the file is not emptied, each line written is handled in the *)
(* end, whenever it was written.                                           *)
(***************************************************************************)
LinesAreHandled ==
  \A n \in Line : written >= n ~> handled[n] # 0 \/ truncations > 0

(* A line written between two passes is handled once.                      *)
OnceUnlessOverlapping ==
  truncations = 0 => \A n \in Line : handled[n] = 2 => n \in overlapping

(***************************************************************************)
(* The service forwards the actions of the file: one line, one action.     *)
(***************************************************************************)
HandledOnce == truncations = 0 => \A n \in Line : handled[n] # 2
=============================================================================
