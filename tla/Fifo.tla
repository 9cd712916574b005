-------------------------------- MODULE Fifo --------------------------------
(***************************************************************************)
(* Fifo, FifoWorker and TrikFifo: scripts' threads read lines and bytes of  *)
(* a named pipe that a worker thread listens to. Each call is executed by   *)
(* the worker's thread while its caller is blocked. A read that finds       *)
(* nothing waits in an event loop of its own, in which that thread serves   *)
(* the pipe and the other callers: the waits nest, `frames' is that stack,  *)
(* and one that has been told to quit returns when it is the innermost.     *)
(*                                                                         *)
(* The pipe carries lines 1, 2, ...: 2 * n is the text of line n, 2 * n + 1 *)
(* its end of line. A line without a text is empty, which is the value 0.   *)
(***************************************************************************)
EXTENDS DeviceState, Naturals, Sequences, FiniteSets

CONSTANTS
  Readers,      \* the scripts' threads
  Chunk,        \* the most bytes read at once, 4000 in the code
  Limit,        \* the most bytes kept, 1024 * 1024 in the code
  MaxLines,     \* bound: lines written to the pipe
  MaxReads      \* bound: calls of read and readRaw

ASSUME FifoAssumption ==
  /\ Chunk \in Nat \ {0} /\ Limit \in Nat /\ Chunk <= Limit
  /\ MaxLines \in Nat /\ MaxReads \in Nat

VARIABLES
  status,       \* mState
  notifier,     \* TrikFifo::mSocketNotifier listens to the pipe
  pipe,         \* what is in the pipe
  rest,         \* TrikFifo::mBuffer
  line,         \* mCurrentLine
  data,         \* mCurrentData
  queue,        \* the worker thread's event queue
  frames,       \* the event loops of the reads that wait, innermost last
  reader,       \* what each reader does
  next,         \* the line that is written to the pipe next
  reads,        \* calls of read and readRaw so far
  returned,     \* the lines that read returned, in order
  taken,        \* the bytes that readRaw returned, in order
  dropped       \* bytes dropped at the limit

device == <<status, notifier>>
stored == <<line, data>>
callers == <<queue, reader>>
results == <<returned, taken>>
vars == <<device, pipe, rest, stored, callers, frames, next, reads, results, dropped>>

Kinds == {"line", "data"}
Call == [by: Readers, kind: Kinds, call: {"has", "read"}]
Frame == [by: Readers, kind: Kinds, told: BOOLEAN]

Units == 2..(2 * MaxLines + 1)
IsEnd(unit) == unit % 2 = 1
Empty(kind) == IF kind = "line" THEN line = 0 ELSE data = <<>>

-----------------------------------------------------------------------------
(* The worker's thread.                                                    *)

(* FifoWorker::init; until it is over the constructor of Fifo waits for the *)
(* semaphore.                                                              *)
Open ==
  /\ status = "off"
  /\ notifier' \in BOOLEAN
  /\ status' = IF notifier' THEN Changed("ready", Changed("start", status)) ELSE Failed
  /\ UNCHANGED <<pipe, rest, stored, callers, frames, next, reads, results, dropped>>

(* The lines that `piece' completes, each at its end, an empty one as 0.    *)
LinesOf(piece) ==
  LET texts == {rest[i] : i \in DOMAIN rest} \cup {piece[i] : i \in DOMAIN piece}
  IN [i \in {j \in DOMAIN piece : IsEnd(piece[j])} |->
        IF piece[i] - 1 \in texts THEN piece[i] \div 2 ELSE 0]

(* What follows the last end of line: the text of a line that has not ended.*)
RestOf(bytes) ==
  LET gone == {i \in DOMAIN bytes : \E j \in DOMAIN bytes : i <= j /\ IsEnd(bytes[j])}
  IN SubSeq(bytes, Cardinality(gone) + 1, Len(bytes))

(* Fault: a line wakes the innermost of the readers that wait. *)
Tell_One(kinds) ==
  frames' = [i \in DOMAIN frames |->
               IF i = Len(frames) /\ frames[i].kind \in kinds
               THEN [frames[i] EXCEPT !.told = TRUE] ELSE frames[i]]

(* The loops of these kinds are told to quit.                               *)
Tell(kinds) ==
  frames' = [i \in DOMAIN frames |-> [frames[i] EXCEPT !.told = @ \/ frames[i].kind \in kinds]]

(* onNewData: over the limit everything goes.                               *)
Kept(bytes) == IF Len(bytes) > Limit THEN <<>> ELSE bytes

(* TrikFifo::readFile, with onNewData and onNewLine, which it calls.        *)
ReadFile ==
  /\ notifier
  /\ \E n \in DOMAIN pipe :
       n <= Chunk /\
       LET piece == SubSeq(pipe, 1, n)
           lines == LinesOf(piece)
           bytes == data \o piece
       IN /\ pipe' = SubSeq(pipe, n + 1, Len(pipe))
          /\ rest' = RestOf(rest \o piece)
          /\ data' = Kept(bytes)
          /\ dropped' = dropped + Len(bytes) - Len(data')
          /\ \/ DOMAIN lines = {} /\ UNCHANGED line
             \/ \E last \in DOMAIN lines :
                  (\A i \in DOMAIN lines : i <= last) /\ line' = lines[last]
          /\ Tell({kind \in Kinds :
                     IF kind = "data" THEN data' # <<>> ELSE \E i \in DOMAIN lines : lines[i] # 0})
  /\ UNCHANGED <<device, callers, next, reads, results>>

(* onReadError: the fifo has failed, and its pipe is read on.               *)
ReadError ==
  /\ notifier
  /\ status' = Failed
  /\ UNCHANGED <<notifier, pipe, rest, stored, callers, frames, next, reads, results, dropped>>

Serve(call) == queue # <<>> /\ Head(queue).call = call

(* Fault: a line that has been read stays. *)
Take_Keeps(kind) ==
  IF kind = "line"
  THEN returned' = Append(returned, line) /\ UNCHANGED <<stored, taken>>
  ELSE taken' = taken \o data /\ data' = <<>> /\ UNCHANGED <<line, returned>>

(* The end of read and of readRaw, whether they have waited or not.         *)
Take(kind) ==
  IF kind = "line"
  THEN returned' = Append(returned, line) /\ line' = 0 /\ UNCHANGED <<data, taken>>
  ELSE taken' = taken \o data /\ data' = <<>> /\ UNCHANGED <<line, returned>>

(* hasLine and hasData, of a reader that goes on to read if there is one.   *)
Has ==
  /\ Serve("has")
  /\ LET call == Head(queue)
         goes == ~Empty(call.kind)
     IN /\ queue' = Tail(queue)
        /\ reader' = [reader EXCEPT ![call.by] = IF goes THEN call.kind ELSE "idle"]
  /\ UNCHANGED <<device, pipe, rest, stored, frames, next, reads, results, dropped>>

(* Fault: a reader is not blocked by its wait. *)
Read_Queued ==
  /\ Serve("read")
  /\ LET call == Head(queue)
     IN /\ queue' = Tail(queue)
        /\ reader' = [reader EXCEPT ![call.by] = "idle"]
        /\ IF Empty(call.kind)
           THEN /\ frames' = Append(frames, [by |-> call.by, kind |-> call.kind, told |-> FALSE])
                /\ UNCHANGED <<stored, results>>
           ELSE Take(call.kind) /\ UNCHANGED frames
  /\ UNCHANGED <<device, pipe, rest, next, reads, dropped>>

Read ==
  /\ Serve("read")
  /\ LET call == Head(queue)
     IN /\ queue' = Tail(queue)
        /\ IF Empty(call.kind)
           THEN /\ frames' = Append(frames, [by |-> call.by, kind |-> call.kind, told |-> FALSE])
                /\ UNCHANGED <<stored, results, reader>>
           ELSE /\ Take(call.kind)
                /\ reader' = [reader EXCEPT ![call.by] = "idle"]
                /\ UNCHANGED frames
  /\ UNCHANGED <<device, pipe, rest, next, reads, dropped>>

(* Fault: a loop inside another does not return. *)
Wakes_NotNested ==
  /\ Len(frames) = 1
  /\ frames[1].told
  /\ Take(frames[1].kind)
  /\ reader' = [reader EXCEPT ![frames[1].by] = "idle"]
  /\ frames' = <<>>
  /\ UNCHANGED <<device, pipe, rest, queue, next, reads, dropped>>

(* The innermost loop returns, to a read that takes what there is now.      *)
Wakes ==
  /\ frames # <<>>
  /\ LET frame == frames[Len(frames)]
     IN /\ frame.told
        /\ Take(frame.kind)
        /\ reader' = [reader EXCEPT ![frame.by] = "idle"]
  /\ frames' = SubSeq(frames, 1, Len(frames) - 1)
  /\ UNCHANGED <<device, pipe, rest, queue, next, reads, dropped>>

-----------------------------------------------------------------------------
(* The readers and the writer of the pipe.                                  *)

(* Fifo::read and Fifo::readRaw: first whether there is anything.           *)
Ask(r) ==
  /\ status # "off"
  /\ reader[r] = "idle"
  /\ reads < MaxReads
  /\ reads' = reads + 1
  /\ \E kind \in Kinds : queue' = Append(queue, [by |-> r, kind |-> kind, call |-> "has"])
  /\ reader' = [reader EXCEPT ![r] = "blocked"]
  /\ UNCHANGED <<device, pipe, rest, stored, frames, next, results, dropped>>

(* ... and then the read, which is another call.                            *)
GoOn(r) ==
  /\ reader[r] \in Kinds
  /\ queue' = Append(queue, [by |-> r, kind |-> reader[r], call |-> "read"])
  /\ reader' = [reader EXCEPT ![r] = "blocked"]
  /\ UNCHANGED <<device, pipe, rest, stored, frames, next, reads, results, dropped>>

Write ==
  /\ next <= 2 * MaxLines + 1
  /\ \/ ~IsEnd(next) /\ pipe' = Append(pipe, next) /\ next' = next + 1
     \/ ~IsEnd(next) /\ pipe' = Append(pipe, next + 1) /\ next' = next + 2
     \/ IsEnd(next) /\ pipe' = Append(pipe, next) /\ next' = next + 1
  /\ UNCHANGED <<device, rest, stored, callers, frames, reads, results, dropped>>

Init ==
  /\ status = "off" /\ notifier = FALSE
  /\ pipe = <<>> /\ rest = <<>>
  /\ line = 0 /\ data = <<>>
  /\ queue = <<>> /\ frames = <<>>
  /\ reader = [r \in Readers |-> "idle"]
  /\ next = 2
  /\ reads = 0
  /\ returned = <<>> /\ taken = <<>> /\ dropped = 0

Serving == Has \/ Read

Next ==
  \/ Open \/ ReadFile \/ ReadError \/ Serving \/ Wakes \/ Write
  \/ \E r \in Readers : Ask(r) \/ GoOn(r)

Spec == Init /\ [][Next]_vars

(* The worker's loops serve the pipe and the queue and return when told; a  *)
(* reader's thread runs.                                                   *)
FairSpec ==
  /\ Spec
  /\ WF_vars(Open)
  /\ WF_vars(ReadFile)
  /\ WF_vars(Serving)
  /\ WF_vars(Wakes)
  /\ \A r \in Readers : WF_vars(GoOn(r))
=============================================================================
