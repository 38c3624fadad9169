------------------------------- MODULE Output -------------------------------
(***************************************************************************)
(* The output worker of the receiver (src/internal/receiver/output) with   *)
(* its file module (src/internal/iomodules/file/write.go).                 *)
(*                                                                         *)
(* A goroutine pops whole messages off the inbox and puts them in a channel*)
(* of one place.  The worker takes them from there and gives each to every *)
(* output.  The file output gathers lines in a batch, which is sorted and  *)
(* written when it is full, at every tick, and when the worker is stopped. *)
(* The other four outputs (journald, beats, raw, D-Bus) write at once and  *)
(* are one: what counts of them is whether any of them wrote.              *)
(*                                                                         *)
(* A message is the number that orders it by its timestamp.                *)
(***************************************************************************)
EXTENDS Naturals, Sequences, FiniteSets, SequencesExt

CONSTANTS
  Messages,    \* a set of naturals
  Outputs,     \* those configured, of "file" and "other"
  Capacity,    \* of the inbox
  BatchSize,   \* 20
  MaxLines     \* bound on the lines of the file

ASSUME OutputAssumption ==
  /\ Messages \subseteq Nat
  /\ Outputs \subseteq {"file", "other"} /\ Outputs # {}
  /\ Capacity \in Nat \ {0} /\ BatchSize \in Nat /\ MaxLines \in Nat

VARIABLES
  inbox,       \* the mpmc queue between assemblers and output
  popper,      \* what the popping goroutine holds, at most one message
  popping,     \* FALSE once that goroutine has returned
  popCh,
  writing,     \* what the worker is writing, at most one message
  batch,       \* batchBuffer
  file,        \* the lines of the file
  others,      \* messages the other outputs wrote
  dropped,     \* messages counted in Metrics.Dropped
  consecutiveCount,
  overdue,     \* failures.deadline has passed
  signalled,   \* SIGTERM was sent to the process itself
  cancelled,   \* the context of the instance
  worker,      \* "running", "returned"
  failed       \* history: an output returned an error

output == <<inbox, popper, popping, popCh, writing, batch, file, others, dropped,
            consecutiveCount, overdue, signalled, cancelled, worker, failed>>

OutputInit ==
  /\ inbox = <<>> /\ popper = <<>> /\ popping = TRUE /\ popCh = <<>> /\ writing = <<>>
  /\ batch = <<>> /\ file = <<>> /\ others = {} /\ dropped = {}
  /\ consecutiveCount = 0 /\ overdue = FALSE /\ signalled = FALSE
  /\ cancelled = FALSE /\ worker = "running" /\ failed = FALSE

tracker == <<consecutiveCount, overdue, signalled>>
sinks == <<batch, file, others, dropped, failed>>

----------------------------------------------------------------------------
(* The goroutine that pops.                                                *)

\* Pop hands out what the queue has even when the context is cancelled.
PopperPops ==
  /\ popping /\ popper = <<>> /\ inbox # <<>>
  /\ popper' = <<Head(inbox)>> /\ inbox' = Tail(inbox)
  /\ UNCHANGED <<popping, popCh, writing, sinks, tracker, cancelled, worker>>

PopperReturns ==
  /\ popping /\ popper = <<>> /\ inbox = <<>> /\ cancelled
  /\ popping' = FALSE
  /\ UNCHANGED <<inbox, popper, popCh, writing, sinks, tracker, cancelled, worker>>

PopperSends ==
  /\ popper # <<>> /\ popCh = <<>>
  /\ popCh' = popper /\ popper' = <<>>
  /\ UNCHANGED <<inbox, popping, writing, sinks, tracker, cancelled, worker>>

----------------------------------------------------------------------------
(* FlushBuffer.                                                            *)

Sorted(lines) == SortSeq(lines, <)

\* A faulty variant: the batch is kept when it was written.
FlushKeeps(lines, n) ==
  /\ Len(file) + n <= MaxLines
  /\ file' = file \o SubSeq(Sorted(lines), 1, n)
  /\ batch' = Sorted(lines)

\* n lines are written.  When one fails the whole batch stays, sorted.
FlushBuffer(lines, n) ==
  /\ Len(file) + n <= MaxLines
  /\ file' = file \o SubSeq(Sorted(lines), 1, n)
  /\ batch' = IF n = Len(lines) THEN <<>> ELSE Sorted(lines)

----------------------------------------------------------------------------
(* The loop of the worker.                                                 *)

Idle == worker = "running" /\ writing = <<>>

\* A tick of 500 ms flushes the batch.
Tick ==
  /\ Idle /\ batch # <<>>
  /\ \E n \in 0..Len(batch) :
       FlushBuffer(batch, n) /\ failed' = (failed \/ n < Len(batch))
  /\ UNCHANGED <<inbox, popper, popping, popCh, writing, others, dropped, tracker,
                 cancelled, worker>>

\* select may choose the channel over a context that is done.
Receive ==
  /\ Idle /\ popCh # <<>>
  /\ writing' = popCh /\ popCh' = <<>>
  /\ UNCHANGED <<inbox, popper, popping, sinks, tracker, cancelled, worker>>

\* What file.Write does with a new line; n1 lines reach the file.
FileWrite(m, n1) ==
  LET lines == Append(batch, m)
  IN  IF "file" \notin Outputs
        THEN n1 = 0 /\ UNCHANGED <<batch, file>>
        ELSE IF Len(lines) > BatchSize
               THEN n1 \in 0..Len(lines) /\ FlushBuffer(lines, n1)
               ELSE n1 = 0 /\ batch' = lines /\ UNCHANGED file

FileFails(m, n1) == /\ "file" \in Outputs /\ Len(batch) >= BatchSize
                    /\ n1 < Len(batch) + 1

\* Consecutive failures of all outputs; the first sets a new deadline.
CountFailures(total) ==
  /\ consecutiveCount' = IF total = 0 THEN consecutiveCount + 1 ELSE 0
  /\ overdue' = (overdue /\ consecutiveCount' > 1)

\* The message is given to every output, and failures are counted.  Once they
\* have lasted for the configured time the process is told to stop.
Write ==
  /\ worker = "running" /\ writing # <<>>
  /\ \E n1 \in 0..Len(batch) + 1, n2 \in {0, 1} :
       LET m == Head(writing)
       IN  /\ FileWrite(m, n1)
           /\ n2 = 1 => "other" \in Outputs
           /\ others' = IF n2 = 1 THEN others \union {m} ELSE others
           /\ failed' = (failed \/ FileFails(m, n1) \/ (n2 = 0 /\ "other" \in Outputs))
           /\ dropped' = IF n1 + n2 = 0 THEN dropped \union {m} ELSE dropped
           /\ CountFailures(n1 + n2)
           /\ signalled' = (signalled \/ (consecutiveCount' > 0 /\ overdue'))
  /\ writing' = <<>>
  /\ UNCHANGED <<inbox, popper, popping, popCh, cancelled, worker>>

\* Time passes the deadline.
DeadlinePasses ==
  /\ consecutiveCount > 0 /\ ~overdue
  /\ overdue' = TRUE
  /\ UNCHANGED <<inbox, popper, popping, popCh, writing, sinks, consecutiveCount,
                 signalled, cancelled, worker>>

\* A faulty variant: no last flush.
ReturnUnflushed ==
  /\ Idle /\ cancelled
  /\ worker' = "returned"
  /\ UNCHANGED <<inbox, popper, popping, popCh, writing, sinks, tracker, cancelled>>

\* The context is done: a last flush.
Return ==
  /\ Idle /\ cancelled
  /\ worker' = "returned"
  /\ \E n \in 0..Len(batch) :
       FlushBuffer(batch, n) /\ failed' = (failed \/ n < Len(batch))
  /\ UNCHANGED <<inbox, popper, popping, popCh, writing, others, dropped, tracker, cancelled>>

\* RemoveWorkers cancels the instance; it then waits until worker = "returned".
RemoveWorkers ==
  /\ ~cancelled /\ cancelled' = TRUE
  /\ UNCHANGED <<inbox, popper, popping, popCh, writing, sinks, tracker, worker>>

WorkerNext == PopperPops \/ PopperReturns \/ PopperSends \/ Tick \/ Receive \/ Write \/ DeadlinePasses \/ Return

\* The messages that ever were in the inbox.
Entered == ToSet(inbox \o popper \o popCh \o writing \o batch \o file) \union others \union dropped

\* A faulty variant: nothing is full.
PushAnyway(m) ==
  /\ inbox' = Append(inbox, m)
  /\ UNCHANGED <<popper, popping, popCh, writing, sinks, tracker, cancelled, worker>>

\* PushWithRetry of an assembler finds room.
Push(m) ==
  /\ Len(inbox) < Capacity
  /\ inbox' = Append(inbox, m)
  /\ UNCHANGED <<popper, popping, popCh, writing, sinks, tracker, cancelled, worker>>

OutputNext == WorkerNext \/ RemoveWorkers \/ \E m \in Messages \ Entered : Push(m)
OutputSpec == OutputInit /\ [][OutputNext]_output

----------------------------------------------------------------------------
(* Properties.                                                             *)

\* The process stops itself only when outputs failed: "All outputs have failed
\* writes" (worker.go:145).  A line that was only put in the batch counts as a
\* failure, so this does not hold of a receiver with a file output alone.
StopsOnFailure == signalled => failed
=============================================================================
