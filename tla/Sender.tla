------------------------------- MODULE Sender -------------------------------
(***************************************************************************)
(* The sending daemon (src/internal/sender): its source, a file or the     *)
(* journal (modules FileInput, Journal), the assembler that turns a        *)
(* message into packets, the output that writes packets to the network,    *)
(* Start, and Shutdown, which stops them in that order; crashes and        *)
(* restarts.                                                               *)
(*                                                                         *)
(* A packet is a message and the number of the fragment.  The queues are   *)
(* those of module Ring: here they are sequences.                          *)
(***************************************************************************)
EXTENDS Journal

CONSTANTS
  Fragments,       \* packets of a message
  OutboxCapacity,  \* of the output's queue
  MaxStarts        \* bound on the processes started, the last of which runs on

ASSUME SenderAssumption ==
  /\ Fragments \in Nat \ {0} /\ OutboxCapacity \in Nat \ {0} /\ MaxStarts \in Nat

VARIABLES
  daemon,    \* where Start or Shutdown is
  starts,    \* processes started
  asm, todo, asmDone,   \* the assembler, the packets it has to push, its context
  outbox,
  out, frag, outDone,   \* the output worker, the packet it has to write, its context
  net        \* packets written

pipeline == <<asm, todo, asmDone, outbox, out, frag, outDone>>
vars == <<fileVars, journalVars, daemon, starts, pipeline, net>>

Init ==
  /\ FileInit /\ JournalInit
  /\ daemon = "off" /\ starts = 0
  /\ asm = "none" /\ todo = <<>> /\ asmDone = FALSE /\ outbox = <<>>
  /\ out = "none" /\ frag = <<>> /\ outDone = FALSE /\ net = {}

Packets(m) == [k \in 1..Fragments |-> <<m, k>>]
LinesOf(packets) == UNION {LinesIn(p[1]) : p \in packets}

----------------------------------------------------------------------------
(* The assembler.                                                          *)

\* The head of the loop.
AsmNext == IF asmDone THEN "returned" ELSE "pop"

\* A message is taken and serialized, which may fail.
AsmPop ==
  /\ asm = "pop" /\ inbox # <<>>
  /\ inbox' = Tail(inbox)
  /\ \/ asm' = "push" /\ todo' = Packets(Head(inbox)) /\ UNCHANGED excused
     \/ asm' = AsmNext /\ Excuse(LinesIn(Head(inbox))) /\ UNCHANGED todo
  /\ UNCHANGED <<journalVars, fs, watcher, reader, sent, pushed, left, torn, clean, daemon, starts, asmDone,
                 outbox, out, frag, outDone, net>>

AsmReturns ==
  /\ asm = "pop" /\ asmDone /\ asm' = "returned"
  /\ UNCHANGED <<fileVars, journalVars, daemon, starts, todo, asmDone, outbox, out, frag, outDone, net>>

\* PushWithRetry, fragment by fragment: one that finds the queue full four times
\* is dropped.
AsmPush ==
  /\ asm = "push"
  /\ \/ /\ Len(outbox) < OutboxCapacity
        /\ outbox' = Append(outbox, Head(todo)) /\ UNCHANGED excused
     \/ /\ Len(outbox) = OutboxCapacity
        /\ Excuse(LinesOf({Head(todo)})) /\ UNCHANGED outbox
  /\ todo' = Tail(todo) /\ asm' = IF Len(todo) = 1 THEN AsmNext ELSE "push"
  /\ UNCHANGED <<journalVars, fs, watcher, reader, inbox, sent, pushed, left, torn, clean, daemon, starts,
                 asmDone, out, frag, outDone, net>>

Assembling == AsmPop \/ AsmReturns \/ AsmPush

----------------------------------------------------------------------------
(* The output worker.                                                      *)

OutPop ==
  /\ out = "pop"
  /\ \/ /\ outbox # <<>>
        /\ outbox' = Tail(outbox) /\ frag' = Head(outbox) /\ out' = "write"
     \/ outDone /\ out' = "returned" /\ UNCHANGED <<outbox, frag>>
  /\ UNCHANGED <<fileVars, journalVars, daemon, starts, asm, todo, asmDone, outDone, net>>

\* A packet is written once; a failed write drops it.
OutWrite ==
  /\ out = "write" /\ out' = (IF outDone THEN "returned" ELSE "pop") /\ frag' = <<>>
  /\ \/ /\ net' = net \union {frag}
        /\ sent' = IF \A k \in 1..Fragments : <<frag[1], k>> \in net'
                   THEN sent \union Whole(frag[1]) ELSE sent
        /\ UNCHANGED excused
     \/ Excuse(LinesOf({frag})) /\ UNCHANGED <<sent, net>>
  /\ UNCHANGED <<journalVars, fs, watcher, reader, inbox, pushed, left, torn, clean, daemon, starts, asm, todo,
                 asmDone, outbox, outDone>>

Sending == OutPop \/ OutWrite

----------------------------------------------------------------------------
(* Start and Shutdown.                                                     *)

Control(from, to) == daemon = from /\ daemon' = to

\* AddInstance of the two managers.
AddOutput == out' = "pop"
AddAssembler == asm' = "pop"

\* The outputs and the assemblers come first, then the inputs.
StartPipeline ==
  /\ Control("off", "up") /\ starts < MaxStarts
  /\ starts' = starts + 1
  /\ AddOutput /\ AddAssembler /\ rpc' = "open"
  /\ UNCHANGED <<journalVars, fs, watcher, ctxDone, sink, fdpos, ino, lineBuf, chunk, saved, inbox,
                 histories, todo, asmDone, outbox, frag, outDone, net>>

\* Init or one of the managers refuses its configuration: the program ends.
StartRefused ==
  /\ Control("off", "off") /\ starts < MaxStarts /\ starts' = starts + 1
  /\ UNCHANGED <<fileVars, journalVars, pipeline, net>>

\* NewInput has returned, its reader runs, and the rest of Start follows.
Started == rpc \notin {"open", "position", "watchFile", "watchDir"}

\* Memory, descriptors and watches go with the process.
Gone ==
  /\ daemon' = "off"
  /\ watch' = 0 /\ dirWatch' = FALSE /\ events' = <<>> /\ rotating' = FALSE
  /\ changed' = FALSE /\ rotated' = FALSE
  /\ rpc' = "off" /\ ctxDone' = FALSE /\ sink' = 0 /\ fdpos' = 0 /\ ino' = 0
  /\ lineBuf' = <<>> /\ chunk' = <<>> /\ inbox' = <<>>
  /\ asm' = "none" /\ todo' = <<>> /\ asmDone' = FALSE /\ outbox' = <<>>
  /\ out' = "none" /\ frag' = <<>> /\ outDone' = FALSE
  /\ left' = (1..created) \ {path}
  /\ UNCHANGED <<fs, saved, sent, torn, journalVars, starts, net>>

\* Lines that the next process finds in the file.
Resume == LastPosition[2]
Found ==
  IF source = "journal" THEN 1..lines
  ELSE IF path = 0 THEN {}
  ELSE {l \in Lines : <<l, 1>> \in Range(Rest(files[path], Resume))}
Unreachable == (1..lines) \ (sent \union Found)

\* There is no file to open or to watch, or journalctl fails: Start returns the
\* error and the program ends.
StartFails ==
  /\ daemon = "up" /\ rpc \in {"open", "watchFile"} /\ (path = 0 \/ source = "journal")
  /\ Gone /\ Excuse(Unreachable) /\ UNCHANGED <<pushed, clean>>

\* The inputs are cancelled and waited for without a limit.
StopInputs ==
  /\ Control("up", "stopInputs") /\ Started /\ starts < MaxStarts /\ ctxDone' = TRUE
  /\ UNCHANGED <<journalVars, fs, watcher, rpc, sink, fdpos, ino, lineBuf, chunk, saved, inbox, histories,
                 starts, pipeline, net>>

InputsStopped ==
  /\ Control("stopInputs", "drainAssemblers") /\ rpc = "done"
  /\ UNCHANGED <<fileVars, journalVars, starts, pipeline, net>>

\* WaitUntilZero on the inbox's depth, for 10 seconds; then the assembler is
\* cancelled.
AssemblersDrained ==
  /\ Control("drainAssemblers", "stopAssemblers")
  /\ asmDone' = TRUE
  /\ Excuse(UNION {LinesIn(m) : m \in Range(inbox)})
  /\ UNCHANGED <<journalVars, fs, watcher, reader, inbox, sent, pushed, left, torn, clean, starts, asm, todo,
                 outbox, out, frag, outDone, net>>

AssemblersStoppedEarly ==   \* mutant: the worker is not waited for
  /\ Control("stopAssemblers", "drainOutputs")
  /\ UNCHANGED <<fileVars, journalVars, starts, pipeline, net>>

\* RemoveLastInstance waits for the worker.
AssemblersStopped ==
  /\ Control("stopAssemblers", "drainOutputs") /\ asm = "returned"
  /\ UNCHANGED <<fileVars, journalVars, starts, pipeline, net>>

OutputsDrained ==
  /\ Control("drainOutputs", "stopOutputs")
  /\ outDone' = TRUE
  /\ Excuse(LinesOf(Range(outbox)))
  /\ UNCHANGED <<journalVars, fs, watcher, reader, inbox, sent, pushed, left, torn, clean, starts, asm, todo,
                 asmDone, outbox, out, frag, net>>

\* The last worker has returned and the program ends.
Exit ==
  /\ daemon = "stopOutputs" /\ out = "returned"
  /\ Gone /\ UNCHANGED <<pushed, excused, clean>>

\* The process is killed at any point: what was read and not sent is read again,
\* unless its file has been moved away.
Crash ==
  /\ daemon # "off" /\ starts < MaxStarts
  /\ Gone /\ clean' = FALSE /\ pushed' = {}
  /\ Excuse(Unreachable)

Alone == UNCHANGED <<daemon, starts, pipeline, net>>
OfFile == source = "file" /\ UNCHANGED journalVars

Daemon ==
  \/ OfFile /\ (Watching \/ NewInput \/ Reading) /\ Alone
  \/ ReadingJournal /\ Alone
  \/ Assembling \/ Sending
  \/ StartPipeline \/ StartRefused \/ StartFails
  \/ InputsStopped \/ AssemblersDrained \/ AssemblersStopped \/ OutputsDrained \/ Exit

Next == (OfFile /\ Environment /\ Alone) \/ (LogEntry /\ Alone) \/ Daemon \/ StopInputs \/ Crash

Spec == Init /\ [][Next]_vars /\ WF_vars(OfFile /\ CreateNew /\ Alone) /\ WF_vars(Daemon)

----------------------------------------------------------------------------
(* Properties.                                                             *)

\* The variables have their types, and neither queue holds more than it can.
TypeOK ==
  /\ files \in [Inodes -> Seq(Part)] /\ path \in 0..MaxInodes /\ wfd \in Inodes
  /\ saved \in Seq(Nat) /\ cursor \in 0..MaxLines
  /\ Range(inbox) \subseteq Seq(Part) /\ Len(inbox) <= QueueCapacity
  /\ Range(outbox) \subseteq (Seq(Part) \X (1..Fragments)) /\ Len(outbox) <= OutboxCapacity

\* processFileChunk: a message is one whole line, however the writes of the
\* program, the reads and the wake-ups of the reader fall, unless a line was
\* begun in one place and ended in another (a truncation, a rotation in the
\* middle of a line, a stop in the middle of a line) or the position saved is not
\* one in the file whose inode is saved with it (a rotation between the open and
\* the look at the path, new.go:55-62).
MessageIsLine ==
  torn \/ \A m \in Range(inbox) : \E l \in Lines : m = Entry(l)


\* When Shutdown has stopped the last stage, what the inputs pushed has been
\* written to the network or was counted as dropped: no stage is stopped while
\* the one before it still holds a message.
ExitLosesNothing ==
  (daemon = "stopOutputs" /\ out = "returned") => pushed \subseteq sent \union excused

\* The position in the state file never lies behind a line that was not sent, so
\* that the next start does not skip one.
ResumeSkipsNothing ==
  (daemon = "off" /\ source = "file" /\ path # 0) =>
    LinesIn(SubSeq(files[path], 1, Resume)) \subseteq sent \union excused

Complete(l) == l < lines \/ (l = lines /\ ~half)

\* The reader follows a file that nothing watches: a reopen failed, or the path
\* was empty when the watcher or the reader looked.
Stuck ==
  /\ daemon = "up" /\ rpc = "select" /\ ~rotating /\ ~rotated
  /\ sink = 0 \/ (path = 0 /\ watch # sink)
Over == daemon = "off" /\ starts = MaxStarts

\* Every line the program completes reaches the network, over rotations, crashes
\* and restarts, unless it is lost for a named cause, the reader is stuck, or the
\* sender is not started again.
LineIsSent == \A l \in Lines : Complete(l) ~> (l \in sent \union excused \/ Stuck \/ Over)
============================================================================
