------------------------------ MODULE Journal -------------------------------
(***************************************************************************)
(* The journald input of the sender (src/internal/iomodules/journald): a   *)
(* reader of the output of journalctl, and the cursor it saves.            *)
(*                                                                         *)
(* The sender has one source, a file or the journal, and the two readers   *)
(* share the variables of module FileInput: of the journal, lines counts   *)
(* the entries, fdpos those journalctl has printed or skipped, chunk is    *)
(* the entry in hand and saved the state file.                             *)
(***************************************************************************)
EXTENDS FileInput

CONSTANT Tail_   \* entries that journalctl prints of the past, without a cursor

ASSUME JournalAssumption == Tail_ \in Nat

VARIABLES
  source,   \* "file" or "journal"
  cursor    \* readPosition: the last entry read, 0 if none

journalVars == <<source, cursor>>

JournalInit ==
  /\ source \in {"file", "journal"} /\ cursor = 0
  /\ source = "journal" => saved = <<>>

Entry(l) == <<<<l, 1>>, <<l, 2>>>>
OtherThanReader == <<fs, watcher, source>>

LogEntry ==
  /\ source = "journal" /\ lines < MaxLines
  /\ lines' = lines + 1
  /\ UNCHANGED <<files, path, created, wfd, half, truncations, watcher, reader, inbox, histories,
                 journalVars>>

\* getLastPosition: a cursor that begins with "s=", as each cursor of the journal
\* does, is taken for an invalid one.
CursorPrefix(c) == "s="
LastCursor == IF saved # <<>> /\ CursorPrefix(saved[1]) # "s=" THEN saved[1] ELSE 0

\* NewInput and Start: journalctl follows the journal, after the cursor if
\* there is one, else from its last entries.
StartJournal ==
  /\ rpc = "open" /\ rpc' = "top"
  /\ fdpos' = IF LastCursor # 0 THEN LastCursor
              ELSE IF lines > Tail_ THEN lines - Tail_ ELSE 0
  /\ Excuse((1..fdpos') \ (sent \union pushed))
  /\ pushed' = pushed \cap (1..fdpos') /\ cursor' = 0
  /\ UNCHANGED <<OtherThanReader, ctxDone, sink, ino, lineBuf, chunk, saved, inbox, sent, left,
                 torn, clean>>

JournalTop ==
  /\ rpc = "top" /\ Goto(IF ctxDone THEN "save" ELSE "entry")
  /\ KeepReader /\ UNCHANGED <<OtherThanReader, cursor, inbox, histories>>

\* extractEntry: the next entry, or an error once Shutdown has closed the pipe.
ExtractEntry ==
  /\ rpc = "entry"
  /\ \/ /\ fdpos < lines
        /\ Goto("push") /\ fdpos' = fdpos + 1 /\ cursor' = fdpos + 1
        /\ chunk' = Entry(fdpos + 1)
     \/ ctxDone /\ Goto("top") /\ UNCHANGED <<fdpos, cursor, chunk>>
  /\ UNCHANGED <<OtherThanReader, ctxDone, sink, ino, lineBuf, saved, inbox, histories>>

\* The rest of an iteration; PushBlocking gives up once the context is cancelled.
PushEntry ==
  /\ rpc = "push" /\ Goto("top") /\ chunk' = <<>>
  /\ \/ /\ ~PushGivesUp /\ HasRoom
        /\ inbox' = Append(inbox, chunk) /\ pushed' = pushed \union Whole(chunk)
        /\ UNCHANGED excused
     \/ PushGivesUp /\ Excuse(LinesIn(chunk)) /\ UNCHANGED <<inbox, pushed>>
  /\ UNCHANGED <<OtherThanReader, cursor, ctxDone, sink, fdpos, ino, lineBuf, saved, sent, left,
                 torn, clean>>

\* savePosition keeps the file where no entry was read.
SaveCursor ==
  /\ rpc = "save" /\ Goto("done")
  /\ saved' = IF cursor = 0 THEN saved ELSE <<cursor>>
  /\ UNCHANGED <<OtherThanReader, cursor, ctxDone, sink, fdpos, ino, lineBuf, chunk, inbox,
                 histories>>

ReadingJournal ==
  /\ source = "journal"
  /\ StartJournal \/ JournalTop \/ ExtractEntry \/ PushEntry \/ SaveCursor
============================================================================
