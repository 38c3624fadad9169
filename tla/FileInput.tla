----------------------------- MODULE FileInput -----------------------------
(***************************************************************************)
(* The file input of the sender (src/internal/iomodules/file): the reader  *)
(* that follows a log file, the inotify watcher that wakes it, and the     *)
(* position it saves for its next start, against a program that writes the *)
(* file and a rotation that moves it away or truncates it.                 *)
(*                                                                         *)
(* A file is an inode with a sequence of parts: line l is written as its   *)
(* text <<l, 1>> and its end <<l, 2>>, which holds the newline.  A message *)
(* is the sequence of parts the reader took for one line.                  *)
(*                                                                         *)
(* currentReadOffset is not a variable: fileReadAll sets it to the position*)
(* of the descriptor before the reader can stop, so that what is saved or  *)
(* compared with the size is that position, or 0 where sink is nil.        *)
(***************************************************************************)
EXTENDS Naturals, Sequences, FiniteSets, SequencesExt

CONSTANTS
  MaxLines,         \* bound on the lines written
  MaxInodes,        \* bound on the files at the path, truncations included
  QueueCapacity     \* of the assembler's inbox

Lines == 1..MaxLines
Inodes == 1..MaxInodes
Part == Lines \X {1, 2}

ASSUME FileAssumption ==
  /\ MaxLines \in Nat /\ MaxInodes \in Nat \ {0}
  /\ QueueCapacity \in Nat \ {0}

VARIABLES
  files,      \* the contents of every inode
  path,       \* the inode at the configured path, 0 if there is none
  created,    \* inodes created so far
  wfd,        \* the inode the logging program has open
  lines,      \* lines begun
  half,       \* the last line begun has no newline yet
  truncations
VARIABLES
  watch,      \* the inode of the file watch, 0 if there is none
  dirWatch,   \* the directory is watched
  events,     \* inotify events not read yet
  rotating,   \* the watcher is in rotateInode
  changed, rotated   \* the one-place channels of the watcher
VARIABLES
  rpc,        \* where NewInput or the reader is
  ctxDone,    \* the context of the module is cancelled
  sink,       \* the inode of the open file, 0 if nil
  fdpos,      \* the position of the descriptor
  ino,        \* currentReadID.ino
  lineBuf,
  chunk,      \* what is left of the bytes read last
  inbox,      \* the assembler's queue
  saved       \* the state file: empty, or inode and position
VARIABLES     \* histories
  sent,       \* lines whose message has left for the receiver
  pushed,     \* lines pushed by this process and by those whose position it resumed
  excused,    \* lines lost for one of the causes named below
  left,       \* inodes the reader has left or will not notice
  torn,       \* a line was begun in one place and ended in another
  clean       \* the last process saved its position

fs == <<files, path, created, wfd, lines, half, truncations>>
watcher == <<watch, dirWatch, events, rotating, changed, rotated>>
reader == <<rpc, ctxDone, sink, fdpos, ino, lineBuf, chunk, saved>>
histories == <<sent, pushed, excused, left, torn, clean>>
fileVars == <<fs, watcher, reader, inbox, histories>>

FileInit ==
  /\ files = [i \in Inodes |-> <<>>] /\ path = 1 /\ created = 1 /\ wfd = 1
  /\ lines = 0 /\ half = FALSE /\ truncations = 0
  /\ watch = 0 /\ dirWatch = FALSE /\ events = <<>> /\ rotating = FALSE
  /\ changed = FALSE /\ rotated = FALSE
  /\ rpc = "off" /\ ctxDone = FALSE /\ sink = 0 /\ fdpos = 0 /\ ino = 0
  /\ lineBuf = <<>> /\ chunk = <<>> /\ inbox = <<>>
  \* Nothing is saved yet, or an earlier process followed the file while it was empty.
  /\ saved \in {<<>>, <<1, 0>>}
  /\ sent = {} /\ pushed = {} /\ excused = {} /\ left = {} /\ torn = FALSE /\ clean = TRUE

Running == rpc \notin {"off", "done"}
LinesIn(s) == {p[1] : p \in Range(s)}
Rest(s, n) == SubSeq(s, n + 1, Len(s))
\* Lines of which neither the network nor the pipeline has a message.
Unsent(s) == LinesIn(s) \ (sent \union pushed)
Excuse(set) == excused' = excused \union set

----------------------------------------------------------------------------
(* The logging program and the rotation of its file.                       *)

\* Identical events in a row are one.
Notify(e) == IF events # <<>> /\ Last(events) = e THEN events ELSE Append(events, e)
Modified(i) == events' = IF watch = i THEN Notify(<<"modify", i>>) ELSE events

\* Where reading goes on in inode i: what is written below it, after a
\* truncation, is skipped.
Mark(i) == IF sink = i /\ rpc # "position" THEN fdpos
           ELSE IF saved # <<>> /\ saved[1] = i THEN saved[2] ELSE 0

Append_(ps, n, h) ==
  /\ files' = [files EXCEPT ![wfd] = @ \o ps]
  /\ lines' = n /\ half' = h
  /\ Modified(wfd)
  /\ Excuse(IF wfd \in left \/ Len(files[wfd]) < Mark(wfd) THEN {n} ELSE {})
  /\ UNCHANGED <<path, created, wfd, truncations, watch, dirWatch, rotating, changed,
                 rotated, reader, inbox, sent, pushed, left, torn, clean>>

WriteLine == ~half /\ lines < MaxLines /\ Append_(<<<<lines + 1, 1>>, <<lines + 1, 2>>>>, lines + 1, FALSE)
WriteHalf == ~half /\ lines < MaxLines /\ Append_(<<<<lines + 1, 1>>>>, lines + 1, TRUE)
WriteRest == half /\ Append_(<<<<lines, 2>>>>, lines, FALSE)

\* The first half of a rotation.  A reader that has not opened this inode
\* will never do so.
MoveAway ==
  /\ path # 0 /\ created + truncations < MaxInodes
  /\ path' = 0
  /\ left' = IF Running /\ sink = path THEN left ELSE left \union {path}
  /\ Excuse(IF Running /\ sink = path THEN {} ELSE Unsent(files[path]))
  /\ UNCHANGED <<files, created, wfd, lines, half, truncations, watcher, reader, inbox,
                 sent, pushed, torn, clean>>

\* The second half.  NewInput opens the file before it watches the directory,
\* so that it may miss this event.
CreateNew ==
  /\ path = 0
  /\ created' = created + 1 /\ path' = created + 1
  /\ events' = IF dirWatch THEN Notify(<<"create", 0>>) ELSE events
  /\ left' = IF dirWatch \/ sink = 0 THEN left ELSE left \union {created + 1}
  /\ UNCHANGED <<files, wfd, lines, half, truncations, watch, dirWatch, rotating, changed,
                 rotated, reader, inbox, sent, pushed, excused, torn, clean>>

\* The program opens the new file, at the end of a line.
WriterReopens ==
  /\ path # 0 /\ wfd # path /\ ~half
  /\ wfd' = path
  /\ UNCHANGED <<files, path, created, lines, half, truncations, watcher, reader, inbox, histories>>

Truncate ==
  /\ path # 0 /\ wfd = path /\ created + truncations < MaxInodes /\ files[path] # <<>>
  /\ truncations' = truncations + 1
  /\ files' = [files EXCEPT ![path] = <<>>]
  /\ Modified(path)
  /\ Excuse(Unsent(files[path])) /\ torn' = TRUE
  /\ UNCHANGED <<path, created, wfd, lines, half, watch, dirWatch, rotating, changed, rotated,
                 reader, inbox, sent, pushed, left, clean>>

Environment == WriteLine \/ WriteHalf \/ WriteRest \/ MoveAway \/ CreateNew \/ WriterReopens \/ Truncate
----------------------------------------------------------------------------
(* The watcher.                                                            *)

\* processEvent: a change of the watched inode leaves one token; a file
\* created or moved to the path ends the watch of the old inode.
ProcessEvent ==
  /\ dirWatch /\ events # <<>> /\ ~rotating
  /\ events' = Tail(events)
  /\ LET e == Head(events) IN
       /\ changed' = (changed \/ e = <<"modify", watch>>)
       /\ watch' = IF e[1] = "create" THEN 0 ELSE watch
       /\ rotating' = (e[1] = "create")
  /\ UNCHANGED <<fs, dirWatch, rotated, reader, inbox, histories>>

RotateInodeSilent ==   \* mutant: no token
  /\ rotating /\ rotating' = FALSE
  /\ watch' = path
  /\ UNCHANGED <<fs, dirWatch, events, changed, rotated, reader, inbox, histories>>

\* rotateInode: the file now at the path is watched; with none there in five
\* attempts there is no watch and no token.
RotateInode ==
  /\ rotating /\ rotating' = FALSE
  /\ watch' = path /\ rotated' = (rotated \/ path # 0)
  /\ UNCHANGED <<fs, dirWatch, events, changed, reader, inbox, histories>>

Watching == ProcessEvent \/ RotateInode

----------------------------------------------------------------------------
(* NewInput.                                                               *)

OpenInput ==
  /\ rpc = "open" /\ path # 0
  /\ rpc' = "position" /\ sink' = path /\ fdpos' = 0 /\ left' = left \ {path}
  /\ UNCHANGED <<fs, watcher, ctxDone, ino, lineBuf, chunk, saved, inbox, sent, pushed,
                 excused, torn, clean>>

LastPosition ==
  IF saved = <<>> \/ path = 0 THEN <<0, 0>>
  ELSE IF saved[1] = path
       THEN <<path, IF saved[2] > Len(files[path]) THEN Len(files[path]) ELSE saved[2]>>
       ELSE <<path, 0>>

\* The saved position is the one of this file, and the last process saved it.
Resumes == clean /\ saved # <<>> /\ saved[1] = path /\ sink = path

SeekLast ==
  /\ rpc = "position" /\ rpc' = "watchFile"
  /\ ino' = LastPosition[1] /\ fdpos' = LastPosition[2]
  /\ pushed' = IF Resumes THEN pushed ELSE {}
  /\ UNCHANGED <<fs, watcher, ctxDone, sink, lineBuf, chunk, saved, inbox, sent, excused,
                 left, torn, clean>>

\* The file watched may be another than the one that is open.
WatchFile ==
  /\ rpc = "watchFile" /\ path # 0
  /\ rpc' = "watchDir" /\ watch' = path
  /\ left' = IF sink = path THEN left ELSE left \union {sink, path}
  /\ UNCHANGED <<fs, dirWatch, events, rotating, changed, rotated, ctxDone, sink, fdpos, ino,
                 lineBuf, chunk, saved, inbox, sent, pushed, excused, torn, clean>>

WatchDir ==
  /\ rpc = "watchDir" /\ rpc' = "top" /\ dirWatch' = TRUE
  /\ UNCHANGED <<fs, watch, events, rotating, changed, rotated, ctxDone, sink, fdpos, ino,
                 lineBuf, chunk, saved, inbox, histories>>

NewInput == OpenInput \/ SeekLast \/ WatchFile \/ WatchDir

----------------------------------------------------------------------------
(* The reader.                                                             *)

Goto(p) == rpc' = p
KeepReader == UNCHANGED <<ctxDone, sink, fdpos, ino, lineBuf, chunk, saved>>

\* What is still in a file that was moved away is lost when the reader stops.
Moved == {sink} \ {0, path}
LeaveBehind == UNION {Unsent(Rest(files[i], fdpos)) : i \in Moved}

\* The head of the loop: a cancelled context ends the reader, which saves
\* nothing.
Top ==
  /\ rpc = "top"
  /\ Goto(IF ctxDone THEN "done" ELSE "read")
  /\ clean' = (clean /\ ~ctxDone)
  /\ Excuse(IF ctxDone THEN LeaveBehind ELSE {})
  /\ left' = IF ctxDone THEN left \union Moved ELSE left
  /\ KeepReader
  /\ UNCHANGED <<fs, watcher, inbox, sent, pushed, torn>>

\* fileReadAll: reads to the end of the file, whatever happens to the context.
ReadFile ==
  /\ rpc \in {"read", "rotread"} /\ chunk = <<>>
  /\ IF sink # 0 /\ fdpos < Len(files[sink])
     THEN /\ chunk' = Rest(files[sink], fdpos) /\ fdpos' = Len(files[sink])
          /\ UNCHANGED rpc
     ELSE /\ Goto(CASE rpc = "read" -> "select"
                    [] sink # 0 -> "stat"
                    [] OTHER -> "check")
          /\ UNCHANGED <<chunk, fdpos>>
  /\ UNCHANGED <<fs, watcher, ctxDone, sink, ino, lineBuf, saved, inbox, histories>>

Message == lineBuf \o <<Head(chunk)>>
Whole(m) == {l \in Lines : {<<l, 1>>, <<l, 2>>} \subseteq Range(m)}
PushGivesUp == ctxDone
HasRoomForOneMore == Len(inbox) <= QueueCapacity   \* mutant
HasRoom == Len(inbox) < QueueCapacity

\* processFileChunk: the text of a line is kept, at its end the message is
\* pushed; PushBlocking gives up once the context is cancelled.  No filter is
\* configured.
ProcessChunk ==
  /\ rpc \in {"read", "rotread"} /\ chunk # <<>>
  /\ chunk' = Tail(chunk)
  /\ \/ /\ Head(chunk)[2] = 1
        /\ lineBuf' = Message
        /\ UNCHANGED <<inbox, pushed, excused>>
     \/ /\ Head(chunk)[2] = 2
        /\ lineBuf' = <<>>
        /\ \/ /\ ~PushGivesUp /\ HasRoom
              /\ inbox' = Append(inbox, Message)
              /\ pushed' = pushed \union Whole(Message)
              /\ UNCHANGED excused
           \/ /\ PushGivesUp
              /\ Excuse(LinesIn(Message))
              /\ UNCHANGED <<inbox, pushed>>
  /\ UNCHANGED <<fs, watcher, rpc, ctxDone, sink, fdpos, ino, saved, sent, left, torn, clean>>

\* The reader waits for a change, a rotation or the end.
Select ==
  /\ rpc = "select"
  /\ \/ ctxDone /\ Goto("save") /\ UNCHANGED <<changed, rotated>>
     \/ changed /\ Goto("check") /\ changed' = FALSE /\ UNCHANGED rotated
     \/ rotated /\ Goto("rotread") /\ rotated' = FALSE /\ UNCHANGED changed
  /\ KeepReader
  /\ UNCHANGED <<fs, watch, dirWatch, events, rotating, inbox, histories>>

\* reopenLogfile up to the comparison of inodes; with nothing at the path in
\* five attempts the old file stays open.
StatNew ==
  /\ rpc = "stat"
  /\ Goto(IF path = 0 \/ ino = path THEN "check" ELSE "reopen")
  /\ ino' = IF path = 0 THEN ino ELSE path
  /\ UNCHANGED <<fs, watcher, ctxDone, sink, fdpos, lineBuf, chunk, saved, inbox, histories>>

\* The rest of it: the file may have moved again since it was looked at.  The
\* text of an unfinished line is kept and the next line added to it.
Reopen ==
  /\ rpc = "reopen" /\ Goto("check")
  /\ sink' = path /\ fdpos' = 0
  /\ Excuse(IF sink = path THEN {} ELSE Unsent(Rest(files[sink], fdpos)))
  /\ left' = IF path = 0 THEN left \union {sink} ELSE (left \union {sink}) \ {path}
  /\ pushed' = IF sink = path THEN pushed \ LinesIn(files[sink]) ELSE pushed
  /\ torn' = (torn \/ lineBuf # <<>>)
  /\ UNCHANGED <<fs, watcher, ctxDone, ino, lineBuf, chunk, saved, inbox, sent, clean>>

\* Mutant: each change clears lineBuf.
CheckTruncatedAlways ==
  /\ rpc = "check" /\ Goto("top")
  /\ lineBuf' = <<>>
  /\ UNCHANGED <<fs, watcher, ctxDone, sink, fdpos, ino, chunk, saved, inbox, histories>>

\* A failed Stat or a file shorter than the offset: lineBuf is cleared, but the
\* position of the descriptor is not changed.
CheckTruncated ==
  /\ rpc = "check" /\ Goto("top")
  /\ lineBuf' = IF sink = 0 \/ fdpos > Len(files[sink]) THEN <<>> ELSE lineBuf
  /\ UNCHANGED <<fs, watcher, ctxDone, sink, fdpos, ino, chunk, saved, inbox, histories>>

\* The watcher is stopped, and the state file truncated.
SaveTruncates ==
  /\ rpc = "save" /\ ~rotating /\ Goto("write")
  /\ saved' = <<>>
  /\ dirWatch' = FALSE /\ watch' = 0 /\ events' = <<>> /\ changed' = FALSE /\ rotated' = FALSE
  /\ UNCHANGED <<fs, rotating, ctxDone, sink, fdpos, ino, lineBuf, chunk, inbox, histories>>

\* Mutant: the position saved is the size of the file.
SavedPositionSize == IF sink = 0 THEN 0 ELSE Len(files[sink])
SavedPosition == IF sink = 0 THEN 0 ELSE fdpos

\* NewInput looked at the path when a rotation had put another file there.
OtherInode == ino # 0 /\ sink # 0 /\ ino # sink

\* The position is that of the descriptor: the text of an unfinished line counts
\* as read.  The inode may be that of another file.
SaveWrites ==
  /\ rpc = "write" /\ Goto("done")
  /\ saved' = <<ino, SavedPosition>>
  /\ Excuse(LinesIn(lineBuf) \union LeaveBehind) /\ left' = left \union Moved
  /\ torn' = (torn \/ lineBuf # <<>> \/ OtherInode)
  /\ clean' = TRUE
  /\ UNCHANGED <<fs, watcher, ctxDone, sink, fdpos, ino, lineBuf, chunk, inbox, sent, pushed>>

Reading == Top \/ ReadFile \/ ProcessChunk \/ Select \/ StatNew \/ Reopen \/ CheckTruncated
             \/ SaveTruncates \/ SaveWrites
============================================================================
