---------------------------- MODULE UpdateProofs ----------------------------
(***************************************************************************)
(* Proofs about Update and KeyFile.  LifeInv relates the two processes of  *)
(* an update, KeysInv says what still has to reach a daemon whose keys are *)
(* not those of the file, EditsInv what is true of the file while at most  *)
(* one command is editing it.                                              *)
(***************************************************************************)
EXTENDS Update, TLAPS

\* SIGTERM waits in the child's channel.
Termed == \E i \in 1 .. Len(sig["child"]) : sig["child"][i] = "TERM"

\* Main relies on a child that has reported that it is ready: it has heard of it,
\* drains, hangs there, or is the image that will end it.
RelyOnChild ==
  \/ pc["main"] = "wait" /\ pipe = "ready"
  \/ mode = "receive" /\ pc["main"] \in {"drain", "exec"}
  \/ mode = "receive" /\ pc["main"] = "hung" /\ "stopped" \notin cause
  \/ childPid /\ pc["main"] \in {"init", "start", "ready"}

\* The two processes of an update.
LifeInv ==
  /\ pc["child"] \in {"gone", "init", "start", "ready", "run", "stop", "hung"}
  /\ pc["child"] = "gone" => fipr["child"] = "off"
  /\ pc["child"] \in {"gone", "init", "start", "ready"} => sig["child"] = <<>>
  \* Whoever starts, updates or stops otherwise has no child.
  /\ pc["main"] \in {"run", "hup", "stop", "over"} => pc["child"] = "gone"
  /\ pc["main"] \in {"init", "start", "ready"} /\ ~childPid => pc["child"] = "gone"
  /\ mode = "send" => pc["child"] = "gone" /\ ~childPid
                      /\ pc["main"] \notin {"hup", "wait", "late", "term", "reap"}
  /\ mode = "receive" => pc["main"] # "over"
  \* The pipe and the child.
  /\ pc["main"] = "wait" => pipe \in {"open", "ready"}
  /\ RelyOnChild \/ pc["main"] \in {"drain", "exec", "init", "start", "ready", "term", "reap"}
       => pc["child"] \notin {"init", "start", "ready"}
  /\ RelyOnChild => (pc["child"] = "run" /\ ~Termed) \/ "crash" \in cause
  \* Main, once it has served.
  /\ served /\ mode = "receive" /\ pc["main"] \in {"init", "start", "ready"} => childPid
  /\ pc["main"] = "stop" => "stopped" \in cause
  /\ pc["main"] = "gone" =>
       \/ cause \intersect {"signalled", "crash", "startFailed", "initFailed"} # {}
       \/ "execFailed" \in cause /\ pc["child"] = "run" /\ ~Termed
       \/ pc["child"] = "gone" /\ ("stopped" \in cause \/ mode = "send")
  \* FIPR.
  /\ pc["child"] \in {"ready", "run", "stop"} =>
       fipr["child"] = "on" \/ (fipr["child"] = "failed" /\ "fiprFailed" \in cause)
  /\ pc["main"] \in {"hup", "wait"} => fipr["main"] = "on"
  /\ pc["main"] = "drain" /\ mode = "receive" => fipr["main"] = "on"
  /\ pc["main"] = "reap" => fipr["main"] = "on" \/ "fiprFailed" \in cause
  /\ pc["main"] \in {"late", "term"} => "updateFailed" \in cause
  /\ pc["main"] = "run" /\ fipr["main"] # "off" => "updateFailed" \in cause

\* A change of the keys is on its way to main: a command has not signalled it
\* yet, or the signal waits.
Reloads == \E i \in 1 .. Len(sig["main"]) : sig["main"][i] = "USR1"
Pending == Reloads \/ \E c \in Commands : Busy(c)

\* Until main has been told, or not been told for a named reason, its keys may
\* differ from those of the file.
KeysInv ==
  /\ Alive("main") => \A c \in Commands : cmd[c].pc = "kill" => cmd[c].target = "main"
  /\ (/\ pc["main"] \notin {"init", "gone"} /\ conf = "set" /\ file \in Contents
      /\ cause \intersect {"refused", "ignored", "suiteKept"} = {} /\ ~Pending)
        => keys["main"] = file

Active(c) == cmd[c].pc \notin {"idle", "failed"}
\* The edit of c is in the set of hosts s, or another command had the same host.
Kept(c, s) ==
  \/ cmd[c].host \in s <=> cmd[c].op = "add"
  \/ \E d \in Commands : d # c /\ Active(d) /\ cmd[d].host = cmd[c].host

\* The file while commands do not overlap: what the one that is editing will
\* write, or what is there, has the edits of all of them.
EditsInv ==
  /\ \A c \in Commands : cmd[c].pc \in {"trunc", "write"} => cmd[c].fresh \/ conf # "none"
  /\ \A c \in Commands : cmd[c].pc \in {"cwrite", "ps", "kill", "done"} => conf # "none"
  /\ "overlap" \notin cause =>
       /\ \A c, d \in Commands : Editing(c) /\ Editing(d) => c = d
       /\ \A c \in Commands : cmd[c].pc = "write" => file = Torn
       /\ \A c \in Commands : cmd[c].pc \in {"trunc", "write"} =>
            \A d \in Commands : Active(d) => Kept(d, cmd[c].val)
       /\ (\A c \in Commands : cmd[c].pc \notin {"trunc", "write"}) =>
            \A d \in Commands : Active(d) => file \in Contents /\ Kept(d, file)

----------------------------------------------------------------------------
\* The tail of a signal channel.
LEMMA TailFacts ==
  ASSUME NEW s \in Seq({"HUP", "TERM", "USR1"}), s # <<>>
  PROVE  /\ Tail(s) \in Seq({"HUP", "TERM", "USR1"}) /\ Head(s) = s[1] /\ 1 \in 1 .. Len(s)
         /\ \A i \in 1 .. Len(Tail(s)) : i + 1 \in 1 .. Len(s) /\ Tail(s)[i] = s[i + 1]
OBVIOUS

----------------------------------------------------------------------------
(* Types.                                                                  *)

\* A process that ends leaves typed state behind.
LEMMA EndsType ==
  ASSUME ProcTypeOK, NEW p \in Pids, Ends(p)
  PROVE  ProcTypeOK'
<1>1. {} \in Contents /\ <<>> \in Seq({"HUP", "TERM", "USR1"})
  BY DEF Contents
<1> QED
  BY <1>1 DEF Ends, ProcTypeOK

\* A signal ends a process or waits in its channel.
LEMMA SignalType ==
  ASSUME ProcTypeOK, NEW p \in Pids, NEW s \in {"HUP", "TERM", "USR1"}, Signal(p, s)
  PROVE  ProcTypeOK'
<1>1. CASE UNCHANGED <<pc, keys, fipr, sig>>
  BY <1>1 DEF ProcTypeOK
<1>2. CASE sig' = [sig EXCEPT ![p] = Append(@, s)] /\ UNCHANGED <<pc, keys, fipr>>
  BY <1>2 DEF ProcTypeOK
<1>3. CASE Ends(p)
  BY <1>3, EndsType
<1> QED
  BY ZenonT(30), <1>1, <1>2, <1>3 DEF Signal

\* SIGTERM to the child.
LEMMA TermChildType ==
  ASSUME ProcTypeOK, NEW to \in {"term", "reap"}, NEW f \in {"off", "on", "failed"},
         TermChild(to, f)
  PROVE  ProcTypeOK'
<1> DEFINE dies == pc["child"] \in Starting
<1>1. /\ "main" \in Pids /\ "child" \in Pids
      /\ {} \in Contents /\ <<>> \in Seq({"HUP", "TERM", "USR1"})
  BY DEF Contents, Pids
<1>2. pc' \in [Pids -> Listening \union Starting \union {"drain", "exec", "stop", "hung", "over", "gone"}]
  BY ZenonT(30), <1>1 DEF TermChild, ProcTypeOK, Listening
<1>3. keys' \in [Pids -> Contents]
  BY <1>1 DEF TermChild, ProcTypeOK
<1>4. fipr' \in [Pids -> {"off", "on", "failed"}]
  BY ZenonT(30), <1>1 DEF TermChild, ProcTypeOK
<1>5. sig' \in [Pids -> Seq({"HUP", "TERM", "USR1"})]
  BY <1>1 DEF TermChild, ProcTypeOK
<1> QED
  BY ZenonT(30), <1>2, <1>3, <1>4, <1>5 DEF ProcTypeOK

\* A step counts at most MaxEvents faults.
LEMMA FaultType ==
  ASSUME events \in 0 .. MaxEvents, NEW n, Fault(n) \/ NoFault
  PROVE  events' \in 0 .. MaxEvents
BY UpdateAssumption DEF Fault, NoFault

\* A step of the daemon leaves every variable in its type.
LEMMA MainType ==
  ASSUME TypeOK, Main \/ ReadinessSender \/ SendHup \/ SendTerm
  PROVE  TypeOK'
<1>1. "main" \in Pids /\ "child" \in Pids
  BY DEF Pids
<1>2. UNCHANGED keyVars /\ KeyTypeOK'
  <2>1. UNCHANGED keyVars
    BY ZenonT(30) DEF Main, Started, TakesHup, PreUpdate, ChildIsReady, ChildIsLate, TerminateChild,
           ChildTerminated, KillChild, Drained, Exec, ExecFails, PostUpdateActions, Reaped,
           ReadinessSender, SendHup, SendTerm
  <2> QED
    BY <2>1 DEF keyVars, KeyTypeOK, TypeOK
<1>3. CASE Started \/ Reaped
  <2>1. PICK from \in {"ready", "reap"} : NotifyReady(from)
    BY <1>3 DEF Started, Reaped
  <2>2. UNCHANGED <<pipe, childPid, stop, updates>>
    BY <1>3 DEF Started, Reaped
  <2>3. CASE Ends("main") /\ Fault("startFailed") /\ UNCHANGED served
    BY ZenonT(30), <1>1, <1>2, <2>2, <2>3, EndsType, FaultType DEF TypeOK
  <2>4. CASE Goes("main", from, "run") /\ served' = TRUE
             /\ StopFIPR("main") /\ UNCHANGED <<keys, sig, events>>
    BY ZenonT(30), <1>2, <2>2, <2>4 DEF TypeOK, ProcTypeOK, Goes, StopFIPR, Listening
  <2> QED
    BY ZenonT(30), <2>1, <2>3, <2>4 DEF NotifyReady
<1>4. CASE TakesHup
  <2>1. events' \in 0 .. MaxEvents
    BY ZenonT(30), <1>4, FaultType DEF TakesHup, FiprListens, TypeOK
  <2>2. sig' \in [Pids -> Seq({"HUP", "TERM", "USR1"})]
    <3>1. Tail(sig["main"]) \in Seq({"HUP", "TERM", "USR1"})
      BY <1>1, <1>4 DEF TakesHup, Takes, TypeOK, ProcTypeOK
    <3> QED
      BY ZenonT(30), <1>4, <3>1 DEF TakesHup, Takes, TypeOK, ProcTypeOK
  <2>3. fipr' \in [Pids -> {"off", "on", "failed"}]
    BY ZenonT(30), <1>4 DEF TakesHup, FiprListens, TypeOK, ProcTypeOK
  <2>4. pc' \in [Pids -> Listening \union Starting \union {"drain", "exec", "stop", "hung", "over", "gone"}]
    BY ZenonT(30), <1>4 DEF TakesHup, TypeOK, ProcTypeOK, Listening
  <2>5. ProcTypeOK'
    BY ZenonT(30), <1>4, <2>2, <2>3, <2>4 DEF TakesHup, TypeOK, ProcTypeOK
  <2> QED
    BY <1>2, <1>4, <2>1, <2>5 DEF TakesHup, TypeOK
<1>5. CASE PreUpdate
  <2>1. events' \in 0 .. MaxEvents
    BY <1>5, FaultType DEF PreUpdate, TypeOK
  <2>2. ProcTypeOK'
    BY ZenonT(30), <1>1, <1>5 DEF PreUpdate, Goes, TypeOK, ProcTypeOK, Listening, Starting
  <2> QED
    BY ZenonT(30), <1>2, <1>5, <2>1, <2>2 DEF PreUpdate, TypeOK
<1>6. CASE ChildIsReady
  BY ZenonT(30), <1>2, <1>6 DEF ChildIsReady, Goes, TypeOK, ProcTypeOK
<1>7. CASE ChildIsLate
  <2>1. events' \in 0 .. MaxEvents
    BY <1>7, UpdateAssumption DEF ChildIsLate, TypeOK
  <2>2. ProcTypeOK'
    BY ZenonT(30), <1>7 DEF ChildIsLate, Goes, TypeOK, ProcTypeOK, Listening
  <2> QED
    BY ZenonT(30), <1>2, <1>7, <2>1, <2>2 DEF ChildIsLate, TypeOK
<1>8. CASE TerminateChild
  <2>1. fipr["main"] \in {"off", "on", "failed"}
    BY <1>1 DEF TypeOK, ProcTypeOK
  <2>2. ProcTypeOK'
    BY <1>8, <2>1, TermChildType DEF TerminateChild, TypeOK
  <2> QED
    BY ZenonT(30), <1>2, <1>8, <2>2 DEF TerminateChild, TypeOK
<1>9. CASE ChildTerminated
  BY ZenonT(30), <1>2, <1>9 DEF ChildTerminated, Goes, TypeOK, ProcTypeOK, Listening
<1>10. CASE KillChild
  <2>1. events' \in 0 .. MaxEvents
    BY <1>10, UpdateAssumption DEF KillChild, TypeOK
  <2> QED
    BY ZenonT(30), <1>1, <1>2, <1>10, <2>1, EndsType DEF KillChild, TypeOK
<1>11. CASE Drained
  BY ZenonT(30), <1>2, <1>11 DEF Drained, Goes, StopFIPR, TypeOK, ProcTypeOK
<1>12. CASE Exec
  <2>1. {} \in Contents
    BY DEF Contents
  <2>2. ProcTypeOK'
    <3>1. pc' \in [Pids -> Listening \union Starting \union {"drain", "exec", "stop", "hung", "over", "gone"}]
      BY ZenonT(30), <1>12 DEF Exec, Goes, TypeOK, ProcTypeOK, Starting
    <3>2. sig' \in [Pids -> Seq({"HUP", "TERM", "USR1"})]
      <4>1. <<>> \in Seq({"HUP", "TERM", "USR1"})
        OBVIOUS
      <4> QED
        BY ZenonT(30), <1>12, <4>1 DEF Exec, TypeOK, ProcTypeOK
    <3> QED
      BY ZenonT(30), <1>12, <2>1, <3>1, <3>2 DEF Exec, TypeOK, ProcTypeOK
  <2> QED
    BY ZenonT(30), <1>2, <1>12, <2>2 DEF Exec, TypeOK
<1>13. CASE ExecFails
  <2>1. events' \in 0 .. MaxEvents
    BY ZenonT(30), <1>13, FaultType DEF ExecFails, TypeOK
  <2>2. CASE Ends("main")
    BY ZenonT(30), <1>1, <1>2, <1>13, <2>1, <2>2, EndsType DEF ExecFails, TypeOK
  <2>3. CASE Goes("main", "exec", "over") /\ UNCHANGED <<keys, fipr, sig>>
    BY ZenonT(30), <1>2, <1>13, <2>1, <2>3 DEF ExecFails, Goes, TypeOK, ProcTypeOK
  <2> QED
    BY <1>13, <2>2, <2>3 DEF ExecFails
<1>14. CASE PostUpdateActions
  <2>1. events' \in 0 .. MaxEvents
    BY ZenonT(30), <1>14, FaultType DEF PostUpdateActions, TypeOK
  <2>2. ProcTypeOK'
    BY <1>14, TermChildType DEF PostUpdateActions, TypeOK
  <2> QED
    BY ZenonT(30), <1>2, <1>14, <2>1, <2>2 DEF PostUpdateActions, TypeOK
<1>15. CASE ReadinessSender
  BY ZenonT(30), <1>2, <1>15 DEF ReadinessSender, Goes, TypeOK, ProcTypeOK, Listening
<1>16. CASE SendHup \/ SendTerm
  <2>1. ProcTypeOK'
    BY <1>1, <1>16, SignalType DEF SendHup, SendTerm, TypeOK
  <2>2. updates' \in 0 .. MaxUpdates
    BY <1>16, UpdateAssumption DEF SendHup, SendTerm, TypeOK
  <2> QED
    BY ZenonT(30), <1>2, <1>16, <2>1, <2>2 DEF SendHup, SendTerm, TypeOK
<1> QED
  BY ZenonT(30), <1>3, <1>4, <1>5, <1>6, <1>7, <1>8, <1>9, <1>10, <1>11, <1>12, <1>13, <1>14,
     <1>15, <1>16
  DEF Main

\* So does a step of either process ...
LEMMA ProcessType ==
  ASSUME TypeOK, NEW p \in Pids, Process(p) \/ Crash(p)
  PROVE  TypeOK'
<1>1. UNCHANGED keyVars /\ KeyTypeOK'
  <2>1. UNCHANGED keyVars
    BY ZenonT(30) DEF Process, InitDaemon, Start, ReloadSigningKeys, TakesTerm, Stopped, Hangs, Crash
  <2> QED
    BY <2>1 DEF keyVars, KeyTypeOK, TypeOK
<1>2. CASE Ends(p) /\ ~Hangs(p)
  <2>1. events' \in 0 .. MaxEvents
    BY ZenonT(30), <1>2, FaultType DEF Process, InitDaemon, Start, ReloadSigningKeys, TakesTerm, Stopped, Crash, TypeOK, TempChildActions, StartFIPR, FiprListens
  <2> QED
    BY ZenonT(30), <1>1, <1>2, <2>1, EndsType
    DEF Process, InitDaemon, Start, ReloadSigningKeys, TakesTerm, Stopped, Crash, TypeOK
<1>3. CASE InitDaemon(p) /\ ~Ends(p)
  <2>1. Loaded \in Contents
    BY DEF Loaded, Contents
  <2>2. ProcTypeOK'
    BY ZenonT(30), <1>3, <2>1 DEF InitDaemon, Goes, TypeOK, ProcTypeOK, Starting
  <2> QED
    BY <1>1, <1>3, <2>2 DEF InitDaemon, TypeOK
<1>4. CASE Start(p) /\ ~Ends(p)
  <2>1. events' \in 0 .. MaxEvents
    BY ZenonT(30), <1>4, FaultType DEF Start, TempChildActions, StartFIPR, FiprListens, TypeOK
  <2>2. ProcTypeOK'
    BY ZenonT(30), <1>4 DEF Start, TempChildActions, StartFIPR, FiprListens, Goes, TypeOK, ProcTypeOK, Starting
  <2> QED
    BY ZenonT(30), <1>1, <1>4, <2>1, <2>2 DEF Start, TypeOK
<1>5. CASE ReloadSigningKeys(p)
  <2>1. keys[p] \in Contents
    BY DEF TypeOK, ProcTypeOK
  <2>2. Reloaded(keys[p]) \in Contents
    BY <2>1 DEF Reloaded, ReceiverReloads, SenderReloads
  <2>3. ProcTypeOK'
    BY <1>5, <2>2 DEF ReloadSigningKeys, Takes, TypeOK, ProcTypeOK
  <2> QED
    BY <1>1, <1>5, <2>3 DEF ReloadSigningKeys, TypeOK
<1>6. CASE TakesTerm(p)
  <2>1. ProcTypeOK'
    BY <1>6 DEF TakesTerm, Takes, TypeOK, ProcTypeOK
  <2> QED
    BY <1>1, <1>6, <2>1 DEF TakesTerm, TypeOK
<1>7. CASE Hangs(p)
  <2>1. events' \in 0 .. MaxEvents
    BY <1>7, UpdateAssumption DEF Hangs, TypeOK
  <2>2. ProcTypeOK'
    BY ZenonT(30), <1>7 DEF Hangs, StopFIPR, TypeOK, ProcTypeOK
  <2> QED
    BY ZenonT(30), <1>1, <1>7, <2>1, <2>2 DEF Hangs, TypeOK
<1> QED
  BY ZenonT(30), <1>2, <1>3, <1>4, <1>5, <1>6, <1>7 DEF Process, Stopped, Crash

\* ... and a step of a command.
LEMMA CommandType ==
  ASSUME TypeOK, NEW c \in Commands, Command(c)
  PROVE  TypeOK'
<1> DEFINE R == [pc : {"idle", "trunc", "write", "ctrunc", "cwrite", "ps", "kill", "done", "failed"},
                 op : {"add", "remove"}, host : Hosts, fresh : BOOLEAN, val : Contents,
                 target : {"none"} \union Pids \union Commands]
<1>1. cmd \in [Commands -> R] /\ cmd[c] \in R
  BY DEF TypeOK, KeyTypeOK
<1>2. ASSUME NEW r \in R, cmd' = [cmd EXCEPT ![c] = r], mode' = mode, template' = template,
             file' \in {Missing, Torn} \union Contents, conf' \in {"none", "torn", "set"}
      PROVE  KeyTypeOK'
  BY <1>1, <1>2 DEF TypeOK, KeyTypeOK
<1>3. NoCommand.host \in Hosts
  BY KeyAssumption DEF NoCommand
<1>4. ASSUME CommandReads(c), events < MaxEvents, events' = events + 1,
             UNCHANGED <<pc, keys, fipr, sig, pipe, childPid, served, stop, updates>>
      PROVE  TypeOK'
  <2>1. PICK h \in Hosts : \/ AddPinnedKey(c, h) \/ RemovePinnedKey(c, h)
                           \/ h = NoCommand.host /\ WriteNewSigningKey(c)
                           \/ To(c, "failed")
    BY <1>4 DEF CommandReads
  <2>2. file \in {Missing, Torn} \union Contents /\ conf \in {"none", "torn", "set"}
    BY DEF TypeOK, KeyTypeOK
  <2>3. UNCHANGED <<mode, template, file, conf>>
    BY ZenonT(30), <1>4 DEF CommandReads, Quiet
  <2>4. \E r \in R : cmd' = [cmd EXCEPT ![c] = r]
    <3>1. CASE AddPinnedKey(c, h)
      <4> DEFINE fresh == conf = "none" \/ file = Missing
                 v == (IF fresh THEN {} ELSE file) \union {h}
      <4>1. v \in Contents
        BY <2>2, <3>1 DEF AddPinnedKey, Contents
      <4>2. [pc |-> "trunc", op |-> "add", host |-> h, fresh |-> fresh, val |-> v,
             target |-> "none"] \in R
        BY <4>1
      <4> QED
        BY ZenonT(30), <3>1, <4>2 DEF AddPinnedKey
    <3>2. CASE RemovePinnedKey(c, h)
      <4>1. file \ {h} \in Contents
        BY <3>2 DEF RemovePinnedKey, Contents
      <4>2. [pc |-> "trunc", op |-> "remove", host |-> h, fresh |-> FALSE,
             val |-> file \ {h}, target |-> "none"] \in R
        BY <4>1
      <4> QED
        BY ZenonT(30), <3>2, <4>2 DEF RemovePinnedKey
    <3>3. CASE WriteNewSigningKey(c)
      <4>1. {NoCommand.host} \in Contents
        BY <1>3 DEF Contents
      <4>2. [pc |-> "trunc", op |-> "add", host |-> NoCommand.host, fresh |-> TRUE,
             val |-> {NoCommand.host}, target |-> "none"] \in R
        BY <1>3, <4>1
      <4> QED
        BY ZenonT(30), <3>3, <4>2 DEF WriteNewSigningKey
    <3>4. CASE To(c, "failed")
      BY ZenonT(30), <1>1, <3>4 DEF To
    <3> QED
      BY <2>1, <3>1, <3>2, <3>3, <3>4
  <2>5. KeyTypeOK'
    BY ZenonT(30), <1>2, <2>2, <2>3, <2>4
  <2>6. events' \in 0 .. MaxEvents
    BY <1>4, UpdateAssumption DEF TypeOK
  <2> QED
    BY ZenonT(30), <1>4, <2>5, <2>6 DEF TypeOK, ProcTypeOK
<1>5. ASSUME CommandTruncates(c) \/ CommandWrites(c) \/ CommandConfigures(c)
               \/ CommandLists(c, {p \in Pids : Alive(p)}),
             UNCHANGED procVars
      PROVE  TypeOK'
  <2>1. KeyTypeOK'
    <3>1. CASE CommandTruncates(c)
      BY ZenonT(30), <1>1, <1>2, <3>1 DEF CommandTruncates, To, Quiet, TypeOK, KeyTypeOK
    <3>2. CASE CommandWrites(c)
      <4> DEFINE r == [cmd[c] EXCEPT !.pc = IF cmd[c].fresh THEN "ctrunc" ELSE "ps",
                                     !.val = {}, !.fresh = FALSE]
      <4>1. {} \in Contents
        BY DEF Contents
      <4>2. r \in R /\ cmd' = [cmd EXCEPT ![c] = r]
        BY ZenonT(30), <1>1, <3>2, <4>1 DEF CommandWrites
      <4>3. file' \in {Missing, Torn} \union Contents /\ conf' \in {"none", "torn", "set"}
        BY <1>1, <3>2 DEF CommandWrites, TypeOK, KeyTypeOK
      <4> QED
        BY ZenonT(30), <1>2, <3>2, <4>2, <4>3 DEF CommandWrites, Quiet
    <3>3. CASE CommandConfigures(c)
      BY <1>1, <1>2, <3>3 DEF CommandConfigures, To, Quiet, TypeOK, KeyTypeOK
    <3>4. CASE CommandLists(c, {p \in Pids : Alive(p)})
      <4> DEFINE found == {p \in Pids : Alive(p)} \union {d \in Commands : Busy(d) /\ d \in Explicit}
      <4>1. \E r \in R : cmd' = [cmd EXCEPT ![c] = r]
        <5>1. CASE To(c, "done")
          BY ZenonT(30), <1>1, <5>1 DEF To
        <5>2. CASE \E t \in found : cmd' = [cmd EXCEPT ![c].pc = "kill", ![c].target = t]
          <6>1. PICK t \in found : cmd' = [cmd EXCEPT ![c].pc = "kill", ![c].target = t]
            BY ZenonT(30), <5>2
          <6>2. [cmd[c] EXCEPT !.pc = "kill", !.target = t] \in R
            BY ZenonT(30), <1>1
          <6> QED
            BY ZenonT(30), <1>1, <6>1, <6>2
        <5> QED
          BY ZenonT(30), <3>4, <5>1, <5>2 DEF CommandLists
      <4> QED
        BY ZenonT(30), <1>2, <3>4, <4>1 DEF CommandLists, Quiet, TypeOK, KeyTypeOK
    <3> QED
      BY <1>5, <3>1, <3>2, <3>3, <3>4
  <2> QED
    BY ZenonT(30), <1>5, <2>1 DEF procVars, TypeOK, ProcTypeOK
<1>6. ASSUME CommandSignals(c)
      PROVE  TypeOK'
  <2>1. [cmd[c] EXCEPT !.pc = "done", !.target = "none"] \in R
    BY ZenonT(30), <1>1
  <2>2. cmd' = [cmd EXCEPT ![c] = [cmd[c] EXCEPT !.pc = "done", !.target = "none"]]
    BY ZenonT(30), <1>1, <1>6 DEF CommandSignals
  <2>3. KeyTypeOK'
    BY ZenonT(30), <1>2, <1>6, <2>1, <2>2 DEF CommandSignals, Quiet, TypeOK, KeyTypeOK
  <2>4. ProcTypeOK'
    <3>1. CASE cmd[c].target \in Pids /\ Signal(cmd[c].target, "USR1")
      BY <3>1, SignalType DEF TypeOK
    <3>2. CASE UNCHANGED <<pc, keys, fipr, sig>>
      BY <3>2 DEF TypeOK, ProcTypeOK
    <3> QED
      BY <1>6, <3>1, <3>2 DEF CommandSignals
  <2> QED
    BY <1>6, <2>3, <2>4 DEF CommandSignals, TypeOK
<1> QED
  BY <1>4, <1>5, <1>6 DEF Command

LEMMA TypeStep == TypeOK /\ [Next]_vars => TypeOK'
<1> SUFFICES ASSUME TypeOK, [Next]_vars
             PROVE  TypeOK'
  OBVIOUS
<1>1. CASE UNCHANGED vars
  BY <1>1 DEF vars, keyVars, procVars, TypeOK, KeyTypeOK, ProcTypeOK
<1> QED
  BY <1>1, MainType, ProcessType, CommandType DEF Next

LEMMA TypeInit == Init => TypeOK
<1> SUFFICES ASSUME Init
             PROVE  TypeOK
  OBVIOUS
<1>1. NoCommand.host \in Hosts /\ {NoCommand.host} \in Contents /\ {} \in Contents
  BY SMTT(30), KeyAssumption DEF NoCommand, Contents
<1>2. KeyTypeOK
  BY ZenonT(30), <1>1 DEF Init, KeyInit, KeyTypeOK, NoCommand
<1>3. ProcTypeOK
  BY <1>1 DEF Init, ProcTypeOK, Starting
<1>4. updates \in 0 .. MaxUpdates /\ events \in 0 .. MaxEvents
  BY SMT, UpdateAssumption DEF Init
<1> QED
  BY Zenon, <1>2, <1>3, <1>4 DEF Init, TypeOK

\* Every variable of a daemon, of its key file and of the commands stays in its
\* type: a process loads and reloads only what is a set of hosts, a command writes
\* only one, and its target is a process or a command (InitDaemon, ReloadSigningKeys,
\* AddPinnedKey, RemovePinnedKey, IssueLiveSigningKeyReload).
THEOREM UpdateTypeCorrect == Spec => []TypeOK
BY TypeInit, TypeStep, PTL DEF Spec

----------------------------------------------------------------------------
(* The two processes of an update.                                         *)

LEMMA PidsFacts == "main" \in Pids /\ "child" \in Pids /\ "main" # "child"
BY DEF Pids

\* What is not about the positions of the processes, their sockets or the
\* child's channel does not disturb LifeInv.
LEMMA LifeSame ==
  ASSUME LifeInv, pc' = pc, fipr' = fipr, Termed' => Termed,
         sig["child"] = <<>> /\ pc["child"] # "run" => sig'["child"] = <<>>,
         UNCHANGED <<mode, pipe, childPid, served>>, cause \subseteq cause'
  PROVE  LifeInv'
BY DEF LifeInv, RelyOnChild

\* Main ends in the middle of something, with a cause.
LEMMA MainEnds ==
  ASSUME TypeOK, LifeInv, Ends("main"), cause \subseteq cause',
         cause' \intersect {"signalled", "crash", "startFailed", "initFailed"} # {},
         UNCHANGED <<mode, pipe, childPid>>
  PROVE  LifeInv'
<1>1. /\ pc'["main"] = "gone" /\ pc'["child"] = pc["child"]
      /\ fipr'["child"] = fipr["child"] /\ sig'["child"] = sig["child"]
  BY PidsFacts DEF Ends, TypeOK, ProcTypeOK
<1>2. ~RelyOnChild'
  BY SMTT(30), <1>1 DEF RelyOnChild
<1> QED
  BY ZenonT(30), <1>1, <1>2 DEF LifeInv

\* The child ends: it was not relied upon, or it crashed.
LEMMA ChildEnds ==
  ASSUME TypeOK, LifeInv, Ends("child"), cause \subseteq cause',
         \/ "crash" \in cause' \/ pc["child"] # "run" \/ pc["main"] \in {"term", "reap"},
         UNCHANGED <<mode, pipe, childPid, served>>
  PROVE  LifeInv'
<1>1. /\ pc'["child"] = "gone" /\ pc'["main"] = pc["main"]
      /\ fipr'["child"] = "off" /\ sig'["child"] = <<>> /\ fipr'["main"] = fipr["main"]
  BY SMTT(30), PidsFacts DEF Ends, TypeOK, ProcTypeOK
<1>2. RelyOnChild' => RelyOnChild /\ "crash" \in cause'
  BY <1>1 DEF RelyOnChild, LifeInv
<1> QED
  BY <1>1, <1>2 DEF LifeInv, RelyOnChild

\* A signal to main, which waits or ends it, and one of a command to the child.
LEMMA LifeSignal ==
  ASSUME TypeOK, LifeInv, UNCHANGED <<mode, pipe, childPid, served>>,
         NEW p \in Pids, NEW s \in {"HUP", "TERM", "USR1"}, Signal(p, s),
         p = "main" \/ s = "USR1"
  PROVE  LifeInv'
<1>1. CASE UNCHANGED <<pc, keys, fipr, sig>> /\ cause \subseteq cause'
  <2>1. Termed' => Termed
    BY <1>1 DEF Termed
  <2> QED
    BY ZenonT(30), <1>1, <2>1, LifeSame DEF LifeInv
<1>2. CASE /\ Alive(p) /\ pc[p] \notin Starting
           /\ sig' = [sig EXCEPT ![p] = Append(@, s)] /\ UNCHANGED <<pc, keys, fipr, cause>>
  <2>1. CASE p = "main"
    <3>1. sig'["child"] = sig["child"]
      BY <1>2, <2>1, PidsFacts DEF TypeOK, ProcTypeOK
    <3> QED
      BY ZenonT(30), <1>2, <3>1, LifeSame DEF Termed
  <2>2. CASE p = "child" /\ s = "USR1"
    <3>1. sig["child"] \in Seq({"HUP", "TERM", "USR1"}) /\ sig'["child"] = Append(sig["child"], "USR1")
      BY ZenonT(30), <1>2, <2>2, PidsFacts DEF TypeOK, ProcTypeOK
    <3>2. Termed' => Termed
      BY <3>1 DEF Termed
    <3>3. pc["child"] \in {"run", "stop", "hung"} /\ pc'["child"] = pc["child"]
      BY ZenonT(30), <1>2, <2>2 DEF LifeInv, Alive, Starting
    <3> QED
      BY <1>2, <3>2, <3>3 DEF LifeInv, RelyOnChild
  <2> QED
    BY <2>1, <2>2 DEF Pids
<1>3. CASE s # "USR1" /\ Ends(p) /\ Because("signalled")
  BY <1>3, MainEnds DEF Because
<1> QED
  BY ZenonT(30), <1>1, <1>2, <1>3 DEF Signal, Because

\* The steps of main preserve LifeInv.
LEMMA LifeMain ==
  ASSUME TypeOK, LifeInv, Main
  PROVE  LifeInv'
<1> USE PidsFacts
<1>1. ProcTypeOK /\ mode \in {"receive", "send"} /\ childPid \in BOOLEAN
  BY DEF TypeOK, KeyTypeOK
<1>2. sig'["child"] = sig["child"] => (Termed' <=> Termed)
  BY DEF Termed
<1>3. ASSUME NEW from \in {"ready", "reap"}, NotifyReady(from), pc["child"] = "gone",
             UNCHANGED <<mode, pipe, childPid>>
      PROVE  LifeInv'
  <2>1. CASE /\ Goes("main", from, "run") /\ served' = TRUE /\ cause' = Settled
             /\ StopFIPR("main") /\ UNCHANGED <<keys, sig, events>>
    <3>1. /\ pc["main"] = from /\ pc'["main"] = "run" /\ pc'["child"] = "gone"
          /\ fipr'["main"] = "off" /\ fipr'["child"] = fipr["child"]
          /\ sig' = sig
      BY ZenonT(30), <1>1, <1>3, <2>1 DEF Goes, StopFIPR, ProcTypeOK
    <3> QED
      BY ZenonT(30), <1>3, <3>1 DEF LifeInv, RelyOnChild
  <2>2. CASE Ends("main") /\ Fault("startFailed") /\ UNCHANGED served
    BY ZenonT(30), <1>3, <2>2, MainEnds DEF Fault, Because
  <2> QED
    BY ZenonT(30), <1>3, <2>1, <2>2 DEF NotifyReady
<1>4. CASE Started
  <2>1. pc["main"] = "ready" /\ ~childPid
    BY ZenonT(30), <1>4 DEF Started, NotifyReady, Goes
  <2>2. pc["child"] = "gone"
    BY <2>1 DEF LifeInv
  <2> QED
    BY <1>3, <1>4, <2>2 DEF Started, keyVars
<1>5. CASE Reaped
  BY ZenonT(30), <1>3, <1>5 DEF Reaped, keyVars, Alive
<1>6. CASE TakesHup
  <2>1. /\ pc["main"] \in {"run", "over"} /\ sig'["child"] = sig["child"]
        /\ UNCHANGED <<mode, pipe, childPid, served>>
    BY SMTT(30), <1>1, <1>6 DEF TakesHup, Takes, ProcTypeOK, keyVars
  <2>2. pc["child"] = "gone"
    BY ZenonT(30), <2>1 DEF LifeInv
  <2>3. CASE mode = "send" /\ pc' = [pc EXCEPT !["main"] = "drain"] /\ NoFault /\ UNCHANGED fipr
    <3>1. pc'["main"] = "drain" /\ pc'["child"] = "gone" /\ fipr' = fipr
      BY ZenonT(30), <1>1, <2>2, <2>3 DEF ProcTypeOK
    <3> QED
      BY ZenonT(30), <2>1, <2>2, <2>3, <3>1 DEF LifeInv, RelyOnChild
  <2>4. CASE mode = "receive" /\ pc' = [pc EXCEPT !["main"] = "hup"] /\ FiprListens("main")
    <3>1. /\ pc'["main"] = "hup" /\ pc'["child"] = "gone"
          /\ fipr'["main"] = "on" /\ fipr'["child"] = fipr["child"]
      BY SMTT(30), <1>1, <2>2, <2>4 DEF ProcTypeOK, FiprListens
    <3> QED
      BY ZenonT(30), <2>1, <2>2, <2>4, <3>1 DEF LifeInv, RelyOnChild
  <2>5. CASE /\ Fault("updateFailed") /\ UNCHANGED pc
             /\ fipr' \in {fipr} \union {[fipr EXCEPT !["main"] = "failed"] : m \in {mode} \ {"send"}}
    <3>1. pc' = pc /\ fipr'["child"] = fipr["child"] /\ "updateFailed" \in cause'
      BY <1>1, <2>5 DEF ProcTypeOK, Fault, Because
    <3> QED
      BY ZenonT(30), <2>1, <2>2, <3>1 DEF LifeInv, RelyOnChild
  <2> QED
    BY ZenonT(30), <1>6, <2>3, <2>4, <2>5 DEF TakesHup
<1>7. CASE PreUpdate
  <2>1. /\ pc["main"] = "hup" /\ UNCHANGED <<mode, fipr, sig, childPid, served>>
    BY <1>7 DEF PreUpdate, Goes, keyVars
  <2>2. pc["child"] = "gone" /\ mode = "receive"
    BY ZenonT(30), <1>1, <2>1 DEF LifeInv
  <2>3. CASE /\ pc' = [pc EXCEPT !["main"] = "wait", !["child"] = "init"]
             /\ pipe' = "open" /\ NoFault
    <3>1. pc'["main"] = "wait" /\ pc'["child"] = "init" /\ pipe' = "open"
      BY ZenonT(30), <1>1, <2>3 DEF ProcTypeOK
    <3> QED
      BY ZenonT(30), <2>1, <2>2, <3>1 DEF LifeInv, RelyOnChild
  <2>4. CASE Goes("main", "hup", "run") /\ Fault("updateFailed") /\ UNCHANGED pipe
    <3>1. pc'["main"] = "run" /\ pc'["child"] = "gone" /\ "updateFailed" \in cause'
      BY SMTT(30), <1>1, <2>2, <2>4 DEF ProcTypeOK, Goes, Fault, Because
    <3> QED
      BY ZenonT(30), <2>1, <2>2, <3>1 DEF LifeInv, RelyOnChild
  <2> QED
    BY <1>7, <2>3, <2>4 DEF PreUpdate
<1>8. CASE ChildIsReady
  <2>1. /\ pc["main"] = "wait" /\ pc'["main"] = "drain" /\ pc'["child"] = pc["child"]
        /\ pipe = "ready" /\ pipe' = "none"
        /\ UNCHANGED <<mode, cause, fipr, sig, childPid, served>>
    BY ZenonT(30), <1>1, <1>8 DEF ChildIsReady, Goes, ProcTypeOK, keyVars
  <2> QED
    BY ZenonT(30), <1>2, <2>1 DEF LifeInv, RelyOnChild
<1>9. CASE ChildIsLate
  <2>1. /\ pc["main"] = "wait" /\ pc'["main"] = "late" /\ pc'["child"] = pc["child"]
        /\ cause \subseteq cause' /\ "updateFailed" \in cause'
        /\ UNCHANGED <<mode, fipr, sig, pipe, childPid, served>>
    BY ZenonT(30), <1>1, <1>9 DEF ChildIsLate, Goes, Because, ProcTypeOK, keyVars
  <2> QED
    BY <2>1 DEF LifeInv, RelyOnChild
<1>10. CASE TerminateChild
  <2>1. /\ pc["main"] = "late" /\ pc'["main"] = "term" /\ fipr'["main"] = fipr["main"]
        /\ UNCHANGED <<mode, cause, pipe, childPid, served>>
    BY ZenonT(30), <1>1, <1>10 DEF TerminateChild, TermChild, ProcTypeOK, keyVars
  <2>2. CASE pc["child"] \in Starting
    <3>1. pc'["child"] = "gone" /\ fipr'["child"] = "off" /\ sig'["child"] = <<>>
      BY ZenonT(30), <1>1, <1>10, <2>2 DEF TerminateChild, TermChild, ProcTypeOK
    <3> QED
      BY ZenonT(30), <2>1, <3>1 DEF LifeInv, RelyOnChild
  <2>3. CASE pc["child"] \notin Starting
    <3>1. /\ pc'["child"] = pc["child"] /\ fipr'["child"] = fipr["child"]
          /\ pc["child"] = "gone" => sig'["child"] = <<>>
      BY ZenonT(30), <1>1, <1>10, <2>3 DEF TerminateChild, TermChild, ProcTypeOK, Alive
    <3>2. pc["child"] \notin {"init", "start", "ready"}
      BY SMTT(30), <2>3 DEF Starting
    <3> QED
      BY ZenonT(30), <2>1, <3>1, <3>2 DEF LifeInv, RelyOnChild
  <2> QED
    BY ZenonT(30), <2>2, <2>3
<1>11. CASE ChildTerminated
  <2>1. /\ pc["main"] = "term" /\ pc'["main"] = "run" /\ pc["child"] = "gone"
        /\ pc'["child"] = "gone" /\ ("updateFailed" \in cause => "updateFailed" \in cause')
        /\ UNCHANGED <<mode, fipr, sig, childPid, served>>
    BY ZenonT(30), <1>1, <1>11 DEF ChildTerminated, Goes, Alive, Settled, ProcTypeOK, keyVars
  <2> QED
    BY <2>1 DEF LifeInv, RelyOnChild
<1>12. CASE KillChild
  BY SMTT(30), <1>12, ChildEnds DEF KillChild, Because, keyVars
<1>13. CASE Drained
  <2>1. /\ pc["main"] = "drain" /\ pc'["main"] = "exec" /\ pc'["child"] = pc["child"]
        /\ fipr'["child"] = fipr["child"]
        /\ UNCHANGED <<mode, cause, sig, pipe, childPid, served>>
    BY SMTT(30), <1>1, <1>13 DEF Drained, Goes, StopFIPR, ProcTypeOK, keyVars
  <2> QED
    BY ZenonT(30), <1>2, <2>1 DEF LifeInv, RelyOnChild
<1>14. CASE Exec
  <2>1. /\ pc["main"] = "exec" /\ pc'["main"] = "init" /\ pc'["child"] = pc["child"]
        /\ childPid' = (mode = "receive") /\ sig'["child"] = sig["child"]
        /\ UNCHANGED <<mode, fipr, pipe, served>>
    BY ZenonT(30), <1>1, <1>14 DEF Exec, Goes, ProcTypeOK, keyVars
  <2>2. \A n : n # "updateFailed" /\ n \in cause => n \in cause'
    BY <1>14 DEF Exec
  <2> QED
    BY ZenonT(30), <1>1, <1>2, <2>1, <2>2 DEF LifeInv, RelyOnChild
<1>15. CASE ExecFails
  <2>1. /\ pc["main"] = "exec" /\ pc'["child"] = pc["child"] /\ fipr'["child"] = fipr["child"]
        /\ sig'["child"] = sig["child"] /\ cause \subseteq cause' /\ "execFailed" \in cause'
        /\ UNCHANGED <<mode, pipe, childPid, served>>
        /\ pc'["main"] = IF mode = "receive" THEN "gone" ELSE "over"
    BY <1>1, <1>15 DEF ExecFails, Goes, Ends, Fault, Because, ProcTypeOK, keyVars
  <2> QED
    BY <1>1, <1>2, <2>1 DEF LifeInv, RelyOnChild
<1>16. CASE PostUpdateActions
  <2>1. /\ pc["main"] = "ready" /\ childPid /\ childPid' = FALSE
        /\ pc'["main"] = "reap"
        /\ UNCHANGED <<mode, pipe, served>>
    BY <1>1, <1>16 DEF PostUpdateActions, TermChild, ProcTypeOK, keyVars
  <2>2. pc["child"] \notin Starting
    BY ZenonT(30), <2>1 DEF LifeInv, Starting
  <2>3. /\ pc'["child"] = pc["child"] /\ fipr'["child"] = fipr["child"]
        /\ pc["child"] = "gone" => sig'["child"] = <<>>
    BY <1>1, <1>16, <2>2 DEF PostUpdateActions, TermChild, ProcTypeOK, Alive
  <2>4. /\ cause \subseteq cause'
        /\ fipr'["main"] = "on" \/ "fiprFailed" \in cause'
    BY <1>1, <1>16 DEF PostUpdateActions, TermChild, ProcTypeOK, NoFault, Fault, Because
  <2> QED
    BY ZenonT(30), <2>1, <2>3, <2>4 DEF LifeInv, RelyOnChild
<1> QED
  BY ZenonT(30), <1>4, <1>5, <1>6, <1>7, <1>8, <1>9, <1>10, <1>11, <1>12, <1>13, <1>14, <1>15, <1>16
  DEF Main

\* The steps that either process takes preserve LifeInv.
LEMMA LifeProcess ==
  ASSUME TypeOK, LifeInv, NEW p \in Pids, Process(p) \/ Crash(p)
  PROVE  LifeInv'
<1> USE PidsFacts
<1>1. ProcTypeOK /\ mode \in {"receive", "send"} /\ p \in {"main", "child"}
  BY ZenonT(30) DEF TypeOK, KeyTypeOK, Pids
<1>2. sig'["child"] = sig["child"] => (Termed' <=> Termed)
  BY DEF Termed
<1>3. CASE InitDaemon(p)
  <2>1. UNCHANGED <<mode, pipe, childPid, served>>
    BY ZenonT(30), <1>3 DEF InitDaemon, keyVars
  <2>2. CASE pc[p] = "init" /\ Ends(p) /\ Because("initFailed")
    BY ZenonT(30), <1>1, <2>1, <2>2, MainEnds, ChildEnds DEF Because
  <2>3. CASE /\ Goes(p, "init", "start") /\ UNCHANGED <<fipr, sig>>
             /\ cause' = (IF p = "main" THEN Refreshed ELSE cause)
    <3>1. pc[p] = "init" /\ pc'[p] = "start" /\ \A q \in Pids \ {p} : pc'[q] = pc[q]
      BY <1>1, <2>3 DEF Goes, ProcTypeOK
    <3>2. \A n : n \notin {"refused", "ignored", "suiteKept"} /\ n \in cause => n \in cause'
      BY ZenonT(30), <2>3 DEF Refreshed
    <3>3. CASE p = "main"
      BY ZenonT(30), <1>2, <2>1, <2>3, <3>1, <3>2, <3>3 DEF LifeInv, RelyOnChild
    <3>4. CASE p = "child"
      BY <1>2, <2>1, <2>3, <3>1, <3>2, <3>4 DEF LifeInv, RelyOnChild
    <3> QED
      BY <1>1, <3>3, <3>4
  <2> QED
    BY ZenonT(30), <1>3, <2>2, <2>3 DEF InitDaemon
<1>4. CASE Start(p)
  <2>1. UNCHANGED <<mode, pipe, childPid, served>>
    BY <1>4 DEF Start, keyVars
  <2>2. CASE pc[p] = "start" /\ Ends(p) /\ Fault("startFailed")
    BY <1>1, <2>1, <2>2, MainEnds, ChildEnds DEF Fault, Because
  <2>3. CASE Goes(p, "start", "ready") /\ TempChildActions(p) /\ UNCHANGED <<keys, sig>>
    <3>1. pc[p] = "start" /\ pc'[p] = "ready" /\ \A q \in Pids \ {p} : pc'[q] = pc[q]
      BY SMTT(30), <1>1, <2>3 DEF Goes, ProcTypeOK
    <3>2. CASE p = "main"
      <4>1. UNCHANGED <<fipr, cause>>
        BY SMTT(30), <2>3, <3>2 DEF TempChildActions, NoFault
      <4> QED
        BY ZenonT(30), <1>2, <2>1, <2>3, <3>1, <3>2, <4>1 DEF LifeInv, RelyOnChild
    <3>3. CASE p = "child"
      <4>1. /\ fipr'["main"] = fipr["main"] /\ cause \subseteq cause'
            /\ fipr'["child"] = "on" \/ (fipr'["child"] = "failed" /\ "fiprFailed" \in cause')
        BY ZenonT(30), <1>1, <2>3, <3>3
        DEF TempChildActions, StartFIPR, FiprListens, NoFault, Fault, Because, ProcTypeOK
      <4> QED
        BY <1>2, <2>1, <2>3, <3>1, <3>3, <4>1 DEF LifeInv, RelyOnChild
    <3> QED
      BY <1>1, <3>2, <3>3
  <2> QED
    BY ZenonT(30), <1>4, <2>2, <2>3 DEF Start
<1>5. CASE ReloadSigningKeys(p)
  <2>1. /\ pc[p] \in {"run", "over"} /\ sig[p] # <<>> /\ sig[p] \in Seq({"HUP", "TERM", "USR1"})
        /\ sig'[p] = Tail(sig[p]) /\ \A q \in Pids \ {p} : sig'[q] = sig[q]
        /\ UNCHANGED <<mode, pipe, childPid, served, pc, fipr>> /\ cause \subseteq cause'
    BY <1>1, <1>5 DEF ReloadSigningKeys, Takes, Because, ProcTypeOK, keyVars
  <2>2. Termed' => Termed
    <3>1. CASE p = "main"
      BY <1>2, <2>1, <3>1
    <3>2. CASE p = "child"
      <4> SUFFICES ASSUME Termed'
                   PROVE  Termed
        OBVIOUS
      <4>2. Tail(sig["child"]) = sig'["child"] /\ sig["child"] \in Seq({"HUP", "TERM", "USR1"})
            /\ sig["child"] # <<>>
        BY ZenonT(30), <2>1, <3>2
      <4>3. \A j \in 1 .. Len(sig'["child"]) : /\ j + 1 \in 1 .. Len(sig["child"])
                                               /\ sig'["child"][j] = sig["child"][j + 1]
        <5>1. \A j \in 1 .. Len(Tail(sig["child"])) : /\ j + 1 \in 1 .. Len(sig["child"])
                                                      /\ Tail(sig["child"])[j] = sig["child"][j + 1]
          BY <4>2, TailFacts
        <5> QED
          BY ZenonT(30), <4>2, <5>1
      <4>0. PICK i \in 1 .. Len(sig'["child"]) : sig'["child"][i] = "TERM"
        BY Zenon DEF Termed
      <4>1. i + 1 \in 1 .. Len(sig["child"]) /\ sig'["child"][i] = sig["child"][i + 1]
        BY Zenon, <4>3
      <4> QED
        BY Zenon, <4>0, <4>1 DEF Termed
    <3> QED
      BY <1>1, <3>1, <3>2
  <2> QED
    BY ZenonT(30), <1>1, <2>1, <2>2, LifeSame
<1>6. CASE TakesTerm(p)
  <2>1. /\ pc[p] \in {"run", "over"} /\ sig[p] # <<>> /\ Head(sig[p]) = "TERM"
        /\ sig[p] \in Seq({"HUP", "TERM", "USR1"})
        /\ pc'[p] = "stop" /\ \A q \in Pids \ {p} : pc'[q] = pc[q] /\ sig'[q] = sig[q]
        /\ UNCHANGED <<mode, pipe, childPid, served, fipr>> /\ cause \subseteq cause'
        /\ p = "main" => "stopped" \in cause'
    BY ZenonT(30), <1>1, <1>6 DEF TakesTerm, Takes, Because, ProcTypeOK, keyVars
  <2>2. CASE p = "main"
    BY ZenonT(30), <1>2, <2>1, <2>2 DEF LifeInv, RelyOnChild
  <2>3. CASE p = "child"
    <3>1. Termed
      BY <2>1, <2>3 DEF Termed
    <3> QED
      BY <2>1, <2>3, <3>1 DEF LifeInv, RelyOnChild
  <2> QED
    BY ZenonT(30), <1>1, <2>2, <2>3
<1>7. CASE Stopped(p)
  <2>1. Ends(p) /\ pc[p] \in {"stop", "over"} /\ UNCHANGED <<mode, cause, pipe, childPid, served>>
    BY SMTT(30), <1>7 DEF Stopped, keyVars
  <2>2. CASE p = "main"
    <3>1. /\ pc'["main"] = "gone" /\ pc'["child"] = pc["child"]
          /\ fipr'["child"] = fipr["child"] /\ sig'["child"] = sig["child"]
      BY <1>1, <2>1, <2>2 DEF Ends, ProcTypeOK
    <3> QED
      BY ZenonT(30), <1>1, <2>1, <2>2, <3>1 DEF LifeInv, RelyOnChild
  <2>3. CASE p = "child"
    BY <2>1, <2>3, ChildEnds
  <2> QED
    BY <1>1, <2>2, <2>3
<1>8. CASE Crash(p)
  BY <1>1, <1>8, MainEnds, ChildEnds DEF Crash, Fault, Because, keyVars
<1>9. CASE Hangs(p)
  <2>1. /\ pc[p] \in {"stop", "drain"} /\ pc'[p] = "hung" /\ \A q \in Pids \ {p} : pc'[q] = pc[q]
        /\ UNCHANGED <<mode, cause, sig, pipe, childPid, served>>
    BY ZenonT(30), <1>1, <1>9 DEF Hangs, ProcTypeOK, keyVars
  <2>2. \A q \in Pids \ {p} : fipr'[q] = fipr[q]
    BY ZenonT(30), <1>1, <1>9 DEF Hangs, StopFIPR, ProcTypeOK
  <2>3. CASE p = "main"
    BY ZenonT(30), <1>2, <2>1, <2>2, <2>3 DEF LifeInv, RelyOnChild
  <2>4. CASE p = "child"
    BY ZenonT(30), <1>2, <2>1, <2>2, <2>4 DEF LifeInv, RelyOnChild
  <2> QED
    BY ZenonT(30), <1>1, <2>3, <2>4
<1> QED
  BY ZenonT(30), <1>3, <1>4, <1>5, <1>6, <1>7, <1>8, <1>9 DEF Process

LEMMA LifeStep == TypeOK /\ LifeInv /\ [Next]_vars => LifeInv'
<1> SUFFICES ASSUME TypeOK, LifeInv, [Next]_vars
             PROVE  LifeInv'
  BY SMTT(30)
<1> USE PidsFacts
<1>1. CASE ReadinessSender
  <2>1. /\ pc["child"] = "ready" /\ pc'["child"] = "run" /\ pc'["main"] = pc["main"]
        /\ pipe' = "ready" /\ UNCHANGED <<mode, cause, fipr, sig, childPid, served>>
    BY SMTT(30), <1>1 DEF ReadinessSender, Goes, TypeOK, ProcTypeOK, keyVars
  <2>2. sig["child"] = <<>> /\ ~Termed'
    BY <2>1 DEF LifeInv, Termed
  <2> QED
    BY ZenonT(30), <2>1, <2>2 DEF LifeInv, RelyOnChild
<1>2. CASE SendHup \/ SendTerm
  BY <1>2, LifeSignal DEF SendHup, SendTerm, keyVars
<1>3. ASSUME NEW c \in Commands, Command(c)
      PROVE  LifeInv'
  <2>1. CASE CommandSignals(c)
    <3>1. UNCHANGED <<mode, pipe, childPid, served>>
      BY <2>1 DEF CommandSignals, Quiet
    <3>2. CASE cmd[c].target \in Pids /\ Signal(cmd[c].target, "USR1")
      BY ZenonT(30), <3>1, <3>2, LifeSignal
    <3>3. CASE Because("ignored") /\ UNCHANGED <<pc, keys, fipr, sig>>
      <4>1. Termed' => Termed
        BY <3>3 DEF Termed
      <4> QED
        BY <3>1, <3>3, <4>1, LifeSame DEF Because
    <3> QED
      BY ZenonT(30), <2>1, <3>2, <3>3 DEF CommandSignals
  <2>2. CASE ~CommandSignals(c)
    <3>1. UNCHANGED <<mode, pipe, childPid, served, pc, fipr, sig>> /\ cause \subseteq cause'
      BY ZenonT(30), <1>3, <2>2 DEF Command, CommandReads, CommandTruncates, CommandWrites,
           CommandConfigures, CommandLists, Quiet, Because, procVars
    <3>2. Termed' => Termed
      BY SMTT(30), <3>1 DEF Termed
    <3> QED
      BY <3>1, <3>2, LifeSame
  <2> QED
    BY <2>1, <2>2
<1>4. CASE UNCHANGED vars
  BY SMTT(30), <1>4 DEF vars, keyVars, procVars, LifeInv, RelyOnChild, Termed
<1> QED
  BY ZenonT(30), <1>1, <1>2, <1>3, <1>4, LifeMain, LifeProcess DEF Next

LEMMA LifeInit == Init => LifeInv
BY ZenonT(30), PidsFacts DEF Init, LifeInv, RelyOnChild

LEMMA LifeAlways == Spec => [](TypeOK /\ LifeInv)
BY TypeInit, TypeStep, LifeInit, LifeStep, PTL DEF Spec

\* Zero interruption: all through an update of a receiver some process listens,
\* with the exceptions named in SomeoneListens.  SignalHandler shuts its pipeline
\* down only when the child has reported that it is ready, and nothing stops the
\* child before the new image listens itself.
THEOREM AlwaysListening == Spec => []SomeoneListens
<1>1. TypeOK /\ LifeInv => SomeoneListens
  <2> SUFFICES ASSUME TypeOK, LifeInv, mode = "receive", served,
                      cause \intersect {"stopped", "signalled", "crash", "startFailed", "initFailed"} = {}
               PROVE  \E p \in Pids : pc[p] \in Listening
    BY DEF SomeoneListens
  <2>1. pc["main"] \in Listening \union Starting \union {"drain", "exec", "stop", "hung", "over", "gone"}
    BY ZenonT(30), PidsFacts DEF TypeOK, ProcTypeOK
  <2>2. pc["main"] \in Listening \/ pc["child"] = "run"
    BY ZenonT(30), <2>1 DEF LifeInv, RelyOnChild, Listening, Starting
  <2> QED
    BY <2>2, PidsFacts DEF Listening
<1> QED
  BY <1>1, LifeAlways, PTL

\* A child outlives main only when main failed in the middle of an update; a main
\* process that stops in order has reaped its child.
THEOREM NoOrphan == Spec => []OrphanHasCause
<1>1. LifeInv => OrphanHasCause
  BY SMTT(30) DEF LifeInv, OrphanHasCause, Alive
<1> QED
  BY <1>1, LifeAlways, PTL

\* While one process of a receiver drains, the other has a FIPR socket for its
\* fragments; main keeps none at its select unless an update failed.
THEOREM FiprReady == Spec => []FiprInTime
<1>1. LifeInv => FiprInTime
  BY ZenonT(30) DEF LifeInv, RelyOnChild, FiprInTime
<1> QED
  BY <1>1, LifeAlways, PTL

----------------------------------------------------------------------------
(* The keys in force.                                                      *)

Exceptions == {"refused", "ignored", "suiteKept"}

\* A step that changes neither the key file nor a command, and leaves main's keys
\* and the reloads that wait for it alone.
LEMMA KeysSame ==
  ASSUME KeysInv, UNCHANGED <<file, conf, cmd>>,
         cause \intersect Exceptions \subseteq cause',
         Alive("main")' => Alive("main"),
         pc'["main"] \notin {"init", "gone"} =>
           pc["main"] # "init" /\ keys'["main"] = keys["main"] /\ (Reloads => Reloads')
  PROVE  KeysInv'
<1>1. \A c \in Commands : Busy(c)' <=> Busy(c)
  BY DEF Busy
<1>2. Alive("main")' => \A c \in Commands : cmd'[c].pc = "kill" => cmd'[c].target = "main"
  BY Zenon DEF KeysInv
<1>3. ASSUME /\ pc'["main"] \notin {"init", "gone"} /\ conf' = "set" /\ file' \in Contents
             /\ cause' \intersect Exceptions = {} /\ ~Pending'
      PROVE  keys'["main"] = file'
  <2>1. ~Pending
    BY Zenon, <1>1, <1>3 DEF Pending
  <2>2. cause \intersect Exceptions = {} /\ pc["main"] \notin {"init", "gone"}
    BY ZenonT(30), <1>3 DEF Alive
  <2> QED
    BY Zenon, <1>3, <2>1, <2>2 DEF KeysInv, Exceptions
<1> QED
  BY ZenonT(30), <1>2, <1>3 DEF KeysInv, Exceptions

\* Where the rest of main's channel waits on, so do its reloads.
LEMMA ReloadsStay ==
  ASSUME TypeOK, NEW s \in {"HUP", "TERM"}, sig["main"] # <<>>, Head(sig["main"]) = s,
         sig'["main"] = Tail(sig["main"])
  PROVE  Reloads => Reloads'
<1> SUFFICES ASSUME Reloads
             PROVE  Reloads'
  OBVIOUS
<1>1. sig["main"] \in Seq({"HUP", "TERM", "USR1"})
  BY PidsFacts DEF TypeOK, ProcTypeOK
<1>2. PICK i \in 1 .. Len(sig["main"]) : sig["main"][i] = "USR1"
  BY Zenon DEF Reloads
<1>3. i # 1
  BY <1>1, <1>2
<1>4. i - 1 \in 1 .. Len(Tail(sig["main"])) /\ Tail(sig["main"])[i - 1] = sig["main"][i]
  BY <1>1, <1>2, <1>3
<1> QED
  BY Zenon, <1>2, <1>4 DEF Reloads

LEMMA KeysMain ==
  ASSUME TypeOK, KeysInv, Main
  PROVE  KeysInv'
<1> USE PidsFacts
<1>1. ProcTypeOK
  BY SMTT(30) DEF TypeOK
<1>2. UNCHANGED <<file, conf, cmd>>
  BY ZenonT(30) DEF Main, Started, TakesHup, PreUpdate, ChildIsReady, ChildIsLate, TerminateChild,
         ChildTerminated, KillChild, Drained, Exec, ExecFails, PostUpdateActions, Reaped, keyVars
<1>3. cause \intersect Exceptions \subseteq cause'
  BY ZenonT(30) DEF Main, Started, TakesHup, PreUpdate, ChildIsReady, ChildIsLate, TerminateChild,
         ChildTerminated, KillChild, Drained, Exec, ExecFails, PostUpdateActions, Reaped,
         NotifyReady, FiprListens, Settled, Fault, NoFault, Because, Exceptions
<1>4. sig'["main"] = sig["main"] => (Reloads => Reloads')
  BY DEF Reloads
<1>5. CASE Started \/ Reaped
  <2>1. PICK from \in {"ready", "reap"} : NotifyReady(from)
    BY <1>5 DEF Started, Reaped
  <2>2. /\ pc["main"] \notin {"init", "gone"}
        /\ pc'["main"] = "gone" \/ (keys' = keys /\ sig' = sig)
    BY SMTT(30), <1>1, <2>1 DEF NotifyReady, Goes, Ends, ProcTypeOK
  <2> QED
    BY ZenonT(30), <1>2, <1>3, <1>4, <2>2, KeysSame DEF Alive
<1>6. CASE TakesHup
  <2>1. /\ pc["main"] \notin {"init", "gone"} /\ keys' = keys /\ sig["main"] # <<>>
        /\ Head(sig["main"]) = "HUP" /\ sig'["main"] = Tail(sig["main"])
    BY ZenonT(30), <1>1, <1>6 DEF TakesHup, Takes, ProcTypeOK
  <2>2. Reloads => Reloads'
    BY ZenonT(30), <2>1, ReloadsStay
  <2> QED
    BY ZenonT(30), <1>2, <1>3, <2>1, <2>2, KeysSame DEF Alive
<1>7. CASE PreUpdate \/ ChildIsReady \/ ChildIsLate \/ ChildTerminated \/ Drained
  <2>1. pc["main"] \notin {"init", "gone"} /\ keys' = keys /\ sig' = sig
    BY ZenonT(30), <1>7 DEF PreUpdate, ChildIsReady, ChildIsLate, ChildTerminated, Drained, Goes
  <2> QED
    BY ZenonT(30), <1>2, <1>3, <1>4, <2>1, KeysSame DEF Alive
<1>8. CASE TerminateChild \/ PostUpdateActions
  <2>1. PICK to, f : pc["main"] \in {"late", "ready"} /\ TermChild(to, f)
    BY <1>8 DEF TerminateChild, PostUpdateActions
  <2>2. keys'["main"] = keys["main"] /\ sig'["main"] = sig["main"]
    BY ZenonT(30), <1>1, <2>1 DEF TermChild, ProcTypeOK
  <2> QED
    BY ZenonT(30), <1>2, <1>3, <1>4, <2>1, <2>2, KeysSame DEF Alive
<1>9. CASE KillChild
  <2>1. /\ pc["main"] \notin {"init", "gone"}
        /\ keys'["main"] = keys["main"] /\ sig'["main"] = sig["main"]
    BY <1>1, <1>9 DEF KillChild, Ends, ProcTypeOK
  <2> QED
    BY ZenonT(30), <1>2, <1>3, <1>4, <2>1, KeysSame DEF Alive
<1>10. CASE Exec
  <2>1. pc["main"] = "exec" /\ pc'["main"] = "init"
    BY <1>1, <1>10 DEF Exec, Goes, ProcTypeOK
  <2> QED
    BY ZenonT(30), <1>2, <1>3, <2>1, KeysSame DEF Alive
<1>11. CASE ExecFails
  <2>1. /\ pc["main"] = "exec"
        /\ pc'["main"] = "gone" \/ (keys' = keys /\ sig' = sig)
    BY ZenonT(30), <1>1, <1>11 DEF ExecFails, Ends, Goes, ProcTypeOK
  <2> QED
    BY ZenonT(30), <1>2, <1>3, <1>4, <2>1, KeysSame DEF Alive
<1> QED
  BY ZenonT(30), <1>5, <1>6, <1>7, <1>8, <1>9, <1>10, <1>11 DEF Main

LEMMA KeysProcess ==
  ASSUME TypeOK, KeysInv, NEW p \in Pids, Process(p) \/ Crash(p)
  PROVE  KeysInv'
<1> USE PidsFacts
<1>1. ProcTypeOK /\ p \in {"main", "child"} /\ mode \in {"receive", "send"}
  BY ZenonT(30) DEF TypeOK, KeyTypeOK, Pids
<1>2. UNCHANGED <<mode, file, conf, cmd>>
  BY ZenonT(30) DEF Process, InitDaemon, Start, ReloadSigningKeys, TakesTerm, Stopped, Hangs, Crash, keyVars
<1>3. sig'["main"] = sig["main"] => (Reloads => Reloads')
  BY ZenonT(30) DEF Reloads
<1>4. CASE p = "child"
  <2>1. cause \subseteq cause'
    BY ZenonT(30), <1>4 DEF Process, InitDaemon, Start, ReloadSigningKeys, TakesTerm, Stopped, Hangs, Crash,
           TempChildActions, StartFIPR, FiprListens, Fault, NoFault, Because
  <2>2. /\ pc'["main"] = pc["main"] /\ keys'["main"] = keys["main"]
        /\ sig'["main"] = sig["main"]
    BY <1>1, <1>4 DEF Process, InitDaemon, Start, ReloadSigningKeys, TakesTerm, Stopped, Hangs, Crash,
           Goes, Ends, Takes, ProcTypeOK
  <2>3. Alive("main")' <=> Alive("main")
    BY SMTT(30), <2>2 DEF Alive
  <2> QED
    BY ZenonT(30), <1>2, <1>3, <2>1, <2>2, <2>3, KeysSame
<1>5. CASE p = "main" /\ Ends(p)
  <2>1. pc'["main"] = "gone"
    BY ZenonT(30), <1>1, <1>5 DEF Ends, ProcTypeOK
  <2> QED
    BY ZenonT(30), <1>2, <2>1 DEF KeysInv, Alive
<1>6. CASE p = "main" /\ InitDaemon(p) /\ ~Ends(p)
  <2>1. pc["main"] = "init" /\ keys'["main"] = Loaded
    BY <1>1, <1>6 DEF InitDaemon, Goes, ProcTypeOK
  <2> QED
    BY <1>2, <2>1 DEF KeysInv, Loaded, Alive
<1>7. CASE p = "main" /\ Start(p) /\ ~Ends(p)
  <2>1. pc["main"] = "start" /\ keys' = keys /\ sig' = sig /\ cause' = cause
    BY SMTT(30), <1>7 DEF Start, Goes, TempChildActions, NoFault
  <2> QED
    BY ZenonT(30), <1>2, <1>3, <2>1, KeysSame DEF Alive
<1>8. CASE p = "main" /\ ReloadSigningKeys(p)
  <2>1. /\ keys'["main"] = Reloaded(keys["main"]) /\ pc' = pc
        /\ mode = "send" /\ keys["main"] = {} => "suiteKept" \in cause'
    BY <1>1, <1>8 DEF ReloadSigningKeys, Because, ProcTypeOK
  <2>2. conf = "set" /\ file \in Contents /\ "suiteKept" \notin cause' => keys'["main"] = file
    BY ZenonT(30), <1>1, <2>1 DEF Reloaded, ReceiverReloads, SenderReloads
  <2> QED
    BY ZenonT(30), <1>2, <2>1, <2>2 DEF KeysInv, Alive
<1>9. CASE p = "main" /\ TakesTerm(p)
  <2>1. /\ pc["main"] \in {"run", "over"} /\ keys' = keys /\ sig["main"] # <<>>
        /\ Head(sig["main"]) = "TERM" /\ sig'["main"] = Tail(sig["main"]) /\ cause \subseteq cause'
    BY ZenonT(30), <1>1, <1>9 DEF TakesTerm, Takes, Because, ProcTypeOK
  <2>2. Reloads => Reloads'
    BY ZenonT(30), <2>1, ReloadsStay
  <2> QED
    BY ZenonT(30), <1>2, <2>1, <2>2, KeysSame DEF Alive
<1>10. CASE p = "main" /\ Hangs(p)
  <2>1. pc["main"] \notin {"init", "gone"} /\ keys' = keys /\ sig' = sig /\ cause' = cause
    BY ZenonT(30), <1>10 DEF Hangs
  <2> QED
    BY ZenonT(30), <1>2, <1>3, <2>1, KeysSame DEF Alive
<1> QED
  BY ZenonT(30), <1>1, <1>4, <1>5, <1>6, <1>7, <1>8, <1>9, <1>10 DEF Process, Stopped, Crash

\* What a command's step does to the commands: only c's record changes, and
\* while c works on the file it is busy before and after.
LEMMA CommandEffect ==
  ASSUME TypeOK, NEW c \in Commands, Command(c)
  PROVE  /\ \A d \in Commands : d # c => cmd'[d] = cmd[d]
         /\ cause \subseteq cause' /\ mode' = mode
         /\ ~CommandSignals(c) => UNCHANGED <<pc, keys, sig>>
         /\ \/ cmd[c].pc = "idle" /\ cmd'[c].pc \in {"trunc", "failed"} /\ CommandReads(c)
            \/ /\ cmd[c].pc = "trunc" /\ cmd'[c].pc = "write" /\ CommandTruncates(c)
            \/ /\ cmd[c].pc = "write" /\ CommandWrites(c)
               /\ cmd'[c].pc = IF cmd[c].fresh THEN "ctrunc" ELSE "ps"
            \/ /\ CommandConfigures(c) /\ file' = file
               /\ \/ cmd[c].pc = "ctrunc" /\ cmd'[c].pc = "cwrite" /\ conf' = "torn"
                  \/ cmd[c].pc = "cwrite" /\ cmd'[c].pc = "ps" /\ conf' = "set"
            \/ /\ cmd[c].pc = "ps" /\ cmd'[c].pc \in {"kill", "done"}
               /\ CommandLists(c, {p \in Pids : Alive(p)}) /\ UNCHANGED <<file, conf>>
            \/ /\ cmd[c].pc = "kill" /\ cmd'[c].pc = "done" /\ CommandSignals(c)
               /\ UNCHANGED <<file, conf>>
<1> USE KeyAssumption
<1>1. cmd = [d \in Commands |-> cmd[d]] /\ DOMAIN cmd = Commands
  BY ZenonT(30) DEF TypeOK, KeyTypeOK
<1>2. cmd[c] \in [pc : {"idle", "trunc", "write", "ctrunc", "cwrite", "ps", "kill", "done", "failed"},
                 op : {"add", "remove"}, host : Hosts, fresh : BOOLEAN, val : Contents,
                 target : {"none"} \union Pids \union Commands]
  BY ZenonT(30) DEF TypeOK, KeyTypeOK
<1>3. CASE CommandReads(c) /\ UNCHANGED <<pc, keys, fipr, sig, pipe, childPid, served, stop, updates>>
  <2>1. PICK h \in Hosts : AddPinnedKey(c, h) \/ RemovePinnedKey(c, h)
                             \/ WriteNewSigningKey(c) \/ To(c, "failed")
    BY ZenonT(30), <1>3 DEF CommandReads
  <2>3. cmd'[c].pc \in {"trunc", "failed"} /\ \A d \in Commands : d # c => cmd'[d] = cmd[d]
    <3>1. CASE AddPinnedKey(c, h)
      BY ZenonT(30), <1>1, <3>1 DEF AddPinnedKey
    <3>2. CASE RemovePinnedKey(c, h)
      BY <1>1, <3>2 DEF RemovePinnedKey
    <3>3. CASE WriteNewSigningKey(c)
      BY ZenonT(30), <1>1, <3>3 DEF WriteNewSigningKey
    <3>4. CASE To(c, "failed")
      BY ZenonT(30), <1>1, <1>2, <3>4 DEF To
    <3> QED
      BY ZenonT(30), <2>1, <3>1, <3>2, <3>3, <3>4
  <2> QED
    BY ZenonT(30), <1>3, <2>3 DEF CommandReads, Quiet, Because
<1>4. CASE CommandTruncates(c) /\ UNCHANGED procVars
  BY ZenonT(30), <1>1, <1>2, <1>4 DEF CommandTruncates, To, Quiet, procVars
<1>5. CASE CommandWrites(c) /\ UNCHANGED procVars
  BY ZenonT(30), <1>1, <1>2, <1>5 DEF CommandWrites, To, Quiet, procVars
<1>6. CASE CommandConfigures(c) /\ UNCHANGED procVars
  BY <1>1, <1>2, <1>6 DEF CommandConfigures, To, Quiet, procVars
<1>7. CASE CommandLists(c, {p \in Pids : Alive(p)}) /\ UNCHANGED procVars
  <2>1. \E v \in {"kill", "done"} : \E t : \/ cmd' = [cmd EXCEPT ![c].pc = v]
                                            \/ cmd' = [cmd EXCEPT ![c].pc = v, ![c].target = t]
    BY ZenonT(30), <1>7 DEF CommandLists, To
  <2>2. cmd'[c].pc \in {"kill", "done"} /\ \A d \in Commands : d # c => cmd'[d] = cmd[d]
    BY <1>1, <1>2, <2>1
  <2> QED
    BY ZenonT(30), <1>7, <2>2 DEF CommandLists, Quiet, Because, procVars
<1>8. CASE CommandSignals(c)
  <2>1. cmd'[c].pc = "done" /\ \A d \in Commands : d # c => cmd'[d] = cmd[d]
    BY ZenonT(30), <1>1, <1>2, <1>8 DEF CommandSignals
  <2>2. cause \subseteq cause'
    BY ZenonT(30), <1>8 DEF CommandSignals, Signal, Because
  <2> QED
    BY ZenonT(30), <1>8, <2>1, <2>2 DEF CommandSignals, Quiet
<1> QED
  BY ZenonT(30), <1>3, <1>4, <1>5, <1>6, <1>7, <1>8 DEF Command

LEMMA KeysCommand ==
  ASSUME TypeOK, KeysInv, NEW c \in Commands, Command(c)
  PROVE  KeysInv'
<1> USE PidsFacts
<1>1. /\ \A d \in Commands : d # c => cmd'[d] = cmd[d]
      /\ cause \subseteq cause'
      /\ ~CommandSignals(c) => UNCHANGED <<pc, keys, sig>>
  BY ZenonT(30), CommandEffect
<1>2. CASE cmd'[c].pc \in {"trunc", "write", "ctrunc", "cwrite", "ps"}
  <2>1. ~CommandSignals(c)
    BY ZenonT(30), <1>2, CommandEffect DEF CommandSignals
  <2>2. Pending'
    BY <1>2 DEF Pending, Busy
  <2>3. Alive("main")' <=> Alive("main")
    BY <1>1, <2>1 DEF Alive
  <2> QED
    BY ZenonT(30), <1>1, <1>2, <2>2, <2>3 DEF KeysInv
<1>3. CASE cmd[c].pc = "idle" /\ cmd'[c].pc = "failed"
  <2>1. UNCHANGED <<file, conf, pc, keys, sig>>
    BY ZenonT(30), <1>1, <1>3, CommandEffect DEF CommandSignals, CommandReads
  <2>2. \A d \in Commands : Busy(d)' <=> Busy(d)
    BY <1>1, <1>3 DEF Busy
  <2>3. (Alive("main")' <=> Alive("main")) /\ (Pending' <=> Pending)
    BY <2>1, <2>2 DEF Alive, Pending, Reloads
  <2>4. \A d \in Commands : cmd'[d].pc = "kill" => cmd[d].pc = "kill" /\ cmd'[d].target = cmd[d].target
    BY <1>1, <1>3
  <2>5. cause' \intersect Exceptions = {} => cause \intersect Exceptions = {}
    BY ZenonT(30), <1>1
  <2> QED
    BY Zenon, <2>1, <2>3, <2>4, <2>5 DEF KeysInv, Exceptions
<1>4. CASE cmd[c].pc = "ps"
  <2>1. /\ CommandLists(c, {p \in Pids : Alive(p)}) /\ UNCHANGED <<file, conf, pc, keys, sig>>
        /\ cmd'[c].pc \in {"kill", "done"}
    BY ZenonT(30), <1>1, <1>4, CommandEffect DEF CommandSignals
  <2>2. cmd[c] \in [pc : {"idle", "trunc", "write", "ctrunc", "cwrite", "ps", "kill", "done", "failed"},
                    op : {"add", "remove"}, host : Hosts, fresh : BOOLEAN, val : Contents,
                    target : {"none"} \union Pids \union Commands] /\ DOMAIN cmd = Commands
    BY DEF TypeOK, KeyTypeOK
  <2> DEFINE found == {p \in Pids : Alive(p)} \union {d \in Commands : Busy(d) /\ d \in Explicit}
  <2>3. Alive("main") => "main" \in found
    OBVIOUS
  <2>4. CASE "refused" \in cause' /\ To(c, "done")
    <3>1. cmd'[c].pc = "done"
      BY <2>2, <2>4 DEF To
    <3> QED
      BY ZenonT(30), <1>1, <2>1, <2>4, <3>1 DEF KeysInv, Alive
  <2>5. CASE found = {} /\ To(c, "done")
    <3>1. pc'["main"] = "gone"
      BY ZenonT(30), <2>1, <2>3, <2>5 DEF Alive
    <3> QED
      BY <3>1 DEF KeysInv, Alive
  <2>6. CASE \E t \in found : found = {t} /\ cmd' = [cmd EXCEPT ![c].pc = "kill", ![c].target = t]
    <3>1. PICK t \in found : found = {t} /\ cmd' = [cmd EXCEPT ![c].pc = "kill", ![c].target = t]
      BY ZenonT(30), <2>6
    <3>2. cmd'[c].pc = "kill" /\ cmd'[c].target = t
      BY <2>2, <3>1
    <3>3. Alive("main")' => t = "main"
      BY ZenonT(30), <2>1, <2>3, <3>1 DEF Alive
    <3>4. Pending'
      BY ZenonT(30), <3>2 DEF Pending, Busy
    <3> QED
      BY ZenonT(30), <1>1, <2>1, <3>2, <3>3, <3>4 DEF KeysInv, Alive
  <2> HIDE DEF found
  <2> QED
    BY ZenonT(30), <2>1, <2>4, <2>5, <2>6 DEF CommandLists, Because, found
<1>5. CASE CommandSignals(c)
  <2>1. /\ cmd[c].pc = "kill" /\ cmd'[c].pc = "done" /\ UNCHANGED <<file, conf>>
    BY ZenonT(30), <1>5, CommandEffect DEF CommandSignals
  <2>2. Alive("main") => cmd[c].target = "main"
    BY <2>1 DEF KeysInv
  <2>3. \A d \in Commands : cmd'[d].pc = "kill" => cmd[d].pc = "kill" /\ cmd'[d].target = cmd[d].target
    BY <1>1, <2>1
  <2>4. CASE cmd[c].target \in Pids /\ Signal(cmd[c].target, "USR1")
    <3>1. CASE pc["main"] = "gone"
      <4>1. pc'["main"] = "gone"
        BY ZenonT(30), <2>4, <3>1 DEF Signal, Ends, TypeOK, ProcTypeOK
      <4> QED
        BY <4>1 DEF KeysInv, Alive
    <3>2. CASE pc["main"] \in Starting
      <4>1. "ignored" \in cause' /\ pc' = pc
        BY ZenonT(30), <2>2, <2>4, <3>2 DEF Signal, Because, Alive, Starting
      <4> QED
        BY ZenonT(30), <2>3, <4>1 DEF KeysInv, Alive
    <3>3. CASE pc["main"] # "gone" /\ pc["main"] \notin Starting
      <4>1. pc' = pc /\ sig'["main"] = Append(sig["main"], "USR1")
        BY ZenonT(30), <2>2, <2>4, <3>3 DEF Signal, Alive, TypeOK, ProcTypeOK
      <4>2. sig["main"] \in Seq({"HUP", "TERM", "USR1"})
        BY ZenonT(30) DEF TypeOK, ProcTypeOK
      <4>3. Reloads'
        <5>1. Len(sig["main"]) + 1 \in 1 .. Len(sig'["main"]) /\ sig'["main"][Len(sig["main"]) + 1] = "USR1"
          BY <4>1, <4>2
        <5> QED
          BY ZenonT(30), <5>1 DEF Reloads
      <4> QED
        BY ZenonT(30), <2>3, <4>1, <4>3 DEF KeysInv, Pending, Alive
    <3> QED
      BY ZenonT(30), <3>1, <3>2, <3>3
  <2>5. CASE Because("ignored") /\ UNCHANGED <<pc, keys, fipr, sig>>
    BY ZenonT(30), <2>3, <2>5 DEF KeysInv, Because, Alive
  <2> QED
    BY ZenonT(30), <1>5, <2>4, <2>5 DEF CommandSignals
<1> QED
  BY ZenonT(30), <1>2, <1>3, <1>4, <1>5, CommandEffect

LEMMA KeysStep == TypeOK /\ KeysInv /\ [Next]_vars => KeysInv'
<1> SUFFICES ASSUME TypeOK, KeysInv, [Next]_vars
             PROVE  KeysInv'
  OBVIOUS
<1> USE PidsFacts
<1>1. CASE ReadinessSender
  <2>1. /\ UNCHANGED <<file, conf, cmd, cause, keys, sig>> /\ pc'["main"] = pc["main"]
    BY ZenonT(30), <1>1 DEF ReadinessSender, Goes, TypeOK, ProcTypeOK, keyVars
  <2> QED
    BY ZenonT(30), <2>1, KeysSame DEF Alive, Reloads, KeysInv
<1>2. CASE SendHup \/ SendTerm
  <2>1. PICK s \in {"HUP", "TERM"} : Signal("main", s)
    BY ZenonT(30), <1>2 DEF SendHup, SendTerm
  <2>2. UNCHANGED <<file, conf, cmd>> /\ Alive("main") /\ cause \subseteq cause'
    BY ZenonT(30), <1>2, <2>1 DEF SendHup, SendTerm, Signal, Because, keyVars
  <2>3. CASE Ends("main")
    <3>1. pc'["main"] = "gone"
      BY ZenonT(30), <2>3 DEF Ends, TypeOK, ProcTypeOK
    <3> QED
      BY <3>1 DEF KeysInv, Alive
  <2>4. CASE pc["main"] \notin Starting /\ sig' = [sig EXCEPT !["main"] = Append(@, s)] /\ UNCHANGED <<pc, keys>>
    <3>1. sig["main"] \in Seq({"HUP", "TERM", "USR1"}) /\ sig'["main"] = Append(sig["main"], s)
      BY ZenonT(30), <2>4 DEF TypeOK, ProcTypeOK
    <3>2. Len(sig'["main"]) = Len(sig["main"]) + 1 /\ Len(sig["main"]) \in Nat
          /\ \A i \in 1 .. Len(sig["main"]) : sig'["main"][i] = sig["main"][i]
      BY <3>1
    <3>3. \A i \in 1 .. Len(sig["main"]) : i \in 1 .. Len(sig'["main"])
      BY <3>2
    <3>4. Reloads => Reloads'
      BY Zenon, <3>2, <3>3 DEF Reloads
    <3>5. pc["main"] # "init"
      BY SMTT(30), <2>4 DEF Starting
    <3> QED
      BY ZenonT(30), <2>2, <2>4, <3>4, <3>5, KeysSame DEF Alive
  <2> QED
    BY ZenonT(30), <2>1, <2>2, <2>3, <2>4 DEF Signal
<1>3. CASE UNCHANGED vars
  BY ZenonT(30), <1>3, KeysSame DEF vars, keyVars, procVars, KeysInv, Pending, Reloads, Busy, Alive
<1> QED
  BY ZenonT(30), <1>1, <1>2, <1>3, KeysMain, KeysProcess, KeysCommand DEF Next

LEMMA KeysInit == Init => KeysInv
BY PidsFacts, KeyAssumption DEF Init, KeyInit, KeysInv, NoCommand

\* A daemon at rest uses the keys of its file, with the exceptions named in
\* KeysAreInForce: every change of the file is followed by a reload that was not
\* served yet, and each served one (ReloadSigningKeys) or start (Init) takes the
\* whole file over.
THEOREM KeysReachDaemon == Spec => []KeysAreInForce
<1>1. KeysInv => KeysAreInForce
  BY SMTT(30) DEF KeysInv, KeysAreInForce, Pending, Reloads
<1> QED
  BY <1>1, TypeInit, TypeStep, KeysInit, KeysStep, PTL DEF Spec

\* What the steps of a command do to the fields of its record.
LEMMA EditEffect ==
  ASSUME TypeOK, NEW c \in Commands, Command(c), cmd[c].pc # "idle"
  PROVE  /\ \A d \in Commands : cmd'[d].host = cmd[d].host /\ cmd'[d].op = cmd[d].op
         /\ cmd[c].pc = "trunc" => cmd'[c].val = cmd[c].val /\ cmd'[c].fresh = cmd[c].fresh
<1>1. DOMAIN cmd = Commands /\ \A d \in Commands : d # c => cmd'[d] = cmd[d]
  BY ZenonT(30), CommandEffect DEF TypeOK, KeyTypeOK
<1>2. cmd[c] \in [pc : {"idle", "trunc", "write", "ctrunc", "cwrite", "ps", "kill", "done", "failed"},
                 op : {"add", "remove"}, host : Hosts, fresh : BOOLEAN, val : Contents,
                 target : {"none"} \union Pids \union Commands]
  BY DEF TypeOK, KeyTypeOK
<1>3. cmd'[c].host = cmd[c].host /\ cmd'[c].op = cmd[c].op
      /\ (cmd[c].pc = "trunc" => cmd'[c].val = cmd[c].val /\ cmd'[c].fresh = cmd[c].fresh)
  <2>1. CASE CommandTruncates(c)
    BY ZenonT(30), <1>1, <1>2, <2>1 DEF CommandTruncates, To
  <2>2. CASE CommandWrites(c)
    BY ZenonT(30), <1>1, <1>2, <2>2 DEF CommandWrites
  <2>3. CASE CommandConfigures(c)
    BY <1>1, <1>2, <2>3 DEF CommandConfigures, To
  <2>4. CASE CommandLists(c, {p \in Pids : Alive(p)})
    BY <1>1, <1>2, <2>4 DEF CommandLists, To
  <2>5. CASE CommandSignals(c)
    BY ZenonT(30), <1>1, <1>2, <2>5 DEF CommandSignals
  <2> QED
    BY ZenonT(30), <2>1, <2>2, <2>3, <2>4, <2>5 DEF Command, CommandReads
<1> QED
  BY ZenonT(30), <1>1, <1>3

\* The steps that touch no command's edit and not the key file keep EditsInv.
LEMMA EditsSame ==
  ASSUME EditsInv, "overlap" \in cause => "overlap" \in cause', UNCHANGED <<file, conf, cmd>>
  PROVE  EditsInv'
<1>1. \A d \in Commands : (Editing(d)' <=> Editing(d)) /\ (Active(d)' <=> Active(d))
  BY SMTT(30) DEF Editing, Active
<1>2. \A d \in Commands : \A s : Kept(d, s) =>
        \/ cmd'[d].host \in s <=> cmd'[d].op = "add"
        \/ \E e \in Commands : e # d /\ Active(e)' /\ cmd'[e].host = cmd'[d].host
  BY ZenonT(30), <1>1 DEF Kept
<1>3. \A d \in Commands : (Kept(d, file) => Kept(d, file)')
         /\ \A c \in Commands : Kept(d, cmd[c].val) => Kept(d, cmd[c].val)'
  BY ZenonT(30), <1>2 DEF Kept
<1> QED
  BY ZenonT(30), <1>1, <1>3 DEF EditsInv

\* An edit that was kept stays so while the commands go on.
LEMMA KeptStays ==
  ASSUME TypeOK, NEW c \in Commands, Command(c), cmd[c].pc # "idle"
  PROVE  /\ \A d \in Commands : Active(d)' <=> Active(d)
         /\ \A d \in Commands : \A s : Kept(d, s) =>
              \/ cmd'[d].host \in s <=> cmd'[d].op = "add"
              \/ \E e \in Commands : e # d /\ Active(e)' /\ cmd'[e].host = cmd'[d].host
<1>1. \A d \in Commands : d # c => cmd'[d] = cmd[d]
  BY ZenonT(30), CommandEffect
<1>2. Active(c)' <=> Active(c)
  BY ZenonT(30), CommandEffect DEF Active
<1>3. \A d \in Commands : Active(d)' <=> Active(d)
  BY ZenonT(30), <1>1, <1>2 DEF Active
<1>4. \A d \in Commands : cmd'[d].host = cmd[d].host /\ cmd'[d].op = cmd[d].op
  BY ZenonT(30), EditEffect
<1> QED
  BY ZenonT(30), <1>3, <1>4 DEF Kept

LEMMA EditsReads ==
  ASSUME TypeOK, EditsInv, NEW c \in Commands, Command(c), cmd[c].pc = "idle"
  PROVE  EditsInv'
<1> USE KeyAssumption
<1>1. /\ CommandReads(c) /\ UNCHANGED <<file, conf>> /\ cause \subseteq cause'
      /\ cmd'[c].pc \in {"trunc", "failed"}
      /\ \A d \in Commands : d # c => cmd'[d] = cmd[d]
  BY ZenonT(30), CommandEffect DEF CommandReads
<1>2. DOMAIN cmd = Commands
      /\ cmd[c] \in [pc : {"idle", "trunc", "write", "ctrunc", "cwrite", "ps", "kill", "done", "failed"},
                 op : {"add", "remove"}, host : Hosts, fresh : BOOLEAN, val : Contents,
                 target : {"none"} \union Pids \union Commands]
  BY SMTT(30) DEF TypeOK, KeyTypeOK
<1>3. \A d \in Commands : d # c => (Active(d)' <=> Active(d)) /\ (Editing(d)' <=> Editing(d))
  BY ZenonT(30), <1>1 DEF Active, Editing
<1>4. ~Active(c) /\ ~Editing(c)
  BY ZenonT(30) DEF Active, Editing
<1>5. \A d \in Commands : \A s : d # c /\ Kept(d, s) =>
        \/ cmd'[d].host \in s <=> cmd'[d].op = "add"
        \/ \E e \in Commands : e # d /\ Active(e)' /\ cmd'[e].host = cmd'[d].host
  <2> SUFFICES ASSUME NEW d \in Commands, NEW s, d # c, Kept(d, s)
               PROVE  \/ cmd'[d].host \in s <=> cmd'[d].op = "add"
                      \/ \E e \in Commands : e # d /\ Active(e)' /\ cmd'[e].host = cmd'[d].host
    BY ZenonT(30)
  <2>1. CASE cmd[d].host \in s <=> cmd[d].op = "add"
    BY ZenonT(30), <1>1, <2>1
  <2>2. CASE \E e \in Commands : e # d /\ Active(e) /\ cmd[e].host = cmd[d].host
    <3>1. PICK e \in Commands : e # d /\ Active(e) /\ cmd[e].host = cmd[d].host
      BY ZenonT(30), <2>2
    <3>2. e # c
      BY ZenonT(30), <1>4, <3>1
    <3>3. cmd'[e] = cmd[e] /\ cmd'[d] = cmd[d] /\ Active(e)'
      BY ZenonT(30), <1>1, <1>3, <3>1, <3>2
    <3> QED
      BY ZenonT(30), <3>1, <3>3
  <2> QED
    BY ZenonT(30), <2>1, <2>2 DEF Kept
<1>6. CASE cmd'[c].pc = "failed"
  <2>1. ~Active(c)' /\ ~Editing(c)'
    BY SMTT(30), <1>6 DEF Active, Editing
  <2>2. \A d \in Commands : Active(d)' => d # c /\ Active(d)
    BY ZenonT(30), <1>3, <2>1
  <2>3. \A d \in Commands : Editing(d)' => d # c /\ Editing(d)
    BY ZenonT(30), <1>3, <2>1
  <2>4. \A d, e \in Commands : Active(d)' /\ d # c /\ e # c =>
          (Kept(d, file) => Kept(d, file)') /\ (Kept(d, cmd[e].val) => Kept(d, cmd[e].val)')
    BY ZenonT(30), <1>1, <1>5 DEF Kept
  <2>5. \A d \in Commands : cmd'[d].pc \in {"trunc", "write"} <=> cmd[d].pc \in {"trunc", "write"}
    BY ZenonT(30), <1>1, <1>6
  <2>6. /\ \A d \in Commands : cmd'[d].pc \in {"trunc", "write"} => cmd'[d].fresh \/ conf' # "none"
        /\ \A d \in Commands : cmd'[d].pc \in {"cwrite", "ps", "kill", "done"} => conf' # "none"
    BY ZenonT(30), <1>1, <1>6 DEF EditsInv
  <2> SUFFICES ASSUME "overlap" \notin cause'
               PROVE  /\ \A d, e \in Commands : Editing(d)' /\ Editing(e)' => d = e
                      /\ \A d \in Commands : cmd'[d].pc = "write" => file' = Torn
                      /\ \A e \in Commands : cmd'[e].pc \in {"trunc", "write"} =>
                           \A d \in Commands : Active(d)' => Kept(d, cmd[e].val)'
                      /\ (\A e \in Commands : cmd'[e].pc \notin {"trunc", "write"}) =>
                           \A d \in Commands : Active(d)' => file' \in Contents /\ Kept(d, file)'
    BY ZenonT(30), <2>6 DEF EditsInv
  <2>7. "overlap" \notin cause
    BY ZenonT(30), <1>1
  <2>8. \A d, e \in Commands : Editing(d)' /\ Editing(e)' => d = e
    BY ZenonT(30), <2>3, <2>7 DEF EditsInv
  <2>9. \A d \in Commands : cmd'[d].pc = "write" => file' = Torn
    BY ZenonT(30), <1>1, <1>6, <2>7 DEF EditsInv
  <2>10. \A e \in Commands : cmd'[e].pc \in {"trunc", "write"} =>
                           \A d \in Commands : Active(d)' => Kept(d, cmd[e].val)'
    BY ZenonT(30), <1>6, <2>2, <2>4, <2>5, <2>7 DEF EditsInv
  <2>11. (\A e \in Commands : cmd'[e].pc \notin {"trunc", "write"}) =>
                           \A d \in Commands : Active(d)' => file' \in Contents /\ Kept(d, file)'
    <3> SUFFICES ASSUME \A e \in Commands : cmd'[e].pc \notin {"trunc", "write"},
                        NEW d \in Commands, Active(d)'
                 PROVE  file' \in Contents /\ Kept(d, file)'
      BY ZenonT(30)
    <3>1. \A e \in Commands : cmd[e].pc \notin {"trunc", "write"}
      BY SMTT(30), <2>5
    <3>2. file \in Contents /\ Kept(d, file) /\ d # c
      BY ZenonT(30), <2>2, <2>7, <3>1 DEF EditsInv
    <3> QED
      BY ZenonT(30), <1>1, <2>4, <3>2
  <2> QED
    BY ZenonT(30), <2>8, <2>9, <2>10, <2>11
<1>7. CASE cmd'[c].pc = "trunc"
  <2>1. Active(c)' /\ Editing(c)'
    BY ZenonT(30), <1>7 DEF Active, Editing
  <2>2. PICK h \in Hosts : AddPinnedKey(c, h) \/ RemovePinnedKey(c, h) \/ WriteNewSigningKey(c)
    <3>1. ~To(c, "failed")
      BY SMTT(30), <1>2, <1>7 DEF To
    <3> QED
      BY ZenonT(30), <1>1, <3>1 DEF CommandReads
  <2> DEFINE fresh == conf = "none" \/ file = Missing
  <2>3. /\ cmd'[c].fresh \/ conf # "none"
        /\ cmd'[c].host \in cmd'[c].val <=> cmd'[c].op = "add"
        /\ \/ fresh
           \/ \A g \in Hosts : g # cmd'[c].host => (g \in cmd'[c].val <=> g \in file)
    <3>1. CASE AddPinnedKey(c, h)
      <4>1. cmd'[c] = [pc |-> "trunc", op |-> "add", host |-> h, fresh |-> fresh,
                       val |-> (IF fresh THEN {} ELSE file) \union {h}, target |-> "none"]
        BY ZenonT(30), <1>2, <3>1 DEF AddPinnedKey
      <4> HIDE DEF fresh
      <4>2. cmd'[c].host = h /\ cmd'[c].op = "add" /\ cmd'[c].val = (IF fresh THEN {} ELSE file) \union {h}
            /\ cmd'[c].fresh = fresh
        BY <4>1
      <4>3. fresh \/ conf # "none"
        BY SMTT(30) DEF fresh
      <4> QED
        BY ZenonT(30), <4>2, <4>3
    <3>2. CASE RemovePinnedKey(c, h)
      <4>1. cmd'[c] = [pc |-> "trunc", op |-> "remove", host |-> h, fresh |-> FALSE,
                       val |-> file \ {h}, target |-> "none"] /\ conf = "set"
        BY ZenonT(30), <1>2, <3>2 DEF RemovePinnedKey
      <4>2. cmd'[c].host = h /\ cmd'[c].op = "remove" /\ cmd'[c].val = file \ {h}
        BY SMTT(30), <4>1
      <4> QED
        BY ZenonT(30), <4>1, <4>2
    <3>3. CASE WriteNewSigningKey(c)
      <4>1. cmd'[c] = [pc |-> "trunc", op |-> "add", host |-> NoCommand.host, fresh |-> TRUE,
                       val |-> {NoCommand.host}, target |-> "none"] /\ conf = "none"
        BY ZenonT(30), <1>2, <3>3 DEF WriteNewSigningKey
      <4>2. cmd'[c].host = NoCommand.host /\ cmd'[c].op = "add" /\ cmd'[c].val = {NoCommand.host}
            /\ cmd'[c].fresh = TRUE
        BY SMTT(30), <4>1
      <4> QED
        BY ZenonT(30), <4>1, <4>2
    <3> QED
      BY ZenonT(30), <2>2, <3>1, <3>2, <3>3
  <2>4. /\ \A d \in Commands : cmd'[d].pc \in {"trunc", "write"} => cmd'[d].fresh \/ conf' # "none"
        /\ \A d \in Commands : cmd'[d].pc \in {"cwrite", "ps", "kill", "done"} => conf' # "none"
    BY ZenonT(30), <1>1, <1>7, <2>3 DEF EditsInv
  <2> HIDE DEF fresh
  <2> SUFFICES ASSUME "overlap" \notin cause'
               PROVE  /\ \A d, e \in Commands : Editing(d)' /\ Editing(e)' => d = e
                      /\ \A d \in Commands : cmd'[d].pc = "write" => file' = Torn
                      /\ \A e \in Commands : cmd'[e].pc \in {"trunc", "write"} =>
                           \A d \in Commands : Active(d)' => Kept(d, cmd[e].val)'
    BY ZenonT(30), <1>7, <2>4 DEF EditsInv
  <2>5. "overlap" \notin cause /\ \A d \in Commands : ~Editing(d)
    BY ZenonT(30), <1>1 DEF CommandReads, Because
  <2>6. \A d \in Commands : Editing(d)' => d = c
    BY SMTT(30), <1>3, <2>5
  <2>7. \A d \in Commands : cmd'[d].pc \in {"trunc", "write"} => d = c
    BY ZenonT(30), <2>6 DEF Editing
  <2>8. \A d \in Commands : cmd[d].pc \notin {"trunc", "write"}
    BY SMTT(30), <2>5 DEF Editing
  <2>9. \A d \in Commands : Active(d) => file \in Contents /\ Kept(d, file) /\ conf # "none"
    <3> SUFFICES ASSUME NEW d \in Commands, Active(d)
                 PROVE  file \in Contents /\ Kept(d, file) /\ conf # "none"
      OBVIOUS
    <3>1. cmd[d].pc \in {"idle", "trunc", "write", "ctrunc", "cwrite", "ps", "kill", "done", "failed"}
      BY DEF TypeOK, KeyTypeOK
    <3>2. cmd[d].pc \in {"ps", "kill", "done"}
      BY ZenonT(30), <2>5, <3>1 DEF Active, Editing
    <3>3. conf # "none"
      BY ZenonT(30), <3>2 DEF EditsInv
    <3> QED
      BY ZenonT(30), <2>5, <2>8, <3>3 DEF EditsInv
  <2>10. ASSUME NEW d \in Commands, Active(d)'
         PROVE  Kept(d, cmd[c].val)'
    <3>1. CASE d = c
      BY ZenonT(30), <2>3, <3>1 DEF Kept
    <3>2. CASE d # c /\ cmd[d].host = cmd'[c].host
      BY ZenonT(30), <1>1, <2>1, <3>2 DEF Kept
    <3>3. CASE d # c /\ cmd[d].host # cmd'[c].host
      <4>1. Active(d) /\ cmd[d].host \in Hosts /\ cmd'[d] = cmd[d]
        BY ZenonT(30), <1>1, <1>3, <2>10, <3>3 DEF TypeOK, KeyTypeOK
      <4>2. file \in Contents /\ Kept(d, file) /\ conf # "none"
        BY SMTT(30), <2>9, <4>1
      <4>3. ~fresh
        BY ZenonT(30), <4>2 DEF fresh, Missing, Contents
      <4>4. cmd[d].host \in cmd'[c].val <=> cmd[d].host \in file
        BY ZenonT(30), <2>3, <3>3, <4>1, <4>3
      <4>5. \/ cmd'[d].host \in file <=> cmd'[d].op = "add"
            \/ \E e \in Commands : e # d /\ Active(e)' /\ cmd'[e].host = cmd'[d].host
        BY ZenonT(30), <1>5, <3>3, <4>2
      <4> QED
        BY ZenonT(30), <4>1, <4>4, <4>5 DEF Kept
    <3> QED
      BY ZenonT(30), <3>1, <3>2, <3>3
  <2> QED
    BY ZenonT(30), <1>7, <2>6, <2>7, <2>10
<1> QED
  BY ZenonT(30), <1>1, <1>6, <1>7

LEMMA EditsCommand ==
  ASSUME TypeOK, EditsInv, NEW c \in Commands, Command(c)
  PROVE  EditsInv'
<1>1. CASE cmd[c].pc = "idle"
  BY ZenonT(30), <1>1, EditsReads
<1>2. CASE cmd[c].pc # "idle"
  <2>1. /\ \A d \in Commands : d # c => cmd'[d] = cmd[d]
        /\ cause \subseteq cause'
    BY ZenonT(30), CommandEffect
  <2>2. /\ \A d \in Commands : Active(d)' <=> Active(d)
        /\ \A d \in Commands : \A s : Kept(d, s) =>
              \/ cmd'[d].host \in s <=> cmd'[d].op = "add"
              \/ \E e \in Commands : e # d /\ Active(e)' /\ cmd'[e].host = cmd'[d].host
    BY ZenonT(30), <1>2, KeptStays
  <2>3. Editing(c)' => Editing(c)
    BY ZenonT(30), <1>2, CommandEffect DEF Editing
  <2>4. \A d \in Commands : Editing(d)' => Editing(d)
    BY ZenonT(30), <2>1, <2>3 DEF Editing
  <2>5. CASE cmd[c].pc = "trunc"
    <3>1. cmd'[c].pc = "write" /\ file' = Torn /\ conf' = conf
          /\ cmd'[c].val = cmd[c].val /\ cmd'[c].fresh = cmd[c].fresh
      BY ZenonT(30), <1>2, <2>5, CommandEffect, EditEffect DEF CommandTruncates, CommandConfigures
    <3>2. \A d \in Commands : /\ cmd'[d].pc \in {"trunc", "write"} <=> cmd[d].pc \in {"trunc", "write"}
                              /\ cmd'[d].val = cmd[d].val /\ cmd'[d].fresh = cmd[d].fresh
      BY ZenonT(30), <2>1, <2>5, <3>1
    <3>3. /\ \A d \in Commands : cmd'[d].pc \in {"trunc", "write"} => cmd'[d].fresh \/ conf' # "none"
          /\ \A d \in Commands : cmd'[d].pc \in {"cwrite", "ps", "kill", "done"} => conf' # "none"
      BY ZenonT(30), <2>1, <3>1, <3>2 DEF EditsInv
    <3>4. \A d, e \in Commands : Kept(d, cmd[e].val) => Kept(d, cmd[e].val)'
      BY ZenonT(30), <2>2, <3>2 DEF Kept
    <3> QED
      BY ZenonT(30), <2>1, <2>2, <2>4, <3>1, <3>2, <3>3, <3>4 DEF EditsInv
  <2>6. CASE cmd[c].pc = "write"
    <3>1. cmd'[c].pc = (IF cmd[c].fresh THEN "ctrunc" ELSE "ps") /\ conf' = conf /\ CommandWrites(c)
      BY ZenonT(30), <2>6, CommandEffect DEF CommandWrites, CommandConfigures
    <3>2. /\ \A d \in Commands : cmd'[d].pc \in {"trunc", "write"} => cmd'[d].fresh \/ conf' # "none"
          /\ \A d \in Commands : cmd'[d].pc \in {"cwrite", "ps", "kill", "done"} => conf' # "none"
      BY ZenonT(30), <2>1, <2>6, <3>1 DEF EditsInv
    <3> SUFFICES ASSUME "overlap" \notin cause'
                 PROVE  /\ \A d, e \in Commands : Editing(d)' /\ Editing(e)' => d = e
                        /\ \A d \in Commands : cmd'[d].pc \notin {"trunc", "write"}
                        /\ \A d \in Commands : Active(d)' => file' \in Contents /\ Kept(d, file)'
      BY ZenonT(30), <3>2 DEF EditsInv
    <3>3. "overlap" \notin cause
      BY ZenonT(30), <2>1
    <3>4. \A d, e \in Commands : Editing(d)' /\ Editing(e)' => d = e
      BY ZenonT(30), <2>4, <3>3 DEF EditsInv
    <3>5. \A d \in Commands : cmd'[d].pc \notin {"trunc", "write"}
      <4>1. \A d \in Commands : d # c => ~Editing(d)
        BY ZenonT(30), <2>6, <3>3 DEF EditsInv, Editing
      <4> QED
        BY ZenonT(30), <2>1, <3>1, <4>1 DEF Editing
    <3>6. file = Torn /\ \A d \in Commands : Active(d) => Kept(d, cmd[c].val)
      BY ZenonT(30), <2>6, <3>3 DEF EditsInv
    <3>7. file' = cmd[c].val /\ cmd[c].val \in Contents
      BY ZenonT(30), <3>1, <3>6 DEF CommandWrites, TypeOK, KeyTypeOK
    <3>8. \A d \in Commands : Active(d)' => file' \in Contents /\ Kept(d, file)'
      BY ZenonT(30), <2>2, <3>6, <3>7 DEF Kept
    <3> QED
      BY ZenonT(30), <3>4, <3>5, <3>8
  <2>7. CASE cmd[c].pc \notin {"trunc", "write"}
    <3>1. /\ cmd'[c].pc \notin {"trunc", "write"} /\ file' = file /\ cmd[c].pc # "failed"
          /\ conf # "none" => conf' # "none"
          /\ cmd'[c].pc \in {"cwrite", "ps", "kill", "done"} => conf' # "none"
      BY ZenonT(30), <1>2, <2>7, CommandEffect DEF EditsInv
    <3>2. \A d \in Commands : (cmd'[d].pc \in {"trunc", "write"} <=> cmd[d].pc \in {"trunc", "write"})
                              /\ (cmd[d].pc \in {"trunc", "write"} => cmd'[d] = cmd[d])
      BY ZenonT(30), <2>1, <2>7, <3>1
    <3>3. /\ \A d \in Commands : cmd'[d].pc \in {"trunc", "write"} => cmd'[d].fresh \/ conf' # "none"
          /\ \A d \in Commands : cmd'[d].pc \in {"cwrite", "ps", "kill", "done"} => conf' # "none"
      BY ZenonT(30), <2>1, <3>1, <3>2 DEF EditsInv
    <3>4. \A d, e \in Commands : cmd[e].pc \in {"trunc", "write"} /\ Kept(d, cmd[e].val) => Kept(d, cmd[e].val)'
      BY SMTT(30), <2>2, <3>2 DEF Kept
    <3>5. \A d \in Commands : Kept(d, file) => Kept(d, file)'
      BY ZenonT(30), <2>2, <3>1 DEF Kept
    <3>6. \A d \in Commands : cmd'[d].pc = "write" => cmd[d].pc = "write"
      BY ZenonT(30), <2>1, <3>1
    <3> QED
      BY ZenonT(30), <2>1, <2>2, <2>4, <3>1, <3>2, <3>3, <3>4, <3>5, <3>6 DEF EditsInv
  <2> QED
    BY ZenonT(30), <2>5, <2>6, <2>7
<1> QED
  BY ZenonT(30), <1>1, <1>2

LEMMA EditsStep == TypeOK /\ EditsInv /\ [Next]_vars => EditsInv'
<1> SUFFICES ASSUME TypeOK, EditsInv, [Next]_vars, \A c \in Commands : ~Command(c)
             PROVE  EditsInv'
  BY ZenonT(30), EditsCommand
<1>1. CASE Main
  <2>1. UNCHANGED <<file, conf, cmd>>
    BY ZenonT(30), <1>1 DEF Main, Started, TakesHup, PreUpdate, ChildIsReady, ChildIsLate, TerminateChild,
         ChildTerminated, KillChild, Drained, Exec, ExecFails, PostUpdateActions, Reaped, keyVars
  <2>2. "overlap" \in cause => "overlap" \in cause'
    BY ZenonT(30), <1>1 DEF Main, Started, TakesHup, PreUpdate, ChildIsReady, ChildIsLate, TerminateChild,
         ChildTerminated, KillChild, Drained, Exec, ExecFails, PostUpdateActions, Reaped,
         NotifyReady, FiprListens, Settled, Fault, NoFault, Because
  <2> QED
    BY ZenonT(30), <2>1, <2>2, EditsSame
<1>2. CASE \E p \in Pids : Process(p) \/ Crash(p)
  <2>1. PICK p \in Pids : Process(p) \/ Crash(p)
    BY ZenonT(30), <1>2
  <2>2. UNCHANGED <<file, conf, cmd>>
    BY ZenonT(30), <2>1 DEF Process, InitDaemon, Start, ReloadSigningKeys, TakesTerm, Stopped, Hangs, Crash, keyVars
  <2>3. "overlap" \in cause => "overlap" \in cause'
    <3>1. CASE InitDaemon(p)
      BY ZenonT(30), <3>1 DEF InitDaemon, Refreshed, Because
    <3>3. CASE ReloadSigningKeys(p)
      BY <3>3 DEF ReloadSigningKeys, Because
    <3>4. CASE TakesTerm(p)
      BY <3>4 DEF TakesTerm, Because
    <3>5. CASE Stopped(p) \/ Hangs(p)
      BY ZenonT(30), <3>5 DEF Stopped, Hangs
    <3>2. CASE Start(p) \/ Crash(p)
      BY ZenonT(30), <3>2 DEF Start, Crash, TempChildActions, StartFIPR, FiprListens, Fault, NoFault, Because
    <3> QED
      BY ZenonT(30), <2>1, <3>1, <3>2, <3>3, <3>4, <3>5 DEF Process
  <2> QED
    BY ZenonT(30), <2>2, <2>3, EditsSame
<1>3. CASE ReadinessSender \/ SendHup \/ SendTerm \/ UNCHANGED vars
  <2>1. UNCHANGED <<file, conf, cmd>> /\ cause \subseteq cause'
    BY ZenonT(30), <1>3 DEF ReadinessSender, SendHup, SendTerm, Signal, Because, keyVars, vars
  <2> QED
    BY ZenonT(30), <2>1, EditsSame
<1> QED
  BY ZenonT(30), <1>1, <1>2, <1>3 DEF Next

LEMMA EditsInit == Init => EditsInv
BY KeyAssumption DEF Init, KeyInit, EditsInv, NoCommand, Editing, Active

\* No edit of the pinned keys is lost while the commands do not overlap: when
\* none is between its read of the file and its last write, the file has what
\* every one of them (AddPinnedKey, RemovePinnedKey) was asked for.
THEOREM NoEditLost == Spec => []EditsAreKept
<1>1. TypeOK /\ EditsInv => EditsAreKept
  BY ZenonT(30) DEF EditsInv, EditsAreKept, Active, Kept
<1> QED
  BY <1>1, TypeInit, TypeStep, EditsInit, EditsStep, PTL DEF Spec
=============================================================================
