------------------------------- MODULE Update -------------------------------
(***************************************************************************)
(* The life of a daemon: it starts, takes signals, reloads its keys,       *)
(* replaces itself by a new version, stops.  A receiver updates in two     *)
(* stages.  It starts a temporary child and waits on a pipe until the      *)
(* child listens, shuts its own pipeline down and calls execve; the new    *)
(* image of the same process starts, ends the child and goes on.  A sender *)
(* shuts down and calls execve with no child.                              *)
(*                                                                         *)
(* Fragments that reach the wrong process during the two stages go through *)
(* FIPR sockets, one per process; what is sent there is in module Fipr.    *)
(***************************************************************************)
EXTENDS KeyFile

CONSTANTS
  MaxUpdates,  \* bound: SIGHUPs sent
  MaxEvents    \* bound: faults and key commands, together

ASSUME UpdateAssumption == MaxUpdates \in Nat /\ MaxEvents \in Nat

VARIABLES
  pc,        \* per process: where it is in its life
  keys,      \* per process: the hosts whose keys are in force
  fipr,      \* per process: "off", "on", or "failed" (routing on, no socket)
  sig,       \* per process: the signals waiting in its channel
  pipe,      \* the readiness pipe: "none", "open", "ready"
  childPid,  \* whether the environment of main names a child to end
  served,    \* whether main has been up
  stop,      \* whether main has been told to stop
  updates, events

procVars == <<pc, keys, fipr, sig, pipe, childPid, served, stop, updates, events>>
vars == <<keyVars, cause, procVars>>

Pids == {"main", "child"}
\* A process takes traffic from the end of Start to the beginning of Shutdown.
Listening == {"ready", "reap", "run", "hup", "wait", "late", "term"}
\* Until SignalHandler subscribes, signals have their default effect.
Starting == {"init", "start", "ready", "reap"}
Alive(p) == pc[p] # "gone"

Init ==
  /\ KeyInit /\ cause = {}
  /\ pc = [p \in Pids |-> IF p = "main" THEN "init" ELSE "gone"]
  /\ keys = [p \in Pids |-> {}] /\ fipr = [p \in Pids |-> "off"]
  /\ sig = [p \in Pids |-> <<>>] /\ pipe = "none" /\ childPid = FALSE
  /\ served = FALSE /\ stop = FALSE /\ updates = 0 /\ events = 0

Goes(p, from, to) == pc[p] = from /\ pc' = [pc EXCEPT ![p] = to]
Fault(name) == events < MaxEvents /\ events' = events + 1 /\ Because(name)
NoFault == UNCHANGED <<events, cause>>

\* A process that ends takes everything it held with it.
Ends(p) ==
  /\ pc' = [pc EXCEPT ![p] = "gone"] /\ keys' = [keys EXCEPT ![p] = {}]
  /\ fipr' = [fipr EXCEPT ![p] = "off"] /\ sig' = [sig EXCEPT ![p] = <<>>]

\* Exceptions that are over once main serves again, and once it has loaded the
\* key file.
Settled == cause \ {"crash", "startFailed", "initFailed", "fiprFailed", "killed"}
Refreshed == cause \ {"refused", "ignored", "suiteKept"}

----------------------------------------------------------------------------
(* Starting.                                                               *)

\* LoadConfig, LoadKey and Init.
InitDaemon(p) ==
  /\ \/ /\ Loadable /\ Goes(p, "init", "start") /\ keys' = [keys EXCEPT ![p] = Loaded]
        /\ cause' = (IF p = "main" THEN Refreshed ELSE cause) /\ UNCHANGED <<fipr, sig>>
     \/ ~Loadable /\ pc[p] = "init" /\ Ends(p) /\ Because("initFailed")
  /\ UNCHANGED <<keyVars, pipe, childPid, served, stop, updates, events>>

\* The receiver's Start takes the path of the process, whoever left a socket
\* there, and listens on it.
FiprListens(p) == fipr' = [fipr EXCEPT ![p] = "on"] /\ NoFault

\* StartFIPR.  The routing flag goes up before the socket listens, and stays up
\* when it does not.
StartFIPR(p) ==
  \/ FiprListens(p)
  \/ fipr' = [fipr EXCEPT ![p] = "failed"] /\ Fault("fiprFailed")
StopFIPR(p) == fipr' = [fipr EXCEPT ![p] = "off"]

\* A mutant: the child has no FIPR receiver.
TempChildActionsNone(p) == NoFault /\ UNCHANGED fipr
\* TempChildActions: only the child starts its FIPR receiver here, and it only
\* warns when that fails.
TempChildActions(p) == IF p = "child" THEN StartFIPR(p) ELSE NoFault /\ UNCHANGED fipr

\* Start up to its last listener, or an error on the way there and the exit.
Start(p) ==
  /\ \/ Goes(p, "start", "ready") /\ TempChildActions(p) /\ UNCHANGED <<keys, sig>>
     \/ pc[p] = "start" /\ Ends(p) /\ Fault("startFailed")
  /\ UNCHANGED <<keyVars, pipe, childPid, served, stop, updates>>

\* The end of the child's Start: ReadinessSender writes to the parent's pipe.
ReadinessSender ==
  /\ Goes("child", "ready", "run") /\ pipe' = "ready"
  /\ UNCHANGED <<keyVars, cause, keys, fipr, sig, childPid, served, stop, updates, events>>

\* The end of main's Start: NotifyReady, which may fail, then SignalHandler.
NotifyReady(from) ==
  \/ /\ Goes("main", from, "run") /\ served' = TRUE /\ cause' = Settled
     /\ StopFIPR("main") /\ UNCHANGED <<keys, sig, events>>
  \/ pc["main"] = from /\ Ends("main") /\ Fault("startFailed") /\ UNCHANGED served

Started ==
  /\ ~childPid /\ NotifyReady("ready")
  /\ UNCHANGED <<keyVars, pipe, childPid, stop, updates>>

----------------------------------------------------------------------------
(* Signals.                                                                *)

\* A signal waits in the channel of a process that has subscribed.  Before that
\* SIGTERM and SIGHUP end the process and SIGUSR1 is ignored.
Signal(p, s) ==
  \/ ~Alive(p) /\ UNCHANGED <<pc, keys, fipr, sig, cause>>
  \/ /\ Alive(p) /\ pc[p] \notin Starting
     /\ sig' = [sig EXCEPT ![p] = Append(@, s)] /\ UNCHANGED <<pc, keys, fipr, cause>>
  \/ pc[p] \in Starting /\ s = "USR1" /\ Because("ignored") /\ UNCHANGED <<pc, keys, fipr, sig>>
  \/ pc[p] \in Starting /\ s # "USR1" /\ Ends(p) /\ Because("signalled")

\* The operator asks for an update, or for a stop.
SendHup ==
  /\ Alive("main") /\ updates < MaxUpdates /\ updates' = updates + 1
  /\ Signal("main", "HUP")
  /\ UNCHANGED <<keyVars, pipe, childPid, served, stop, events>>
SendTerm ==
  /\ Alive("main") /\ ~stop /\ stop' = TRUE
  /\ Signal("main", "TERM")
  /\ UNCHANGED <<keyVars, pipe, childPid, served, updates, events>>

\* The last step of a command that changed a key: the signal to what it found,
\* which may be the command itself.
CommandSignals(c) ==
  /\ cmd[c].pc = "kill" /\ cmd' = [cmd EXCEPT ![c].pc = "done", ![c].target = "none"]
  /\ Quiet /\ UNCHANGED <<file, conf>>
  /\ \/ cmd[c].target \in Pids /\ Signal(cmd[c].target, "USR1")
     \/ cmd[c].target \in Commands /\ Because("ignored") /\ UNCHANGED <<pc, keys, fipr, sig>>
  /\ UNCHANGED <<pipe, childPid, served, stop, updates, events>>

Command(c) ==
  \/ /\ CommandReads(c) /\ events < MaxEvents /\ events' = events + 1
     /\ UNCHANGED <<pc, keys, fipr, sig, pipe, childPid, served, stop, updates>>
  \/ /\ \/ CommandTruncates(c) \/ CommandWrites(c) \/ CommandConfigures(c)
        \/ CommandLists(c, {p \in Pids : Alive(p)})
     /\ UNCHANGED procVars
  \/ CommandSignals(c)

\* SignalHandler takes the next signal.  A handler whose context is cancelled
\* ("over") may still take one, for select chooses at random.
Takes(p, s) ==
  /\ pc[p] \in {"run", "over"} /\ sig[p] # <<>> /\ Head(sig[p]) = s
  /\ sig' = [sig EXCEPT ![p] = Tail(@)]

ReloadSigningKeys(p) ==
  /\ Takes(p, "USR1") /\ keys' = [keys EXCEPT ![p] = Reloaded(keys[p])]
  /\ IF mode = "send" /\ keys[p] = {} THEN Because("suiteKept") ELSE UNCHANGED cause
  /\ UNCHANGED <<keyVars, pc, fipr, pipe, childPid, served, stop, updates, events>>

TakesTerm(p) ==
  /\ Takes(p, "TERM") /\ pc' = [pc EXCEPT ![p] = "stop"]
  /\ IF p = "main" THEN Because("stopped") ELSE UNCHANGED cause
  /\ UNCHANGED <<keyVars, keys, fipr, pipe, childPid, served, stop, updates, events>>

\* Shutdown and the exit.
Stopped(p) ==
  /\ pc[p] \in {"stop", "over"} /\ Ends(p)
  /\ UNCHANGED <<keyVars, cause, pipe, childPid, served, stop, updates, events>>

\* A Shutdown that does not come to an end: its waits for queues have deadlines, those
\* for the workers of a stage and for the removal of an instance have none, and may
\* never be over (modules Receiver and Routing).  The FIPR receiver is stopped halfway.
Hangs(p) ==
  /\ pc[p] \in {"stop", "drain"} /\ pc' = [pc EXCEPT ![p] = "hung"]
  /\ events < MaxEvents /\ events' = events + 1
  /\ UNCHANGED fipr \/ StopFIPR(p)
  /\ UNCHANGED <<keyVars, cause, keys, sig, pipe, childPid, served, stop, updates>>

----------------------------------------------------------------------------
(* The update, in the main process.                                        *)

\* NotifyReload and StartFIPR.  Either may fail, and the signal is done with; a
\* sender has no FIPR and no child, and goes straight to Shutdown.
TakesHup ==
  /\ Takes("main", "HUP")
  /\ \/ mode = "send" /\ pc' = [pc EXCEPT !["main"] = "drain"] /\ NoFault /\ UNCHANGED fipr
     \/ mode = "receive" /\ pc' = [pc EXCEPT !["main"] = "hup"] /\ FiprListens("main")
     \/ /\ Fault("updateFailed") /\ UNCHANGED pc
        /\ fipr' \in {fipr} \union {[fipr EXCEPT !["main"] = "failed"] : m \in {mode} \ {"send"}}
  /\ UNCHANGED <<keyVars, keys, pipe, childPid, served, stop, updates>>

\* preUpdate: the child is started with the write end of the pipe, or is not.
PreUpdate ==
  /\ \/ /\ pc["main"] = "hup" /\ pc' = [pc EXCEPT !["main"] = "wait", !["child"] = "init"]
        /\ pipe' = "open" /\ NoFault
     \/ Goes("main", "hup", "run") /\ Fault("updateFailed") /\ UNCHANGED pipe
  /\ UNCHANGED <<keyVars, keys, fipr, sig, childPid, served, stop, updates>>

\* Mutants: the parent does not read the pipe; its deadline leaves the child alone.
ChildIsReadyUnread ==
  /\ Goes("main", "wait", "drain") /\ pipe' = "none"
  /\ UNCHANGED <<keyVars, cause, keys, fipr, sig, childPid, served, stop, updates, events>>
ChildIsLateAndLeft ==
  /\ Goes("main", "wait", "run") /\ pipe = "open" /\ Because("updateFailed")
  /\ events' = events + (IF Alive("child") THEN 1 ELSE 0) /\ events' <= MaxEvents
  /\ UNCHANGED <<keyVars, keys, fipr, sig, pipe, childPid, served, stop, updates>>

\* readinessReceiver: the child's word, or the deadline.  The parent holds a
\* write end of its own, so it learns of a child's death by the deadline only.
ChildIsReady ==
  /\ Goes("main", "wait", "drain") /\ pipe = "ready" /\ pipe' = "none"
  /\ UNCHANGED <<keyVars, cause, keys, fipr, sig, childPid, served, stop, updates, events>>
ChildIsLate ==
  /\ Goes("main", "wait", "late") /\ pipe = "open" /\ Because("updateFailed")
  /\ events' = events + (IF Alive("child") THEN 1 ELSE 0) /\ events' <= MaxEvents
  /\ UNCHANGED <<keyVars, keys, fipr, sig, pipe, childPid, served, stop, updates>>

\* SIGTERM to the child, main going on to "to" with its FIPR receiver as "f".
TermChild(to, f) ==
  LET dies == pc["child"] \in Starting IN
  /\ pc' = [pc EXCEPT !["main"] = to, !["child"] = IF dies THEN "gone" ELSE @]
  /\ keys' = [keys EXCEPT !["child"] = IF dies THEN {} ELSE @]
  /\ fipr' = [fipr EXCEPT !["main"] = f, !["child"] = IF dies THEN "off" ELSE @]
  /\ sig' = [sig EXCEPT !["child"] = IF dies \/ ~Alive("child") THEN <<>> ELSE Append(@, "TERM")]

\* terminateChildProcess: SIGTERM, then SIGKILL to a child that is still there at
\* the deadline.  preUpdate then returns the error and closes the pipe.
TerminateChild ==
  /\ pc["main"] = "late" /\ TermChild("term", fipr["main"])
  /\ UNCHANGED <<keyVars, cause, pipe, childPid, served, stop, updates, events>>
\* (A mutant of what follows: the handler subscribes anew and forgets its channel.)
ChildTerminatedAnew ==
  /\ Goes("main", "term", "run") /\ ~Alive("child") /\ pipe' = "none" /\ cause' = Settled
  /\ sig' = [sig EXCEPT !["main"] = <<>>]
  /\ UNCHANGED <<keyVars, keys, fipr, childPid, served, stop, updates, events>>
ChildTerminated ==
  /\ Goes("main", "term", "run") /\ ~Alive("child") /\ pipe' = "none" /\ cause' = Settled
  /\ UNCHANGED <<keyVars, keys, fipr, sig, childPid, served, stop, updates, events>>
KillChild ==
  /\ pc["main"] \in {"term", "reap"} /\ Alive("child") /\ Ends("child") /\ Because("killed")
  /\ events' = events + (IF pc["child"] = "hung" THEN 0 ELSE 1) /\ events' <= MaxEvents
  /\ UNCHANGED <<keyVars, pipe, childPid, served, stop, updates>>

\* Shutdown of the old image.
Drained ==
  /\ Goes("main", "drain", "exec") /\ StopFIPR("main")
  /\ UNCHANGED <<keyVars, cause, keys, sig, pipe, childPid, served, stop, updates, events>>

\* updateAndExit.  The new image has an empty channel: a signal that waited in the
\* old one is lost.
Lost == {"lostStop" : i \in {j \in DOMAIN sig["main"] : sig["main"][j] = "TERM"}}
\* (A mutant: the new image is not told of the child.)
ExecForgets ==
  /\ Goes("main", "exec", "init") /\ childPid' = FALSE
  /\ sig' = [sig EXCEPT !["main"] = <<>>] /\ keys' = [keys EXCEPT !["main"] = {}]
  /\ cause' = (cause \ {"updateFailed"}) \union Lost
  /\ UNCHANGED <<keyVars, fipr, pipe, served, stop, updates, events>>
Exec ==
  /\ Goes("main", "exec", "init") /\ childPid' = (mode = "receive")
  /\ sig' = [sig EXCEPT !["main"] = <<>>] /\ keys' = [keys EXCEPT !["main"] = {}]
  /\ cause' = (cause \ {"updateFailed"}) \union Lost
  /\ UNCHANGED <<keyVars, fipr, pipe, served, stop, updates, events>>

\* execve fails.  The daemon is to be started again, but Init refuses the empty
\* key it is given in a receiver, which exits and leaves the child behind.  A
\* sender starts, under the context that Shutdown cancelled.
ExecFails ==
  /\ Fault("execFailed")
  /\ \/ mode = "receive" /\ pc["main"] = "exec" /\ Ends("main")
     \/ mode = "send" /\ Goes("main", "exec", "over") /\ UNCHANGED <<keys, fipr, sig>>
  /\ UNCHANGED <<keyVars, pipe, childPid, served, stop, updates>>

\* PostUpdateActions of the new image: FIPR for what the child still holds,
\* SIGTERM to the child, and once it is reaped FIPR off again.
PostUpdateActions ==
  /\ pc["main"] = "ready" /\ childPid /\ childPid' = FALSE
  /\ \/ TermChild("reap", "on") /\ NoFault
     \/ TermChild("reap", "failed") /\ Fault("fiprFailed")
  /\ UNCHANGED <<keyVars, pipe, served, stop, updates>>
Reaped ==
  /\ ~Alive("child") /\ NotifyReady("reap")
  /\ UNCHANGED <<keyVars, pipe, childPid, stop, updates>>

\* A process dies: a panic, the out-of-memory killer.
Crash(p) ==
  /\ Alive(p) /\ Ends(p) /\ Fault("crash")
  /\ UNCHANGED <<keyVars, pipe, childPid, served, stop, updates>>

Main ==
  \/ Started \/ TakesHup \/ PreUpdate \/ ChildIsReady \/ ChildIsLate \/ TerminateChild \/ ChildTerminated
  \/ KillChild \/ Drained \/ Exec \/ ExecFails \/ PostUpdateActions \/ Reaped
Process(p) ==
  InitDaemon(p) \/ Start(p) \/ ReloadSigningKeys(p) \/ TakesTerm(p) \/ Stopped(p) \/ Hangs(p)

Next ==
  \/ Main \/ ReadinessSender \/ SendHup \/ SendTerm
  \/ \E p \in Pids : Process(p) \/ Crash(p)
  \/ \E c \in Commands : Command(c)

\* Each process makes progress; the operator, the commands and the faults need not.
Spec ==
  /\ Init /\ [][Next]_vars
  /\ WF_vars(Main \/ Process("main")) /\ WF_vars(ReadinessSender \/ Process("child"))

----------------------------------------------------------------------------
KeyTypeOK ==
  /\ mode \in {"receive", "send"} /\ file \in {Missing, Torn} \union Contents
  /\ conf \in {"none", "torn", "set"} /\ template \in BOOLEAN
  /\ cmd \in [Commands ->
       [pc : {"idle", "trunc", "write", "ctrunc", "cwrite", "ps", "kill", "done", "failed"},
        op : {"add", "remove"}, host : Hosts, fresh : BOOLEAN, val : Contents,
        target : {"none"} \union Pids \union Commands]]
ProcTypeOK ==
  /\ pc \in [Pids -> Listening \union Starting \union {"drain", "exec", "stop", "hung", "over", "gone"}]
  /\ keys \in [Pids -> Contents] /\ fipr \in [Pids -> {"off", "on", "failed"}]
  /\ sig \in [Pids -> Seq({"HUP", "TERM", "USR1"})]

\* Type invariant: the daemon's two processes, the key file and the commands are
\* in states the code knows, and a process holds only keys of hosts.
TypeOK ==
  /\ KeyTypeOK /\ ProcTypeOK /\ pipe \in {"none", "open", "ready"}
  /\ childPid \in BOOLEAN /\ served \in BOOLEAN /\ stop \in BOOLEAN
  /\ updates \in 0 .. MaxUpdates /\ events \in 0 .. MaxEvents

\* "Zero interruption to traffic": once a receiver is up some process of it
\* listens, all through an update, unless one of them was stopped, crashed, or
\* failed to start (SignalHandler waits for the child, and the new image for its
\* own listeners, before the other side goes).  An old image whose Shutdown hangs is
\* no exception: the child listens beside it.
SomeoneListens ==
  (mode = "receive" /\ served
   /\ cause \intersect {"stopped", "signalled", "crash", "startFailed", "initFailed"} = {})
    => \E p \in Pids : pc[p] \in Listening

\* A child outlives main only when main failed in the middle of an update: a stop
\* that SignalHandler takes never leaves one behind (terminateChildProcess and
\* PostUpdateActions reap it before the handler is back at its select).
OrphanHasCause ==
  (Alive("child") /\ ~Alive("main"))
    => cause \intersect {"execFailed", "crash", "startFailed", "initFailed", "signalled"} # {}

\* While one process of a receiver drains in an update, it routes fragments away
\* and the other has a socket that takes them, unless that socket failed to open
\* or its owner died (StartFIPR before preUpdate, TempChildActions before
\* ReadinessSender, PostUpdateActions before the SIGTERM).  A main process at its
\* select has no FIPR receiver left, unless an update failed since its image
\* began: the error paths of SignalHandler do not call StopFIPR.
FiprInTime ==
  /\ cause \intersect {"fiprFailed", "crash", "signalled", "killed"} = {} =>
       /\ mode = "receive" /\ pc["main"] = "drain" => fipr["main"] # "off" /\ fipr["child"] = "on"
       /\ pc["child"] = "stop" /\ pc["main"] = "reap" => fipr["child"] # "off" /\ fipr["main"] = "on"
  /\ pc["main"] = "run" /\ fipr["main"] # "off" => "updateFailed" \in cause

\* A daemon at rest uses the keys of the file.  The exceptions: the command found
\* more than one process and refused (an update was on, or it found itself), its
\* signal came before the handler or went to the command itself, or a sender
\* refused the key because it had started without one (ReloadSigningKeys).
KeysAreInForce ==
  (/\ pc["main"] = "run" /\ sig["main"] = <<>> /\ conf = "set" /\ file \in Contents
   /\ \A c \in Commands : ~Busy(c)
   /\ cause \intersect {"refused", "ignored", "suiteKept"} = {})
     => keys["main"] = file

\* An update comes to an end: main is back at its select or gone, whatever the
\* child does, be it hanging in its own Shutdown (every wait of preUpdate and
\* PostUpdateActions has a deadline), and the child does not stay while main is
\* there.  The exception is a main process whose Shutdown hangs, which stays as it
\* is with the child beside it: no deadline covers that call.
UpdateEnds ==
  /\ pc["main"] \in {"hup", "wait", "drain", "exec", "reap"}
       ~> pc["main"] \in {"run", "gone", "hung"}
  /\ Alive("child") ~> ~Alive("child") \/ pc["main"] \in {"gone", "hung"}

\* A daemon told to stop stops, unless the signal was waiting in the channel of an
\* image that execve replaced, or Shutdown, for this signal or for an update
\* before it, hangs.
StopIsHonoured == stop ~> pc["main"] \in {"gone", "hung"} \/ "lostStop" \in cause
=============================================================================
