------------------------------ MODULE KeyFile ------------------------------
(***************************************************************************)
(* The key files of a daemon and the commands that change them while it    *)
(* runs: --trust-sender and --distrust-sender edit the pinned keys of a    *)
(* receiver, --write-signing-key gives a sender its signing key.  Each is  *)
(* a process of its own.  It reads the file, writes it back (a truncation, *)
(* then a write), points the main configuration at it where that was       *)
(* missing, looks for the daemon in the process list and signals it.       *)
(*                                                                         *)
(* A file is the set of hosts it has a key for; a sender's file holds one. *)
(* The daemon's processes, and what a signal does to them, are in Update.  *)
(***************************************************************************)
EXTENDS Naturals, Sequences, FiniteSets

CONSTANTS
  Hosts, Commands,
  Explicit   \* the commands whose command line names the configuration file

ASSUME KeyAssumption ==
  /\ Hosts # {} /\ "missing" \notin Hosts /\ "torn" \notin Hosts
  /\ Explicit \subseteq Commands

VARIABLES
  mode,      \* "receive" or "send"
  file,      \* the key file: Missing, Torn (truncated or garbled), or the hosts in it
  conf,      \* the main configuration: "none" (names no key file), "torn", "set"
  template,  \* whether it names the suite NoSignature, as the installed template does
  cmd,       \* per command: where it is, what it was asked, what it will write
  cause      \* the named exceptions that have happened so far

keyVars == <<mode, file, conf, template, cmd>>

\* Two values that are no sets of hosts.
Missing == {"missing"}
Torn == {"torn"}
Contents == SUBSET Hosts

\* A command that has not been issued.
NoCommand == [pc |-> "idle", op |-> "add", host |-> CHOOSE h \in Hosts : TRUE,
              fresh |-> FALSE, val |-> {}, target |-> "none"]

KeyInit ==
  /\ mode \in {"receive", "send"}
  /\ \/ conf = "none" /\ file = Missing /\ template \in BOOLEAN
     \/ conf = "set" /\ file = {NoCommand.host} /\ template = FALSE
  /\ cmd = [c \in Commands |-> NoCommand]

Because(name) == cause' = cause \union {name}
Editing(c) == cmd[c].pc \in {"trunc", "write", "ctrunc", "cwrite"}
Busy(c) == cmd[c].pc \notin {"idle", "done", "failed"}

----------------------------------------------------------------------------
(* What a daemon loads.                                                    *)

\* Init of a starting process.  A receiver needs a well-formed file once one is
\* configured.  A sender takes an empty file for an empty key, and refuses a key
\* under the suite NoSignature.
ReceiverLoads == conf = "set" => file \in Contents
SenderLoads == conf = "set" => file # Missing /\ (template => file \notin Contents)
Loadable == conf # "torn" /\ (IF mode = "receive" THEN ReceiverLoads ELSE SenderLoads)

\* A mutant: an empty file is taken for a map.
LoadedAnyway == IF conf = "set" /\ file # Missing THEN file ELSE {}
Loaded == IF conf = "set" /\ file \in Contents THEN file ELSE {}

\* A mutant: keys that left the file stay in force.
ReceiverReloadsMore(held) == IF conf = "set" /\ file \in Contents THEN held \union file ELSE held

\* ReloadSigningKeys in a process that holds "held": what it holds afterwards.  A
\* sender that started without a key keeps the suite NoSignature in memory, and
\* that suite refuses the key it is told to reload.
ReceiverReloads(held) == IF conf = "set" /\ file \in Contents THEN file ELSE held
SenderReloads(held) == IF conf = "set" /\ file \in Contents /\ held # {} THEN file ELSE held
Reloaded(held) == IF mode = "receive" THEN ReceiverReloads(held) ELSE SenderReloads(held)

----------------------------------------------------------------------------
(* The commands.                                                           *)

To(c, pc) == cmd' = [cmd EXCEPT ![c].pc = pc]
Quiet == UNCHANGED <<mode, template>>

\* A mutant: the map of an existing file is not read back before it is written.
AddPinnedKeyForgets(c, h) ==
  LET fresh == conf = "none" \/ file = Missing IN
  /\ conf # "torn" /\ (fresh \/ file # Torn)
  /\ cmd' = [cmd EXCEPT ![c] = [pc |-> "trunc", op |-> "add", host |-> h, fresh |-> fresh,
                                val |-> {h}, target |-> "none"]]

\* AddPinnedKey up to its first write.  Without a configured, existing file the
\* map is a new one and the configuration will have to name it.
AddPinnedKey(c, h) ==
  LET fresh == conf = "none" \/ file = Missing IN
  /\ conf # "torn" /\ (fresh \/ file # Torn)
  /\ cmd' = [cmd EXCEPT ![c] = [pc |-> "trunc", op |-> "add", host |-> h, fresh |-> fresh,
                                val |-> (IF fresh THEN {} ELSE file) \union {h}, target |-> "none"]]

\* RemovePinnedKey, which has nothing to do for a host it does not find.
RemovePinnedKey(c, h) ==
  /\ conf = "set" /\ file \in Contents /\ h \in file
  /\ cmd' = [cmd EXCEPT ![c] = [pc |-> "trunc", op |-> "remove", host |-> h, fresh |-> FALSE,
                                val |-> file \ {h}, target |-> "none"]]

\* WriteNewSigningKey, which never replaces a key.
WriteNewSigningKey(c) ==
  /\ conf = "none" /\ file = Missing
  /\ cmd' = [cmd EXCEPT ![c] = [pc |-> "trunc", op |-> "add", host |-> NoCommand.host,
                                fresh |-> TRUE, val |-> {NoCommand.host}, target |-> "none"]]

\* A command begins.  It ends here when it has nothing to do or cannot parse what
\* it reads.  Those that name the configuration file come last, which keeps the
\* state space small.
CommandReads(c) ==
  /\ cmd[c].pc = "idle"
  /\ c \in Explicit => \A d \in Commands \ Explicit : cmd[d].pc # "idle"
  /\ \E h \in Hosts :
       \/ mode = "receive" /\ (AddPinnedKey(c, h) \/ RemovePinnedKey(c, h))
       \/ mode = "send" /\ h = NoCommand.host /\ WriteNewSigningKey(c)
       \/ To(c, "failed")
  /\ IF \E d \in Commands : Editing(d) THEN Because("overlap") ELSE UNCHANGED cause
  /\ Quiet /\ UNCHANGED <<file, conf>>

\* os.WriteFile truncates the file, then writes it.  Two writers at once may
\* leave the end of the longer text behind the shorter one.
CommandTruncates(c) ==
  /\ cmd[c].pc = "trunc" /\ To(c, "write") /\ file' = Torn
  /\ Quiet /\ UNCHANGED <<conf, cause>>

CommandWrites(c) ==
  /\ cmd[c].pc = "write"
  /\ cmd' = [cmd EXCEPT ![c].pc = IF cmd[c].fresh THEN "ctrunc" ELSE "ps", ![c].val = {}, ![c].fresh = FALSE]
  /\ file' \in {cmd[c].val} \union (IF file = Torn THEN {} ELSE {Torn})
  /\ Quiet /\ UNCHANGED <<conf, cause>>

CommandConfigures(c) ==
  /\ \/ cmd[c].pc = "ctrunc" /\ To(c, "cwrite") /\ conf' = "torn"
     \/ cmd[c].pc = "cwrite" /\ To(c, "ps") /\ conf' = "set"
  /\ Quiet /\ UNCHANGED <<file, cause>>

\* IssueLiveSigningKeyReload reads the process list: "daemons" are the daemon's
\* processes in it, and a command that names the configuration file finds itself.
CommandLists(c, daemons) ==
  LET found == daemons \union {d \in Commands : Busy(d) /\ d \in Explicit} IN
  /\ cmd[c].pc = "ps"
  /\ \/ Cardinality(found) > 1 /\ To(c, "done") /\ Because("refused")
     \/ found = {} /\ To(c, "done") /\ UNCHANGED cause
     \/ \E t \in found : /\ found = {t} /\ UNCHANGED cause
                         /\ cmd' = [cmd EXCEPT ![c].pc = "kill", ![c].target = t]
  /\ Quiet /\ UNCHANGED <<file, conf>>

----------------------------------------------------------------------------
\* Of the edits whose commands have ended, each is in the file that remains: a
\* command reads the whole map and writes all of it back, without a lock, so only
\* commands that overlap can lose one another's edit or garble the file
\* (AddPinnedKey, RemovePinnedKey, WriteNewSigningKey).
EditsAreKept ==
  ((\A c \in Commands : cmd[c].pc \in {"idle", "ps", "kill", "done", "failed"}) /\ "overlap" \notin cause)
    => \A c \in Commands : cmd[c].pc \notin {"idle", "failed"} =>
         /\ file \in Contents
         /\ \/ cmd[c].host \in file <=> cmd[c].op = "add"
            \/ \E d \in Commands : d # c /\ cmd[d].pc \notin {"idle", "failed"} /\ cmd[d].host = cmd[c].host
=============================================================================
