------------------------------ MODULE HookFile ------------------------------
(***************************************************************************)
(* The "rampart webhook" commands of cmd/rampart/webhook_cmd.go: each is a *)
(* process that loads webhooks.json, edits its copy and writes the file    *)
(* back, with no lock.  os.WriteFile empties the file before it writes it, *)
(* and a process may be killed at any point.                               *)
(***************************************************************************)
EXTENDS FiniteSets

CONSTANTS
  Commands,  \* Processes; each runs one command.
  HookIDs    \* IDs of hooks; a new one is the time in nanoseconds.

ASSUME HookIDsAssumption == HookIDs # {}

Absent == "absent"
States == {Absent, "on", "off"}

VARIABLES
  file,       \* What the file says of each hook; a file that is missing says
              \* that there are none.
  readable,   \* FALSE while the file is empty, or half written.
  command,    \* command[c]: where the command is, and its copy of the file.
  intended,   \* The hooks, had every command that saved been alone.
  overlapped, \* Two commands have been between loading and saving at once.
  killed      \* A command was killed while it wrote.

hookFileVars == <<file, readable, command, intended, overlapped, killed>>

Contents == [HookIDs -> States]
Ops == {"add", "remove", "enable", "disable"}
Fresh == [pc |-> "start", op |-> "add", hook |-> CHOOSE h \in HookIDs : TRUE,
          cfg |-> [h \in HookIDs |-> Absent]]

HookFileTypeOK ==
  /\ file \in Contents
  /\ readable \in BOOLEAN
  /\ command \in [Commands -> [pc : {"start", "loaded", "writing", "late", "done",
                                     "failed", "killed"},
                               op : Ops, hook : HookIDs, cfg : Contents]]
  /\ intended \in Contents
  /\ overlapped \in BOOLEAN
  /\ killed \in BOOLEAN

HookFileInit ==
  /\ file \in Contents
  /\ intended = file
  /\ readable = TRUE
  /\ command = [c \in Commands |-> Fresh]
  /\ overlapped = FALSE
  /\ killed = FALSE

-----------------------------------------------------------------------------
Writing(c) == command[c].pc \in {"writing", "late"}
Running(c) == command[c].pc = "loaded" \/ Writing(c)

(* What a command does to the hooks, when it does anything. *)
EditConfig(cfg, op, h) ==
  [cfg EXCEPT ![h] = CASE op = "add" -> "on" [] op = "remove" -> Absent
                       [] op = "enable" -> "on" [] op = "disable" -> "off"]

(* Faulty variant: adding a hook forgets the others. *)
EditAlone(cfg, op, h) ==
  IF op = "add" THEN [k \in HookIDs |-> IF k = h THEN "on" ELSE Absent]
  ELSE EditConfig(cfg, op, h)

Edited(cfg, op, h) == EditConfig(cfg, op, h)

(* LoadConfig, and the search for the hook; a new hook has a new ID. *)
LoadConfig(c, op, h) ==
  /\ command[c].pc = "start"
  /\ readable
  /\ op = "add" <=> file[h] = Absent
  /\ command' = [command EXCEPT ![c] =
       [pc |-> "loaded", op |-> op, hook |-> h, cfg |-> Edited(file, op, h)]]
  /\ overlapped' = (overlapped \/ \E d \in Commands : Running(d))
  /\ UNCHANGED <<file, readable, intended, killed>>

(* The file is not JSON, or it has no such hook: the command changes nothing. *)
LoadFails(c) ==
  /\ command[c].pc = "start"
  /\ \/ ~readable
     \/ \E h \in HookIDs : file[h] = Absent
  /\ command' = [command EXCEPT ![c].pc = "failed"]
  /\ UNCHANGED <<file, readable, intended, overlapped, killed>>

(* os.WriteFile opens the file, and so empties it. *)
Empties(c) ==
  /\ command[c].pc = "loaded"
  /\ command' = [command EXCEPT ![c].pc = "writing"]
  /\ readable' = FALSE
  /\ UNCHANGED <<file, intended, overlapped, killed>>

(* Then it writes, from the start: over what another command wrote since, whose
   end remains if that was longer. *)
Saves(c) ==
  /\ Writing(c)
  /\ command' = [d \in Commands |->
       [command[d] EXCEPT !.pc = IF d = c THEN "done" ELSE IF @ = "writing" THEN "late" ELSE @]]
  /\ file' = command[c].cfg
  /\ readable' \in (IF command[c].pc = "late" THEN BOOLEAN ELSE {TRUE})
  /\ intended' = EditConfig(intended, command[c].op, command[c].hook)
  /\ UNCHANGED <<overlapped, killed>>

Killed(c) ==
  /\ Running(c)
  /\ command' = [command EXCEPT ![c].pc = "killed"]
  /\ killed' = (killed \/ Writing(c))
  /\ UNCHANGED <<file, readable, intended, overlapped>>

HookFileNext ==
  \E c \in Commands :
    \/ \E op \in Ops, h \in HookIDs : LoadConfig(c, op, h)
    \/ LoadFails(c) \/ Empties(c) \/ Saves(c) \/ Killed(c)

HookFileSpec == HookFileInit /\ [][HookFileNext]_hookFileVars

-----------------------------------------------------------------------------
(* Properties *)

(* As long as no two commands overlapped, the file holds what the commands that
   ended well asked for, each on top of the others; and it can be read whenever
   no command is writing, unless one was killed while it did, after which every
   command fails (webhook.go:83, an empty file is no JSON). *)
EditsKept ==
  /\ ~overlapped /\ readable => file = intended
  /\ readable \/ killed \/ overlapped \/ \E c \in Commands : Writing(c)
=============================================================================
