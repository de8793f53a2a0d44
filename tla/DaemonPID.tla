----------------------------- MODULE DaemonPID -----------------------------
(***************************************************************************)
(* The PID file of the daemon: runDaemon of cmd/rampart/main.go, Run,      *)
(* writePID, removePID and IsRunning of cmd/rampart/daemon.go.  Daemons    *)
(* are started by hand or at login, end, or are killed; the system gives   *)
(* the PID of a process that is gone to another one.                       *)
(***************************************************************************)
EXTENDS Integers, FiniteSets

CONSTANTS
  Daemons, \* Invocations of "rampart --daemon".
  PIDs

Missing == "missing"
Partial == "partial"  \* The file is open for writing, and empty.

ASSUME PIDsAssumption == {Missing, Partial} \cap PIDs = {}

VARIABLES
  pidFile,
  daemon,   \* daemon[d]: where Run is, and its PID.
  others,   \* PIDs of other processes.
  port,     \* The daemons whose proxy listens: at most one.
  raced     \* A daemon found none running while another was on its way to write
            \* the file, or had it open.

pidVars == <<pidFile, daemon, others, port, raced>>

Gone == [pc |-> "gone", pid |-> Missing]
Unstarted == [pc |-> "new", pid |-> Missing]

PIDTypeOK ==
  /\ pidFile \in PIDs \union {Missing, Partial}
  /\ daemon \in [Daemons -> [pc : {"new", "check", "checked", "open", "proxy", "tray",
                                   "ending", "gone"},
                             pid : PIDs \union {Missing}]]
  /\ others \subseteq PIDs
  /\ port \subseteq Daemons /\ Cardinality(port) <= 1
  /\ raced \in BOOLEAN

PIDInit ==
  /\ pidFile = Missing
  /\ daemon = [d \in Daemons |-> Unstarted]
  /\ others = {}
  /\ port = {}
  /\ raced = FALSE

-----------------------------------------------------------------------------
Used == others \union {daemon[d].pid : d \in Daemons}
StepTo(d, pc) == daemon' = [daemon EXCEPT ![d].pc = pc]

Launch(d) ==
  /\ daemon[d].pc = "new"
  /\ \E p \in PIDs \ Used : daemon' = [daemon EXCEPT ![d] = [pc |-> "check", pid |-> p]]
  /\ UNCHANGED <<pidFile, others, port, raced>>

(* The file holds the PID of some process. *)
IsRunning == pidFile \in Used \ {Missing}

NotRunning(d) ==
  /\ daemon[d].pc = "check"
  /\ ~IsRunning
  /\ StepTo(d, "checked")
  /\ raced' = (raced \/ \E e \in Daemons : daemon[e].pc \in {"checked", "open"})
  /\ UNCHANGED <<pidFile, others, port>>

(* os.Exit(1): a daemon that refuses to start leaves the file alone. *)
RefuseAndLeave(d) == UNCHANGED pidFile

(* Faulty variant: it removes the file as one that ran does. *)
RefuseAndClean(d) == pidFile' = Missing

Refuse(d) == RefuseAndLeave(d)

AlreadyRunning(d) ==
  /\ daemon[d].pc = "check"
  /\ IsRunning
  /\ daemon' = [daemon EXCEPT ![d] = Gone]
  /\ Refuse(d)
  /\ UNCHANGED <<others, port, raced>>

(* writePID, in two steps; when it fails the daemon ends. *)
OpenPID(d) ==
  /\ daemon[d].pc = "checked"
  /\ StepTo(d, "open")
  /\ pidFile' = Partial
  /\ UNCHANGED <<others, port, raced>>

WritePID(d) ==
  /\ daemon[d].pc = "open"
  /\ StepTo(d, "proxy")
  /\ pidFile' = daemon[d].pid
  /\ UNCHANGED <<others, port, raced>>

WritePIDFails(d) ==
  /\ daemon[d].pc \in {"checked", "open"}
  /\ daemon' = [daemon EXCEPT ![d] = Gone]
  /\ UNCHANGED <<pidFile, others, port, raced>>

(* proxy.New fails, and Run returns; or Start runs beside the tray.  When its
   port is in use that is only logged, and the daemon goes on without. *)
NewProxy(d) ==
  /\ daemon[d].pc = "proxy"
  /\ \/ StepTo(d, "ending") /\ pidFile' = Missing /\ UNCHANGED port
     \/ StepTo(d, "tray") /\ UNCHANGED <<pidFile, port>>
     \/ StepTo(d, "tray") /\ port = {} /\ port' = {d} /\ UNCHANGED pidFile
  /\ UNCHANGED <<others, raced>>

(* The tray ends: the deferred removePID, whatever the file holds. *)
RemovePID(d) ==
  /\ daemon[d].pc = "tray"
  /\ StepTo(d, "ending")
  /\ pidFile' = Missing
  /\ UNCHANGED <<others, port, raced>>

(* The process ends, in order or killed at any point: its port and PID are free. *)
Ends(d) ==
  /\ daemon[d].pc \notin {"new", "gone"}
  /\ daemon' = [daemon EXCEPT ![d] = Gone]
  /\ port' = port \ {d}
  /\ UNCHANGED <<pidFile, others, raced>>

OtherStarts(p) ==
  /\ p \notin Used
  /\ others' = others \union {p}
  /\ UNCHANGED <<pidFile, daemon, port, raced>>

OtherEnds(p) ==
  /\ p \in others
  /\ others' = others \ {p}
  /\ UNCHANGED <<pidFile, daemon, port, raced>>

PIDNext ==
  \/ \E d \in Daemons :
       \/ Launch(d) \/ NotRunning(d) \/ AlreadyRunning(d) \/ OpenPID(d) \/ WritePID(d)
       \/ WritePIDFails(d) \/ NewProxy(d) \/ RemovePID(d) \/ Ends(d)
  \/ \E p \in PIDs : OtherStarts(p) \/ OtherEnds(p)

PIDSpec == PIDInit /\ [][PIDNext]_pidVars

-----------------------------------------------------------------------------
(* Properties *)

(* Unless two daemons looked for each other at once (main.go:274, which no lock
   prevents), one that has started is the only one, and the file names it, so
   that "rampart --status" and the next daemon find it, whatever was killed
   before, and whoever got its PID. *)
FileNamesDaemon ==
  ~raced => \A d \in Daemons : daemon[d].pc \in {"proxy", "tray"} =>
    /\ pidFile = daemon[d].pid
    /\ \A e \in Daemons \ {d} : daemon[e].pc \notin {"checked", "open", "proxy", "tray"}
=============================================================================
