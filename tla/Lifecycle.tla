----------------------------- MODULE Lifecycle -----------------------------
(***************************************************************************)
(* The life of the rampart process: Proxy.Start and Proxy.Shutdown of      *)
(* pkg/proxy/proxy.go, with the goroutines of cmd/rampart that call them,  *)
(* in the foreground (main.go) and as a daemon (daemon.go), while requests *)
(* are served, audited and counted by the metrics collector.               *)
(*                                                                         *)
(* Two goroutines shut the server down: the one that handles the signal,   *)
(* in the foreground only, and the one that Start leaves behind.           *)
(* http.Server is modelled by what Start and Shutdown rely on.             *)
(***************************************************************************)
EXTENDS MetricsCollector

CONSTANT Styles   \* How the process may run: "foreground", "daemon".

(* Each request records at most one metric, named like it. *)
Requests == Metrics

Drainers == {"signal", "start"}

ASSUME StylesAssumption == Styles # {} /\ Styles \subseteq {"foreground", "daemon"}

VARIABLES
  style,      \* How this process runs.
  signalled,  \* SIGINT or SIGTERM has arrived.
  ctxDone,    \* The context of main is cancelled.
  pc,         \* pc[d]: what each of the two goroutines does next.
  server,     \* Where Start is.
  inShutdown, \* Server.Shutdown has been called: the listener is closed.
  timedOut,   \* Some Shutdown took longer than shutdownTimeout.
  exited,     \* main has returned, and with it the process is gone.
  req,        \* req[r]: what the handler of request r does next.
  hijacked,   \* Requests whose connection the server no longer knows.
  auditClosed,\* p.auditLog is closed.
  lost,       \* Requests whose audit entry was refused.
  abandoned   \* Requests known to the server when the process ended.

stopVars == <<signalled, ctxDone, pc, server, inShutdown, timedOut, exited>>
workVars == <<req, hijacked, auditClosed, lost, abandoned>>
vars == <<style, stopVars, workVars, collectorVars>>

TypeOK ==
  /\ CollectorTypeOK
  /\ style \in Styles
  /\ signalled \in BOOLEAN /\ ctxDone \in BOOLEAN /\ inShutdown \in BOOLEAN
  /\ timedOut \in BOOLEAN /\ exited \in BOOLEAN /\ auditClosed \in BOOLEAN
  /\ pc \in [Drainers -> {"none", "wait", "audit", "flush1", "cancel1", "flush2",
                          "cancel2", "stop", "drain", "done"}]
  /\ server \in {"none", "made", "listening", "serving", "returned", "failed",
                 "gone"}
  /\ req \in [Requests -> {"idle", "busy", "audit", "metric", "answer", "done"}]
  /\ hijacked \subseteq Requests /\ lost \subseteq Requests /\ abandoned \subseteq Requests

Init ==
  /\ CollectorInit
  /\ style \in Styles
  /\ signalled = FALSE
  /\ ctxDone = FALSE
  /\ pc = [signal |-> "wait", start |-> "none"]
  /\ server = "none"
  /\ inShutdown = FALSE
  /\ timedOut = FALSE
  /\ exited = FALSE
  /\ req = [r \in Requests |-> "idle"]
  /\ hijacked = {}
  /\ auditClosed = FALSE
  /\ lost = {}
  /\ abandoned = {}

Goto(d, label) == pc' = [pc EXCEPT ![d] = label]
Step(r, label) == req' = [req EXCEPT ![r] = label]

-----------------------------------------------------------------------------
(* Start *)

(* p.server is set, before there is a listener. *)
MakeServer ==
  /\ server = "none"
  /\ server' = "made"
  /\ UNCHANGED <<style, signalled, ctxDone, pc, inShutdown, timedOut, exited,
                 workVars, collectorVars>>

(* Faulty variant: Start leaves the shutdown to its callers. *)
ListenOnly ==
  /\ server = "made"
  /\ server' \in {"listening", "failed"}
  /\ UNCHANGED <<style, signalled, ctxDone, pc, inShutdown, timedOut, exited,
                 workVars, collectorVars>>

(* net.Listen, which fails when the port is in use, then the goroutine that
   waits for the context. *)
Listen ==
  /\ server = "made"
  /\ \/ server' = "listening" /\ Goto("start", "wait")
     \/ server' = "failed" /\ UNCHANGED pc
  /\ UNCHANGED <<style, signalled, ctxDone, inShutdown, timedOut, exited,
                 workVars, collectorVars>>

(* Serve gives up at once if the server is shut down already. *)
Serve ==
  /\ server = "listening"
  /\ server' = IF inShutdown THEN "returned" ELSE "serving"
  /\ UNCHANGED <<style, signalled, ctxDone, pc, inShutdown, timedOut, exited,
                 workVars, collectorVars>>

(* It returns as soon as Shutdown has closed the listener. *)
ServeReturns ==
  /\ server = "serving"
  /\ inShutdown
  /\ server' = "returned"
  /\ UNCHANGED <<style, signalled, ctxDone, pc, inShutdown, timedOut, exited,
                 workVars, collectorVars>>

(* The goroutine of Start: <-ctx.Done(). *)
AwaitContext ==
  /\ pc["start"] = "wait"
  /\ ctxDone
  /\ Goto("start", "stop")
  /\ UNCHANGED <<style, signalled, ctxDone, server, inShutdown, timedOut, exited,
                 workVars, collectorVars>>

-----------------------------------------------------------------------------
(* The signal, and Shutdown *)

Signal ==
  /\ ~exited
  /\ ~signalled
  /\ signalled' = TRUE
  /\ UNCHANGED <<style, ctxDone, pc, server, inShutdown, timedOut, exited,
                 workVars, collectorVars>>

(* Faulty variant: the daemon's handler calls Shutdown as well. *)
CancelAndShutdown ==
  /\ pc["signal"] = "wait"
  /\ signalled
  /\ ctxDone' = TRUE
  /\ Goto("signal", "audit")
  /\ UNCHANGED <<style, signalled, server, inShutdown, timedOut, exited,
                 workVars, collectorVars>>

(* cancel(); p.Shutdown() follows in the foreground only. *)
Cancel ==
  /\ pc["signal"] = "wait"
  /\ signalled
  /\ ctxDone' = TRUE
  /\ Goto("signal", IF style = "foreground" THEN "audit" ELSE "done")
  /\ UNCHANGED <<style, signalled, server, inShutdown, timedOut, exited,
                 workVars, collectorVars>>

CloseAudit ==
  /\ pc["signal"] = "audit"
  /\ auditClosed' = TRUE
  /\ Goto("signal", "flush1")
  /\ UNCHANGED <<style, signalled, ctxDone, server, inShutdown, timedOut, exited,
                 req, hijacked, lost, abandoned, collectorVars>>

(* metricsCollector.Flush(), then its Close(), which flushes again. *)
FlushMetrics ==
  /\ \/ pc["signal"] = "flush1" /\ Goto("signal", "cancel1") /\ FlushSend
     \/ pc["signal"] = "cancel1" /\ Goto("signal", "flush2") /\ FlushCancel
     \/ pc["signal"] = "flush2" /\ Goto("signal", "cancel2") /\ FlushSend
     \/ pc["signal"] = "cancel2" /\ Goto("signal", "stop") /\ FlushCancel
  /\ UNCHANGED <<style, signalled, ctxDone, server, inShutdown, timedOut, exited,
                 workVars>>

(* server.Shutdown.  Proxy.Shutdown skips it if p.server is nil; it reads
   p.server unsynchronised with Start, and may find nil later than that. *)
StopServer(d) ==
  /\ pc[d] = "stop"
  /\ \/ server # "none" /\ Goto(d, "drain") /\ inShutdown' = TRUE
     \/ d = "signal" /\ Goto(d, "done") /\ UNCHANGED inShutdown
  /\ UNCHANGED <<style, signalled, ctxDone, server, timedOut, exited, workVars,
                 collectorVars>>

(* The requests whose connections the server waits for. *)
InFlight(r) == req[r] \notin {"idle", "done"} /\ r \notin hijacked

Drained == \A r \in Requests : ~InFlight(r)

(* It waits for the connections the server knows, or for its context. *)
EndShutdown(d) ==
  /\ pc[d] = "drain"
  /\ Drained
  /\ Goto(d, "done")
  /\ UNCHANGED <<style, signalled, ctxDone, server, inShutdown, timedOut, exited,
                 workVars, collectorVars>>

ForceShutdown(d) ==
  /\ pc[d] = "drain"
  /\ ~Drained
  /\ timedOut' = TRUE
  /\ Goto(d, "done")
  /\ UNCHANGED <<style, signalled, ctxDone, server, inShutdown, exited, workVars,
                 collectorVars>>

(* main returns, and nothing of the process goes on. *)
End ==
  /\ exited' = TRUE
  /\ abandoned' = {r \in Requests : InFlight(r)}
  /\ pc' = [d \in Drainers |-> "done"]
  /\ server' = "gone"
  /\ req' = [r \in Requests |-> "done"]
  /\ hijacked' = {}
  /\ UNCHANGED <<style, signalled, ctxDone, inShutdown, timedOut, auditClosed, lost,
                 collectorVars>>

(* runForeground returns when Start does. *)
ExitForeground ==
  /\ style = "foreground"
  /\ server \in {"returned", "failed"}
  /\ End

(* The tray's loop ends on the context, and Daemon.Run with it. *)
ExitDaemon ==
  /\ style = "daemon"
  /\ ~exited
  /\ ctxDone
  /\ End

(* Quit in the tray's menu cancels the context, too. *)
Quit ==
  /\ style = "daemon"
  /\ ~exited
  /\ ctxDone' = TRUE
  /\ UNCHANGED <<style, signalled, pc, server, inShutdown, timedOut, exited,
                 workVars, collectorVars>>

-----------------------------------------------------------------------------
(* Requests *)

Accept(r) ==
  /\ server = "serving"
  /\ ~inShutdown
  /\ req[r] = "idle"
  /\ Step(r, "busy")
  /\ UNCHANGED <<style, stopVars, hijacked, auditClosed, lost, abandoned,
                 collectorVars>>

(* Faulty variant: the handler is left where nothing continues it. *)
HijackTunnels(r) ==
  /\ req[r] = "busy"
  /\ r \notin hijacked
  /\ hijacked' = hijacked \union {r}
  /\ Step(r, "tunnel")
  /\ UNCHANGED <<style, stopVars, auditClosed, lost, abandoned, collectorVars>>

(* CONNECT: interceptHTTPS takes the connection from the server. *)
Hijack(r) ==
  /\ req[r] = "busy"
  /\ r \notin hijacked
  /\ hijacked' = hijacked \union {r}
  /\ UNCHANGED <<style, stopVars, req, auditClosed, lost, abandoned,
                 collectorVars>>

(* The scan detects something, or nothing. *)
Scan(r) ==
  /\ req[r] = "busy"
  /\ Step(r, "audit") \/ Step(r, "answer")
  /\ UNCHANGED <<style, stopVars, hijacked, auditClosed, lost, abandoned,
                 collectorVars>>

(* auditLogEntry: the entry, then the metric. *)
LogEntry(r) ==
  /\ req[r] = "audit"
  /\ Step(r, "metric")
  /\ lost' = IF auditClosed THEN lost \union {r} ELSE lost
  /\ UNCHANGED <<style, stopVars, hijacked, auditClosed, abandoned, collectorVars>>

CountMetric(r) ==
  /\ req[r] = "metric"
  /\ Step(r, "answer")
  /\ Record(r)
  /\ UNCHANGED <<style, stopVars, hijacked, auditClosed, lost, abandoned>>

Answer(r) ==
  /\ req[r] = "answer"
  /\ Step(r, "done")
  /\ hijacked' = hijacked \ {r}
  /\ UNCHANGED <<style, stopVars, auditClosed, lost, abandoned, collectorVars>>

Collect == ~exited /\ Background /\ UNCHANGED <<style, stopVars, workVars>>

StartUp  == MakeServer \/ Listen \/ Serve \/ ServeReturns
ShutDown == \/ Cancel \/ CloseAudit \/ FlushMetrics \/ AwaitContext
            \/ \E d \in Drainers : StopServer(d) \/ EndShutdown(d) \/ ForceShutdown(d)
Exit     == ExitForeground \/ ExitDaemon
Handle(r) == \/ Accept(r) \/ Hijack(r) \/ Scan(r) \/ LogEntry(r) \/ CountMetric(r)
             \/ Answer(r)

Next ==
  \/ StartUp \/ ShutDown \/ Exit \/ Signal \/ Quit \/ Collect
  \/ \E r \in Requests : Handle(r)

Spec == Init /\ [][Next]_vars

(* Start, the two goroutines and main are scheduled, and time passes; no
   request need ever come or end. *)
Fairness ==
  /\ WF_vars(StartUp)
  /\ WF_vars(Cancel) /\ WF_vars(CloseAudit) /\ WF_vars(FlushMetrics)
  /\ WF_vars(AwaitContext)
  /\ \A d \in Drainers : WF_vars(StopServer(d))
  /\ WF_vars(Exit)
  /\ WF_vars(Collect /\ Expire) /\ WF_vars(Collect /\ SendOnTimer)

FairSpec == Spec /\ Fairness

-----------------------------------------------------------------------------
(* Properties *)

(* A signal ends the process, at whatever point of Start it comes: also
   before there is a server for Shutdown to stop. *)
SignalEndsProcess == signalled ~> exited

(* As long as nobody has asked the foreground process to stop, no detection
   misses the audit log; a daemon keeps it open to the end. *)
EntriesLostOnlyInShutdown == lost # {} => signalled /\ style = "foreground"

(* A metric queued while the timer runs, or before its callback got the
   lock, is sent, unless the process ends first. *)
ArmedTimerSends ==
  \A m \in Metrics : m \in queue /\ (armed \/ due) ~> m \notin queue \/ exited

(* The timer stops for good only when it expires on an empty queue. *)
TimerDiesIdle ==
  [][(armed \/ due) /\ ~(armed' \/ due') => queue = {}]_vars

(* "Graceful shutdown: drain in-flight connections, then close"
   (proxy.go:357): unless shutdownTimeout passes, the process outlives the
   requests that the server is still handling. *)
DrainsInFlight == abandoned # {} => timedOut
=============================================================================
