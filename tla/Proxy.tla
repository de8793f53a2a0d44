-------------------------------- MODULE Proxy --------------------------------
(***************************************************************************)
(* The interception pipeline of pkg/proxy/proxy.go: what handleRequest     *)
(* does, from the arrival of a request to the answer, for many exchanges   *)
(* at once and with ReloadConfig running between any two of their steps.   *)
(*                                                                         *)
(* p.mu covers the statistics, the target map and the swap of p.cfg, but   *)
(* shouldBlock reads p.cfg without it, twice: once for Mode, once for      *)
(* Block.  The two reads are steps of their own here.                      *)
(*                                                                         *)
(* Not here: CategoryCounts, LastDetectionTime and latency figures,        *)
(* notifications, the metrics collector and the platform forwarder (fed    *)
(* from the same handlers, never read back by them), and shutdown.         *)
(***************************************************************************)
EXTENDS BlockPolicy, FiniteSets

CONSTANTS
  Conns,        \* Exchanges: runs of handleRequest, each on its goroutine.
  InternalHosts,\* Hosts isBlockedAddress refuses to tunnel to.
  GuardBlocked, \* Payloads whose Summary.Blocked the detector sets.
  MaxReloads    \* Bound: how often ReloadConfig runs.

ASSUME ConnsAssumption == IsFiniteSet(Conns)
ASSUME InternalAssumption == InternalHosts \subseteq Hosts
ASSUME GuardAssumption == GuardBlocked \subseteq Payloads
ASSUME ReloadsAssumption == MaxReloads \in Nat

VARIABLES
  cfg,      \* p.cfg and p.targets, which ReloadConfig swaps under p.mu.
  reloads,  \* How often that happened.
  pc,       \* pc[c]: what the handler of exchange c does next.
  kind,     \* kind[c]: CONNECT, plain HTTP, POST /detect, or another API path.
  host,     \* host[c]: the host asked for.
  target,   \* target[c]: the local isTarget of the handler.
  dir,      \* dir[c]: the direction whose payload c handles.
  payload,  \* payload[c]: bodyBytes, later respBody.
  outcome,  \* outcome[c]: what the client got in the end.
  stats,    \* p.stats, the counters.
  audit,    \* The entries that the audit log has accepted.
  unlogged, \* <<c, d>>: detections whose audit entry could not be written.
  window    \* History: the configurations in force since c took up payload[c].

connVars == <<kind, host, target, dir, payload>>
vars == <<cfg, reloads, pc, kind, host, target, dir, payload, outcome, stats,
          audit, unlogged, window>>

Kinds    == {"connect", "http", "detect", "probe"}
Dirs     == {"request", "response"}
Outcomes == {"none", "tunnel", "response", "blocked", "error"}
Labels   == {"idle", "route", "cert", "hijack", "tunnel", "body", "scan",
             "audit", "mode", "threshold", "block", "forward", "await",
             "api", "reply", "done"}
AuditEntry == [conn : Conns, dir : Dirs, blocked : BOOLEAN]
Stats == [total : Nat, intercepted : Nat, passed : Nat, detections : Nat,
          blocked : Nat]

TypeOK ==
  /\ cfg \in Configs
  /\ reloads \in 0..MaxReloads
  /\ pc \in [Conns -> Labels]
  /\ kind \in [Conns -> Kinds]
  /\ host \in [Conns -> Hosts]
  /\ target \in [Conns -> BOOLEAN]
  /\ dir \in [Conns -> Dirs]
  /\ payload \in [Conns -> Payloads]
  /\ outcome \in [Conns -> Outcomes]
  /\ stats \in Stats
  /\ audit \subseteq AuditEntry
  /\ unlogged \subseteq Conns \X Dirs
  /\ window \in [Conns -> SUBSET Configs]

Goto(c, label) == pc' = [pc EXCEPT ![c] = label]
Count(field) == stats' = [stats EXCEPT ![field] = @ + 1]
Active(c) == pc[c] \notin {"idle", "done"}

(* Faulty variant: an outcome nothing else knows of. *)
FinishSilently(c, how) ==
  /\ Goto(c, "done")
  /\ outcome' = [outcome EXCEPT ![c] = IF how = "error" THEN "closed" ELSE how]

(* The handler returns, and the client has what it got. *)
Finish(c, how) ==
  /\ Goto(c, "done")
  /\ outcome' = [outcome EXCEPT ![c] = how]

Init ==
  /\ cfg \in Configs
  /\ reloads = 0
  /\ pc = [c \in Conns |-> "idle"]
  /\ kind = [c \in Conns |-> "probe"]
  /\ host = [c \in Conns |-> CHOOSE h \in Hosts : TRUE]   \* None yet.
  /\ target = [c \in Conns |-> FALSE]
  /\ dir = [c \in Conns |-> "request"]
  /\ payload = [c \in Conns |-> NoPayload]
  /\ outcome = [c \in Conns |-> "none"]
  /\ stats = [total |-> 0, intercepted |-> 0, passed |-> 0, detections |-> 0,
              blocked |-> 0]
  /\ audit = {}
  /\ unlogged = {}
  /\ window = [c \in Conns |-> {}]

-----------------------------------------------------------------------------
(* Arrival and routing: handleRequest, handleCONNECT, isTargetDomain. *)

(* handleRequest counts the request and picks the handler by method and path;
   an API path is for no other host. *)
Arrive(c, k, h) ==
  /\ pc[c] = "idle"
  /\ k \in {"detect", "probe"} => h = host[c]
  /\ kind' = [kind EXCEPT ![c] = k]
  /\ host' = [host EXCEPT ![c] = h]
  /\ window' = [window EXCEPT ![c] = {cfg}]
  /\ Goto(c, CASE k \in {"connect", "http"} -> "route"
               [] k = "detect" -> "api"
               [] k = "probe" -> "reply")
  /\ Count("total")
  /\ UNCHANGED <<cfg, reloads, target, dir, payload, outcome, audit, unlogged>>

(* handleCONNECT: a target is intercepted, any other host is tunnelled. *)
RouteConnect(c) ==
  /\ pc[c] = "route"
  /\ kind[c] = "connect"
  /\ target' = [target EXCEPT ![c] = IsTarget(cfg, host[c])]
  /\ IF target'[c] THEN Goto(c, "cert") /\ Count("intercepted")
                   ELSE Goto(c, "tunnel") /\ Count("passed")
  /\ UNCHANGED <<cfg, reloads, kind, host, dir, payload, outcome, audit,
                 unlogged, window>>

(* handleHTTP decides before it reads the body. *)
RouteHTTP(c) ==
  /\ pc[c] = "route"
  /\ kind[c] = "http"
  /\ target' = [target EXCEPT ![c] = IsTarget(cfg, host[c])]
  /\ Goto(c, "body")
  /\ UNCHANGED <<cfg, reloads, kind, host, dir, payload, outcome, stats, audit,
                 unlogged, window>>

(* tunnel: the address check, the dial and the hijack, any of which may fail. *)
TunnelFails(c) ==
  /\ pc[c] = "tunnel"
  /\ Finish(c, "error")
  /\ UNCHANGED <<cfg, reloads, connVars, stats, audit, unlogged, window>>

TunnelOpens(c) ==
  /\ pc[c] = "tunnel"
  /\ host[c] \notin InternalHosts
  /\ Finish(c, "tunnel")
  /\ UNCHANGED <<cfg, reloads, connVars, stats, audit, unlogged, window>>

-----------------------------------------------------------------------------
(* interceptHTTPS up to the decrypted request, and handleHTTP's body. *)

CertOK(c) ==
  /\ pc[c] = "cert"
  /\ Goto(c, "hijack")
  /\ UNCHANGED <<cfg, reloads, connVars, outcome, stats, audit, unlogged, window>>

(* Faulty variant: fall back to a tunnel when there is no certificate. *)
CertFailsOpen(c) ==
  /\ pc[c] = "cert"
  /\ Goto(c, "tunnel")
  /\ UNCHANGED <<cfg, reloads, connVars, outcome, stats, audit, unlogged, window>>

(* No certificate: 503, and never a tunnel. *)
CertFails(c) ==
  /\ pc[c] = "cert"
  /\ Finish(c, "error")
  /\ UNCHANGED <<cfg, reloads, connVars, stats, audit, unlogged, window>>

HijackOK(c) ==
  /\ pc[c] = "hijack"
  /\ Goto(c, "body")
  /\ UNCHANGED <<cfg, reloads, connVars, outcome, stats, audit, unlogged, window>>

(* The writer is no Hijacker: interceptHTTPS calls tunnel, which needs one
   too and answers 500; or Hijack itself fails and the handler gives up. *)
HijackFails(c) ==
  /\ pc[c] = "hijack"
  /\ Finish(c, "error")
  /\ UNCHANGED <<cfg, reloads, connVars, stats, audit, unlogged, window>>

(* The handshake fails, or the client sends no request. *)
ClientGivesUp(c) ==
  /\ pc[c] = "body"
  /\ kind[c] = "connect"
  /\ Finish(c, "error")
  /\ UNCHANGED <<cfg, reloads, connVars, stats, audit, unlogged, window>>

(* The request's body is read; only a non-empty body of a target is scanned,
   and only here does handleHTTP count the interception. *)
ReadBody(c, p) ==
  /\ pc[c] = "body"
  /\ payload' = [payload EXCEPT ![c] = p]
  /\ IF target[c] /\ p # NoPayload
     THEN /\ Goto(c, "scan")
          /\ IF kind[c] = "http" THEN Count("intercepted") ELSE UNCHANGED stats
     ELSE Goto(c, "forward") /\ UNCHANGED stats
  /\ UNCHANGED <<cfg, reloads, kind, host, target, dir, outcome, audit,
                 unlogged, window>>

-----------------------------------------------------------------------------
(* scanAndAlert and shouldBlock, the same for both directions. *)

(* Where the handler goes on when the payload is let through. *)
Pass(c) == IF kind[c] # "detect" /\ dir[c] = "request" THEN "forward" ELSE "reply"

(* Faulty variants: /stats misses what the responses contain; only what is
   not blocked reaches the audit log. *)
ScanCountsRequests(c) ==
  /\ pc[c] = "scan"
  /\ IF Findings[payload[c]] = {} THEN Goto(c, Pass(c)) /\ UNCHANGED stats
     ELSE /\ Goto(c, "audit")
          /\ IF dir[c] = "request" THEN Count("detections") ELSE UNCHANGED stats
  /\ UNCHANGED <<cfg, reloads, connVars, outcome, audit, unlogged, window>>

ScanAuditsMonitorOnly(c) ==
  /\ pc[c] = "scan"
  /\ IF Findings[payload[c]] = {} THEN Goto(c, Pass(c)) /\ UNCHANGED stats
     ELSE /\ Goto(c, IF cfg.mode = "block" THEN "mode" ELSE "audit")
          /\ Count("detections")
  /\ UNCHANGED <<cfg, reloads, connVars, outcome, audit, unlogged, window>>

(* Detect has an error result, but ResponseGuard.Scan, the only source of one,
   never fails. *)
Scan(c) ==
  /\ pc[c] = "scan"
  /\ IF Findings[payload[c]] = {} THEN Goto(c, Pass(c)) /\ UNCHANGED stats
                                  ELSE Goto(c, "audit") /\ Count("detections")
  /\ UNCHANGED <<cfg, reloads, connVars, outcome, audit, unlogged, window>>

(* auditLogEntry, before the decision: best effort, a failure is only logged. *)
Audit(c) ==
  /\ pc[c] = "audit"
  /\ \/ /\ audit' = audit \union {[conn |-> c, dir |-> dir[c],
                                   blocked |-> payload[c] \in GuardBlocked]}
        /\ UNCHANGED unlogged
     \/ /\ unlogged' = unlogged \union {<<c, dir[c]>>}
        /\ UNCHANGED audit
  /\ Goto(c, "mode")
  /\ UNCHANGED <<cfg, reloads, connVars, outcome, stats, window>>

(* Faulty variant: the mode is not looked at. *)
ReadNoMode(c) ==
  /\ pc[c] = "mode"
  /\ Goto(c, "threshold")
  /\ UNCHANGED <<cfg, reloads, connVars, outcome, stats, audit, unlogged, window>>

(* shouldBlock, first read of p.cfg: monitor mode never blocks. *)
ReadMode(c) ==
  /\ pc[c] = "mode"
  /\ Goto(c, IF cfg.mode = "block" THEN "threshold" ELSE Pass(c))
  /\ UNCHANGED <<cfg, reloads, connVars, outcome, stats, audit, unlogged, window>>

(* Faulty variant: nothing follows when no result matches. *)
ReadBlockOnlyMatching(c) ==
  /\ pc[c] = "threshold"
  /\ Matches(cfg.block, payload[c])
  /\ Goto(c, "block")
  /\ UNCHANGED <<cfg, reloads, connVars, outcome, stats, audit, unlogged, window>>

(* Second read: the Block section of what may be another configuration. *)
ReadBlock(c) ==
  /\ pc[c] = "threshold"
  /\ Goto(c, IF Matches(cfg.block, payload[c]) THEN "block" ELSE Pass(c))
  /\ UNCHANGED <<cfg, reloads, connVars, outcome, stats, audit, unlogged, window>>

Block(c) ==
  /\ pc[c] = "block"
  /\ Count("blocked")
  /\ Finish(c, "blocked")
  /\ UNCHANGED <<cfg, reloads, connVars, audit, unlogged, window>>

-----------------------------------------------------------------------------
(* RoundTrip, and the answer to the client. *)

Forward(c) ==
  /\ pc[c] = "forward"
  /\ Goto(c, "await")
  /\ UNCHANGED <<cfg, reloads, connVars, outcome, stats, audit, unlogged, window>>

(* No connection, or no answer: 502, or the TLS connection is closed. *)
ForwardFails(c) ==
  /\ pc[c] \in {"forward", "await"}
  /\ Finish(c, "error")
  /\ UNCHANGED <<cfg, reloads, connVars, stats, audit, unlogged, window>>

(* Faulty variant: responses of hosts that are no target are scanned too. *)
ReadAnyAnswer(c, p) ==
  /\ pc[c] = "await"
  /\ payload' = [payload EXCEPT ![c] = p]
  /\ dir' = [dir EXCEPT ![c] = "response"]
  /\ window' = [window EXCEPT ![c] = {cfg}]
  /\ Goto(c, IF p # NoPayload THEN "scan" ELSE "reply")
  /\ UNCHANGED <<cfg, reloads, kind, host, target, outcome, stats, audit, unlogged>>

(* Upstream's answer is read; a new payload starts a new window. *)
ReadAnswer(c, p) ==
  /\ pc[c] = "await"
  /\ payload' = [payload EXCEPT ![c] = p]
  /\ dir' = [dir EXCEPT ![c] = "response"]
  /\ window' = [window EXCEPT ![c] = {cfg}]
  /\ Goto(c, IF target[c] /\ p # NoPayload THEN "scan" ELSE "reply")
  /\ UNCHANGED <<cfg, reloads, kind, host, target, outcome, stats, audit, unlogged>>

Reply(c) ==
  /\ pc[c] = "reply"
  /\ Finish(c, "response")
  /\ UNCHANGED <<cfg, reloads, connVars, stats, audit, unlogged, window>>

-----------------------------------------------------------------------------
(* HandleDetectAPI: counted like a scan, not audited, blocked the same way. *)

(* 429 over the rate limit, here and in HandleStatsAPI; 400 for a bad body,
   500 when the detector fails. *)
ApiRefused(c) ==
  /\ pc[c] = "api" \/ (pc[c] = "reply" /\ kind[c] = "probe")
  /\ Finish(c, "error")
  /\ UNCHANGED <<cfg, reloads, connVars, stats, audit, unlogged, window>>

Detect(c, p) ==
  /\ pc[c] = "api"
  /\ payload' = [payload EXCEPT ![c] = p]
  /\ IF Findings[p] = {} THEN Goto(c, "reply") /\ UNCHANGED stats
                         ELSE Goto(c, "mode") /\ Count("detections")
  /\ UNCHANGED <<cfg, reloads, kind, host, target, dir, outcome, audit,
                 unlogged, window>>

(* ReloadConfig: every exchange in flight now sees the new configuration. *)
ReloadConfig ==
  /\ reloads < MaxReloads
  /\ reloads' = reloads + 1
  /\ cfg' \in Configs
  /\ window' = [c \in Conns |-> IF Active(c) THEN window[c] \union {cfg'}
                                             ELSE window[c]]
  /\ UNCHANGED <<pc, connVars, outcome, stats, audit, unlogged>>

(* The steps between taking something in and writing something out: nobody
   outside holds them up.  The short answer of CertFails is buffered by
   net/http and leaves after the handler has returned. *)
Decide(c) ==
  \/ RouteConnect(c) \/ RouteHTTP(c) \/ CertOK(c) \/ CertFails(c)
  \/ Scan(c) \/ Audit(c) \/ ReadMode(c) \/ ReadBlock(c)

(* What the proxy does by itself, and what a client or upstream does. *)
Serve(c) ==
  \/ Decide(c) \/ HijackOK(c) \/ HijackFails(c)
  \/ Block(c) \/ Forward(c) \/ Reply(c)

Peer(c) ==
  \/ \E k \in Kinds, h \in Hosts : Arrive(c, k, h)
  \/ TunnelFails(c) \/ TunnelOpens(c) \/ ClientGivesUp(c) \/ ForwardFails(c)
  \/ ApiRefused(c)
  \/ \E p \in Payloads : ReadBody(c, p) \/ ReadAnswer(c, p) \/ Detect(c, p)

Next == ReloadConfig \/ \E c \in Conns : Serve(c) \/ Peer(c)

Spec == Init /\ [][Next]_vars

(* Goroutines are scheduled fairly.  Clients and upstream owe nothing, not
   even to read what is written to them: the server has no write deadline and
   a hijacked connection has none at all, so Hijack, Block, Forward and Reply,
   which write to a peer, are not fair. *)
FairSpec == Spec /\ \A c \in Conns : WF_vars(Decide(c))

-----------------------------------------------------------------------------
(* Properties *)

MayPass(c)   == \E k \in window[c] : ~Blocks(k, payload[c])
MayBlock(c)  == /\ \E k \in window[c] : k.mode = "block"
                /\ \E k \in window[c] : Matches(k.block, payload[c])
MayIgnore(c) == \E k \in window[c] : ~IsTarget(k, host[c])

Guarded(c) == target[c] \/ kind[c] = "detect"

(* Nothing leaves that every policy of its time forbids: when a request has
   gone upstream, when an answer has reached the client, and when a CONNECT
   became a tunnel, some configuration in force while the proxy handled that
   payload lets it pass (interceptHTTPS, handleHTTP, HandleDetectAPI). *)
NoForbiddenRelease ==
  \A c \in Conns :
    /\ pc[c] = "await" => IF target[c] THEN MayPass(c) ELSE MayIgnore(c)
    /\ outcome[c] = "response" /\ Guarded(c) => MayPass(c)
    /\ outcome[c] = "tunnel" => MayIgnore(c)

(* "Monitor mode: never block", and never block what no policy names: a
   blocked payload was one for a target or for /detect, block mode was on at
   some point while it was handled, and so was a Block section it matches. *)
BlockOnlyOnPolicy ==
  \A c \in Conns : outcome[c] = "blocked" => Guarded(c) /\ MayBlock(c)

(* Nothing detected takes effect unrecorded: before a target's payload with
   findings goes on (upstream or to the client) or is refused, scanAndAlert
   has tried to write its audit entry. *)
AuditedBeforeEffect ==
  \A c \in Conns :
    /\ target[c]
    /\ Findings[payload[c]] # {}
    /\ pc[c] = "await" \/ outcome[c] \in {"response", "blocked"}
    => \/ \E e \in audit : e.conn = c /\ e.dir = dir[c]
       \/ <<c, dir[c]>> \in unlogged

(* The counters of /stats add up, whatever is in flight: each detection is
   one audit entry (written, lost or about to be written) or one /detect
   call with findings, and every block, request and routed CONNECT counts once. *)
StatsAgree ==
  LET Such(P(_)) == Cardinality({c \in Conns : P(c)})
      Writing(c) == pc[c] = "audit"
      ApiHit(c)  == kind[c] = "detect" /\ Findings[payload[c]] # {}
      Came(c)    == pc[c] # "idle"
      Blocked(c) == outcome[c] = "blocked"
      Passed(c)  == kind[c] = "connect" /\ pc[c] # "route" /\ ~target[c]
  IN /\ stats.detections = Cardinality(audit) + Cardinality(unlogged)
                             + Such(Writing) + Such(ApiHit)
     /\ stats.total = Such(Came)
     /\ stats.blocked = Such(Blocked)
     /\ stats.passed = Such(Passed)
     /\ stats.intercepted + stats.passed <= stats.total

(* The proxy never sits on what it has taken in: with its goroutines
   scheduled, a routed request comes to where it waits for a peer or ends, and
   every payload taken in for scanning gets a verdict (it is about to be
   forwarded, refused or answered), whatever the other exchanges and the
   reloads do and however long their peers keep them. *)
NeverStalls ==
  \A c \in Conns :
    /\ pc[c] = "route" ~> pc[c] \in {"tunnel", "hijack", "body", "done"}
    /\ pc[c] \in {"scan", "mode"} ~> pc[c] \in {"forward", "block", "reply"}

(* The pipeline implements the abstract firewall: all of its places but two
   are stages of handling the payload of the current direction. *)
PhaseOf(c) ==
  CASE pc[c] \in {"idle", "done"} -> pc[c]
    [] pc[c] = "await" -> "upstream"
    [] OTHER -> dir[c]

F == INSTANCE Firewall WITH
  policy  <- cfg,
  phase   <- [c \in Conns |-> PhaseOf(c)],
  guarded <- [c \in Conns |-> Guarded(c)]

ImplementsFirewall == F!FSpec

(* What README.md:242 says of block_response: a direction it leaves out is
   not blocked.  The code never reads the setting. *)
BlockResponseHonoured ==
  \A c \in Conns :
    outcome[c] = "blocked" /\ kind[c] # "detect" =>
      \E k \in window[c] : k.block.blockResponse \in {"both", dir[c]}

(* What `rampart audit --blocked` ("Only show blocked requests") and the
   Blocked/Allowed totals of `audit stats` rely on: the entry of a blocked
   exchange says so. *)
AuditTellsBlocked ==
  \A c \in Conns : \A e \in audit :
    e.conn = c /\ e.dir = dir[c] /\ outcome[c] = "blocked" => e.blocked
=============================================================================
