----------------------------- MODULE ProxyProofs -----------------------------
(***************************************************************************)
(* Proofs about module Proxy, for any number of exchanges, any payloads,   *)
(* findings and configurations, and any number of reloads.                 *)
(***************************************************************************)
EXTENDS Proxy, FiniteSetTheorems, TLAPS

-----------------------------------------------------------------------------
(* Type correctness: every step of every handler, and ReloadConfig, keeps
   the proxy's state in its types. *)
THEOREM TypeCorrect == Spec => []TypeOK
<1> USE PayloadAssumption, TargetAssumption, ConfigAssumption, ReloadsAssumption
<1>1. Init => TypeOK
  BY DEF Init, TypeOK, Labels, Kinds, Dirs, Outcomes, Stats
<1>2. TypeOK /\ [Next]_vars => TypeOK'
  <2> SUFFICES ASSUME TypeOK, [Next]_vars PROVE TypeOK'
    OBVIOUS
  <2> USE DEF TypeOK, Goto, Finish, connVars, Labels, Kinds, Dirs, Outcomes
  <2>1. CASE ReloadConfig
    BY <2>1 DEF ReloadConfig
  <2>2. ASSUME NEW c \in Conns, Serve(c) PROVE TypeOK'
    <3>1. CASE RouteConnect(c)
      BY <3>1 DEF RouteConnect, IsTarget, Count, Stats
    <3>2. CASE RouteHTTP(c)
      BY <3>2 DEF RouteHTTP, IsTarget
    <3>3. CASE CertOK(c) \/ CertFails(c) \/ HijackOK(c) \/ HijackFails(c)
      BY <3>3 DEF CertOK, CertFails, HijackOK, HijackFails
    <3>4. CASE Scan(c)
      BY <3>4 DEF Scan, Pass, Count, Stats
    <3>5. CASE Audit(c)
      <4> DEFINE e == [conn |-> c, dir |-> dir[c],
                       blocked |-> payload[c] \in GuardBlocked]
      <4>1. e \in AuditEntry
        BY DEF AuditEntry
      <4>2. audit' \subseteq AuditEntry /\ unlogged' \subseteq Conns \X Dirs
        BY <3>5, <4>1 DEF Audit
      <4> QED
        BY <3>5, <4>2 DEF Audit
    <3>6. CASE ReadMode(c) \/ ReadBlock(c)
      BY <3>6 DEF ReadMode, ReadBlock, Pass
    <3>7. CASE Block(c)
      BY <3>7 DEF Block, Count, Stats
    <3>8. CASE Forward(c) \/ Reply(c)
      BY <3>8 DEF Forward, Reply
    <3> QED
      BY <2>2, <3>1, <3>2, <3>3, <3>4, <3>5, <3>6, <3>7, <3>8 DEF Serve, Decide
  <2>3. ASSUME NEW c \in Conns, Peer(c) PROVE TypeOK'
    <3>1. ASSUME NEW k \in Kinds, NEW h \in Hosts, Arrive(c, k, h) PROVE TypeOK'
      BY <3>1 DEF Arrive, Count, Stats
    <3>2. CASE TunnelFails(c) \/ TunnelOpens(c) \/ ClientGivesUp(c)
               \/ ForwardFails(c) \/ ApiRefused(c)
      BY <3>2 DEF TunnelFails, TunnelOpens, ClientGivesUp, ForwardFails,
                  ApiRefused
    <3>3. ASSUME NEW p \in Payloads, ReadBody(c, p) PROVE TypeOK'
      BY <3>3 DEF ReadBody, Count, Stats
    <3>4. ASSUME NEW p \in Payloads, ReadAnswer(c, p) PROVE TypeOK'
      BY <3>4 DEF ReadAnswer
    <3>5. ASSUME NEW p \in Payloads, Detect(c, p) PROVE TypeOK'
      BY <3>5 DEF Detect, Count, Stats
    <3> QED
      BY <2>3, <3>1, <3>2, <3>3, <3>4, <3>5 DEF Peer
  <2>4. CASE UNCHANGED vars
    BY <2>4 DEF vars
  <2> QED
    BY <2>1, <2>2, <2>3, <2>4 DEF Next
<1> QED
  BY <1>1, <1>2, PTL DEF Spec

-----------------------------------------------------------------------------
(* The inductive invariant: what each place of the pipeline knows.  The
   window of an active exchange holds the configuration in force; a place
   that is about to release or to refuse the payload has seen a configuration
   of the window that says so; and what the ends rest on is never disturbed. *)
AtRest(c) ==
  /\ pc[c] \in {"idle", "done"} \/ (cfg \in window[c] /\ outcome[c] = "none")
  /\ pc[c] = "idle" => outcome[c] = "none"
  /\ pc[c] \in {"idle", "route", "api"} => ~target[c]
  /\ pc[c] # "idle" /\ kind[c] \in {"detect", "probe"} => ~target[c]

InPlace(c) ==
  /\ pc[c] \in {"route", "cert", "hijack", "body", "scan", "audit", "forward",
                "await"}
       => kind[c] \in {"connect", "http"}
  /\ pc[c] \in {"cert", "hijack", "scan", "audit"} => target[c]
  /\ pc[c] \in {"mode", "threshold", "block"} => Guarded(c)
  /\ pc[c] = "api" => kind[c] = "detect"
  /\ pc[c] \in {"tunnel"} \/ (pc[c] = "body" /\ ~target[c]) => MayIgnore(c)

Decided(c) ==
  /\ pc[c] = "threshold" => \E k \in window[c] : k.mode = "block"
  /\ pc[c] = "block" => MayBlock(c)
  /\ pc[c] \in {"forward", "await"} => IF target[c] THEN MayPass(c) ELSE MayIgnore(c)
  /\ pc[c] = "reply" /\ Guarded(c) => MayPass(c)

Ended(c) ==
  /\ outcome[c] = "response" /\ Guarded(c) => MayPass(c)
  /\ outcome[c] = "tunnel" => MayIgnore(c)
  /\ outcome[c] = "blocked" => Guarded(c) /\ MayBlock(c)

ConnInv(c) == AtRest(c) /\ InPlace(c) /\ Decided(c) /\ Ended(c)
PolicyInv == \A c \in Conns : ConnInv(c)

(* A handler's step leaves the exchanges of all other handlers alone. *)
Same(d) ==
  /\ cfg' = cfg
  /\ pc'[d] = pc[d]
  /\ kind'[d] = kind[d]
  /\ host'[d] = host[d]
  /\ target'[d] = target[d]
  /\ dir'[d] = dir[d]
  /\ payload'[d] = payload[d]
  /\ outcome'[d] = outcome[d]
  /\ window'[d] = window[d]

LEMMA Undisturbed ==
  ASSUME NEW d \in Conns, ConnInv(d), Same(d)
  PROVE  ConnInv(d)'
BY DEF Same, ConnInv, AtRest, InPlace, Decided, Ended, Guarded, MayPass,
       MayBlock, MayIgnore

LEMMA OthersSame ==
  ASSUME TypeOK, NEW c \in Conns, NEW d \in Conns, d # c, Serve(c) \/ Peer(c)
  PROVE  Same(d)
<1> USE DEF Same, TypeOK, Goto, Finish, connVars
<1>1. CASE Serve(c)
  BY <1>1 DEF Serve, Decide, RouteConnect, RouteHTTP, CertOK, CertFails, HijackOK,
              HijackFails, Scan, Audit, ReadMode, ReadBlock, Block, Forward,
              Reply
<1>2. CASE Peer(c)
  BY <1>2 DEF Peer, Arrive, TunnelFails, TunnelOpens, ClientGivesUp,
              ForwardFails, ApiRefused, ReadBody, ReadAnswer, Detect
<1> QED
  BY <1>1, <1>2

(* A payload without findings may pass under every configuration. *)
LEMMA NothingFound ==
  ASSUME NEW k \in Configs, NEW p \in Payloads, Findings[p] = {}
  PROVE  ~Matches(k.block, p) /\ ~Blocks(k, p)
BY DEF Matches, Blocks

(* The proxy's own steps keep the invariant for the exchange they serve. *)
LEMMA ServeKeeps ==
  ASSUME TypeOK, NEW c \in Conns, ConnInv(c), Serve(c)
  PROVE  ConnInv(c)'
<1> USE DEF TypeOK, Goto, Finish, connVars, ConnInv, AtRest, InPlace, Decided,
            Ended, Guarded, Kinds
<1>1. CASE RouteConnect(c)
  BY <1>1 DEF RouteConnect, MayIgnore, IsTarget
<1>2. CASE RouteHTTP(c)
  BY <1>2 DEF RouteHTTP, MayIgnore, IsTarget
<1>3. CASE CertOK(c) \/ CertFails(c) \/ HijackOK(c) \/ HijackFails(c)
  BY <1>3 DEF CertOK, CertFails, HijackOK, HijackFails
<1>4. CASE Scan(c)
  <2>1. Findings[payload[c]] = {} => MayPass(c)'
    BY <1>4, NothingFound DEF Scan, MayPass
  <2> QED
    BY <1>4, <2>1 DEF Scan, Pass
<1>5. CASE Audit(c)
  BY <1>5 DEF Audit
<1>6. CASE ReadMode(c)
  <2>1. cfg.mode # "block" => MayPass(c)'
    BY <1>6 DEF ReadMode, MayPass, Blocks
  <2> QED
    BY <1>6, <2>1 DEF ReadMode, Pass
<1>7. CASE ReadBlock(c)
  <2>1. ~Matches(cfg.block, payload[c]) => MayPass(c)'
    BY <1>7 DEF ReadBlock, MayPass, Blocks
  <2>2. Matches(cfg.block, payload[c]) => MayBlock(c)'
    BY <1>7 DEF ReadBlock, MayBlock
  <2> QED
    BY <1>7, <2>1, <2>2 DEF ReadBlock, Pass
<1>8. CASE Block(c)
  BY <1>8 DEF Block, MayBlock
<1>9. CASE Forward(c) \/ Reply(c)
  BY <1>9 DEF Forward, Reply, MayPass, MayIgnore
<1> QED
  BY <1>1, <1>2, <1>3, <1>4, <1>5, <1>6, <1>7, <1>8, <1>9 DEF Serve, Decide

(* So do the steps of a client or of upstream. *)
LEMMA PeerKeeps ==
  ASSUME TypeOK, NEW c \in Conns, ConnInv(c), Peer(c)
  PROVE  ConnInv(c)'
<1> USE DEF TypeOK, Goto, Finish, connVars, ConnInv, AtRest, InPlace, Decided,
            Ended, Guarded, Kinds
<1>1. ASSUME NEW k \in Kinds, NEW h \in Hosts, Arrive(c, k, h) PROVE ConnInv(c)'
  BY <1>1 DEF Arrive
<1>2. CASE TunnelFails(c) \/ ClientGivesUp(c) \/ ForwardFails(c) \/ ApiRefused(c)
  BY <1>2 DEF TunnelFails, ClientGivesUp, ForwardFails, ApiRefused
<1>3. CASE TunnelOpens(c)
  BY <1>3 DEF TunnelOpens, MayIgnore
<1>4. ASSUME NEW p \in Payloads, ReadBody(c, p) PROVE ConnInv(c)'
  <2>1. p = NoPayload => MayPass(c)'
    BY <1>4, NothingFound, PayloadAssumption DEF ReadBody, MayPass
  <2>2. MayIgnore(c)' <=> MayIgnore(c)
    BY <1>4 DEF ReadBody, MayIgnore
  <2> QED
    BY <1>4, <2>1, <2>2 DEF ReadBody
<1>5. ASSUME NEW p \in Payloads, ReadAnswer(c, p) PROVE ConnInv(c)'
  <2>1. p = NoPayload => MayPass(c)'
    BY <1>5, NothingFound, PayloadAssumption DEF ReadAnswer, MayPass
  <2> QED
    BY <1>5, <2>1 DEF ReadAnswer
<1>6. ASSUME NEW p \in Payloads, Detect(c, p) PROVE ConnInv(c)'
  <2>1. Findings[p] = {} => MayPass(c)'
    BY <1>6, NothingFound DEF Detect, MayPass
  <2> QED
    BY <1>6, <2>1 DEF Detect
<1> QED
  BY <1>1, <1>2, <1>3, <1>4, <1>5, <1>6 DEF Peer

(* A reload only widens the windows of active exchanges, so every witness in
   them stays; the windows of the others do not move. *)
LEMMA ReloadKeeps ==
  ASSUME TypeOK, NEW c \in Conns, ConnInv(c), ReloadConfig
  PROVE  ConnInv(c)'
<1>1. /\ window[c] \subseteq window'[c]
      /\ pc[c] \in {"idle", "done"} => window'[c] = window[c]
      /\ pc[c] \notin {"idle", "done"} => cfg' \in window'[c]
  BY DEF ReloadConfig, TypeOK, Active
<1>2. /\ MayPass(c) => MayPass(c)'
      /\ MayBlock(c) => MayBlock(c)'
      /\ MayIgnore(c) => MayIgnore(c)'
  BY <1>1 DEF ReloadConfig, connVars, MayPass, MayBlock, MayIgnore
<1> QED
  BY <1>1, <1>2 DEF ReloadConfig, connVars, ConnInv, AtRest, InPlace, Decided,
                    Ended, Guarded

LEMMA PolicyInvariant == Spec => []PolicyInv
<1>1. Init => PolicyInv
  BY DEF Init, PolicyInv, ConnInv, AtRest, InPlace, Decided, Ended, Guarded
<1>2. TypeOK /\ PolicyInv /\ [Next]_vars => PolicyInv'
  <2> SUFFICES ASSUME TypeOK, PolicyInv, [Next]_vars, NEW d \in Conns
               PROVE  ConnInv(d)'
    BY DEF PolicyInv
  <2>1. ConnInv(d)
    BY DEF PolicyInv
  <2>2. CASE ReloadConfig
    BY <2>1, <2>2, ReloadKeeps
  <2>3. ASSUME NEW c \in Conns, Serve(c) \/ Peer(c) PROVE ConnInv(d)'
    <3>1. CASE c = d
      BY <2>1, <2>3, <3>1, ServeKeeps, PeerKeeps
    <3>2. CASE c # d
      BY <2>1, <2>3, <3>2, OthersSame, Undisturbed
    <3> QED
      BY <3>1, <3>2
  <2>4. CASE UNCHANGED vars
    <3>1. Same(d)
      BY <2>4 DEF vars, Same
    <3> QED
      BY <2>1, <3>1, Undisturbed
  <2> QED
    BY <2>2, <2>3, <2>4 DEF Next
<1> QED
  BY <1>1, <1>2, TypeCorrect, PTL DEF Spec

(* No payload that every policy of its time forbids is sent upstream,
   returned to a client or tunnelled. *)
THEOREM ReleasesSafe == Spec => []NoForbiddenRelease
<1>1. PolicyInv => NoForbiddenRelease
  BY DEF PolicyInv, ConnInv, Decided, Ended, NoForbiddenRelease
<1> QED
  BY <1>1, PolicyInvariant, PTL

(* A payload is refused only when some policy of its time asks for block mode
   and some policy of its time names one of its findings. *)
THEOREM BlocksJustified == Spec => []BlockOnlyOnPolicy
<1>1. PolicyInv => BlockOnlyOnPolicy
  BY DEF PolicyInv, ConnInv, Ended, BlockOnlyOnPolicy
<1> QED
  BY <1>1, PolicyInvariant, PTL

-----------------------------------------------------------------------------
(* Every place behind the scan of a target's findings has its audit entry,
   or a failed attempt, behind it. *)
Recorded(c) ==
  \/ \E e \in audit : e.conn = c /\ e.dir = dir[c]
  \/ <<c, dir[c]>> \in unlogged

AuditOf(c) ==
  /\ target[c]
  /\ Findings[payload[c]] # {}
  /\ \/ pc[c] \in {"mode", "threshold", "block", "forward", "await", "reply"}
     \/ outcome[c] \in {"response", "blocked"}
  => Recorded(c)

AuditInv == \A c \in Conns : AuditOf(c)

(* The audit log and the failures only grow. *)
LEMMA RecordsGrow ==
  ASSUME [Next]_vars
  PROVE  audit \subseteq audit' /\ unlogged \subseteq unlogged'
<1>1. ASSUME NEW c \in Conns, Serve(c) PROVE audit \subseteq audit' /\ unlogged \subseteq unlogged'
  BY <1>1 DEF Serve, Decide, RouteConnect, RouteHTTP, CertOK, CertFails, HijackOK,
              HijackFails, Scan, Audit, ReadMode, ReadBlock, Block, Forward,
              Reply
<1>2. ASSUME NEW c \in Conns, Peer(c) PROVE audit \subseteq audit' /\ unlogged \subseteq unlogged'
  BY <1>2 DEF Peer, Arrive, TunnelFails, TunnelOpens, ClientGivesUp,
              ForwardFails, ApiRefused, ReadBody, ReadAnswer, Detect
<1> QED
  BY <1>1, <1>2 DEF Next, ReloadConfig, vars

LEMMA StillRecorded ==
  ASSUME [Next]_vars, NEW d \in Conns, AuditOf(d),
         target'[d] = target[d], payload'[d] = payload[d], dir'[d] = dir[d],
         pc'[d] = pc[d], outcome'[d] = outcome[d]
  PROVE  AuditOf(d)'
BY RecordsGrow DEF AuditOf, Recorded

LEMMA StepRecords ==
  ASSUME TypeOK, [Next]_vars, NEW c \in Conns, ConnInv(c), AuditOf(c),
         Serve(c) \/ Peer(c)
  PROVE  AuditOf(c)'
<1> USE DEF TypeOK, Goto, Finish, connVars
<1>1. Recorded(c) /\ dir'[c] = dir[c] => Recorded(c)'
  BY RecordsGrow DEF Recorded
<1> USE DEF AuditOf
<1>2. CASE Audit(c)
  <2> DEFINE e == [conn |-> c, dir |-> dir[c],
                   blocked |-> payload[c] \in GuardBlocked]
  <2>1. dir' = dir
    BY <1>2 DEF Audit
  <2>2. e \in audit' \/ <<c, dir[c]>> \in unlogged'
    BY <1>2 DEF Audit
  <2>3. e.conn = c /\ e.dir = dir[c]
    OBVIOUS
  <2> QED
    BY <2>1, <2>2, <2>3 DEF Recorded
<1>3. CASE Scan(c)
  BY <1>3 DEF Scan, ConnInv, AtRest
<1>4. CASE RouteConnect(c) \/ RouteHTTP(c)
  BY <1>4 DEF RouteConnect, RouteHTTP, IsTarget, ConnInv, AtRest
<1>5. CASE \/ CertOK(c) \/ CertFails(c) \/ HijackOK(c) \/ HijackFails(c)
           \/ ReadMode(c) \/ ReadBlock(c) \/ Block(c) \/ Forward(c) \/ Reply(c)
  BY <1>1, <1>5 DEF CertOK, CertFails, HijackOK, HijackFails, ReadMode,
      ReadBlock, Pass, Block, Forward, Reply, ConnInv, AtRest
<1>6. ASSUME NEW k \in Kinds, NEW h \in Hosts, Arrive(c, k, h) PROVE AuditOf(c)'
  BY <1>6 DEF Arrive, ConnInv, AtRest
<1>7. CASE TunnelFails(c) \/ TunnelOpens(c) \/ ClientGivesUp(c)
           \/ ForwardFails(c) \/ ApiRefused(c)
  BY <1>7 DEF TunnelFails, TunnelOpens, ClientGivesUp, ForwardFails,
      ApiRefused
<1>8. ASSUME NEW p \in Payloads, ReadBody(c, p) \/ ReadAnswer(c, p)
      PROVE  AuditOf(c)'
  BY <1>8, PayloadAssumption DEF ReadBody, ReadAnswer, ConnInv, AtRest
<1>9. ASSUME NEW p \in Payloads, Detect(c, p) PROVE AuditOf(c)'
  BY <1>9 DEF Detect, ConnInv, AtRest
<1> QED
  BY <1>2, <1>3, <1>4, <1>5, <1>6, <1>7, <1>8, <1>9 DEF Serve, Decide, Peer

(* No detection takes effect before its audit entry was attempted. *)
THEOREM AuditComesFirst == Spec => []AuditedBeforeEffect
<1>1. Init => AuditInv
  BY DEF Init, AuditInv, AuditOf
<1>2. TypeOK /\ PolicyInv /\ AuditInv /\ [Next]_vars => AuditInv'
  <2> SUFFICES ASSUME TypeOK, PolicyInv, AuditInv, [Next]_vars, NEW d \in Conns
               PROVE  AuditOf(d)'
    BY DEF AuditInv
  <2>1. ConnInv(d) /\ AuditOf(d)
    BY DEF PolicyInv, AuditInv
  <2>2. CASE ReloadConfig
    BY <2>1, <2>2, StillRecorded DEF ReloadConfig, connVars
  <2>3. ASSUME NEW c \in Conns, Serve(c) \/ Peer(c) PROVE AuditOf(d)'
    <3>1. CASE c = d
      BY <2>1, <2>3, <3>1, StepRecords
    <3>2. CASE c # d
      <4>1. Same(d)
        BY <2>3, <3>2, OthersSame
      <4> QED
        BY <2>1, <4>1, StillRecorded DEF Same
    <3> QED
      BY <3>1, <3>2
  <2>4. CASE UNCHANGED vars
    BY <2>1, <2>4, StillRecorded DEF vars
  <2> QED
    BY <2>2, <2>3, <2>4 DEF Next
<1>3. AuditInv => AuditedBeforeEffect
  BY DEF AuditInv, AuditOf, Recorded, AuditedBeforeEffect
<1> QED
  BY <1>1, <1>2, <1>3, TypeCorrect, PolicyInvariant, PTL DEF Spec

-----------------------------------------------------------------------------
(* Refinement.  Up to the answer of upstream the direction is the request's. *)
DirInv ==
  \A c \in Conns :
    pc[c] \in {"idle", "route", "cert", "hijack", "tunnel", "body", "api",
               "forward", "await"} => dir[c] = "request"

LEMMA DirInvariant == Spec => []DirInv
<1>1. Init => DirInv
  BY DEF Init, DirInv
<1>2. TypeOK /\ DirInv /\ [Next]_vars => DirInv'
  <2> SUFFICES ASSUME TypeOK, DirInv, [Next]_vars, NEW d \in Conns
               PROVE  DirInv!(d)'
    BY DEF DirInv
  <2>1. CASE ReloadConfig \/ UNCHANGED vars
    BY <2>1 DEF ReloadConfig, vars, connVars, DirInv
  <2>2. ASSUME NEW c \in Conns, Serve(c) PROVE DirInv!(d)'
    BY <2>2 DEF Serve, Decide, RouteConnect, RouteHTTP, CertOK, CertFails, HijackOK,
       HijackFails, Scan, Audit, ReadMode, ReadBlock, Block, Forward, Reply,
       Pass, Goto, Finish, connVars, TypeOK, DirInv, Dirs
  <2>3. ASSUME NEW c \in Conns, Peer(c) PROVE DirInv!(d)'
    BY <2>3 DEF Peer, Arrive, TunnelFails, TunnelOpens, ClientGivesUp,
       ForwardFails, ApiRefused, ReadBody, ReadAnswer, Detect, Goto, Finish,
       connVars, TypeOK, DirInv
  <2> QED
    BY <2>1, <2>2, <2>3 DEF Next
<1> QED
  BY <1>1, <1>2, TypeCorrect, PTL DEF Spec

phase   == [c \in Conns |-> PhaseOf(c)]
guarded == [c \in Conns |-> Guarded(c)]

(* What a handler's step does to the abstract state: it changes it at c only. *)
LEMMA MapsAtOne ==
  ASSUME TypeOK, NEW c \in Conns, Serve(c) \/ Peer(c)
  PROVE  /\ phase' = [phase EXCEPT ![c] = PhaseOf(c)']
         /\ guarded' = [guarded EXCEPT ![c] = Guarded(c)']
<1>1. \A d \in Conns \ {c} : PhaseOf(d)' = PhaseOf(d) /\ Guarded(d)' = Guarded(d)
  <2> SUFFICES ASSUME NEW d \in Conns \ {c}
               PROVE  PhaseOf(d)' = PhaseOf(d) /\ Guarded(d)' = Guarded(d)
    OBVIOUS
  <2>1. Same(d)
    BY OthersSame
  <2> QED
    BY <2>1 DEF Same, PhaseOf, Guarded
<1> QED
  BY <1>1 DEF phase, guarded

(* The initial states are the abstract ones, and every step of the pipeline is
   a step of the firewall, or moves within one of its phases. *)
LEMMA InitImplements == Init => F!FInit
<1> SUFFICES ASSUME Init PROVE F!FInit
  OBVIOUS
<1>1. phase = [c \in Conns |-> "idle"] /\ guarded = [c \in Conns |-> FALSE]
  BY DEF Init, phase, guarded, PhaseOf, Guarded
<1>2. host \in [Conns -> Hosts]
  BY TargetAssumption DEF Init
<1> QED
  BY <1>1, <1>2 DEF Init, F!FInit, phase, guarded

LEMMA ReloadImplements ==
  ASSUME TypeOK, ReloadConfig
  PROVE  F!SetPolicy
<1>1. phase' = phase /\ guarded' = guarded
  BY DEF ReloadConfig, connVars, phase, guarded, PhaseOf, Guarded
<1>2. \A c \in Conns : Active(c) <=> phase[c] \notin {"idle", "done"}
  BY DEF Active, phase, PhaseOf, TypeOK, Dirs
<1> QED
  BY <1>1, <1>2 DEF ReloadConfig, connVars, F!SetPolicy, F!Active, phase, guarded

(* Steps that move within a phase and leave the rest of the abstract state. *)
LEMMA Stutters ==
  ASSUME TypeOK, NEW c \in Conns, Serve(c) \/ Peer(c),
         PhaseOf(c)' = PhaseOf(c), Guarded(c)' = Guarded(c),
         UNCHANGED <<cfg, window, host, payload, outcome>>
  PROVE  UNCHANGED F!fvars
<1>1. phase' = phase /\ guarded' = guarded
  BY MapsAtOne DEF phase, guarded
<1> QED
  BY <1>1 DEF F!fvars, phase, guarded

(* The firewall and the pipeline mean the same by their policies. *)
LEMMA SamePolicy ==
  /\ \A b, p : F!Matches(b, p) <=> Matches(b, p)
  /\ \A k, p : F!Blocks(k, p) <=> Blocks(k, p)
  /\ \A k, h : F!IsTarget(k, h) <=> IsTarget(k, h)
<1>1. /\ \A s : F!SeverityLevel(s) = SeverityLevel(s)
      /\ \A t : F!ThresholdLevel(t) = ThresholdLevel(t)
  BY DEF F!SeverityLevel, SeverityLevel, F!ThresholdLevel, ThresholdLevel,
     F!severityLevels, severityLevels
<1>2. \A b, p : F!Matches(b, p) <=> Matches(b, p)
  BY <1>1 DEF F!Matches, Matches, F!meetsSeverityThreshold,
     meetsSeverityThreshold, F!PassesCategoryFilter, PassesCategoryFilter
<1> QED
  BY <1>2 DEF F!Blocks, Blocks, F!IsTarget, IsTarget

(* Steps that end an exchange. *)
LEMMA Ends ==
  ASSUME TypeOK, NEW c \in Conns, Serve(c) \/ Peer(c), NEW how \in Outcomes,
         Finish(c, how), UNCHANGED <<cfg, window, connVars>>
  PROVE  F!End(c, how)
<1>1. PhaseOf(c)' = "done" /\ Guarded(c)' = Guarded(c)
  BY DEF Finish, Goto, TypeOK, PhaseOf, Guarded, connVars
<1>2. phase' = [phase EXCEPT ![c] = "done"] /\ guarded' = guarded
  BY <1>1, MapsAtOne DEF guarded
<1> QED
  BY <1>2 DEF F!End, Finish, connVars, phase, guarded

LEMMA ServeImplements ==
  ASSUME TypeOK, PolicyInv, DirInv, NEW c \in Conns, Serve(c)
  PROVE  [F!FNext]_(F!fvars)
<1>0. ConnInv(c)
  BY DEF PolicyInv
<1> USE DEF TypeOK, Goto, connVars, Dirs
<1>1. CASE RouteConnect(c) \/ RouteHTTP(c)
  <2>1. PhaseOf(c) = "request" /\ PhaseOf(c)' = "request"
    BY <1>0, <1>1 DEF RouteConnect, RouteHTTP, PhaseOf, DirInv
  <2>2. phase' = phase /\ phase[c] = "request"
    BY <2>1, MapsAtOne DEF phase
  <2>3. CASE target'[c]
    <3>1. IsTarget(cfg, host[c]) /\ cfg \in window[c]
      BY <1>0, <1>1, <2>3 DEF RouteConnect, RouteHTTP, ConnInv, AtRest
    <3>2. F!MayGuard(c)
      BY <3>1, SamePolicy DEF F!MayGuard
    <3>3. guarded' = [guarded EXCEPT ![c] = TRUE]
      BY <2>3, MapsAtOne DEF Guarded
    <3>4. F!Guard(c)
      BY <1>1, <2>2, <3>2, <3>3
         DEF RouteConnect, RouteHTTP, F!Guard, phase, guarded
    <3> QED
      BY <3>4 DEF F!FNext
  <2>4. CASE ~target'[c]
    <3>1. Guarded(c)' = Guarded(c)
      BY <1>0, <1>1, <2>4 DEF RouteConnect, RouteHTTP, Guarded, ConnInv,
         AtRest, InPlace
    <3> QED
      BY <1>1, <2>1, <3>1, Stutters DEF RouteConnect, RouteHTTP
  <2> QED
    BY <2>3, <2>4
<1>2. CASE \/ CertOK(c) \/ HijackOK(c) \/ Scan(c) \/ Audit(c) \/ ReadMode(c)
           \/ ReadBlock(c)
  <2>1. PhaseOf(c)' = PhaseOf(c)
    BY <1>2 DEF CertOK, HijackOK, Scan, Audit, ReadMode, ReadBlock, Pass, PhaseOf
  <2>2. /\ Guarded(c)' = Guarded(c)
        /\ UNCHANGED <<cfg, window, host, payload, outcome>>
    BY <1>2 DEF CertOK, HijackOK, Scan, Audit, ReadMode, ReadBlock, Guarded
  <2> QED
    BY <2>1, <2>2, Stutters
<1>3. CASE CertFails(c) \/ HijackFails(c)
  <2>1. F!Active(c)
    BY <1>3 DEF CertFails, HijackFails, F!Active, PhaseOf
  <2>2. F!End(c, "error")
    BY <1>3, Ends DEF CertFails, HijackFails, Outcomes
  <2> QED
    BY <2>1, <2>2 DEF F!FNext, F!Fail
<1>4. CASE Block(c)
  <2>1. phase[c] \in {"request", "response"} /\ guarded[c]
    BY <1>0, <1>4 DEF Block, phase, guarded, PhaseOf, ConnInv, Decided, InPlace,
       Guarded
  <2>2. F!MayBlock(c, payload[c])
    BY <1>0, <1>4, SamePolicy DEF Block, F!MayBlock, MayBlock, ConnInv, Decided
  <2>3. F!End(c, "blocked")
    BY <1>4, Ends DEF Block, Outcomes
  <2> QED
    BY <2>1, <2>2, <2>3 DEF F!FNext, F!Refuse, phase, guarded
<1>5. CASE Forward(c)
  <2>1. PhaseOf(c) = "request" /\ PhaseOf(c)' = "upstream"
    BY <1>5 DEF Forward, PhaseOf, DirInv
  <2>2. Guarded(c)' = Guarded(c)
    BY <1>5 DEF Forward, Guarded
  <2>3. /\ phase[c] = "request"
        /\ phase' = [phase EXCEPT ![c] = "upstream"]
        /\ guarded' = guarded
    BY <2>1, <2>2, MapsAtOne DEF phase, guarded
  <2>4. IF Guarded(c) THEN F!MayPass(c, payload[c]) ELSE F!MayIgnore(c)
    BY <1>0, <1>5, SamePolicy DEF Forward, ConnInv, InPlace, Decided, Guarded, MayPass,
       MayIgnore, F!MayPass, F!MayIgnore
  <2>5. F!Send(c)
    BY <1>5, <2>3, <2>4 DEF Forward, F!Send, phase, guarded
  <2> QED
    BY <2>5 DEF F!FNext
<1>6. CASE Reply(c)
  <2>1. phase[c] \in {"request", "response"}
    BY <1>6 DEF Reply, phase, PhaseOf
  <2>2. Guarded(c) => F!MayPass(c, payload[c])
    BY <1>0, <1>6, SamePolicy DEF Reply, ConnInv, Decided, MayPass, F!MayPass
  <2>3. F!End(c, "response")
    BY <1>6, Ends DEF Reply, Outcomes
  <2> QED
    BY <2>1, <2>2, <2>3 DEF F!FNext, F!Answer, phase
<1> QED
  BY <1>1, <1>2, <1>3, <1>4, <1>5, <1>6 DEF Serve, Decide

LEMMA PeerImplements ==
  ASSUME TypeOK, PolicyInv, DirInv, NEW c \in Conns, Peer(c)
  PROVE  [F!FNext]_(F!fvars)
<1>0. ConnInv(c)
  BY DEF PolicyInv
<1> USE DEF TypeOK, Goto, connVars, Dirs
<1>1. ASSUME NEW k \in Kinds, NEW h \in Hosts, Arrive(c, k, h)
      PROVE  F!Begin(c)
  <2>1. PhaseOf(c) = "idle" /\ PhaseOf(c)' = "request"
    BY <1>1 DEF Arrive, Kinds, PhaseOf, DirInv
  <2>2. Guarded(c)' \in BOOLEAN
    BY DEF Guarded, TypeOK
  <2>3. /\ phase[c] = "idle"
        /\ phase' = [phase EXCEPT ![c] = "request"]
        /\ guarded' = [guarded EXCEPT ![c] = Guarded(c)']
    BY <2>1, MapsAtOne DEF phase
  <2> QED
    BY <1>1, <2>2, <2>3 DEF Arrive, F!Begin, phase, guarded
<1>2. CASE \/ TunnelFails(c) \/ ClientGivesUp(c) \/ ForwardFails(c)
           \/ ApiRefused(c)
  <2>1. F!Active(c)
    BY <1>2 DEF TunnelFails, ClientGivesUp, ForwardFails, ApiRefused,
       F!Active, PhaseOf
  <2>2. F!End(c, "error")
    BY <1>2, Ends DEF TunnelFails, ClientGivesUp, ForwardFails, ApiRefused,
       Outcomes
  <2> QED
    BY <2>1, <2>2 DEF F!FNext, F!Fail
<1>3. CASE TunnelOpens(c)
  <2>1. phase[c] = "request"
    BY <1>3 DEF TunnelOpens, phase, PhaseOf, DirInv
  <2>2. F!MayIgnore(c)
    BY <1>0, <1>3, SamePolicy DEF TunnelOpens, ConnInv, InPlace, MayIgnore,
       F!MayIgnore
  <2>3. F!End(c, "tunnel")
    BY <1>3, Ends DEF TunnelOpens, Outcomes
  <2> QED
    BY <2>1, <2>2, <2>3 DEF F!FNext, F!Tunnel, phase
<1>4. ASSUME NEW p \in Payloads, ReadBody(c, p) \/ Detect(c, p)
      PROVE  F!Read(c)
  <2>1. PhaseOf(c) = "request" /\ PhaseOf(c)' = "request"
    BY <1>4 DEF ReadBody, Detect, PhaseOf, DirInv
  <2>2. Guarded(c)' = Guarded(c)
    BY <1>4 DEF ReadBody, Detect, Guarded
  <2>3. phase[c] = "request" /\ phase' = phase /\ guarded' = guarded
    BY <2>1, <2>2, MapsAtOne DEF phase, guarded
  <2> QED
    BY <1>4, <2>3 DEF ReadBody, Detect, F!Read, phase, guarded
<1>5. ASSUME NEW p \in Payloads, ReadAnswer(c, p)
      PROVE  F!Receive(c)
  <2>1. PhaseOf(c) = "upstream" /\ PhaseOf(c)' = "response"
    BY <1>5 DEF ReadAnswer, PhaseOf
  <2>2. Guarded(c)' = Guarded(c)
    BY <1>5 DEF ReadAnswer, Guarded
  <2>3. /\ phase[c] = "upstream"
        /\ phase' = [phase EXCEPT ![c] = "response"]
        /\ guarded' = guarded
    BY <2>1, <2>2, MapsAtOne DEF phase, guarded
  <2> QED
    BY <1>5, <2>3 DEF ReadAnswer, F!Receive, phase, guarded
<1> QED
  BY <1>1, <1>2, <1>3, <1>4, <1>5 DEF Peer, F!FNext

(* The pipeline implements the abstract firewall, whatever the interleaving of
   its handlers and of reloads. *)
THEOREM Implements == Spec => ImplementsFirewall
<1>1. TypeOK /\ PolicyInv /\ DirInv /\ [Next]_vars => [F!FNext]_(F!fvars)
  <2> SUFFICES ASSUME TypeOK, PolicyInv, DirInv, [Next]_vars
               PROVE  [F!FNext]_(F!fvars)
    OBVIOUS
  <2>1. CASE ReloadConfig
    BY <2>1, ReloadImplements DEF F!FNext
  <2>2. ASSUME NEW c \in Conns, Serve(c) \/ Peer(c)
        PROVE  [F!FNext]_(F!fvars)
    BY <2>2, ServeImplements, PeerImplements
  <2>3. CASE UNCHANGED vars
    <3>1. phase' = phase /\ guarded' = guarded
      BY <2>3 DEF vars, phase, guarded, PhaseOf, Guarded
    <3> QED
      BY <2>3, <3>1 DEF vars, F!fvars, phase, guarded
  <2> QED
    BY <2>1, <2>2, <2>3 DEF Next
<1> QED
  BY <1>1, InitImplements, TypeCorrect, PolicyInvariant, DirInvariant, PTL
     DEF Spec, ImplementsFirewall, F!FSpec

-----------------------------------------------------------------------------
(* The counters.  An exchange has no record of a direction before that
   direction's audit step, so that each such step adds one. *)
RecordOf(c, d) ==
  \/ \E e \in audit : e.conn = c /\ e.dir = d
  \/ <<c, d>> \in unlogged

Before == {"idle", "route", "cert", "hijack", "tunnel", "body", "api"}

NewHere(c) ==
  /\ pc[c] = "idle" => kind[c] = "probe"
  /\ pc[c] \in Before => payload[c] = NoPayload
  /\ pc[c] \in Before \union {"scan", "audit"} => ~RecordOf(c, dir[c])
  /\ dir[c] = "request" => ~RecordOf(c, "response")
  /\ pc[c] \in {"cert", "hijack"} => kind[c] = "connect" /\ target[c]

NewInv ==
  /\ IsFiniteSet(audit) /\ IsFiniteSet(unlogged)
  /\ \A c \in Conns : NewHere(c)

LEMMA OnlyAuditRecords ==
  ASSUME NEW c \in Conns, Serve(c) \/ Peer(c)
  PROVE  Audit(c) \/ UNCHANGED <<audit, unlogged>>
<1>1. CASE Serve(c)
  BY <1>1 DEF Serve, Decide, RouteConnect, RouteHTTP, CertOK, CertFails, HijackOK,
              HijackFails, Scan, ReadMode, ReadBlock, Block, Forward, Reply
<1>2. CASE Peer(c)
  BY <1>2 DEF Peer, Arrive, TunnelFails, TunnelOpens, ClientGivesUp,
              ForwardFails, ApiRefused, ReadBody, ReadAnswer, Detect
<1> QED
  BY <1>1, <1>2

LEMMA RecordsOfOthers ==
  ASSUME NEW c \in Conns, Serve(c) \/ Peer(c), NEW d \in Conns, d # c, NEW x
  PROVE  RecordOf(d, x)' <=> RecordOf(d, x)
<1>1. CASE UNCHANGED <<audit, unlogged>>
  BY <1>1 DEF RecordOf
<1>2. CASE Audit(c)
  <2> DEFINE e == [conn |-> c, dir |-> dir[c],
                   blocked |-> payload[c] \in GuardBlocked]
  <2>1. e.conn # d /\ <<c, dir[c]>> # <<d, x>>
    OBVIOUS
  <2>2. \/ audit' = audit \union {e} /\ unlogged' = unlogged
        \/ unlogged' = unlogged \union {<<c, dir[c]>>} /\ audit' = audit
    BY <1>2 DEF Audit
  <2> HIDE DEF e
  <2> QED
    BY <2>1, <2>2 DEF RecordOf
<1> QED
  BY <1>1, <1>2, OnlyAuditRecords

(* What the step of c leaves of its newness. *)
LEMMA StepStaysNew ==
  ASSUME TypeOK, DirInv, NEW c \in Conns, ConnInv(c), NewHere(c), Serve(c) \/ Peer(c)
  PROVE  NewHere(c)'
<1> USE DEF TypeOK, Goto, Finish, connVars, Before
<1>1. CASE Audit(c)
  <2>1. /\ pc'[c] = "mode" /\ UNCHANGED <<dir, kind, payload>>
        /\ pc[c] = "audit"
    BY <1>1 DEF Audit
  <2>2. dir[c] = "request" => ~RecordOf(c, "response")'
    <3> DEFINE e == [conn |-> c, dir |-> dir[c],
                     blocked |-> payload[c] \in GuardBlocked]
    <3>1. \/ audit' = audit \union {e} /\ unlogged' = unlogged
          \/ unlogged' = unlogged \union {<<c, dir[c]>>} /\ audit' = audit
      BY <1>1 DEF Audit
    <3>2. dir[c] = "request" => e.dir # "response" /\ <<c, dir[c]>> # <<c, "response">>
      OBVIOUS
    <3> HIDE DEF e
    <3> QED
      BY <3>1, <3>2 DEF NewHere, RecordOf
  <2> QED
    BY <2>1, <2>2 DEF NewHere
<1>2. ASSUME UNCHANGED <<audit, unlogged>>, ~Audit(c) PROVE NewHere(c)'
  <2>1. \A d : RecordOf(c, d)' <=> RecordOf(c, d)
    BY <1>2 DEF RecordOf
  <2>2. CASE RouteConnect(c) \/ RouteHTTP(c)
    BY <2>1, <2>2 DEF RouteConnect, RouteHTTP, NewHere
  <2>3. CASE CertOK(c) \/ CertFails(c) \/ HijackOK(c) \/ HijackFails(c)
    BY <2>1, <2>3 DEF CertOK, CertFails, HijackOK, HijackFails, NewHere
  <2>4. CASE Scan(c) \/ ReadMode(c) \/ ReadBlock(c)
    BY <2>1, <2>4 DEF Scan, ReadMode, ReadBlock, Pass, NewHere
  <2>5. CASE Block(c) \/ Forward(c) \/ Reply(c)
    BY <2>1, <2>5 DEF Block, Forward, Reply, NewHere
  <2>6. ASSUME NEW k \in Kinds, NEW h \in Hosts, Arrive(c, k, h) PROVE NewHere(c)'
    BY <2>1, <2>6 DEF Arrive, NewHere, Kinds
  <2>7. CASE TunnelFails(c) \/ TunnelOpens(c) \/ ClientGivesUp(c) \/ ForwardFails(c)
               \/ ApiRefused(c)
    BY <2>1, <2>7 DEF TunnelFails, TunnelOpens, ClientGivesUp, ForwardFails,
                      ApiRefused, NewHere
  <2>8. ASSUME NEW p \in Payloads, ReadBody(c, p) \/ Detect(c, p) PROVE NewHere(c)'
    BY <2>1, <2>8 DEF ReadBody, Detect, NewHere
  <2>9. ASSUME NEW p \in Payloads, ReadAnswer(c, p) PROVE NewHere(c)'
    BY <2>1, <2>9 DEF ReadAnswer, NewHere, DirInv
  <2> QED
    BY <1>2, <2>2, <2>3, <2>4, <2>5, <2>6, <2>7, <2>8, <2>9 DEF Serve, Decide, Peer
<1> QED
  BY <1>1, <1>2, OnlyAuditRecords

LEMMA NewInvariant == Spec => []NewInv
<1>1. Init => NewInv
  <2> SUFFICES ASSUME Init PROVE NewInv
    OBVIOUS
  <2>1. audit = {} /\ unlogged = {} /\ IsFiniteSet({})
    BY FS_EmptySet DEF Init
  <2> QED
    BY <2>1 DEF Init, NewInv, NewHere, RecordOf
<1>2. TypeOK /\ DirInv /\ PolicyInv /\ NewInv /\ [Next]_vars => NewInv'
  <2> SUFFICES ASSUME TypeOK, DirInv, PolicyInv, NewInv, [Next]_vars PROVE NewInv'
    OBVIOUS
  <2>1. CASE ReloadConfig \/ UNCHANGED vars
    BY <2>1 DEF ReloadConfig, vars, connVars, NewInv, NewHere, RecordOf
  <2>2. ASSUME NEW c \in Conns, Serve(c) \/ Peer(c) PROVE NewInv'
    <3>1. IsFiniteSet(audit') /\ IsFiniteSet(unlogged')
      <4>1. CASE Audit(c)
        BY <4>1, FS_AddElement DEF Audit, NewInv
      <4>2. CASE UNCHANGED <<audit, unlogged>>
        BY <4>2 DEF NewInv
      <4> QED
        BY <2>2, <4>1, <4>2, OnlyAuditRecords
    <3>2. NewHere(c)'
      BY <2>2, StepStaysNew DEF NewInv, PolicyInv
    <3>3. ASSUME NEW d \in Conns, d # c PROVE NewHere(d)'
      <4>1. Same(d) /\ \A x : RecordOf(d, x)' <=> RecordOf(d, x)
        BY <2>2, <3>3, OthersSame, RecordsOfOthers
      <4> QED
        BY <4>1 DEF NewInv, NewHere, Same
    <3> QED
      BY <3>1, <3>2, <3>3 DEF NewInv
  <2> QED
    BY <2>1, <2>2 DEF Next
<1> QED
  BY <1>1, <1>2, TypeCorrect, DirInvariant, PolicyInvariant, PTL DEF Spec

(* What each counter counts, for one exchange and for all. *)
WritingAt(c) == pc[c] = "audit"
ApiHitAt(c)  == kind[c] = "detect" /\ Findings[payload[c]] # {}
CameAt(c)    == pc[c] # "idle"
BlockedAt(c) == outcome[c] = "blocked"
PassedAt(c)  == kind[c] = "connect" /\ pc[c] # "route" /\ ~target[c]
TakenAt(c)   == target[c] /\ \/ kind[c] = "connect" /\ pc[c] \notin {"idle", "route"}
                             \/ kind[c] = "http" /\ pc[c] \notin {"idle", "route", "body"}

Writers  == {c \in Conns : WritingAt(c)}
ApiHits  == {c \in Conns : ApiHitAt(c)}
Came     == {c \in Conns : CameAt(c)}
Blockeds == {c \in Conns : BlockedAt(c)}
Passeds  == {c \in Conns : PassedAt(c)}
Takens   == {c \in Conns : TakenAt(c)}

One(b) == IF b THEN 1 ELSE 0

Records == Cardinality(audit) + Cardinality(unlogged)

CountInv ==
  /\ stats.detections = Records + Cardinality(Writers) + Cardinality(ApiHits)
  /\ stats.total = Cardinality(Came)
  /\ stats.blocked = Cardinality(Blockeds)
  /\ stats.passed = Cardinality(Passeds)
  /\ stats.intercepted <= Cardinality(Takens)

(* A set that differs from another by one element at most. *)
LEMMA OneMoves ==
  ASSUME NEW S, NEW T, IsFiniteSet(S), NEW c, \A d : d # c => (d \in T <=> d \in S)
  PROVE  /\ IsFiniteSet(T)
         /\ Cardinality(S) \in Nat /\ Cardinality(T) \in Nat
         /\ Cardinality(T) + One(c \in S) = Cardinality(S) + One(c \in T)
<1>1. /\ IsFiniteSet(S \ {c})
      /\ Cardinality(S \ {c}) + One(c \in S) = Cardinality(S)
      /\ Cardinality(S) \in Nat
  <2>1. /\ IsFiniteSet(S \ {c}) /\ Cardinality(S) \in Nat
        /\ Cardinality(S \ {c}) = IF c \in S THEN Cardinality(S) - 1 ELSE Cardinality(S)
    BY FS_RemoveElement, FS_CardinalityType
  <2> QED
    BY <2>1 DEF One
<1>2. T = S \ {c} \/ T = (S \ {c}) \union {c}
  OBVIOUS
<1>3. c \notin S \ {c}
  OBVIOUS
<1>4. CASE T = S \ {c}
  BY <1>1, <1>3, <1>4, FS_CardinalityType DEF One
<1>5. CASE T = (S \ {c}) \union {c}
  <2>1. IsFiniteSet(T) /\ Cardinality(T) = Cardinality(S \ {c}) + 1 /\ c \in T
    BY <1>1, <1>3, <1>5, FS_AddElement
  <2> QED
    BY <1>1, <2>1, FS_CardinalityType DEF One
<1> QED
  BY <1>2, <1>4, <1>5

(* A counter and a cardinality that move alike stay equal. *)
LEMMA Balanced ==
  ASSUME NEW x \in Nat, NEW y \in Nat, NEW n \in Nat, NEW m \in Nat,
         NEW a \in Nat, NEW b \in Nat, x = n, y + a = x + b, m + a = n + b
  PROVE  y = m
OBVIOUS

LEMMA BalancedSum ==
  ASSUME NEW x \in Nat, NEW y \in Nat, NEW r \in Nat, NEW q \in Nat, NEW u \in Nat,
         NEW n \in Nat, NEW m \in Nat, NEW a \in Nat, NEW b \in Nat,
         NEW k \in Nat, NEW l \in Nat, NEW d \in Nat, NEW e \in Nat,
         x = r + n + k, q = r + u,
         y + a + d = x + u + b + e, m + a = n + b, l + d = k + e
  PROVE  y = q + m + l
OBVIOUS

(* A step of c counts what it does to c. *)
StepCounts(c) ==
  /\ stats'.detections + One(WritingAt(c)) + One(ApiHitAt(c))
       = stats.detections + One(Audit(c)) + One(WritingAt(c)') + One(ApiHitAt(c)')
  /\ stats'.total + One(CameAt(c)) = stats.total + One(CameAt(c)')
  /\ stats'.blocked + One(BlockedAt(c)) = stats.blocked + One(BlockedAt(c)')
  /\ stats'.passed + One(PassedAt(c)) = stats.passed + One(PassedAt(c)')
  /\ stats'.intercepted + One(TakenAt(c)) <= stats.intercepted + One(TakenAt(c)')

LEMMA StepCounted ==
  ASSUME TypeOK, NEW c \in Conns, ConnInv(c), NewHere(c), Serve(c) \/ Peer(c)
  PROVE  StepCounts(c)
<1> USE PayloadAssumption
    DEF TypeOK, Stats, Goto, Finish, Count, connVars, StepCounts, One, WritingAt, ApiHitAt,
        CameAt, BlockedAt, PassedAt, TakenAt
<1>1. CASE Audit(c)
  BY <1>1 DEF Audit
<1>2. CASE Scan(c)
  BY <1>2 DEF Scan, Pass, Audit, ConnInv, AtRest, InPlace
<1>3. CASE RouteConnect(c)
  BY <1>3 DEF RouteConnect, IsTarget, Audit, ConnInv, AtRest
<1>4. CASE RouteHTTP(c)
  BY <1>4 DEF RouteHTTP, IsTarget, Audit, ConnInv, AtRest
<1>5. CASE CertOK(c) \/ HijackOK(c)
  BY <1>5 DEF CertOK, HijackOK, Audit, NewHere, ConnInv, AtRest
<1>14. CASE CertFails(c) \/ HijackFails(c)
  BY <1>14 DEF CertFails, HijackFails, Audit, ConnInv, AtRest
<1>6. CASE ReadMode(c) \/ ReadBlock(c)
  BY <1>6 DEF ReadMode, ReadBlock, Pass, Audit
<1>7. CASE Block(c)
  BY <1>7 DEF Block, Audit, ConnInv, AtRest
<1>8. CASE Forward(c) \/ Reply(c)
  BY <1>8 DEF Forward, Reply, Audit, ConnInv, AtRest
<1>9. ASSUME NEW k \in Kinds, NEW h \in Hosts, Arrive(c, k, h) PROVE StepCounts(c)
  BY <1>9 DEF Arrive, Audit, Kinds, NewHere, Before, ConnInv, AtRest
<1>10. CASE TunnelFails(c) \/ TunnelOpens(c) \/ ClientGivesUp(c)
            \/ ForwardFails(c) \/ ApiRefused(c)
  BY <1>10 DEF TunnelFails, TunnelOpens, ClientGivesUp, ForwardFails, ApiRefused, Audit,
               ConnInv, AtRest
<1>11. ASSUME NEW p \in Payloads, ReadBody(c, p) PROVE StepCounts(c)
  BY <1>11 DEF ReadBody, Audit, ConnInv, AtRest, InPlace
<1>12. ASSUME NEW p \in Payloads, ReadAnswer(c, p) PROVE StepCounts(c)
  BY <1>12 DEF ReadAnswer, Audit, ConnInv, AtRest, InPlace
<1>13. ASSUME NEW p \in Payloads, Detect(c, p) PROVE StepCounts(c)
  BY <1>13 DEF Detect, Audit, NewHere, Before, ConnInv, AtRest, InPlace
<1> QED
  BY <1>1, <1>2, <1>3, <1>4, <1>5, <1>6, <1>7, <1>8, <1>9, <1>10, <1>11, <1>12, <1>13,
     <1>14 DEF Serve, Decide, Peer

(* An audit step, and nothing else, makes one record. *)
LEMMA OneRecord ==
  ASSUME TypeOK, NewInv, NEW c \in Conns, Serve(c) \/ Peer(c)
  PROVE  /\ Records \in Nat /\ Records' \in Nat
         /\ Records' = Records + One(Audit(c))
<1>1. IsFiniteSet(audit) /\ IsFiniteSet(unlogged)
  BY DEF NewInv
<1>2. Cardinality(audit) \in Nat /\ Cardinality(unlogged) \in Nat
  BY <1>1, FS_CardinalityType
<1>3. CASE Audit(c)
  <2> DEFINE e == [conn |-> c, dir |-> dir[c],
                   blocked |-> payload[c] \in GuardBlocked]
             u == <<c, dir[c]>>
  <2>1. e \notin audit /\ u \notin unlogged
    <3>1. ~RecordOf(c, dir[c])
      BY <1>3 DEF Audit, NewInv, NewHere
    <3>2. e.conn = c /\ e.dir = dir[c]
      OBVIOUS
    <3> HIDE DEF e
    <3> QED
      BY <3>1, <3>2 DEF RecordOf
  <2>2. \/ audit' = audit \union {e} /\ unlogged' = unlogged
        \/ unlogged' = unlogged \union {u} /\ audit' = audit
    BY <1>3 DEF Audit
  <2> HIDE DEF e, u
  <2>3. \/ /\ Cardinality(audit') = Cardinality(audit) + 1
           /\ Cardinality(unlogged') = Cardinality(unlogged)
        \/ /\ Cardinality(unlogged') = Cardinality(unlogged) + 1
           /\ Cardinality(audit') = Cardinality(audit)
    BY <1>1, <2>1, <2>2, FS_AddElement
  <2> QED
    BY <1>2, <1>3, <2>3 DEF Records, One
<1>4. CASE UNCHANGED <<audit, unlogged>> /\ ~Audit(c)
  BY <1>2, <1>4 DEF Records, One
<1> QED
  BY <1>3, <1>4, OnlyAuditRecords

(* The counters of /stats add up in every state, for any number of exchanges. *)
THEOREM StatsAlwaysAgree == Spec => []StatsAgree
<1>1. Init => CountInv
  <2> SUFFICES ASSUME Init PROVE CountInv
    OBVIOUS
  <2>1. /\ Writers = {} /\ ApiHits = {} /\ Came = {} /\ Blockeds = {} /\ Passeds = {}
        /\ Takens = {} /\ audit = {} /\ unlogged = {}
    BY DEF Init, Writers, WritingAt, ApiHits, ApiHitAt, Came, CameAt, Blockeds, BlockedAt,
           Passeds, PassedAt, Takens, TakenAt
  <2>2. Cardinality({}) = 0
    BY FS_EmptySet
  <2> QED
    BY <2>1, <2>2 DEF Init, CountInv, Records
<1>2. TypeOK /\ TypeOK' /\ PolicyInv /\ NewInv /\ CountInv /\ [Next]_vars => CountInv'
  <2> SUFFICES ASSUME TypeOK, TypeOK', PolicyInv, NewInv, CountInv, [Next]_vars
               PROVE  CountInv'
    OBVIOUS
  <2>1. CASE ReloadConfig \/ UNCHANGED vars
    BY <2>1 DEF ReloadConfig, vars, connVars, CountInv, Records, Writers, WritingAt, ApiHits,
       ApiHitAt, Came, CameAt, Blockeds, BlockedAt, Passeds, PassedAt, Takens, TakenAt
  <2>2. ASSUME NEW c \in Conns, Serve(c) \/ Peer(c) PROVE CountInv'
    <3>1. /\ Records' = Records + One(Audit(c)) /\ Records \in Nat /\ Records' \in Nat
          /\ StepCounts(c)
      BY <2>2, StepCounted, OneRecord DEF NewInv, PolicyInv
    <3>2. \A d \in Conns : d # c => Same(d)
      BY <2>2, OthersSame
    <3>3. /\ IsFiniteSet(Writers) /\ IsFiniteSet(ApiHits) /\ IsFiniteSet(Came)
          /\ IsFiniteSet(Blockeds) /\ IsFiniteSet(Passeds) /\ IsFiniteSet(Takens)
      BY ConnsAssumption, FS_Subset DEF Writers, ApiHits, Came, Blockeds, Passeds, Takens
    <3>4. /\ Cardinality(Writers) \in Nat /\ Cardinality(Writers') \in Nat
          /\ Cardinality(Writers') + One(WritingAt(c))
               = Cardinality(Writers) + One(WritingAt(c)')
      <4>1. \A d : d # c => (d \in Writers' <=> d \in Writers)
        BY <3>2 DEF Same, Writers, WritingAt
      <4>2. (c \in Writers <=> WritingAt(c)) /\ (c \in Writers' <=> WritingAt(c)')
        BY DEF Writers
      <4> QED
        BY <3>3, <4>1, <4>2, OneMoves DEF One
    <3>5. /\ Cardinality(ApiHits) \in Nat /\ Cardinality(ApiHits') \in Nat
          /\ Cardinality(ApiHits') + One(ApiHitAt(c))
               = Cardinality(ApiHits) + One(ApiHitAt(c)')
      <4>1. \A d : d # c => (d \in ApiHits' <=> d \in ApiHits)
        BY <3>2 DEF Same, ApiHits, ApiHitAt
      <4>2. (c \in ApiHits <=> ApiHitAt(c)) /\ (c \in ApiHits' <=> ApiHitAt(c)')
        BY DEF ApiHits
      <4> QED
        BY <3>3, <4>1, <4>2, OneMoves DEF One
    <3>6. /\ Cardinality(Came) \in Nat /\ Cardinality(Came') \in Nat
          /\ Cardinality(Came') + One(CameAt(c)) = Cardinality(Came) + One(CameAt(c)')
      <4>1. \A d : d # c => (d \in Came' <=> d \in Came)
        BY <3>2 DEF Same, Came, CameAt
      <4>2. (c \in Came <=> CameAt(c)) /\ (c \in Came' <=> CameAt(c)')
        BY DEF Came
      <4> QED
        BY <3>3, <4>1, <4>2, OneMoves DEF One
    <3>7. /\ Cardinality(Blockeds) \in Nat /\ Cardinality(Blockeds') \in Nat
          /\ Cardinality(Blockeds') + One(BlockedAt(c))
               = Cardinality(Blockeds) + One(BlockedAt(c)')
      <4>1. \A d : d # c => (d \in Blockeds' <=> d \in Blockeds)
        BY <3>2 DEF Same, Blockeds, BlockedAt
      <4>2. (c \in Blockeds <=> BlockedAt(c)) /\ (c \in Blockeds' <=> BlockedAt(c)')
        BY DEF Blockeds
      <4> QED
        BY <3>3, <4>1, <4>2, OneMoves DEF One
    <3>8. /\ Cardinality(Passeds) \in Nat /\ Cardinality(Passeds') \in Nat
          /\ Cardinality(Passeds') + One(PassedAt(c))
               = Cardinality(Passeds) + One(PassedAt(c)')
      <4>1. \A d : d # c => (d \in Passeds' <=> d \in Passeds)
        BY <3>2 DEF Same, Passeds, PassedAt
      <4>2. (c \in Passeds <=> PassedAt(c)) /\ (c \in Passeds' <=> PassedAt(c)')
        BY DEF Passeds
      <4> QED
        BY <3>3, <4>1, <4>2, OneMoves DEF One
    <3>9. /\ Cardinality(Takens) \in Nat /\ Cardinality(Takens') \in Nat
          /\ Cardinality(Takens') + One(TakenAt(c)) = Cardinality(Takens) + One(TakenAt(c)')
      <4>1. \A d : d # c => (d \in Takens' <=> d \in Takens)
        BY <3>2 DEF Same, Takens, TakenAt
      <4>2. (c \in Takens <=> TakenAt(c)) /\ (c \in Takens' <=> TakenAt(c)')
        BY DEF Takens
      <4> QED
        BY <3>3, <4>1, <4>2, OneMoves DEF One
    <3>10. /\ \A b \in BOOLEAN : One(b) \in Nat
           /\ stats \in Stats /\ stats' \in Stats
      BY DEF One, TypeOK
    <3>11. /\ One(Audit(c)) \in Nat
           /\ One(WritingAt(c)) \in Nat /\ One(WritingAt(c)') \in Nat
           /\ One(ApiHitAt(c)) \in Nat /\ One(ApiHitAt(c)') \in Nat
           /\ One(CameAt(c)) \in Nat /\ One(CameAt(c)') \in Nat
           /\ One(BlockedAt(c)) \in Nat /\ One(BlockedAt(c)') \in Nat
           /\ One(PassedAt(c)) \in Nat /\ One(PassedAt(c)') \in Nat
           /\ One(TakenAt(c)) \in Nat /\ One(TakenAt(c)') \in Nat
      BY DEF One
    <3>12. /\ stats.detections \in Nat /\ stats'.detections \in Nat
           /\ stats.total \in Nat /\ stats'.total \in Nat
           /\ stats.blocked \in Nat /\ stats'.blocked \in Nat
           /\ stats.passed \in Nat /\ stats'.passed \in Nat
           /\ stats.intercepted \in Nat /\ stats'.intercepted \in Nat
      BY <3>10 DEF Stats
    <3>13. stats'.detections = Records' + Cardinality(Writers') + Cardinality(ApiHits')
      <4>1. /\ stats'.detections + One(WritingAt(c)) + One(ApiHitAt(c))
                 = stats.detections + One(Audit(c)) + One(WritingAt(c)') + One(ApiHitAt(c)')
            /\ stats.detections = Records + Cardinality(Writers) + Cardinality(ApiHits)
        BY <3>1 DEF StepCounts, CountInv
      <4> QED
        BY <4>1, <3>1, <3>4, <3>5, <3>11, <3>12, BalancedSum
    <3>14. stats'.total = Cardinality(Came')
      <4>1. /\ stats'.total + One(CameAt(c)) = stats.total + One(CameAt(c)')
            /\ stats.total = Cardinality(Came)
        BY <3>1 DEF StepCounts, CountInv
      <4> QED
        BY <4>1, <3>6, <3>11, <3>12, Balanced
    <3>15. stats'.blocked = Cardinality(Blockeds')
      <4>1. /\ stats'.blocked + One(BlockedAt(c)) = stats.blocked + One(BlockedAt(c)')
            /\ stats.blocked = Cardinality(Blockeds)
        BY <3>1 DEF StepCounts, CountInv
      <4> QED
        BY <4>1, <3>7, <3>11, <3>12, Balanced
    <3>16. stats'.passed = Cardinality(Passeds')
      <4>1. /\ stats'.passed + One(PassedAt(c)) = stats.passed + One(PassedAt(c)')
            /\ stats.passed = Cardinality(Passeds)
        BY <3>1 DEF StepCounts, CountInv
      <4> QED
        BY <4>1, <3>8, <3>11, <3>12, Balanced
    <3>17. stats'.intercepted <= Cardinality(Takens')
      BY <3>1, <3>9, <3>11, <3>12 DEF StepCounts, CountInv
    <3> QED
      BY <3>13, <3>14, <3>15, <3>16, <3>17 DEF CountInv
  <2> QED
    BY <2>1, <2>2 DEF Next
<1>3. TypeOK /\ NewInv /\ CountInv => StatsAgree
  <2> SUFFICES ASSUME TypeOK, NewInv, CountInv PROVE StatsAgree
    OBVIOUS
  <2>1. Passeds \intersect Takens = {} /\ Passeds \union Takens \subseteq Came
    BY DEF NewInv, NewHere, Passeds, PassedAt, Takens, TakenAt, Came, CameAt
  <2>2. IsFiniteSet(Came) /\ IsFiniteSet(Passeds) /\ IsFiniteSet(Takens)
    BY ConnsAssumption, FS_Subset DEF Came, Passeds, Takens
  <2>3. /\ Cardinality(Passeds) + Cardinality(Takens) <= Cardinality(Came)
        /\ Cardinality(Passeds) \in Nat /\ Cardinality(Takens) \in Nat
        /\ Cardinality(Came) \in Nat
    <3>1. Cardinality(Passeds \union Takens)
            = Cardinality(Passeds) + Cardinality(Takens) - Cardinality({})
      BY <2>1, <2>2, FS_Union
    <3>2. Cardinality(Passeds \union Takens) <= Cardinality(Came)
      BY <2>1, <2>2, FS_Subset
    <3>3. Cardinality({}) = 0
      BY FS_EmptySet
    <3> QED
      BY <2>2, <3>1, <3>2, <3>3, FS_CardinalityType
  <2>4. stats.intercepted + stats.passed <= stats.total
    <3>1. stats.intercepted \in Nat /\ stats.passed \in Nat /\ stats.total \in Nat
      BY DEF TypeOK, Stats
    <3> QED
      BY <2>3, <3>1 DEF CountInv
  <2> QED
    BY <2>4 DEF CountInv, StatsAgree, Records, Writers, WritingAt, ApiHits, ApiHitAt, Came,
                CameAt, Blockeds, BlockedAt, Passeds, PassedAt
<1> QED
  BY <1>1, <1>2, <1>3, TypeCorrect, PolicyInvariant, NewInvariant, PTL DEF Spec
=============================================================================
