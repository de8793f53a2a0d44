------------------------------ MODULE Firewall ------------------------------
(***************************************************************************)
(* What the interception proxy promises, with none of its machinery: an    *)
(* exchange may let a payload through only if some policy in force while   *)
(* it handled that payload lets it through, and may refuse a payload only  *)
(* if policies in force meanwhile ask for it.  Module Proxy implements it. *)
(***************************************************************************)
EXTENDS BlockPolicy

CONSTANT Conns   \* Exchanges: one client connection or request each.

VARIABLES
  policy,    \* The configuration in force.
  window,    \* window[c]: the configurations in force since c took up the
             \* payload it is handling.
  phase,     \* phase[c]: where exchange c stands.
  host,      \* host[c]: the host c is for.
  payload,   \* payload[c]: the payload c is handling.
  guarded,   \* guarded[c]: c answers under the blocking policy.
  outcome    \* outcome[c]: how c ended.

fvars == <<policy, window, phase, host, payload, guarded, outcome>>

Phases   == {"idle", "request", "upstream", "response", "done"}
Outcomes == {"none", "tunnel", "response", "blocked", "error"}

Active(c) == phase[c] \notin {"idle", "done"}

(* The policies of exchange c's window disagree with blocking p / ask for it.
   A reader may see one policy's mode and another's thresholds. *)
MayPass(c, p)  == \E k \in window[c] : ~Blocks(k, p)
MayBlock(c, p) == /\ \E k \in window[c] : k.mode = "block"
                  /\ \E k \in window[c] : Matches(k.block, p)

MayIgnore(c) == \E k \in window[c] : ~IsTarget(k, host[c])
MayGuard(c)  == \E k \in window[c] : IsTarget(k, host[c])

FInit ==
  /\ policy \in Configs
  /\ window = [c \in Conns |-> {}]
  /\ phase = [c \in Conns |-> "idle"]
  /\ host \in [Conns -> Hosts]
  /\ payload = [c \in Conns |-> NoPayload]
  /\ guarded = [c \in Conns |-> FALSE]
  /\ outcome = [c \in Conns |-> "none"]

(* A call of the local detection API is guarded from the start. *)
Begin(c) ==
  /\ phase[c] = "idle"
  /\ phase' = [phase EXCEPT ![c] = "request"]
  /\ window' = [window EXCEPT ![c] = {policy}]
  /\ \E h \in Hosts : host' = [host EXCEPT ![c] = h]
  /\ \E g \in BOOLEAN : guarded' = [guarded EXCEPT ![c] = g]
  /\ UNCHANGED <<policy, payload, outcome>>

Guard(c) ==
  /\ phase[c] = "request"
  /\ MayGuard(c)
  /\ guarded' = [guarded EXCEPT ![c] = TRUE]
  /\ UNCHANGED <<policy, window, phase, host, payload, outcome>>

Read(c) ==
  /\ phase[c] = "request"
  /\ \E p \in Payloads : payload' = [payload EXCEPT ![c] = p]
  /\ UNCHANGED <<policy, window, phase, host, guarded, outcome>>

Send(c) ==
  /\ phase[c] = "request"
  /\ IF guarded[c] THEN MayPass(c, payload[c]) ELSE MayIgnore(c)
  /\ phase' = [phase EXCEPT ![c] = "upstream"]
  /\ UNCHANGED <<policy, window, host, payload, guarded, outcome>>

Receive(c) ==
  /\ phase[c] = "upstream"
  /\ phase' = [phase EXCEPT ![c] = "response"]
  /\ window' = [window EXCEPT ![c] = {policy}]
  /\ \E p \in Payloads : payload' = [payload EXCEPT ![c] = p]
  /\ UNCHANGED <<policy, host, guarded, outcome>>

End(c, how) ==
  /\ phase' = [phase EXCEPT ![c] = "done"]
  /\ outcome' = [outcome EXCEPT ![c] = how]
  /\ UNCHANGED <<policy, window, host, payload, guarded>>

Answer(c) ==
  /\ phase[c] \in {"request", "response"}
  /\ guarded[c] => MayPass(c, payload[c])
  /\ End(c, "response")

Refuse(c) ==
  /\ phase[c] \in {"request", "response"}
  /\ guarded[c]
  /\ MayBlock(c, payload[c])
  /\ End(c, "blocked")

Tunnel(c) ==
  /\ phase[c] = "request"
  /\ MayIgnore(c)
  /\ End(c, "tunnel")

Fail(c) == Active(c) /\ End(c, "error")

SetPolicy ==
  /\ policy' \in Configs
  /\ window' = [c \in Conns |-> IF Active(c) THEN window[c] \union {policy'}
                                             ELSE window[c]]
  /\ UNCHANGED <<phase, host, payload, guarded, outcome>>

FNext ==
  \/ SetPolicy
  \/ \E c \in Conns :
       \/ Begin(c) \/ Guard(c) \/ Read(c) \/ Send(c) \/ Receive(c)
       \/ Answer(c) \/ Refuse(c) \/ Tunnel(c) \/ Fail(c)

FSpec == FInit /\ [][FNext]_fvars
=============================================================================
