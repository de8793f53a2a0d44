------------------------------- MODULE MCProxy -------------------------------
(* Small instances of Proxy: a host that one of the configurations targets and
   an internal one that none does; a payload with a medium finding, toxicity,
   which the guard marks as blocked by itself, and one with a critical one. *)
EXTENDS Proxy, TLC

CONSTANTS api, inside, c1, c2, mild, severe

MCPayloads == {NoPayload, mild, severe}
MCCategories == {"pii", "secret", "toxicity"}
MCFindings ==
  NoPayload :> {}
    @@ mild   :> {[severity |-> "medium", category |-> "toxicity"]}
    @@ severe :> {[severity |-> "critical", category |-> "secret"],
                  [severity |-> "low", category |-> "pii"]}
MCHosts == {api, inside}
MCDomains == {api}
MCChain == api :> {api} @@ inside :> {}

Section(t, cs, r) == [threshold |-> t, categories |-> cs, blockResponse |-> r]
Policy(m, ds, b) == [mode |-> m, targets |-> ds, block |-> b]

(* One configuration blocks toxicity in requests to the host.  The other one
   monitors and does not target it, but has a section that would block what
   the first one lets pass: the mode of one and the section of the other
   block a payload that neither blocks. *)
MCConfigs ==
  {Policy("block", {api}, Section("medium", {"toxicity"}, "request")),
   Policy("monitor", {}, Section("unset", {}, "both"))}
=============================================================================
