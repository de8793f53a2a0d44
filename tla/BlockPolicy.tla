---------------------------- MODULE BlockPolicy ----------------------------
(***************************************************************************)
(* The blocking policy of pkg/proxy: which scan results a configuration    *)
(* asks to block, and which hosts it asks to intercept.  A payload (the    *)
(* body of a request or of a response) stands for the list of results that *)
(* the detector returns for it: Findings[payload].                         *)
(***************************************************************************)
EXTENDS Naturals

CONSTANTS
  Payloads,    \* Request and response bodies.
  NoPayload,   \* The empty body, which the proxy never scans.
  Categories,  \* Detection categories that appear in results and configs.
  Findings,    \* Findings[p]: the set of results the detector returns for p.
  Domains,     \* Domain names a configuration may list as targets.
  Hosts,       \* Hosts that clients ask for.
  Chain,       \* Chain[h]: h and the parent domains isTargetDomain tries.
  Configs      \* The configurations that may be in force (config.Config).

SeverityNames == {"low", "medium", "high", "critical"}

(* One detector.Result, as far as blocking looks at it. *)
Finding == [severity : SeverityNames, category : Categories]

(* config.BlockConfig.  blockResponse is block_response; threshold may be
   any string of the JSON file, "unset" standing for the unknown ones. *)
BlockConfig ==
  [threshold     : SeverityNames \union {"unset"},
   categories    : SUBSET Categories,
   blockResponse : {"both", "request", "response"}]

Config ==
  [mode    : {"monitor", "block"},
   targets : SUBSET Domains,
   block   : BlockConfig]

ASSUME PayloadAssumption ==
  /\ NoPayload \in Payloads
  /\ Findings \in [Payloads -> SUBSET Finding]
  /\ Findings[NoPayload] = {}

ASSUME TargetAssumption == Hosts # {} /\ Chain \in [Hosts -> SUBSET Domains]

ASSUME ConfigAssumption == Configs # {} /\ Configs \subseteq Config

-----------------------------------------------------------------------------
severityLevels == [critical |-> 4, high |-> 3, medium |-> 2, low |-> 1]

(* An unknown severity ranks below all, an unknown threshold means "high". *)
SeverityLevel(s)  == IF s \in DOMAIN severityLevels THEN severityLevels[s] ELSE 0
ThresholdLevel(t) == IF t \in DOMAIN severityLevels THEN severityLevels[t] ELSE 3

meetsSeverityThreshold(severity, threshold) ==
  SeverityLevel(severity) >= ThresholdLevel(threshold)

PassesCategoryFilter(f, block) ==
  block.categories = {} \/ f.category \in block.categories

(* The loop of shouldBlock: some result meets the threshold and the filter. *)
Matches(block, p) ==
  \E f \in Findings[p] :
    /\ meetsSeverityThreshold(f.severity, block.threshold)
    /\ PassesCategoryFilter(f, block)

(* What one configuration, read as a whole, asks for payload p. *)
Blocks(k, p) == k.mode = "block" /\ Matches(k.block, p)

(* isTargetDomain: the host or one of its parent domains is a target. *)
IsTarget(k, h) == Chain[h] \intersect k.targets # {}
=============================================================================
