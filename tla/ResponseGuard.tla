---------------------------- MODULE ResponseGuard ----------------------------
(***************************************************************************)
(* The response guard and its token limiter (internal/response/guard.go,   *)
(* token_limiter.go).  ScanWithContext holds the guard's lock for reading  *)
(* to its end, and the limiter decides about a response in one critical    *)
(* section, so a scan is one step; what the detectors find in a response   *)
(* is arbitrary.                                                           *)
(***************************************************************************)
EXTENDS Integers, Sequences, FiniteSets, Selection

CONSTANTS
  Clients,
  TokenCounts,           \* Sizes of responses, in tokens.
  MaxScanned,            \* Tokens in the first maxScanBytes bytes of a longer one.
  TokensPerMinute, MaxResponsesPerMinute, MaxTokensPerResponse,
  WindowDuration,
  MaxMinutes,            \* Bound: the clock.
  MaxScans               \* Bound: admitted responses of a client.

ASSUME GuardAssumption ==
  /\ TokenCounts \subseteq Nat
  /\ {MaxScanned, TokensPerMinute, MaxResponsesPerMinute, MaxTokensPerResponse,
      WindowDuration, MaxMinutes, MaxScans} \subseteq Nat

VARIABLES
  enabled,     \* The guard is.
  strictMode,
  limiterTime,
  usage,       \* usage[c]: the entries the limiter keeps of client c.
  admitted,    \* All responses of c the limiter let through since it was reset.
  scanResult   \* Result of the last scan.

guardVars == <<enabled, strictMode, limiterTime, usage, admitted, scanResult>>

NoClient == "no client"     \* A scan without a context: the limiter is not asked.

(* ScanWithContext cuts a long response before it counts its tokens. *)
Scanned(tokens) == IF tokens > MaxScanned THEN MaxScanned ELSE tokens
Counted == {Scanned(tokens) : tokens \in TokenCounts}

TokenEntry == [tokens : Counted, timestamp : 0..MaxMinutes]
Findings == {"pii", "secret", "xss", "compliance"}
Reasons == {"", "token rate", "request rate", "too large", "toxic", "hallucination",
            "strict"}

GuardTypeOK ==
  /\ enabled \in BOOLEAN /\ strictMode \in BOOLEAN
  /\ limiterTime \in 0..MaxMinutes
  /\ \A c \in Clients : usage[c] \in Seq(TokenEntry) /\ admitted[c] \in Seq(TokenEntry)
  /\ scanResult \in [allowed : BOOLEAN, reason : Reasons, threats : SUBSET
       (Findings \union {"token_limit", "toxicity", "hallucination"})]

NoResult == [allowed |-> TRUE, reason |-> "", threats |-> {}]

GuardInit ==
  /\ enabled = TRUE
  /\ strictMode \in BOOLEAN
  /\ limiterTime = 0
  /\ usage = [c \in Clients |-> <<>>]
  /\ admitted = [c \in Clients |-> <<>>]
  /\ scanResult = NoResult

-----------------------------------------------------------------------------
(* The limiter *)

TotalTokens(entries) ==
  LET upTo[i \in 0..Len(entries)] == IF i = 0 THEN 0 ELSE upTo[i - 1] + entries[i].tokens
  IN upTo[Len(entries)]

(* The entries after the start of the window that ends now. *)
Within(entries, now) ==
  Select(entries, {e \in TokenEntry : e.timestamp > now - WindowDuration})

(* AllowToken: why the response is refused. *)
Refused(entries, tokens) ==
  IF TotalTokens(entries) + tokens > TokensPerMinute THEN "token rate"
  ELSE IF Len(entries) + 1 > MaxResponsesPerMinute THEN "request rate"
  ELSE IF tokens > MaxTokensPerResponse THEN "too large"
  ELSE ""

(* Faulty variant: the response itself is not counted. *)
RefusedLate(entries, tokens) ==
  IF TotalTokens(entries) > TokensPerMinute THEN "token rate"
  ELSE IF Len(entries) > MaxResponsesPerMinute THEN "request rate"
  ELSE IF tokens > MaxTokensPerResponse THEN "too large"
  ELSE ""

Refusal(entries, tokens) == Refused(entries, tokens)

AllowToken(c, tokens) == Refusal(Within(usage[c], limiterTime), tokens)

Admit(c, tokens) ==
  LET entry == [tokens |-> tokens, timestamp |-> limiterTime]
  IN /\ usage' = [usage EXCEPT ![c] = Append(Within(@, limiterTime), entry)]
     /\ admitted' = [admitted EXCEPT ![c] = Append(@, entry)]

LimiterReset(c) ==
  /\ admitted[c] # <<>>
  /\ usage' = [usage EXCEPT ![c] = <<>>]
  /\ admitted' = [admitted EXCEPT ![c] = <<>>]
  /\ UNCHANGED <<enabled, strictMode, limiterTime, scanResult>>

-----------------------------------------------------------------------------
(* The guard *)

(* The reason of a block is the last one given; strict mode adds its own only if
   there is none. *)
Verdict(found, refusal, toxic, hallucinated) ==
  LET threats == found \union (IF refusal # "" THEN {"token_limit"} ELSE {})
                       \union (IF toxic THEN {"toxicity"} ELSE {})
                       \union (IF hallucinated THEN {"hallucination"} ELSE {})
  IN [threats |-> threats,
      allowed |-> refusal = "" /\ ~toxic /\ ~(strictMode /\ threats # {}),
      reason |-> IF hallucinated /\ strictMode THEN "hallucination"
                 ELSE IF toxic THEN "toxic"
                 ELSE IF refusal # "" THEN refusal
                 ELSE IF strictMode /\ threats # {} THEN "strict"
                 ELSE ""]

(* ScanWithContext.  The limiter has counted a response that is blocked for
   another reason. *)
ScanWithContext(c, tokens, found, toxic, hallucinated) ==
  LET counted == Scanned(tokens)
      refusal == IF c = NoClient THEN "" ELSE AllowToken(c, counted)
  IN /\ enabled
     /\ c # NoClient => Len(admitted[c]) < MaxScans
     /\ scanResult' = Verdict(found, refusal, toxic, hallucinated)
     /\ IF c # NoClient /\ refusal = "" THEN Admit(c, counted)
        ELSE UNCHANGED <<usage, admitted>>
     /\ UNCHANGED <<enabled, strictMode, limiterTime>>

ScanDisabled ==
  /\ ~enabled
  /\ scanResult' = NoResult
  /\ UNCHANGED <<enabled, strictMode, limiterTime, usage, admitted>>

(* Enable, Disable and UpdateConfig wait for the scans.  ResetUsage and
   ResetAllUsage clear clientUsage, which nothing fills, and so change nothing. *)
SwitchGuard ==
  /\ enabled' = ~enabled
  /\ UNCHANGED <<strictMode, limiterTime, usage, admitted, scanResult>>

UpdateConfig ==
  /\ strictMode' = ~strictMode
  /\ UNCHANGED <<enabled, limiterTime, usage, admitted, scanResult>>

MinutesPass ==
  /\ limiterTime < MaxMinutes
  /\ limiterTime' = limiterTime + 1
  /\ UNCHANGED <<enabled, strictMode, usage, admitted, scanResult>>

GuardNext ==
  \/ \E c \in Clients \union {NoClient}, tokens \in TokenCounts, found \in {{}, {"pii"}},
        toxic, hallucinated \in BOOLEAN :
       ScanWithContext(c, tokens, found, toxic, hallucinated)
  \/ \E c \in Clients : LimiterReset(c)
  \/ ScanDisabled \/ SwitchGuard \/ UpdateConfig \/ MinutesPass

GuardSpec == GuardInit /\ [][GuardNext]_guardVars

-----------------------------------------------------------------------------
(* In no window of WindowDuration does a client get more responses, or more tokens
   as the limiter counts them, in the part of a response that is scanned, than the
   limits say, although the limiter forgets the entries it has cleaned out
   and those of clients that stay away (types.go:300, "the rate limit for tokens per
   minute per client"). *)
WithinRate ==
  \A c \in Clients, now \in 0..MaxMinutes :
    LET window == Select(admitted[c], {e \in TokenEntry :
                    e.timestamp > now - WindowDuration /\ e.timestamp <= now})
    IN TotalTokens(window) <= TokensPerMinute /\ Len(window) <= MaxResponsesPerMinute
=============================================================================
