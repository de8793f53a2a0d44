-------------------------- MODULE LensCorrelation --------------------------
(***************************************************************************)
(* SignalReceiver of pkg/lenscorrelation/receiver.go: signals of the Lens  *)
(* browser extension, correlated with the proxy's own detections on the    *)
(* same domain within a window of time.  Every method holds mu throughout  *)
(* and is one step.                                                        *)
(***************************************************************************)
EXTENDS Integers, Sequences, FiniteSetsExt, SequencesExt, Selection

CONSTANTS
  Domains,
  LensSeverities,    \* Severities as Lens may spell them.
  RampartSeverities, \* Severities of the proxy's detections.
  windowDuration,
  maxSignals,
  MaxSignals,        \* Bound: how many signals arrive.
  MaxClock           \* Bound of the clock.

ASSUME WindowAssumption == windowDuration \in Nat /\ MaxClock \in Nat
ASSUME SignalsAssumption == maxSignals \in Nat \ {0} /\ MaxSignals \in Nat

VARIABLES
  now,
  lensSignals,       \* How many signals are kept: nothing reads their content.
  rampartDetections, \* The window of detections, oldest first.
  recent,            \* The last maxSignals detections that were recorded.
  receiverStats

lensVars == <<now, lensSignals, rampartDetections, recent, receiverStats>>

Detection == [domain : Domains, severity : RampartSeverities, time : 0..MaxClock]
Signal == [domain : Domains, severity : LensSeverities]

LensTypeOK ==
  /\ now \in 0..MaxClock
  /\ lensSignals \in 0..maxSignals
  /\ rampartDetections \in Seq(Detection) /\ Len(rampartDetections) <= maxSignals
  /\ recent \in Seq(Detection) /\ Len(recent) <= maxSignals
  /\ receiverStats \in [{"total", "correlated", "escalated", "blocked"} -> 0..MaxSignals]

LensInit ==
  /\ now = 0
  /\ lensSignals = 0
  /\ rampartDetections = <<>>
  /\ recent = <<>>
  /\ receiverStats = [total |-> 0, correlated |-> 0, escalated |-> 0, blocked |-> 0]

-----------------------------------------------------------------------------
(* Correlation *)

(* validateSignal lowers the case of a severity, correlate does not: a valid
   severity in capitals is none of the four that correlate knows. *)
Lowered ==
  [low |-> "low", medium |-> "medium", high |-> "high", critical |-> "critical",
   LOW |-> "low", MEDIUM |-> "medium", HIGH |-> "high", CRITICAL |-> "critical"]
ValidSignal(s) == s.severity \in DOMAIN Lowered

shouldEscalate(lens, rampart) ==
  \/ "critical" \in {lens, rampart}
  \/ lens = "high" /\ rampart = "high"
  \/ lens = "medium" /\ rampart = "medium"

recommendBlock(lens, rampart) ==
  "critical" \in {lens, rampart} \/ (lens = "high" /\ rampart = "high")

(* The detections on the signal's domain within the window. *)
Matching(s) ==
  {d \in ToSet(rampartDetections) : d.time >= now - windowDuration /\ d.domain = s.domain}

Escalated(s) == \E d \in Matching(s) : shouldEscalate(s.severity, d.severity)
RecommendBlock(s) == \E d \in Matching(s) : recommendBlock(s.severity, d.severity)

(* The last maxSignals elements. *)
Newest(seq) ==
  IF Len(seq) <= maxSignals THEN seq
  ELSE SubSeq(seq, Len(seq) - maxSignals + 1, Len(seq))

(* Faulty variant: the first maxSignals elements. *)
Oldest(seq) ==
  IF Len(seq) <= maxSignals THEN seq ELSE SubSeq(seq, 1, maxSignals)

(* Faulty variant: a detection that is added prunes none. *)
PruneNone(seq) == seq

Plus(n, b) == IF b THEN n + 1 ELSE n

-----------------------------------------------------------------------------
(* HandleSignal and ProcessSignal.  A signal that is not valid is refused. *)
ProcessSignal(s) ==
  /\ ValidSignal(s)
  /\ receiverStats.total < MaxSignals
  /\ lensSignals' = Min({lensSignals + 1, maxSignals})
  /\ receiverStats' =
       [total      |-> receiverStats.total + 1,
        correlated |-> Plus(receiverStats.correlated, Matching(s) # {}),
        escalated  |-> Plus(receiverStats.escalated, Escalated(s)),
        blocked    |-> Plus(receiverStats.blocked, RecommendBlock(s))]
  /\ UNCHANGED <<now, rampartDetections, recent>>

(* pruneOldDetections, after one has been added. *)
Kept(seq) == Newest(seq)

(* The detection carries the time at which it was made, which may be earlier. *)
RecordRampartDetection(d) ==
  /\ d.time <= now
  /\ rampartDetections' = Kept(Append(rampartDetections, d))
  /\ recent' = Newest(Append(recent, d))
  /\ UNCHANGED <<now, lensSignals, receiverStats>>

(* A detection of the very start of the window goes, although Matching still
   counts it. *)
PruneExpired ==
  /\ rampartDetections' =
       Select(rampartDetections, {d \in Detection : d.time > now - windowDuration})
  /\ UNCHANGED <<now, lensSignals, recent, receiverStats>>

TimePasses ==
  /\ now < MaxClock
  /\ now' = now + 1
  /\ UNCHANGED <<lensSignals, rampartDetections, recent, receiverStats>>

LensNext ==
  \/ \E s \in Signal : ProcessSignal(s)
  \/ \E d \in Detection : RecordRampartDetection(d)
  \/ PruneExpired
  \/ TimePasses

LensSpec == LensInit /\ [][LensNext]_lensVars

-----------------------------------------------------------------------------
(* Properties *)

(* Of the last maxSignals detections, those within the window are there to be
   correlated, in whatever order they come, expire, and are pruned. *)
RecentKept ==
  \A d \in ToSet(recent) :
    d.time > now - windowDuration => d \in ToSet(rampartDetections)
=============================================================================
