---------------------------- MODULE DriftMonitor ----------------------------
(***************************************************************************)
(* DriftMonitor of internal/ml/drift.go, for one feature: every method     *)
(* holds dm.mu.  A value v stands for a float64 near v / Scale, not below  *)
(* zero.  The bounds of the bins and the quotient that finds a value's bin *)
(* are computed separately and rounded: a value on the edge between two    *)
(* bins may be on either side of the bound that was computed, and the      *)
(* quotient on either side of the whole number, one whatever the other     *)
(* (2.1 of {0, 2.1, 7} in ten bins: drift.go:463 counts 0.7*3 in bin 2,    *)
(* drift.go:287 finds it in bin 3).  Bins are wider than the rounding.     *)
(* The index of a distribution (PSI) is a real number; what is kept of it  *)
(* is whether it is zero, which it is when the weights of all bins are     *)
(* equal.                                                                  *)
(***************************************************************************)
EXTENDS Integers, Sequences, FiniteSetsExt

CONSTANTS
  Scale,       \* The values are 0..Scale.
  BinCount,
  MaxValues,   \* Bound: values of a baseline, and observations between two resets.
  historyLimit \* 1000 in CheckDrift.

ASSUME DriftAssumption ==
  /\ {Scale, BinCount, historyLimit} \subseteq Nat \ {0}
  /\ MaxValues \in Nat

VARIABLES
  baseline, \* The baseline: the values it was built from and its bins.
  current,  \* The counts of the current distribution.
  history,  \* The last results of CheckDrift.
  observed  \* How often each value was observed since ResetCurrent, and under
            \* which baselines: one = only under the one there is.

driftVars == <<baseline, current, history, observed>>

Values == 0..Scale
Bins == 0..BinCount - 1
InnerEdges == 1..BinCount - 1  \* Edge b is the lower one of bin b.

(* The sum of counts[0] to counts[n - 1]. *)
Sum(counts, n) ==
  LET upTo[i \in 0..n] == IF i = 0 THEN 0 ELSE upTo[i - 1] + counts[i - 1]
  IN upTo[n]

Size(sample) == Sum(sample, Scale + 1)
Total(counts) == Sum(counts, BinCount)
Samples == {s \in [Values -> 0..MaxValues] : Size(s) <= MaxValues}
NoValues == [v \in Values |-> 0]
NoCounts == [b \in Bins |-> 0]

(* Bin b reaches from its lower bound, from + b * span / BinCount, to that of bin
   b + 1, which it excludes; the computed bounds of the edges in above are above
   the values on them.  span = -1: there is no baseline. *)
NoBaseline ==
  [values |-> NoValues, from |-> 0, span |-> -1, above |-> {}, counts |-> NoCounts]

DriftTypeOK ==
  /\ baseline \in [values : Samples, from : Values, span : -1..Scale,
                   above : SUBSET InnerEdges, counts : [Bins -> 0..MaxValues]]
  /\ current \in [Bins -> 0..MaxValues]
  /\ history \in Seq({"none", "drift"}) /\ Len(history) <= historyLimit
  /\ observed \in [values : Samples, one : BOOLEAN]

DriftInit ==
  /\ baseline = NoBaseline
  /\ current = NoCounts
  /\ history = <<>>
  /\ observed = [values |-> NoValues, one |-> TRUE]

-----------------------------------------------------------------------------
(* buildDistribution: equal widths between the least and the greatest value, or
   over 0..1 when these are the same; no bounds (all zero) without values.  The
   quotient of a value on an edge in below is rounded down. *)
Distribution(sample, above, below) ==
  LET seen == {v \in Values : sample[v] > 0}
      flat == Cardinality(seen) = 1
      from == IF seen = {} \/ flat THEN 0 ELSE Min(seen)
      span == IF seen = {} THEN 0 ELSE IF flat THEN Scale ELSE Max(seen) - Min(seen)
      quotient(v) == ((v - from) * BinCount) \div span
      rounded(v) == IF quotient(v) \in below /\ quotient(v) * span = (v - from) * BinCount
                    THEN quotient(v) - 1 ELSE quotient(v)
      index(v) == Min({rounded(v), BinCount - 1})
  IN [values |-> sample, from |-> from, span |-> span,
      above |-> IF seen = {} THEN {} ELSE above,
      counts |-> [b \in Bins |->
        Size([v \in Values |-> IF v \in seen /\ index(v) = b THEN sample[v] ELSE 0])]]

Lower(b) == baseline.from * BinCount + b * baseline.span

(* v is not below the computed lower bound of bin b. *)
Reaches(v, b) ==
  v * BinCount >= Lower(b) /\ ~(b \in baseline.above /\ v * BinCount = Lower(b))

(* The bins of the baseline that hold v; the last one has no upper bound. *)
BinsOf(v) ==
  IF baseline.span = -1 THEN {}
  ELSE {b \in Bins : Reaches(v, b) /\ (b = BinCount - 1 \/ ~Reaches(v, b + 1))}

(* Faulty variant: the last bin excludes its upper bound like the others. *)
BinsOpen(v) ==
  IF baseline.span = -1 THEN {}
  ELSE {b \in Bins : Reaches(v, b) /\ ~Reaches(v, b + 1)}

HoldingBins(v) == BinsOf(v)

(* Without a bin of the baseline, as if the values were in 0..1: int(value * n),
   which may be rounded down, too. *)
Fallback(v) ==
  LET whole == (v * BinCount) \div Scale
  IN {whole} \union {b \in Bins : b = whole - 1 /\ whole * Scale = v * BinCount}

(* findBin: what it may return. *)
FoundBins(v) ==
  IF HoldingBins(v) # {} THEN {Min(HoldingBins(v))} ELSE Fallback(v)

SetBaseline ==
  \E sample \in Samples, above \in SUBSET InnerEdges, below \in SUBSET InnerEdges :
    /\ baseline' = Distribution(sample, above, below)
    /\ observed' = [observed EXCEPT !.one = Size(observed.values) = 0]
    /\ UNCHANGED <<current, history>>

(* Observe, and each step of ObserveBatch.  A value outside all bins is dropped. *)
Observe(v) ==
  /\ Size(observed.values) < MaxValues
  /\ \E bin \in FoundBins(v) :
       current' = IF bin \in Bins THEN [current EXCEPT ![bin] = @ + 1] ELSE current
  /\ observed' = [observed EXCEPT !.values[v] = @ + 1]
  /\ UNCHANGED <<baseline, history>>

(* calculatePSI: the index is zero when every bin has the same weight; it is also
   zero when the baseline is empty. *)
ZeroPSI ==
  \/ Total(baseline.counts) = 0
  \/ \A b \in Bins : baseline.counts[b] * Total(current) = current[b] * Total(baseline.counts)

(* classifyDrift: an index under the lowest threshold counts as no drift, too. *)
Classified == {"none"} \union (IF ZeroPSI THEN {} ELSE {"drift"})

CheckDrift ==
  /\ baseline.span # -1
  /\ Total(current) > 0
  /\ \E level \in Classified :
       LET longer == Append(history, level)
       IN history' = IF Len(longer) > historyLimit THEN Tail(longer) ELSE longer
  /\ UNCHANGED <<baseline, current, observed>>

ResetCurrent ==
  /\ current # NoCounts \/ Size(observed.values) > 0
  /\ current' = NoCounts
  /\ observed' = [values |-> NoValues, one |-> TRUE]
  /\ UNCHANGED <<baseline, history>>

DriftNext ==
  \/ SetBaseline
  \/ \E v \in Values : Observe(v)
  \/ CheckDrift
  \/ ResetCurrent

DriftSpec == DriftInit /\ [][DriftNext]_driftVars

-----------------------------------------------------------------------------
(* The observations on edge b, which the rounding puts into either bin; there is
   nothing beyond the last bin. *)
OnEdge(b) ==
  IF b = BinCount THEN 0
  ELSE Size([v \in Values |-> IF v * BinCount = Lower(b) THEN observed.values[v] ELSE 0])

(* Observing, after the baseline was set, the very values it was built from: each
   is counted, at the ends of the range as well (drift.go:291, "inclusive upper
   bound"), and on the same side of each edge as buildDistribution counted it,
   except for those on that very edge.  Without any of these CheckDrift finds no
   drift: what it takes for drift in unchanged data comes from the edges alone. *)
SameDataNoDrift ==
  baseline.span # -1 /\ observed.one /\ observed.values = baseline.values =>
    /\ \A b \in 1..BinCount :
         Sum(current, b) - Sum(baseline.counts, b) \in -OnEdge(b)..OnEdge(b)
    /\ (\A b \in InnerEdges : OnEdge(b) = 0) => Classified = {"none"}
=============================================================================
