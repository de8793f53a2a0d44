------------------------------ MODULE Detector ------------------------------
(***************************************************************************)
(* DetectWithContext of pkg/detector/detector.go: the response guard, then *)
(* the ML model, then every detector on every variant of the text.  What   *)
(* each of them finds is arbitrary; a match is known by its category and   *)
(* value, and a value too long for detectWithPatterns by its beginning.    *)
(***************************************************************************)
EXTENDS Integers, Sequences, FiniteSets, SequencesExt

CONSTANTS
  MatchCategories, \* Names of the patterns of the detectors.
  ShortValues, LongValues, \* What may match; long values have more than 200 bytes.
  VariantCount,    \* Variants of the text.
  MaxMatchesOf     \* Bound: matches in one variant.

ASSUME DetectorAssumption == {VariantCount, MaxMatchesOf} \subseteq Nat
ASSUME FindableFinite == IsFiniteSet(MatchCategories) /\ IsFiniteSet(ShortValues \union LongValues)

VARIABLES
  detection,   \* The call: where it is, which variant comes next, what was found.
  results,     \* summary.Results so far.
  seenMatches, \* Keys of the matches among them.
  summary      \* What the call returned.

detectorVars == <<detection, results, seenMatches, summary>>

Beginning == "first 200 bytes..."
MatchesOf == MatchCategories \X (ShortValues \union LongValues)
GuardThreats == {"pii", "toxicity"}
NoSummary == [total |-> 0, blocked |-> FALSE, returned |-> FALSE]

(* The value as detectWithPatterns returns it. *)
Shown(m) == <<m[1], IF m[2] \in LongValues THEN Beginning ELSE m[2]>>
MatchKeys == {Shown(m) : m \in MatchesOf}
DetectorResults == {<<"guard", t>> : t \in GuardThreats} \union {<<"ml", "ml_threat">>}
                   \union {<<"detectors", k>> : k \in MatchKeys}

DetectorTypeOK ==
  /\ detection.pc \in {"guard", "ml", "variants", "done"}
  /\ detection.next \in 1..VariantCount + 1
  /\ detection.inVariant \in [1..VariantCount -> SUBSET MatchesOf]
  /\ detection.blocked \in BOOLEAN /\ detection.model \in BOOLEAN
  /\ results \in Seq(DetectorResults)
  /\ seenMatches \subseteq MatchKeys
  /\ summary \in [total : Nat, blocked : BOOLEAN, returned : BOOLEAN]

(* A model that could not be loaded is none: there is no heuristic then. *)
DetectorInit ==
  /\ \E inVariant \in [1..VariantCount -> {s \in SUBSET MatchesOf : Cardinality(s) <= MaxMatchesOf}],
        model \in BOOLEAN :
       detection = [pc |-> "guard", next |-> 1, inVariant |-> inVariant, blocked |-> FALSE,
                    model |-> model]
  /\ results = <<>>
  /\ seenMatches = {}
  /\ summary = NoSummary

-----------------------------------------------------------------------------
(* The guard's threats, one for each match of PII, and its verdict. *)
ScanGuard ==
  /\ detection.pc = "guard"
  /\ \E pii \in 0..2, toxic, strict \in BOOLEAN :
       /\ results' = [i \in 1..pii |-> <<"guard", "pii">>]
                       \o (IF toxic THEN << <<"guard", "toxicity">> >> ELSE <<>>)
       /\ detection' = [detection EXCEPT !.pc = "ml",
            !.blocked = toxic \/ (strict /\ pii > 0)]
  /\ UNCHANGED <<seenMatches, summary>>

RunModel ==
  /\ detection.pc = "ml"
  /\ detection' = [detection EXCEPT !.pc = "variants"]
  /\ \/ detection.model /\ results' = Append(results, <<"ml", "ml_threat">>)
     \/ UNCHANGED results
  /\ UNCHANGED <<seenMatches, summary>>

(* DetectAll returns the matches by their position in the text. *)
AllOrders(s) == {seq \in [1..Cardinality(s) -> s] : ToSet(seq) = s}

KeyOf(m) == Shown(m)

(* Faulty variant: a match is known by its value alone. *)
KeyOfValue(m) == <<CHOOSE c \in MatchCategories : TRUE, Shown(m)[2]>>

MatchKey(m) == KeyOf(m)

(* The loop over the matches of a variant, in which every key is reported once. *)
Report(matches) ==
  LET upTo[i \in 0..Len(matches)] ==
        IF i = 0 THEN [seen |-> seenMatches, results |-> results]
        ELSE IF MatchKey(matches[i]) \in upTo[i - 1].seen THEN upTo[i - 1]
        ELSE [seen |-> upTo[i - 1].seen \union {MatchKey(matches[i])},
              results |-> Append(upTo[i - 1].results, <<"detectors", Shown(matches[i])>>)]
  IN upTo[Len(matches)]

ScanVariant ==
  /\ detection.pc = "variants"
  /\ detection.next <= VariantCount
  /\ \E matches \in AllOrders(detection.inVariant[detection.next]) :
       /\ results' = Report(matches).results
       /\ seenMatches' = Report(matches).seen
  /\ detection' = [detection EXCEPT !.next = @ + 1]
  /\ UNCHANGED summary

(* Only the guard's verdict blocks, not what the model or the detectors found. *)
ReturnSummary ==
  /\ detection.pc = "variants"
  /\ detection.next > VariantCount
  /\ detection' = [detection EXCEPT !.pc = "done"]
  /\ summary' = [total |-> Len(results), blocked |-> detection.blocked, returned |-> TRUE]
  /\ UNCHANGED <<results, seenMatches>>

DetectorNext == ScanGuard \/ RunModel \/ ScanVariant \/ ReturnSummary

DetectorSpec == DetectorInit /\ [][DetectorNext]_detectorVars

-----------------------------------------------------------------------------
(* The summary reports everything the detectors found, in whichever variant and in how
   many of them, exactly once by category and value, and its total counts that and
   what the guard and the model found (detector.go:233, "deduplicate by
   Category:Value"). *)
EachFindingOnce ==
  summary.returned =>
    /\ \A i, j \in DOMAIN results :
         i # j /\ results[i][1] = "detectors" => results[i] # results[j]
    /\ \A v \in 1..VariantCount : \A m \in detection.inVariant[v] :
         <<"detectors", Shown(m)>> \in ToSet(results)
    /\ summary.total = Len(results)
=============================================================================
