-------------------------- MODULE DetectionProofs ---------------------------
(*************************************************************************)
(* Proofs about the components that detect: Detector, ThreatModel,       *)
(* ScoreCache, DriftMonitor, ResponseGuard, Redaction, which takes out   *)
(* what they find, LanguageServer, which shows it, and Normalize, which  *)
(* derives the variants of the text that they look at.                   *)
(*************************************************************************)
EXTENDS
  Detector, ThreatModel, ScoreCache, ResponseGuard, LanguageServer, DriftMonitor,
  Redaction, Normalize,
  SelectionProofs, FiniteSetTheorems

-----------------------------------------------------------------------------
(*************************************************************************)
(* Detector, for any categories, values and number of variants. The      *)
(* findings are those whose keys were seen; the loop over the matches    *)
(* keeps that, by induction over how far it has come.                    *)
(*************************************************************************)

Finding(key) == <<"detectors", key>>

(* The findings of the detectors are those whose keys were seen, once each. *)
OnceEach(reported, seen) ==
  /\ reported \in Seq(DetectorResults)
  /\ seen \subseteq MatchKeys
  /\ \A key \in MatchKeys : Occurs(reported, Finding(key)) <=> key \in seen
  /\ \A i, j \in 1..Len(reported) :
       i < j /\ reported[i][1] = "detectors" => reported[i] # reported[j]

DetectorInv ==
  /\ detection \in [pc : {"guard", "ml", "variants", "done"}, next : 1..VariantCount + 1,
                    inVariant : [1..VariantCount -> SUBSET MatchesOf],
                    blocked : BOOLEAN, model : BOOLEAN]
  /\ OnceEach(results, seenMatches)
  /\ detection.pc = "guard" => results = <<>>
  /\ detection.pc \in {"guard", "ml"} => detection.next = 1
  /\ \A v \in 1..detection.next - 1 : \A m \in detection.inVariant[v] : Shown(m) \in seenMatches
  /\ summary.returned \in BOOLEAN
  /\ summary.returned => /\ detection.pc = "done"
                         /\ detection.next = VariantCount + 1
                         /\ summary.total = Len(results)

-----------------------------------------------------------------------------
(* The loop over the matches *)

LEMMA KeyTypes ==
  /\ \A m \in MatchesOf : Shown(m) \in MatchKeys
  /\ \A key \in MatchKeys : Finding(key) \in DetectorResults
  /\ \A t \in GuardThreats : <<"guard", t>> \in DetectorResults
  /\ <<"ml", "ml_threat">> \in DetectorResults
  BY DEF MatchKeys, DetectorResults, Finding

(* One more result, which is none of the detectors'. *)
LEMMA OtherResult ==
  ASSUME NEW reported, NEW seen, OnceEach(reported, seen), NEW r \in DetectorResults,
         r[1] # "detectors"
  PROVE  OnceEach(Append(reported, r), seen)
<1> DEFINE t == Append(reported, r)
<1>1. /\ t \in Seq(DetectorResults) /\ Len(t) = Len(reported) + 1 /\ Len(reported) \in Nat
      /\ \A i \in 1..Len(reported) : t[i] = reported[i]
      /\ t[Len(reported) + 1] = r
  BY AppendProperties, LenProperties DEF OnceEach
<1>2. \A x : Occurs(t, x) <=> Occurs(reported, x) \/ x = r
  BY OccursAppend DEF OnceEach
<1> HIDE DEF t
<1>3. \A key : Finding(key) # r
  BY DEF Finding
<1>4. ASSUME NEW i \in 1..Len(t), NEW j \in 1..Len(t), i < j, t[i][1] = "detectors"
      PROVE  t[i] # t[j]
  <2>1. i \in 1..Len(reported) /\ t[i] = reported[i]
    BY <1>1, <1>4
  <2>2. CASE j = Len(reported) + 1
    BY <1>1, <1>4, <2>2
  <2>3. CASE j # Len(reported) + 1
    <3>1. j \in 1..Len(reported) /\ t[j] = reported[j]
      BY <1>1, <2>3
    <3> QED
      BY <1>4, <2>1, <3>1 DEF OnceEach
  <2> QED
    BY <2>2, <2>3
<1> QED
  BY <1>1, <1>2, <1>3, <1>4 DEF OnceEach, t

(* One more match, whose key is new. *)
LEMMA NewFinding ==
  ASSUME NEW reported, NEW seen, OnceEach(reported, seen), NEW key \in MatchKeys, key \notin seen
  PROVE  OnceEach(Append(reported, Finding(key)), seen \union {key})
<1> DEFINE r == Finding(key)
           t == Append(reported, r)
<1>1. r \in DetectorResults
  BY KeyTypes
<1>2. /\ t \in Seq(DetectorResults) /\ Len(t) = Len(reported) + 1 /\ Len(reported) \in Nat
      /\ \A i \in 1..Len(reported) : t[i] = reported[i]
      /\ t[Len(reported) + 1] = r
  BY <1>1, AppendProperties, LenProperties DEF OnceEach
<1>3. \A x : Occurs(t, x) <=> Occurs(reported, x) \/ x = r
  BY <1>1, OccursAppend DEF OnceEach
<1>4. \A k \in MatchKeys : Finding(k) = r <=> k = key
  BY DEF Finding
<1>5. ~Occurs(reported, r)
  BY DEF OnceEach
<1> HIDE DEF t, r
<1>6. ASSUME NEW i \in 1..Len(t), NEW j \in 1..Len(t), i < j, t[i][1] = "detectors"
      PROVE  t[i] # t[j]
  <2>1. i \in 1..Len(reported) /\ t[i] = reported[i]
    BY <1>2, <1>6
  <2>2. CASE j = Len(reported) + 1
    BY <1>2, <1>5, <2>1, <2>2 DEF Occurs
  <2>3. CASE j # Len(reported) + 1
    <3>1. j \in 1..Len(reported) /\ t[j] = reported[j]
      BY <1>2, <2>3
    <3> QED
      BY <1>6, <2>1, <3>1 DEF OnceEach
  <2> QED
    BY <2>2, <2>3
<1>7. seen \union {key} \subseteq MatchKeys
  BY DEF OnceEach
<1>8. \A k \in MatchKeys : Occurs(t, Finding(k)) <=> k \in seen \union {key}
  BY <1>3, <1>4 DEF OnceEach
<1> QED
  BY <1>2, <1>6, <1>7, <1>8 DEF OnceEach, t, r

(* How far the loop has come after n of the matches. *)
Reported(matches, n, g) ==
  g = [i \in 0..n |->
        IF i = 0 THEN [seen |-> seenMatches, results |-> results]
        ELSE IF MatchKey(matches[i]) \in g[i - 1].seen THEN g[i - 1]
        ELSE [seen |-> g[i - 1].seen \union {MatchKey(matches[i])},
              results |-> Append(g[i - 1].results, <<"detectors", Shown(matches[i])>>)]]

LEMMA ReportedExist == \A matches : \A n \in Nat : \E g : Reported(matches, n, g)
<1> SUFFICES ASSUME NEW matches PROVE \A n \in Nat : \E g : Reported(matches, n, g)
  OBVIOUS
<1> DEFINE N == {n \in Nat : \E g : Reported(matches, n, g)}
<1>1. 0 \in N
  <2>1. Reported(matches, 0, [i \in 0..0 |-> [seen |-> seenMatches, results |-> results]])
    BY DEF Reported
  <2> QED
    BY <2>1
<1>2. ASSUME NEW n \in Nat, n \in N PROVE n + 1 \in N
  <2>1. PICK g : Reported(matches, n, g)
    BY <1>2
  <2> DEFINE more(a, m) == IF MatchKey(m) \in a.seen THEN a
                           ELSE [seen |-> a.seen \union {MatchKey(m)},
                                 results |-> Append(a.results, <<"detectors", Shown(m)>>)]
  <2> HIDE DEF more
  <2> DEFINE h == [i \in 0..(n + 1) |-> IF i = n + 1 THEN more(g[n], matches[n + 1]) ELSE g[i]]
  <2>2. \A i \in 0..n : h[i] = g[i]
    OBVIOUS
  <2>3. h[n + 1] = more(g[n], matches[n + 1])
    OBVIOUS
  <2>4. g = [i \in 0..n |-> IF i = 0 THEN [seen |-> seenMatches, results |-> results]
                            ELSE more(g[i - 1], matches[i])]
    BY <2>1 DEF Reported, more
  <2>5. h = [i \in 0..(n + 1) |-> h[i]]
    OBVIOUS
  <2> HIDE DEF h
  <2>6. ASSUME NEW i \in 0..(n + 1)
        PROVE  h[i] = IF i = 0 THEN [seen |-> seenMatches, results |-> results]
                      ELSE more(h[i - 1], matches[i])
    <3>1. CASE i = n + 1
      <4>1. h[i - 1] = g[n] /\ i # 0
        BY <2>2, <3>1
      <4> QED
        BY <2>3, <3>1, <4>1
    <3>2. CASE i = 0
      BY <2>2, <2>4, <3>2
    <3>3. CASE i \in 1..n
      <4>1. h[i] = g[i] /\ h[i - 1] = g[i - 1] /\ i # 0 /\ i \in 0..n
        BY <2>2, <3>3
      <4> QED
        BY <2>4, <4>1
    <3> QED
      BY <3>1, <3>2, <3>3
  <2>7. h = [i \in 0..(n + 1) |-> IF i = 0 THEN [seen |-> seenMatches, results |-> results]
                                  ELSE more(h[i - 1], matches[i])]
    BY <2>5, <2>6
  <2>8. Reported(matches, n + 1, h)
    BY <2>7 DEF Reported, more
  <2> QED
    BY <2>8
<1> HIDE DEF N
<1>3. Nat \subseteq N
  BY <1>1, <1>2, Induction
<1> QED
  BY <1>3 DEF N

LEMMA ReportIsLast ==
  ASSUME NEW S, NEW matches \in Seq(S)
  PROVE  \E g : Reported(matches, Len(matches), g) /\ Report(matches) = g[Len(matches)]
<1> DEFINE g == CHOOSE g : Reported(matches, Len(matches), g)
<1>1. Reported(matches, Len(matches), g)
  BY ReportedExist, LenProperties
<1>2. Report(matches) = g[Len(matches)]
  BY DEF Report, Reported
<1> QED
  BY <1>1, <1>2

(* The loop reports every match, if it has not been seen. *)
LEMMA ReportsAll ==
  ASSUME OnceEach(results, seenMatches), NEW matches \in Seq(MatchesOf)
  PROVE  /\ OnceEach(Report(matches).results, Report(matches).seen)
         /\ seenMatches \subseteq Report(matches).seen
         /\ \A i \in 1..Len(matches) : Shown(matches[i]) \in Report(matches).seen
<1>1. PICK g : Reported(matches, Len(matches), g) /\ Report(matches) = g[Len(matches)]
  BY ReportIsLast
<1>2. Len(matches) \in Nat /\ \A i \in 1..Len(matches) : matches[i] \in MatchesOf
  BY LenProperties, ElementOfSeq
<1>3. \A i \in 0..Len(matches) :
        g[i] = IF i = 0 THEN [seen |-> seenMatches, results |-> results]
               ELSE IF Shown(matches[i]) \in g[i - 1].seen THEN g[i - 1]
               ELSE [seen |-> g[i - 1].seen \union {Shown(matches[i])},
                     results |-> Append(g[i - 1].results, Finding(Shown(matches[i])))]
  BY <1>1 DEF Reported, MatchKey, KeyOf, Finding
<1> DEFINE Good(i) == /\ OnceEach(g[i].results, g[i].seen)
                      /\ seenMatches \subseteq g[i].seen
                      /\ \A j \in 1..i : Shown(matches[j]) \in g[i].seen
           N == {i \in Nat : i <= Len(matches) => Good(i)}
<1>4. 0 \in N
  <2>1. 0 \in 0..Len(matches)
    BY <1>2
  <2>2. g[0] = [seen |-> seenMatches, results |-> results]
    BY <1>3, <2>1, Zenon
  <2>3. g[0].seen = seenMatches /\ g[0].results = results
    BY <2>2
  <2> QED
    BY <2>3
<1>5. ASSUME NEW i \in Nat, i \in N PROVE i + 1 \in N
  <2> SUFFICES ASSUME i + 1 <= Len(matches) PROVE Good(i + 1)
    OBVIOUS
  <2> DEFINE key == Shown(matches[i + 1])
  <2>1. /\ i + 1 \in 0..Len(matches) /\ i + 1 \in 1..Len(matches) /\ i + 1 # 0 /\ (i + 1) - 1 = i
        /\ i <= Len(matches)
    BY <1>2
  <2>2. Good(i)
    BY <1>5, <2>1
  <2>3. g[i + 1] = IF key \in g[i].seen THEN g[i]
                   ELSE [seen |-> g[i].seen \union {key},
                         results |-> Append(g[i].results, Finding(key))]
    BY <1>3, <2>1
  <2>4. key \in MatchKeys
    BY <1>2, <2>1, KeyTypes
  <2>5. \A j \in 1..i + 1 : j = i + 1 \/ j \in 1..i
    OBVIOUS
  <2> HIDE DEF Good
  <2>6. CASE key \in g[i].seen
    <3>1. g[i + 1] = g[i]
      BY <2>3, <2>6
    <3> QED
      BY <2>2, <2>5, <2>6, <3>1 DEF Good
  <2>7. CASE key \notin g[i].seen
    <3>1. /\ g[i + 1].seen = g[i].seen \union {key}
          /\ g[i + 1].results = Append(g[i].results, Finding(key))
      BY <2>3, <2>7
    <3>2. OnceEach(g[i].results, g[i].seen)
      BY <2>2 DEF Good
    <3> HIDE DEF key
    <3>3. OnceEach(g[i + 1].results, g[i + 1].seen)
      BY <2>4, <2>7, <3>1, <3>2, NewFinding
    <3>4. seenMatches \subseteq g[i + 1].seen
      BY <2>2, <3>1 DEF Good
    <3>5. \A j \in 1..i + 1 : Shown(matches[j]) \in g[i + 1].seen
      BY <2>2, <2>5, <3>1 DEF Good, key
    <3> QED
      BY <3>3, <3>4, <3>5 DEF Good
  <2> QED
    BY <2>6, <2>7
<1>6. Good(Len(matches))
  <2> HIDE DEF N
  <2>1. Nat \subseteq N
    BY <1>4, <1>5, Induction
  <2> QED
    BY <1>2, <2>1 DEF N
<1> QED
  BY <1>1, <1>6

-----------------------------------------------------------------------------
(* The invariant *)

LEMMA MatchesFinite == IsFiniteSet(MatchesOf)
  BY FS_Product, FindableFinite DEF MatchesOf

LEMMA NothingFound == OnceEach(<<>>, {})
<1>1. <<>> \in Seq(DetectorResults) /\ Len(<<>>) = 0
  BY EmptySeq
<1> QED
  BY <1>1 DEF OnceEach, Occurs

LEMMA DetectorStarts == DetectorInit => DetectorInv
<1> SUFFICES ASSUME DetectorInit PROVE DetectorInv
  OBVIOUS
<1>1. VariantCount \in Nat
  BY DetectorAssumption
<1>2. PICK inVariant \in [1..VariantCount -> SUBSET MatchesOf], model \in BOOLEAN :
        detection = [pc |-> "guard", next |-> 1, inVariant |-> inVariant, blocked |-> FALSE,
                     model |-> model]
  BY DEF DetectorInit
<1>3. detection \in [pc : {"guard", "ml", "variants", "done"}, next : 1..VariantCount + 1,
                     inVariant : [1..VariantCount -> SUBSET MatchesOf],
                     blocked : BOOLEAN, model : BOOLEAN]
  BY <1>1, <1>2
<1>4. summary.returned = FALSE
  BY DEF DetectorInit, NoSummary
<1>5. detection.pc = "guard" /\ detection.next = 1 /\ 1..detection.next - 1 = {}
  BY <1>2
<1>6. OnceEach(results, seenMatches) /\ results = <<>>
  BY NothingFound DEF DetectorInit
<1>7. summary.returned \in BOOLEAN
  BY <1>4, Zenon
<1> QED
  BY <1>3, <1>4, <1>5, <1>6, <1>7 DEF DetectorInv

LEMMA DetectorKeeps == DetectorInv /\ [DetectorNext]_detectorVars => DetectorInv'
<1> SUFFICES ASSUME DetectorInv, [DetectorNext]_detectorVars PROVE DetectorInv'
  OBVIOUS
<1>a. VariantCount \in Nat
  BY DetectorAssumption
<1>b. /\ detection \in [pc : {"guard", "ml", "variants", "done"}, next : 1..VariantCount + 1,
                        inVariant : [1..VariantCount -> SUBSET MatchesOf],
                        blocked : BOOLEAN, model : BOOLEAN]
      /\ OnceEach(results, seenMatches)
  BY DEF DetectorInv
<1>1. ASSUME ScanGuard PROVE DetectorInv'
  <2>1. PICK pii \in 0..2, toxic \in BOOLEAN, strict \in BOOLEAN :
          /\ results' = [i \in 1..pii |-> <<"guard", "pii">>]
                          \o (IF toxic THEN << <<"guard", "toxicity">> >> ELSE <<>>)
          /\ detection' = [detection EXCEPT !.pc = "ml", !.blocked = toxic \/ (strict /\ pii > 0)]
    BY <1>1 DEF ScanGuard
  <2>2. /\ detection.pc = "guard" /\ results = <<>> /\ detection.next = 1
        /\ UNCHANGED <<seenMatches, summary>> /\ ~summary.returned /\ summary.returned \in BOOLEAN
    BY <1>1 DEF ScanGuard, DetectorInv
  <2> DEFINE a == [i \in 1..pii |-> <<"guard", "pii">>]
             b == IF toxic THEN << <<"guard", "toxicity">> >> ELSE <<>>
             G == {<<"guard", t>> : t \in GuardThreats}
  <2>3. a \in Seq(G) /\ b \in Seq(G)
    <3>1. <<"guard", "pii">> \in G /\ <<"guard", "toxicity">> \in G
      BY DEF GuardThreats
    <3>2. a \in [1..pii -> G]
      BY <3>1
    <3>3. << <<"guard", "toxicity">> >> \in Seq(G) /\ <<>> \in Seq(G)
      <4> DEFINE x == <<"guard", "toxicity">>
      <4>1. x \in G
        BY <3>1
      <4> HIDE DEF x, G
      <4>2. <<x>> \in Seq(G) /\ <<>> \in Seq(G)
        BY <4>1
      <4> QED
        BY <4>2 DEF x
    <3>4. a \in Seq(G)
      <4>1. pii \in Nat
        OBVIOUS
      <4> HIDE DEF a, G
      <4> QED
        BY <3>2, <4>1, FunctionIsSeq
    <3>5. b \in Seq(G)
      <4> HIDE DEF G
      <4> QED
        BY <3>3
    <3> QED
      BY <3>4, <3>5
  <2>4. results' \in Seq(G)
    <3> HIDE DEF G
    <3>1. a \o b \in Seq(G)
      BY <2>3, ConcatProperties
    <3> QED
      BY <2>1, <3>1
  <2>5. /\ G \subseteq DetectorResults
        /\ \A r \in G : r[1] = "guard" /\ \A key : r # Finding(key)
    BY DEF DetectorResults, Finding
  <2> HIDE DEF G, a, b
  <2>6. results' \in Seq(DetectorResults) /\ \A i \in 1..Len(results') : results'[i] \in G
    <3>1. \A i \in 1..Len(results') : results'[i] \in G
      BY <2>4, ElementOfSeq
    <3> QED
      BY <2>4, <2>5, <3>1
  <2>7. seenMatches = {}
    <3>1. \A key \in MatchKeys : ~Occurs(<<>>, Finding(key))
      BY EmptySeq DEF Occurs
    <3> QED
      BY <1>b, <2>2, <3>1 DEF OnceEach
  <2>8. OnceEach(results', seenMatches')
    BY <2>2, <2>5, <2>6, <2>7 DEF OnceEach, Occurs
  <2>9. /\ detection' \in [pc : {"guard", "ml", "variants", "done"}, next : 1..VariantCount + 1,
                           inVariant : [1..VariantCount -> SUBSET MatchesOf],
                           blocked : BOOLEAN, model : BOOLEAN]
        /\ detection'.pc = "ml" /\ detection'.next = 1
    BY <1>b, <2>1, <2>2
  <2> QED
    BY <2>2, <2>8, <2>9 DEF DetectorInv
<1>2. ASSUME RunModel PROVE DetectorInv'
  <2>1. /\ detection.pc = "ml" /\ detection' = [detection EXCEPT !.pc = "variants"]
        /\ results' = Append(results, <<"ml", "ml_threat">>) \/ results' = results
        /\ UNCHANGED <<seenMatches, summary>>
    BY <1>2 DEF RunModel
  <2>2. OnceEach(results', seenMatches')
    <3>1. <<"ml", "ml_threat">>[1] # "detectors"
      OBVIOUS
    <3>2. OnceEach(Append(results, <<"ml", "ml_threat">>), seenMatches)
      BY <1>b, <3>1, KeyTypes, OtherResult
    <3> QED
      BY <1>b, <2>1, <3>2
  <2>3. ~summary.returned /\ summary.returned \in BOOLEAN /\ detection.next = 1
    BY <2>1 DEF DetectorInv
  <2>4. /\ detection' \in [pc : {"guard", "ml", "variants", "done"}, next : 1..VariantCount + 1,
                           inVariant : [1..VariantCount -> SUBSET MatchesOf],
                           blocked : BOOLEAN, model : BOOLEAN]
        /\ detection'.pc = "variants" /\ detection'.next = 1
    BY <1>b, <2>1, <2>3
  <2> QED
    BY <2>1, <2>2, <2>3, <2>4 DEF DetectorInv
<1>3. ASSUME ScanVariant PROVE DetectorInv'
  <2>1. PICK matches \in AllOrders(detection.inVariant[detection.next]) :
          results' = Report(matches).results /\ seenMatches' = Report(matches).seen
    BY <1>3 DEF ScanVariant
  <2>2. /\ detection.pc = "variants" /\ detection.next <= VariantCount
        /\ detection' = [detection EXCEPT !.next = detection.next + 1] /\ UNCHANGED summary
    BY <1>3, <1>b DEF ScanVariant
  <2> DEFINE s == detection.inVariant[detection.next]
  <2>3. /\ s \subseteq MatchesOf /\ detection.next \in Nat /\ detection.next \in 1..VariantCount
    BY <1>a, <1>b, <2>2
  <2>4. Cardinality(s) \in Nat
    BY <2>3, MatchesFinite, FS_Subset, FS_CardinalityType
  <2>5. matches \in [1..Cardinality(s) -> s] /\ ToSet(matches) = s
    BY <2>1 DEF AllOrders
  <2> HIDE DEF s
  <2>6. matches \in Seq(MatchesOf) /\ Len(matches) = Cardinality(s)
    BY <2>3, <2>4, <2>5, FunctionIsSeq
  <2>7. \A m \in s : \E i \in 1..Len(matches) : matches[i] = m
    BY <2>5, <2>6 DEF ToSet
  <2>8. /\ OnceEach(results', seenMatches')
        /\ seenMatches \subseteq seenMatches'
        /\ \A m \in s : Shown(m) \in seenMatches'
    BY <1>b, <2>1, <2>6, <2>7, ReportsAll
  <2>9. /\ detection' \in [pc : {"guard", "ml", "variants", "done"}, next : 1..VariantCount + 1,
                           inVariant : [1..VariantCount -> SUBSET MatchesOf],
                           blocked : BOOLEAN, model : BOOLEAN]
        /\ detection'.pc = "variants" /\ detection'.next = detection.next + 1
        /\ detection'.inVariant = detection.inVariant
    BY <1>a, <1>b, <2>2, <2>3
  <2>10. \A v \in 1..detection'.next - 1 : \A m \in detection'.inVariant[v] : Shown(m) \in seenMatches'
    <3> SUFFICES ASSUME NEW v \in 1..detection.next, NEW m \in detection.inVariant[v]
                 PROVE  Shown(m) \in seenMatches'
      BY <2>3, <2>9
    <3>1. CASE v = detection.next
      BY <2>8, <3>1 DEF s
    <3>2. CASE v # detection.next
      <4>1. v \in 1..detection.next - 1
        BY <2>3, <3>2
      <4> QED
        BY <2>8, <4>1 DEF DetectorInv
    <3> QED
      BY <3>1, <3>2
  <2>11. ~summary.returned /\ summary.returned \in BOOLEAN
    BY <2>2 DEF DetectorInv
  <2> QED
    BY <2>2, <2>8, <2>9, <2>10, <2>11 DEF DetectorInv
<1>4. ASSUME ReturnSummary PROVE DetectorInv'
  <2>1. /\ detection.pc = "variants" /\ detection.next > VariantCount
        /\ detection' = [detection EXCEPT !.pc = "done"]
        /\ summary'.total = Len(results) /\ summary'.returned = TRUE
        /\ UNCHANGED <<results, seenMatches>>
    BY <1>4 DEF ReturnSummary
  <2>2. detection.next = VariantCount + 1
    BY <1>a, <1>b, <2>1
  <2>3. /\ detection' \in [pc : {"guard", "ml", "variants", "done"}, next : 1..VariantCount + 1,
                           inVariant : [1..VariantCount -> SUBSET MatchesOf],
                           blocked : BOOLEAN, model : BOOLEAN]
        /\ detection'.pc = "done" /\ detection'.next = detection.next
        /\ detection'.inVariant = detection.inVariant
    BY <1>b, <2>1
  <2>4. summary'.returned \in BOOLEAN
    BY <2>1, Zenon
  <2> QED
    BY <1>b, <2>1, <2>2, <2>3, <2>4 DEF DetectorInv
<1>5. CASE UNCHANGED detectorVars
  BY <1>5 DEF detectorVars, DetectorInv
<1> QED
  BY <1>1, <1>2, <1>3, <1>4, <1>5 DEF DetectorNext

LEMMA ReportedOnce == DetectorInv => EachFindingOnce
<1> SUFFICES ASSUME DetectorInv, summary.returned PROVE
      /\ \A i, j \in DOMAIN results :
           i # j /\ results[i][1] = "detectors" => results[i] # results[j]
      /\ \A v \in 1..VariantCount : \A m \in detection.inVariant[v] :
           <<"detectors", Shown(m)>> \in ToSet(results)
      /\ summary.total = Len(results)
  BY DEF EachFindingOnce
<1>1. /\ OnceEach(results, seenMatches) /\ detection.next = VariantCount + 1
      /\ summary.total = Len(results) /\ VariantCount \in Nat
      /\ detection.inVariant \in [1..VariantCount -> SUBSET MatchesOf]
  BY DetectorAssumption DEF DetectorInv
<1>2. DOMAIN results = 1..Len(results) /\ Len(results) \in Nat
  BY <1>1, LenProperties DEF OnceEach
<1>3. ASSUME NEW i \in DOMAIN results, NEW j \in DOMAIN results, i # j,
             results[i][1] = "detectors", results[i] = results[j]
      PROVE  FALSE
  <2>1. CASE i < j
    BY <1>1, <1>2, <1>3, <2>1 DEF OnceEach
  <2>2. CASE j < i
    BY <1>1, <1>2, <1>3, <2>2 DEF OnceEach
  <2> QED
    BY <1>2, <1>3, <2>1, <2>2
<1>4. ASSUME NEW v \in 1..VariantCount, NEW m \in detection.inVariant[v]
      PROVE  <<"detectors", Shown(m)>> \in ToSet(results)
  <2>1. Shown(m) \in seenMatches /\ Shown(m) \in MatchKeys
    <3>1. v \in 1..detection.next - 1 /\ m \in MatchesOf
      BY <1>1
    <3> QED
      BY <3>1, KeyTypes DEF DetectorInv
  <2>2. Occurs(results, Finding(Shown(m)))
    BY <1>1, <2>1 DEF OnceEach
  <2> QED
    BY <1>2, <2>2 DEF Occurs, Finding, ToSet
<1> QED
  BY <1>1, <1>3, <1>4

(* The summary of a detection has every finding of the detectors, in whichever of
   the variants and in whatever order they are found, exactly once
   (detector.go, DetectWithContext). *)
THEOREM FindingsReportedOnce == DetectorSpec => []EachFindingOnce
BY ReportedOnce, DetectorStarts, DetectorKeeps, PTL DEF DetectorSpec

-----------------------------------------------------------------------------
(*************************************************************************)
(* ThreatModel, for any callers. A caller alone holds the tensors from   *)
(* the copy to the reading of the score; the log of the shadow model     *)
(* only grows.                                                           *)
(*************************************************************************)

(* A caller that nobody shared the tensors with infers alone, its text is in the
   input tensor once it has been copied, and in the output tensor once the
   session has run. *)
Unshared(c) ==
  /\ c \in Inferring => Inferring = {c}
  /\ call[c].pc = "run" => inputTensor = c
  /\ call[c].pc = "read" => outputTensor = c
  /\ call[c].pc \in {"log", "done"} => call[c].score \in {c, "heuristic"}

TensorInv == ModelTypeOK /\ \A c \in Callers \ shared : Unshared(c)

(* How often a prediction is in the buffer and the file together. *)
Logged(c) == Occurrences(shadowLog, c) + Occurrences(shadowFile, c)

(* The end of its line in the file was written. *)
WholeInFile(c) == \E i \in DOMAIN shadowFile : shadowFile[i] = c /\ i \notin torn

(* A prediction is in the buffer at most once, so that a flush that fails writes
   it at most once more; it leaves the buffer only when its line is whole. *)
LoggedWell(c) ==
  IF call[c].pc # "done" THEN Logged(c) = 0
  ELSE /\ Logged(c) \in 1..1 + failures
       /\ Occurrences(shadowLog, c) <= 1
       /\ InBuffer(c) \/ WholeInFile(c)

ShadowInv == ModelTypeOK /\ \A c \in Callers : LoggedWell(c)

-----------------------------------------------------------------------------
(* Types and tensors *)

LEMMA LongerFile ==
  ASSUME NEW S, NEW s \in Seq(S), NEW t \in Seq(S)
  PROVE  /\ s \o t \in Seq(S) /\ DOMAIN s \subseteq DOMAIN (s \o t)
         /\ \A i \in DOMAIN s : (s \o t)[i] = s[i]
         /\ \A j \in DOMAIN t :
              /\ j + Len(s) \in DOMAIN (s \o t)
              /\ (s \o t)[j + Len(s)] = t[j]
              /\ j + Len(s) \notin DOMAIN s
<1> DEFINE u == s \o t
<1>1. u \in Seq(S) /\ Len(u) = Len(s) + Len(t)
  BY ConcatProperties
<1>2. Len(s) \in Nat /\ Len(t) \in Nat
  BY LenProperties
<1>3. /\ \A i \in 1..Len(s) : u[i] = s[i]
      /\ \A i \in 1..Len(t) : u[i + Len(s)] = t[i]
  BY <1>2, ConcatProperties
<1>4. DOMAIN u = 1..Len(u) /\ DOMAIN s = 1..Len(s) /\ DOMAIN t = 1..Len(t)
  BY <1>1, LenProperties
<1> HIDE DEF u
<1>5. DOMAIN s \subseteq DOMAIN u
  BY <1>1, <1>2, <1>4
<1>6. \A j \in DOMAIN t : j + Len(s) \in DOMAIN u /\ j + Len(s) \notin DOMAIN s
  BY <1>1, <1>2, <1>4
<1> QED
  BY <1>1, <1>3, <1>4, <1>5, <1>6 DEF u

LEMMA ModelTypes == ModelTypeOK /\ [ModelNext]_modelVars => ModelTypeOK'
<1> SUFFICES ASSUME ModelTypeOK, [ModelNext]_modelVars PROVE ModelTypeOK'
  OBVIOUS
<1> USE DEF ModelTypeOK
<1>1. CASE LoadModel \/ CloseModel
  <2>1. loads' \in 0..MaxLoads
    BY <1>1, MaxLoadsAssumption DEF LoadModel, CloseModel
  <2> QED
    BY <1>1, <2>1 DEF LoadModel, CloseModel
<1>2. CASE FlushAll
  <2>1. shadowFile' \in Seq(Callers) /\ DOMAIN shadowFile \subseteq DOMAIN shadowFile'
    BY <1>2, LongerFile DEF FlushAll
  <2> QED
    BY <1>2, <2>1, EmptySeq DEF FlushAll
<1>3. CASE FlushFails
  <2>1. PICK n \in 0..Len(shadowLog) - 1, half \in {0, 1} :
          /\ shadowFile' = shadowFile \o SubSeq(shadowLog, 1, n + half)
          /\ torn' = torn \union {i \in DOMAIN shadowFile' : half = 1 /\ i = Len(shadowFile')}
          /\ shadowLog' = shadowLog
          /\ failures' = failures + (IF n + half > 0 THEN 1 ELSE 0)
          /\ failures' <= MaxFailures
    BY <1>3 DEF FlushFails, AfterFailure, KeptBuffer
  <2>2. n + half \in 0..Len(shadowLog) /\ n + half \in Nat
    BY <2>1, LenProperties
  <2>3. SubSeq(shadowLog, 1, n + half) \in Seq(Callers)
    BY <2>2, SubSeqProperties, ElementOfSeq
  <2>4. shadowFile' \in Seq(Callers) /\ DOMAIN shadowFile \subseteq DOMAIN shadowFile'
    BY <2>1, <2>3, LongerFile
  <2>5. failures' \in 0..MaxFailures
    BY <2>1, MaxLoadsAssumption
  <2>6. torn' \subseteq DOMAIN shadowFile'
    BY <2>1, <2>4
  <2> QED
    BY <1>3, <2>1, <2>4, <2>5, <2>6 DEF FlushFails
<1>4. ASSUME NEW c \in Callers,
             DetectHeuristic(c) \/ BeginCopy(c) \/ EndCopy(c) \/ RunSession(c) \/ RunFails(c) \/ ReadOutput(c)
      PROVE  ModelTypeOK'
  BY <1>4
     DEF DetectHeuristic, BeginCopy, EndCopy, RunSession, RunsSession, RunFails, ReadOutput, Set,
              Scores, AfterCopy, AfterRun, Inferring
<1>5. ASSUME NEW c \in Callers, LogShadowPrediction(c) PROVE ModelTypeOK'
  BY <1>5, AppendProperties DEF LogShadowPrediction, Set, Scores
<1>6. CASE UNCHANGED modelVars
  BY <1>6 DEF modelVars
<1> QED
  BY <1>1, <1>2, <1>3, <1>4, <1>5, <1>6 DEF ModelNext

LEMMA ModelStarts == ModelInit => ModelTypeOK
<1> SUFFICES ASSUME ModelInit PROVE ModelTypeOK
  OBVIOUS
<1>1. loads \in 0..MaxLoads /\ shadowLog \in Seq(Callers) /\ shadowFile \in Seq(Callers)
  BY EmptySeq, MaxLoadsAssumption DEF ModelInit
<1>2. call \in [Callers -> [pc : {"idle", "copy", "run", "read", "log", "done"}, score : Scores]]
  BY DEF ModelInit, Scores
<1>3. torn \subseteq DOMAIN shadowFile /\ failures \in 0..MaxFailures
  BY MaxLoadsAssumption DEF ModelInit
<1> QED
  BY <1>1, <1>2, <1>3 DEF ModelInit, ModelTypeOK

LEMMA TensorKeeps == TensorInv /\ [ModelNext]_modelVars => TensorInv'
<1> SUFFICES ASSUME TensorInv, [ModelNext]_modelVars PROVE TensorInv'
  OBVIOUS
<1>0. ModelTypeOK /\ ModelTypeOK'
  BY ModelTypes DEF TensorInv
<1>1. SUFFICES ASSUME NEW d \in Callers, d \notin shared' PROVE Unshared(d)'
  BY <1>0 DEF TensorInv
<1>2. d \notin shared => Unshared(d)
  BY DEF TensorInv
<1> USE DEF Unshared, Inferring, ModelTypeOK
<1>3. CASE LoadModel \/ CloseModel
  BY <1>0, <1>1, <1>2, <1>3 DEF LoadModel, CloseModel, Readers
<1>4. CASE FlushAll \/ FlushFails
  BY <1>0, <1>1, <1>2, <1>4 DEF FlushAll, FlushFails
<1>5. ASSUME NEW c \in Callers, DetectHeuristic(c) PROVE Unshared(d)'
  BY <1>0, <1>1, <1>2, <1>5 DEF DetectHeuristic, Set
<1>6. ASSUME NEW c \in Callers, BeginCopy(c) PROVE Unshared(d)'
  BY <1>0, <1>1, <1>2, <1>6 DEF BeginCopy, Set
<1>7. ASSUME NEW c \in Callers, EndCopy(c) PROVE Unshared(d)'
  BY <1>0, <1>1, <1>2, <1>7 DEF EndCopy, Set
<1>8. ASSUME NEW c \in Callers, RunSession(c) \/ RunFails(c) \/ ReadOutput(c) PROVE Unshared(d)'
  BY <1>0, <1>1, <1>2, <1>8
     DEF RunSession, RunsSession, RunFails, ReadOutput, Set, AfterCopy, AfterRun
<1>9. ASSUME NEW c \in Callers, LogShadowPrediction(c) PROVE Unshared(d)'
  BY <1>0, <1>1, <1>2, <1>9 DEF LogShadowPrediction, Set
<1>10. CASE UNCHANGED modelVars
  BY <1>0, <1>1, <1>2, <1>10 DEF modelVars
<1> QED
  BY <1>3, <1>4, <1>5, <1>6, <1>7, <1>8, <1>9, <1>10 DEF ModelNext

(* A request that infers alone gets the score of its own text, whatever is loaded,
   closed and run around it. *)
THEOREM LoneScoreHolds == ModelSpec => []LoneScore
<1>1. ModelInit => TensorInv
  <2> SUFFICES ASSUME ModelInit PROVE \A c \in Callers : Unshared(c)
    BY ModelStarts DEF TensorInv
  <2>1. \A c \in Callers : call[c].pc = "idle"
    BY DEF ModelInit
  <2> QED
    BY <2>1 DEF Unshared, Inferring
<1>2. TensorInv => LoneScore
  BY DEF TensorInv, Unshared, LoneScore
<1> QED
  BY <1>1, <1>2, TensorKeeps, PTL DEF ModelSpec

-----------------------------------------------------------------------------
(* The shadow log *)

Positions(seq, c) == {i \in DOMAIN seq : seq[i] = c}

LEMMA PositionsFinite ==
  ASSUME NEW S, NEW s \in Seq(S), NEW c
  PROVE  /\ Positions(s, c) \subseteq 1..Len(s)
         /\ IsFiniteSet(Positions(s, c))
         /\ Occurrences(s, c) = Cardinality(Positions(s, c))
         /\ Occurrences(s, c) \in Nat
<1>1. Positions(s, c) \subseteq 1..Len(s)
  BY LenProperties DEF Positions
<1>2. IsFiniteSet(Positions(s, c))
  <2>1. IsFiniteSet(1..Len(s))
    BY LenProperties, FS_Interval
  <2> QED
    BY <1>1, <2>1, FS_Subset
<1> QED
  BY <1>1, <1>2, FS_CardinalityType DEF Positions, Occurrences

LEMMA OccurrencesEmpty == \A c : Occurrences(<<>>, c) = 0
<1>1. \A c : {i \in DOMAIN <<>> : (<<>>)[i] = c} = {}
  OBVIOUS
<1> QED
  BY <1>1, FS_EmptySet DEF Occurrences

LEMMA OccurrencesAppend ==
  ASSUME NEW S, NEW s \in Seq(S), NEW x \in S, NEW c
  PROVE  Occurrences(Append(s, x), c) = Occurrences(s, c) + (IF x = c THEN 1 ELSE 0)
<1> DEFINE t == Append(s, x)
<1>1. /\ t \in Seq(S) /\ Len(t) = Len(s) + 1 /\ Len(s) \in Nat
      /\ DOMAIN t = 1..(Len(s) + 1) /\ DOMAIN s = 1..Len(s)
      /\ \A i \in 1..Len(s) : t[i] = s[i]
      /\ t[Len(s) + 1] = x
  BY AppendProperties, LenProperties
<1> HIDE DEF t
<1>2. Positions(t, c) = IF x = c THEN Positions(s, c) \union {Len(s) + 1} ELSE Positions(s, c)
  BY <1>1 DEF Positions
<1>3. Len(s) + 1 \notin Positions(s, c)
  BY <1>1 DEF Positions
<1>4. Cardinality(Positions(t, c)) = Cardinality(Positions(s, c)) + (IF x = c THEN 1 ELSE 0)
  <2>1. IsFiniteSet(Positions(s, c)) /\ Cardinality(Positions(s, c)) \in Nat
    BY PositionsFinite, FS_CardinalityType
  <2>2. CASE x = c
    BY <1>2, <1>3, <2>1, <2>2, FS_AddElement
  <2>3. CASE x # c
    BY <1>2, <2>1, <2>3
  <2> QED
    BY <2>2, <2>3
<1>5. Occurrences(t, c) = Cardinality(Positions(t, c)) /\ Occurrences(s, c) = Cardinality(Positions(s, c))
  BY DEF Positions, Occurrences
<1> QED
  BY <1>4, <1>5 DEF t

LEMMA OccurrencesConcat ==
  ASSUME NEW S, NEW s \in Seq(S), NEW t \in Seq(S), NEW c
  PROVE  Occurrences(s \o t, c) = Occurrences(s, c) + Occurrences(t, c)
<1> DEFINE u == s \o t
           shift == [i \in Positions(t, c) |-> i + Len(s)]
           moved == {shift[i] : i \in Positions(t, c)}
<1>1. /\ u \in Seq(S)
      /\ Len(s) \in Nat /\ Len(t) \in Nat
      /\ DOMAIN u = 1..(Len(s) + Len(t)) /\ DOMAIN s = 1..Len(s) /\ DOMAIN t = 1..Len(t)
      /\ \A i \in 1..Len(s) : u[i] = s[i]
      /\ \A i \in 1..Len(t) : u[i + Len(s)] = t[i]
  <2>1. u \in Seq(S) /\ Len(u) = Len(s) + Len(t)
    BY ConcatProperties
  <2>2. Len(s) \in Nat /\ Len(t) \in Nat
    BY LenProperties
  <2>3. /\ \A i \in 1..Len(s) : u[i] = s[i]
        /\ \A i \in 1..Len(t) : u[i + Len(s)] = t[i]
    BY <2>2, ConcatProperties
  <2> QED
    BY <2>1, <2>2, <2>3, LenProperties
<1> HIDE DEF u
<1>2. moved = {j \in Positions(u, c) : j > Len(s)}
  <2>1. ASSUME NEW j \in Positions(u, c), j > Len(s) PROVE j \in moved
    <3>1. j - Len(s) \in Positions(t, c) /\ (j - Len(s)) + Len(s) = j
      BY <1>1, <2>1 DEF Positions
    <3> QED
      BY <3>1
  <2>2. ASSUME NEW i \in Positions(t, c) PROVE shift[i] \in Positions(u, c) /\ shift[i] > Len(s)
    BY <1>1, <2>2 DEF Positions
  <2> QED
    BY <2>1, <2>2
<1>3. Positions(s, c) = {j \in Positions(u, c) : j <= Len(s)}
  BY <1>1 DEF Positions
<1>4. Positions(u, c) = Positions(s, c) \union moved /\ Positions(s, c) \intersect moved = {}
  <2>1. \A j \in Positions(u, c) : j \in Int /\ Len(s) \in Int
    BY <1>1 DEF Positions
  <2> HIDE DEF moved
  <2> QED
    BY <1>2, <1>3, <2>1
<1>5. shift \in Bijection(Positions(t, c), moved)
  <2>1. shift \in [Positions(t, c) -> moved]
    OBVIOUS
  <2>2. \A i, j \in Positions(t, c) : shift[i] = shift[j] => i = j
    BY <1>1 DEF Positions
  <2> QED
    BY <2>1, <2>2 DEF Bijection, Injection, Surjection, IsInjective
<1>6. IsFiniteSet(moved) /\ Cardinality(moved) = Cardinality(Positions(t, c))
  BY <1>5, PositionsFinite, FS_Bijection DEF ExistsBijection
<1> HIDE DEF moved
<1>7. Cardinality(Positions(u, c)) = Cardinality(Positions(s, c)) + Cardinality(Positions(t, c))
  <2>1. IsFiniteSet(Positions(s, c)) /\ IsFiniteSet(Positions(t, c))
    BY PositionsFinite
  <2>2. /\ Cardinality(Positions(s, c)) \in Nat
        /\ Cardinality(Positions(t, c)) \in Nat
        /\ Cardinality(Positions(s, c) \intersect moved) = 0
    BY <1>4, <2>1, FS_CardinalityType, FS_EmptySet
  <2>3. Cardinality(Positions(s, c) \union moved) =
          Cardinality(Positions(s, c)) + Cardinality(moved) - Cardinality(Positions(s, c) \intersect moved)
    BY <1>6, <2>1, FS_Union
  <2> QED
    BY <1>4, <1>6, <2>2, <2>3
<1> QED
  BY <1>7 DEF Positions, Occurrences, u

LEMMA OccurrencesPrefix ==
  ASSUME NEW S, NEW s \in Seq(S), NEW n \in 0..Len(s), NEW c
  PROVE  /\ SubSeq(s, 1, n) \in Seq(S)
         /\ Occurrences(SubSeq(s, 1, n), c) <= Occurrences(s, c)
         /\ n = 0 => Occurrences(SubSeq(s, 1, n), c) = 0
<1> DEFINE t == SubSeq(s, 1, n)
<1>1. /\ t \in Seq(S) /\ n \in Nat /\ Len(s) \in Nat
      /\ DOMAIN t = 1..n /\ DOMAIN s = 1..Len(s)
      /\ \A i \in 1..n : t[i] = s[i]
  <2>1. n \in Nat /\ Len(s) \in Nat /\ \A i \in 1..n : s[i] \in S
    BY LenProperties, ElementOfSeq
  <2>2. /\ t \in Seq(S) /\ Len(t) = (IF 1 <= n THEN n - 1 + 1 ELSE 0)
        /\ \A i \in 1..(n - 1 + 1) : t[i] = s[1 + i - 1]
    BY <2>1, SubSeqProperties
  <2> HIDE DEF t
  <2>3. Len(t) = n
    BY <2>1, <2>2
  <2> QED
    BY <2>1, <2>2, <2>3, LenProperties
<1> HIDE DEF t
<1>2. Positions(t, c) \subseteq Positions(s, c)
  BY <1>1 DEF Positions
<1>3. Occurrences(t, c) <= Occurrences(s, c)
  BY <1>1, <1>2, PositionsFinite, FS_Subset
<1>4. n = 0 => Occurrences(t, c) = 0
  <2>1. n = 0 => Positions(t, c) = {}
    BY <1>1 DEF Positions
  <2> QED
    BY <2>1, FS_EmptySet DEF Positions, Occurrences
<1> QED
  BY <1>1, <1>3, <1>4 DEF t

LEMMA InSeq ==
  ASSUME NEW S, NEW s \in Seq(S), NEW c
  PROVE  (c \in ToSet(s)) <=> \E i \in DOMAIN s : s[i] = c
BY DEF ToSet

LEMMA ShadowKeeps == ShadowInv /\ [ModelNext]_modelVars => ShadowInv'
<1> SUFFICES ASSUME ShadowInv, [ModelNext]_modelVars PROVE ShadowInv'
  OBVIOUS
<1>0. ModelTypeOK /\ ModelTypeOK'
  BY ModelTypes DEF ShadowInv
<1>1. SUFFICES ASSUME NEW d \in Callers PROVE LoggedWell(d)'
  BY <1>0 DEF ShadowInv
<1>2. LoggedWell(d)
  BY DEF ShadowInv
<1>3. /\ shadowLog \in Seq(Callers) /\ shadowFile \in Seq(Callers)
      /\ Occurrences(shadowLog, d) \in Nat /\ Occurrences(shadowFile, d) \in Nat
      /\ torn \subseteq DOMAIN shadowFile /\ failures \in Nat
  BY <1>0, PositionsFinite DEF ModelTypeOK
<1>4. CASE FlushAll
  <2>0. /\ shadowFile' = shadowFile \o shadowLog /\ shadowLog' = <<>>
        /\ UNCHANGED <<call, torn, failures>>
    BY <1>4 DEF FlushAll
  <2>1. Occurrences(shadowFile', d) = Occurrences(shadowFile, d) + Occurrences(shadowLog, d)
    BY <1>3, <2>0, OccurrencesConcat
  <2>2. Occurrences(shadowLog', d) = 0
    BY <2>0, OccurrencesEmpty
  <2>3. Logged(d)' = Logged(d)
    BY <1>3, <2>1, <2>2 DEF Logged
  <2>4. InBuffer(d) \/ WholeInFile(d) => WholeInFile(d)'
    <3>1. ASSUME WholeInFile(d) PROVE WholeInFile(d)'
      BY <1>3, <2>0, <3>1, LongerFile DEF WholeInFile
    <3>2. ASSUME InBuffer(d) PROVE WholeInFile(d)'
      <4>1. PICK j \in DOMAIN shadowLog : shadowLog[j] = d
        BY <1>3, <3>2, InSeq DEF InBuffer
      <4>2. /\ j + Len(shadowFile) \in DOMAIN shadowFile'
            /\ shadowFile'[j + Len(shadowFile)] = d
            /\ j + Len(shadowFile) \notin torn'
        BY <1>3, <2>0, <4>1, LongerFile
      <4> QED
        BY <4>2 DEF WholeInFile
    <3> QED
      BY <3>1, <3>2
  <2> QED
    BY <1>2, <2>0, <2>2, <2>3, <2>4 DEF LoggedWell
<1>5. CASE FlushFails
  <2>1. PICK n \in 0..Len(shadowLog) - 1, half \in {0, 1} :
          /\ shadowFile' = shadowFile \o SubSeq(shadowLog, 1, n + half)
          /\ torn' = torn \union {i \in DOMAIN shadowFile' : half = 1 /\ i = Len(shadowFile')}
          /\ shadowLog' = shadowLog
          /\ failures' = failures + (IF n + half > 0 THEN 1 ELSE 0)
    BY <1>5 DEF FlushFails, AfterFailure, KeptBuffer
  <2> DEFINE m == n + half
             written == SubSeq(shadowLog, 1, m)
  <2>2. m \in 0..Len(shadowLog) /\ m \in Nat
    BY <1>3, <2>1, LenProperties
  <2> HIDE DEF m
  <2>3. /\ written \in Seq(Callers)
        /\ Occurrences(written, d) <= Occurrences(shadowLog, d)
        /\ m = 0 => Occurrences(written, d) = 0
        /\ Occurrences(written, d) \in Nat
    BY <1>3, <2>2, OccurrencesPrefix, PositionsFinite
  <2>a. shadowFile' = shadowFile \o written
    BY <2>1 DEF m
  <2>b. failures' = failures + (IF m > 0 THEN 1 ELSE 0)
    BY <2>1 DEF m
  <2> HIDE DEF written
  <2>4. Occurrences(shadowFile', d) = Occurrences(shadowFile, d) + Occurrences(written, d)
    BY <1>3, <2>a, <2>3, OccurrencesConcat
  <2> DEFINE o == Occurrences(written, d)
  <2>5. /\ Logged(d)' = Logged(d) + o /\ o <= Logged(d) /\ Logged(d) \in Nat
        /\ o <= Occurrences(shadowLog, d) /\ Occurrences(shadowLog', d) = Occurrences(shadowLog, d)
    <3>1. Occurrences(shadowLog', d) = Occurrences(shadowLog, d)
      BY <2>1
    <3>2. /\ Logged(d) = Occurrences(shadowLog, d) + Occurrences(shadowFile, d)
          /\ Logged(d)' = Occurrences(shadowLog', d) + Occurrences(shadowFile', d)
      BY DEF Logged
    <3> QED
      BY <1>3, <2>3, <2>4, <3>1, <3>2
  <2>6. call' = call
    BY <1>5 DEF FlushFails
  <2>7. InBuffer(d)' = InBuffer(d)
    BY <2>1 DEF InBuffer
  <2>8. WholeInFile(d) => WholeInFile(d)'
    <3>1. SUFFICES ASSUME NEW i \in DOMAIN shadowFile, shadowFile[i] = d, i \notin torn
                   PROVE  WholeInFile(d)'
      BY DEF WholeInFile
    <3>2. i \in DOMAIN shadowFile' /\ shadowFile'[i] = d
      BY <1>3, <2>3, <2>a, <3>1, LongerFile
    <3>3. i \notin torn'
      <4>1. CASE half = 0
        BY <2>1, <3>1, <4>1
      <4>2. CASE half = 1
        <5>1. Len(shadowFile') = Len(shadowFile) + Len(written)
          BY <1>3, <2>3, <2>a, ConcatProperties
        <5>2. Len(written) = m /\ m > 0
          <6>1. \A j \in 1..m : shadowLog[j] \in Callers
            BY <1>3, <2>2, ElementOfSeq, LenProperties
          <6>2. Len(SubSeq(shadowLog, 1, m)) = (IF 1 <= m THEN m - 1 + 1 ELSE 0)
            BY <2>2, <6>1, SubSeqProperties
          <6>3. m > 0
            BY <2>1, <4>2 DEF m
          <6> QED
            BY <2>2, <6>2, <6>3 DEF written
        <5>3. i \in 1..Len(shadowFile) /\ Len(shadowFile) \in Nat
          BY <1>3, LenProperties
        <5> QED
          BY <2>1, <2>2, <3>1, <5>1, <5>2, <5>3
      <4> QED
        BY <4>1, <4>2
    <3> QED
      BY <3>2, <3>3 DEF WholeInFile
  <2>9. o \in Nat /\ (m = 0 => o = 0)
    BY <2>3
  <2> HIDE DEF o
  <2> QED
    <3>1. CASE call[d].pc # "done"
      BY <1>2, <2>5, <2>6, <2>9, <3>1 DEF LoggedWell
    <3>2. CASE call[d].pc = "done"
      <4>1. /\ Logged(d) \in 1..1 + failures /\ Occurrences(shadowLog, d) <= 1
            /\ InBuffer(d) \/ WholeInFile(d)
        BY <1>2, <3>2 DEF LoggedWell
      <4>2. Logged(d)' \in 1..1 + failures'
        BY <1>3, <2>2, <2>b, <2>5, <2>9, <4>1
      <4> QED
        BY <2>5, <2>6, <2>7, <2>8, <3>2, <4>1, <4>2 DEF LoggedWell
    <3> QED
      BY <3>1, <3>2
<1>6. ASSUME NEW c \in Callers, LogShadowPrediction(c) PROVE LoggedWell(d)'
  <2>1. Occurrences(shadowLog', d) = Occurrences(shadowLog, d) + (IF c = d THEN 1 ELSE 0)
    BY <1>3, <1>6, OccurrencesAppend DEF LogShadowPrediction
  <2>2. /\ UNCHANGED <<shadowFile, torn, failures>>
        /\ shadowLog' = Append(shadowLog, c)
        /\ call[c].pc = "log"
        /\ call'[c].pc = "done"
        /\ d # c => call'[d] = call[d]
    BY <1>0, <1>6 DEF LogShadowPrediction, Set, ModelTypeOK
  <2>3. Occurrences(shadowFile', d) = Occurrences(shadowFile, d)
    BY <2>2
  <2>4. /\ Logged(d) = Occurrences(shadowLog, d) + Occurrences(shadowFile, d)
        /\ Logged(d)' = Occurrences(shadowLog', d) + Occurrences(shadowFile', d)
    BY DEF Logged
  <2>5. WholeInFile(d)' = WholeInFile(d)
    BY <2>2 DEF WholeInFile
  <2>6. /\ c = d => InBuffer(d)'
        /\ InBuffer(d) => InBuffer(d)'
    <3>1. ToSet(shadowLog') = ToSet(shadowLog) \union {c}
      <4>1. /\ DOMAIN shadowLog = 1..Len(shadowLog) /\ Len(shadowLog) \in Nat
            /\ DOMAIN shadowLog' = 1..(Len(shadowLog) + 1)
            /\ \A i \in 1..Len(shadowLog) : shadowLog'[i] = shadowLog[i]
            /\ shadowLog'[Len(shadowLog) + 1] = c
        BY <1>3, <2>2, AppendProperties, LenProperties
      <4> QED
        BY <4>1 DEF ToSet
    <3> QED
      BY <3>1 DEF InBuffer
  <2>7. CASE c = d
    <3>1. Logged(d) = 0
      BY <1>2, <2>2, <2>7 DEF LoggedWell
    <3>2. Occurrences(shadowLog', d) = 1 /\ Logged(d)' = 1
      BY <1>3, <2>1, <2>3, <2>4, <2>7, <3>1
    <3> QED
      BY <1>3, <2>2, <2>6, <2>7, <3>2 DEF LoggedWell
  <2>8. CASE c # d
    <3>1. Occurrences(shadowLog', d) = Occurrences(shadowLog, d) /\ Logged(d)' = Logged(d)
      BY <1>3, <2>1, <2>3, <2>4, <2>8
    <3> QED
      BY <1>2, <2>2, <2>5, <2>6, <2>8, <3>1 DEF LoggedWell
  <2> QED
    BY <2>7, <2>8
<1>7. CASE UNCHANGED <<shadowLog, shadowFile, torn, failures>>
           /\ ((call'[d].pc = "done") <=> (call[d].pc = "done"))
  BY <1>2, <1>7 DEF LoggedWell, Logged, InBuffer, WholeInFile
<1>8. ASSUME NEW c \in Callers,
             DetectHeuristic(c) \/ BeginCopy(c) \/ EndCopy(c) \/ RunSession(c) \/ RunFails(c) \/ ReadOutput(c)
      PROVE  UNCHANGED <<shadowLog, shadowFile, torn, failures>>
             /\ ((call'[d].pc = "done") <=> (call[d].pc = "done"))
  BY <1>0, <1>8
     DEF DetectHeuristic, BeginCopy, EndCopy, RunSession, RunsSession, RunFails, ReadOutput,
                    Set, ModelTypeOK, AfterCopy, AfterRun
<1>9. CASE LoadModel \/ CloseModel \/ UNCHANGED modelVars
  BY <1>7, <1>9 DEF LoadModel, CloseModel, modelVars
<1> QED
  BY <1>4, <1>5, <1>6, <1>7, <1>8, <1>9 DEF ModelNext

(* However often flushes fail, and wherever they do, a prediction is in the buffer
   or its whole line is in the file, readable unless it is the one glued to a half
   line; and it is written once more for each flush that failed at most. *)
THEOREM ShadowLogStaysKept == ModelSpec => []ShadowLogKept
<1>1. ModelInit => ShadowInv
  <2> SUFFICES ASSUME ModelInit, NEW c \in Callers PROVE call[c].pc # "done" /\ Logged(c) = 0
    BY ModelStarts DEF ShadowInv, LoggedWell
  <2>1. Occurrences(shadowLog, c) = 0 /\ Occurrences(shadowFile, c) = 0
    BY OccurrencesEmpty DEF ModelInit
  <2> QED
    BY <2>1 DEF ModelInit, Logged
<1>2. ShadowInv => ShadowLogKept
  BY DEF ShadowInv, LoggedWell, WholeInFile, ShadowLogKept, Logged, ReadableLine, GluedLine
<1> QED
  BY <1>1, <1>2, ShadowKeeps, PTL DEF ModelSpec

-----------------------------------------------------------------------------
(*************************************************************************)
(* ScoreCache, for any keys, calls and capacity. The list is what the    *)
(* history of uses says, key by key: sorted by last use, full when a key *)
(* that was used is not in it.                                           *)
(*************************************************************************)

(* Where x is for the first time in a sequence. *)
FirstAt(seq, x) == CHOOSE i \in DOMAIN seq : seq[i] = x /\ \A j \in 1..i - 1 : seq[j] # x
FirstBefore(seq) == {p \in Keys \X Keys : FirstAt(seq, p[1]) < FirstAt(seq, p[2])}

(* A list of the keys that past, a history with the newest first, has used last. *)
MostRecent(list, past) ==
  /\ list \in Seq(Keys) /\ past \in Seq(Keys)
  /\ Len(list) <= capacity
  /\ Sorted(list, FirstBefore(past))
  /\ \A k \in Keys : Occurs(list, k) => Occurs(past, k)
  /\ \A k \in Keys : Occurs(past, k) /\ ~Occurs(list, k) =>
       /\ Len(list) = capacity
       /\ \A x \in Keys : Occurs(list, x) => FirstAt(past, x) < FirstAt(past, k)

(* A call that is idle has any key. *)
Call == [pc : {"idle", "miss", "put"}, key : {NoCall.key} \union Keys, score : Nat]

CacheInv ==
  /\ MostRecent(order, uses)
  /\ items \in [Keys -> Nat]
  /\ \A k \in Keys : Occurs(order, k) <=> items[k] # 0
  /\ variantSets \in Nat \ {0}
  /\ worker \in [Workers -> Call]
  /\ \A w \in Workers : /\ worker[w].pc \in {"miss", "put"} => worker[w].key \in Keys
                        /\ worker[w].pc = "put" => worker[w].score # 0

-----------------------------------------------------------------------------
(* First occurrences *)

LEMMA FirstIs ==
  ASSUME NEW S, NEW seq \in Seq(S), NEW x, NEW i \in 1..Len(seq),
         seq[i] = x, \A j \in 1..i - 1 : seq[j] # x
  PROVE  FirstAt(seq, x) = i
<1>1. DOMAIN seq = 1..Len(seq) /\ Len(seq) \in Nat
  BY LenProperties
<1>2. ASSUME NEW m \in 1..Len(seq), seq[m] = x, \A j \in 1..m - 1 : seq[j] # x PROVE m = i
  <2>1. ~(m < i)
    BY <1>2
  <2>2. ~(i < m)
    BY <1>2
  <2> QED
    BY <2>1, <2>2
<1> QED
  BY <1>1, <1>2 DEF FirstAt

LEMMA FirstExists ==
  ASSUME NEW S, NEW seq \in Seq(S), NEW x, Occurs(seq, x)
  PROVE  /\ FirstAt(seq, x) \in 1..Len(seq) /\ seq[FirstAt(seq, x)] = x
         /\ \A j \in 1..FirstAt(seq, x) - 1 : seq[j] # x
<1> DEFINE T == {i \in 1..Len(seq) : seq[i] = x}
<1>1. Len(seq) \in Nat
  BY LenProperties
<1>2. T \subseteq Nat /\ T # {}
  BY <1>1 DEF Occurs
<1>3. PICK i \in T : \A m \in T : i <= m
  BY <1>2, Least
<1>4. i \in 1..Len(seq) /\ seq[i] = x
  BY <1>3
<1>5. \A j \in 1..i - 1 : seq[j] # x
  <2> SUFFICES ASSUME NEW j \in 1..i - 1, seq[j] = x PROVE FALSE
    OBVIOUS
  <2>1. j \in T /\ j < i
    BY <1>1, <1>4
  <2> QED
    BY <1>1, <1>3, <1>4, <2>1
<1>6. FirstAt(seq, x) = i
  BY <1>4, <1>5, FirstIs
<1> QED
  BY <1>4, <1>5, <1>6

LEMMA Ahead ==
  ASSUME NEW S, NEW seq \in Seq(S), NEW k \in S
  PROVE  /\ <<k>> \o seq \in Seq(S) /\ Len(<<k>> \o seq) = Len(seq) + 1
         /\ (<<k>> \o seq)[1] = k
         /\ \A i \in 1..Len(seq) : (<<k>> \o seq)[i + 1] = seq[i]
         /\ \A i \in 2..Len(seq) + 1 : (<<k>> \o seq)[i] = seq[i - 1]
         /\ \A x : Occurs(<<k>> \o seq, x) <=> x = k \/ Occurs(seq, x)
<1> DEFINE t == <<k>> \o seq
<1>1. <<k>> \in Seq(S) /\ Len(<<k>>) = 1 /\ <<k>>[1] = k /\ Len(seq) \in Nat
  BY LenProperties
<1>2. t \in Seq(S) /\ Len(t) = Len(seq) + 1
  BY <1>1, ConcatProperties
<1>3. \A i \in 1..Len(seq) + 1 : t[i] = IF i <= 1 THEN <<k>>[i] ELSE seq[i - 1]
  BY <1>1, ConcatProperties
<1> HIDE DEF t
<1>4. t[1] = k /\ \A i \in 2..Len(seq) + 1 : t[i] = seq[i - 1]
  BY <1>1, <1>3
<1>5. \A i \in 1..Len(seq) : t[i + 1] = seq[i]
  <2> TAKE i \in 1..Len(seq)
  <2>1. i + 1 \in 2..Len(seq) + 1 /\ (i + 1) - 1 = i
    BY <1>1
  <2> QED
    BY <1>4, <2>1
<1>6. \A x : Occurs(t, x) <=> x = k \/ Occurs(seq, x)
  <2> TAKE x
  <2>1. ASSUME Occurs(t, x) PROVE x = k \/ Occurs(seq, x)
    <3>1. PICK i \in 1..Len(seq) + 1 : t[i] = x
      BY <1>2, <2>1 DEF Occurs
    <3>2. CASE i = 1
      BY <1>4, <3>1, <3>2
    <3>3. CASE i # 1
      <4>1. i - 1 \in 1..Len(seq) /\ i \in 2..Len(seq) + 1
        BY <1>1, <3>3
      <4> QED
        BY <1>4, <3>1, <4>1 DEF Occurs
    <3> QED
      BY <3>2, <3>3
  <2>2. ASSUME x = k PROVE Occurs(t, x)
    <3>1. 1 \in 1..Len(t)
      BY <1>1, <1>2
    <3> QED
      BY <1>4, <2>2, <3>1 DEF Occurs
  <2>3. ASSUME Occurs(seq, x) PROVE Occurs(t, x)
    <3>1. PICK i \in 1..Len(seq) : seq[i] = x
      BY <2>3 DEF Occurs
    <3>2. i + 1 \in 1..Len(t)
      BY <1>1, <1>2
    <3> QED
      BY <1>5, <3>1, <3>2 DEF Occurs
  <2> QED
    BY <2>1, <2>2, <2>3
<1> QED
  BY <1>2, <1>4, <1>5, <1>6 DEF t

(* A use comes first, and moves the others one back. *)
LEMMA FirstAhead ==
  ASSUME NEW S, NEW seq \in Seq(S), NEW k \in S
  PROVE  /\ FirstAt(<<k>> \o seq, k) = 1
         /\ \A x : x # k /\ Occurs(seq, x) => FirstAt(<<k>> \o seq, x) = FirstAt(seq, x) + 1
<1> DEFINE t == <<k>> \o seq
<1>1. /\ t \in Seq(S) /\ Len(t) = Len(seq) + 1 /\ Len(seq) \in Nat
      /\ t[1] = k /\ \A i \in 1..Len(seq) : t[i + 1] = seq[i]
      /\ \A i \in 2..Len(seq) + 1 : t[i] = seq[i - 1]
  BY Ahead, LenProperties
<1> HIDE DEF t
<1>2. FirstAt(t, k) = 1
  <2>1. 1 \in 1..Len(t) /\ \A j \in 1..1 - 1 : t[j] # k
    BY <1>1
  <2> QED
    BY <1>1, <2>1, FirstIs
<1>3. ASSUME NEW x, x # k, Occurs(seq, x) PROVE FirstAt(t, x) = FirstAt(seq, x) + 1
  <2> DEFINE n == FirstAt(seq, x)
  <2>1. n \in 1..Len(seq) /\ seq[n] = x /\ \A j \in 1..n - 1 : seq[j] # x
    BY <1>3, FirstExists
  <2> HIDE DEF n
  <2>2. n + 1 \in 1..Len(t) /\ t[n + 1] = x
    BY <1>1, <2>1
  <2>3. ASSUME NEW j \in 1..(n + 1) - 1 PROVE t[j] # x
    <3>1. CASE j = 1
      BY <1>1, <1>3, <3>1
    <3>2. CASE j # 1
      <4>1. j \in 2..Len(seq) + 1 /\ j - 1 \in 1..n - 1
        BY <1>1, <2>1, <3>2
      <4> QED
        BY <1>1, <2>1, <4>1
    <3> QED
      BY <3>1, <3>2
  <2> QED
    BY <1>1, <2>2, <2>3, FirstIs DEF n
<1> QED
  BY <1>2, <1>3 DEF t

-----------------------------------------------------------------------------
(* One use of the cache *)

LEMMA MostRecentDistinct ==
  ASSUME NEW list, NEW past, MostRecent(list, past)
  PROVE  Distinct(list)
<1>1. ASSUME NEW i \in 1..Len(list), NEW j \in 1..Len(list), i < j PROVE list[i] # list[j]
  <2>1. /\ list \in Seq(Keys) /\ past \in Seq(Keys)
        /\ <<list[i], list[j]>> \in FirstBefore(past)
    BY <1>1 DEF MostRecent, Sorted
  <2>2. list[i] \in Keys /\ Occurs(list, list[i])
    BY <2>1, ElementOfSeq DEF Occurs
  <2>3. FirstAt(past, list[i]) \in Nat
    <3>1. Occurs(past, list[i])
      BY <2>2 DEF MostRecent
    <3> QED
      BY <2>1, <3>1, FirstExists, LenProperties
  <2>4. FirstAt(past, list[i]) < FirstAt(past, list[j])
    BY <2>1 DEF FirstBefore
  <2> QED
    BY <2>3, <2>4
<1> QED
  BY <1>1 DEF Distinct

(* The list without its last element. *)
LEMMA WithoutLast ==
  ASSUME NEW S, NEW list \in Seq(S), Len(list) # 0, Distinct(list)
  PROVE  /\ Front(list) \in Seq(S) /\ Len(Front(list)) = Len(list) - 1
         /\ \A R : Sorted(list, R) => Sorted(Front(list), R)
         /\ \A x : Occurs(Front(list), x) <=> Occurs(list, x) /\ x # Last(list)
         /\ Distinct(Front(list))
<1>1. Len(list) \in Nat
  BY LenProperties
<1>2. /\ Front(list) \in Seq(S) /\ Len(Front(list)) = Len(list) - 1
      /\ \A i \in 1..Len(list) - 1 : Front(list)[i] = list[i]
  <2> DEFINE n == Len(list) - 1
             front == SubSeq(list, 1, n)
  <2>1. n \in Int /\ n >= 0 /\ \A i \in 1..n : i \in 1..Len(list)
    BY <1>1
  <2>2. \A i \in 1..n : list[i] \in S
    BY <2>1, ElementOfSeq
  <2>3. Front(list) = front
    BY DEF Front
  <2> HIDE DEF n
  <2>4. /\ front \in Seq(S)
        /\ Len(front) = IF 1 <= n THEN n - 1 + 1 ELSE 0
        /\ \A i \in 1..n - 1 + 1 : front[i] = list[1 + i - 1]
    BY <2>1, <2>2, SubSeqProperties
  <2> HIDE DEF front
  <2>5. Len(front) = n
    BY <2>1, <2>4
  <2>6. ASSUME NEW i \in 1..n PROVE front[i] = list[i]
    <3>1. i \in 1..n - 1 + 1 /\ 1 + i - 1 = i
      BY <2>1
    <3> QED
      BY <2>4, <3>1
  <2> QED
    BY <2>3, <2>4, <2>5, <2>6 DEF n
<1>3. \A i \in 1..Len(list) - 1 : i \in 1..Len(list) /\ i < Len(list)
  BY <1>1
<1>4. Len(list) \in 1..Len(list) /\ \A i \in 1..Len(list) : i = Len(list) \/ i \in 1..Len(list) - 1
  BY <1>1
<1>5. \A R : Sorted(list, R) => Sorted(Front(list), R)
  BY <1>2, <1>3 DEF Sorted
<1>6. \A x : Occurs(Front(list), x) <=> Occurs(list, x) /\ x # Last(list)
  <2>1. \A i \in 1..Len(list) - 1 : list[i] # Last(list)
    BY <1>3, <1>4 DEF Distinct, Last
  <2> QED
    BY <1>2, <1>3, <1>4, <2>1 DEF Occurs, Last
<1>7. Distinct(Front(list))
  BY <1>2, <1>3 DEF Distinct
<1> QED
  BY <1>2, <1>5, <1>6, <1>7

(* A key is used: it comes to the front of the list, from which the last goes if
   the list is full. *)
LEMMA UseKeeps ==
  ASSUME NEW list, NEW past, MostRecent(list, past), NEW k \in Keys, NEW kept,
         \/ kept = list /\ (Occurs(list, k) \/ Len(list) < capacity)
         \/ kept = Front(list) /\ ~Occurs(list, k) /\ Len(list) = capacity
  PROVE  /\ MostRecent(ToFront(kept, k), <<k>> \o past)
         /\ \A x : Occurs(ToFront(kept, k), x) <=> x = k \/ Occurs(kept, x)
<1> DEFINE rest == Select(kept, Keys \ {k})
           new == <<k>> \o rest
           uses2 == <<k>> \o past
<1>1. /\ list \in Seq(Keys) /\ past \in Seq(Keys) /\ Len(list) \in Nat /\ Len(list) <= capacity
      /\ Sorted(list, FirstBefore(past)) /\ Distinct(list)
      /\ capacity \in Nat /\ capacity # 0
  BY MostRecentDistinct, LenProperties, CapacityAssumption DEF MostRecent
<1>2. /\ kept \in Seq(Keys) /\ Sorted(kept, FirstBefore(past)) /\ Distinct(kept)
      /\ kept = list \/ (Len(list) = capacity /\ Len(kept) = Len(list) - 1)
      /\ \A x : Occurs(kept, x) => Occurs(list, x)
      /\ \A x : Occurs(list, x) /\ ~Occurs(kept, x) => x = Last(list) /\ Len(list) = capacity /\ kept # list
  <2>1. CASE kept = list
    <3>1. \A x : Occurs(kept, x) <=> Occurs(list, x)
      BY <2>1
    <3>2. kept \in Seq(Keys) /\ Sorted(kept, FirstBefore(past)) /\ Distinct(kept)
      BY <1>1, <2>1
    <3> QED
      BY <2>1, <3>1, <3>2
  <2>2. CASE kept = Front(list) /\ Len(list) = capacity /\ kept # list
    BY <1>1, <2>2, WithoutLast
  <2> QED
    BY <2>1, <2>2
<1>3. /\ rest \in Seq(Keys) /\ Sorted(rest, FirstBefore(past)) /\ Len(rest) \in Nat
      /\ Len(rest) = IF Occurs(kept, k) THEN Len(kept) - 1 ELSE Len(kept)
      /\ \A x : Occurs(rest, x) <=> Occurs(kept, x) /\ x \in Keys \ {k}
  <2>1. rest \in Seq(Keys) /\ Len(rest) \in Nat
    BY <1>2, SelectType, LenProperties
  <2>2. Sorted(rest, FirstBefore(past))
    BY <1>2, SelectSorted
  <2>3. Len(rest) = IF Occurs(kept, k) THEN Len(kept) - 1 ELSE Len(kept)
    BY <1>2, SelectAllBut
  <2>4. \A x : Occurs(rest, x) <=> Occurs(kept, x) /\ x \in Keys \ {k}
    BY <1>2, SelectElements
  <2> QED
    BY <2>1, <2>2, <2>3, <2>4
<1>4. ToFront(kept, k) = new
  BY DEF ToFront
<1>5. \A x : Occurs(kept, x) => x \in Keys
  BY <1>2, ElementOfSeq DEF Occurs
<1> HIDE DEF rest, new, uses2
<1>6. /\ new \in Seq(Keys) /\ Len(new) = Len(rest) + 1 /\ new[1] = k
      /\ \A i \in 1..Len(rest) : new[i + 1] = rest[i]
      /\ \A i \in 2..Len(rest) + 1 : new[i] = rest[i - 1]
      /\ \A x : Occurs(new, x) <=> x = k \/ Occurs(rest, x)
  BY <1>3, Ahead DEF new
<1>7. /\ uses2 \in Seq(Keys)
      /\ \A x : Occurs(uses2, x) <=> x = k \/ Occurs(past, x)
  BY <1>1, Ahead DEF uses2
<1>8. /\ FirstAt(uses2, k) = 1
      /\ \A x : x # k /\ Occurs(past, x) => FirstAt(uses2, x) = FirstAt(past, x) + 1
  BY <1>1, FirstAhead DEF uses2
<1>9. \A x : Occurs(new, x) <=> x = k \/ Occurs(kept, x)
  BY <1>3, <1>5, <1>6
<1>10. \A x \in Keys : Occurs(list, x) => Occurs(past, x)
  BY DEF MostRecent
<1>11. \A x : Occurs(past, x) => FirstAt(past, x) \in Nat /\ FirstAt(past, x) >= 1
  <2> SUFFICES ASSUME NEW x, Occurs(past, x)
               PROVE  FirstAt(past, x) \in Nat /\ FirstAt(past, x) >= 1
    OBVIOUS
  <2>1. FirstAt(past, x) \in 1..Len(past) /\ Len(past) \in Nat
    BY <1>1, FirstExists, LenProperties
  <2> QED
    BY <2>1
<1>12. Len(new) <= capacity /\ (Len(list) = capacity => Len(new) = capacity)
  <2>1. CASE kept = list /\ Occurs(list, k)
    <3>1. Len(rest) = Len(list) - 1
      BY <1>3, <2>1
    <3> QED
      BY <1>1, <1>6, <3>1
  <2>2. CASE kept = list /\ ~Occurs(list, k) /\ Len(list) < capacity
    <3>1. Len(rest) = Len(list)
      BY <1>3, <2>2
    <3> QED
      BY <1>1, <1>6, <2>2, <3>1
  <2>3. CASE kept = Front(list) /\ ~Occurs(list, k) /\ Len(list) = capacity
    <3>1. Len(rest) = Len(list) - 1
      BY <1>1, <1>2, <1>3, <2>3, WithoutLast
    <3> QED
      BY <1>1, <1>6, <3>1
  <2> QED
    BY <2>1, <2>2, <2>3
<1>13. Sorted(new, FirstBefore(uses2))
  <2> SUFFICES ASSUME NEW i \in 1..Len(new), NEW j \in 1..Len(new), i < j
               PROVE  <<new[i], new[j]>> \in FirstBefore(uses2)
    BY DEF Sorted
  <2>1. j \in 2..Len(rest) + 1 /\ j - 1 \in 1..Len(rest) /\ new[j] = rest[j - 1]
    BY <1>3, <1>6
  <2>2. Occurs(rest, new[j]) /\ new[j] # k /\ new[j] \in Keys
    <3>1. Occurs(rest, new[j])
      BY <2>1 DEF Occurs
    <3> QED
      BY <1>3, <3>1
  <2>3. Occurs(past, new[j])
    BY <1>2, <1>3, <1>10, <2>2
  <2>4. FirstAt(uses2, new[j]) = FirstAt(past, new[j]) + 1 /\ FirstAt(past, new[j]) \in Nat
        /\ FirstAt(past, new[j]) >= 1
    BY <1>8, <1>11, <2>2, <2>3
  <2>5. CASE i = 1
    <3>1. new[i] = k /\ FirstAt(uses2, new[i]) < FirstAt(uses2, new[j])
      BY <1>6, <1>8, <2>4, <2>5
    <3> QED
      BY <2>2, <3>1 DEF FirstBefore
  <2>6. CASE i # 1
    <3>1. i \in 2..Len(rest) + 1 /\ i - 1 \in 1..Len(rest) /\ new[i] = rest[i - 1] /\ i - 1 < j - 1
      BY <1>3, <1>6, <2>6
    <3>2. Occurs(rest, new[i])
      BY <3>1 DEF Occurs
    <3>3. new[i] # k /\ new[i] \in Keys /\ Occurs(past, new[i])
      BY <1>2, <1>3, <1>10, <3>2
    <3>4. FirstAt(uses2, new[i]) = FirstAt(past, new[i]) + 1 /\ FirstAt(past, new[i]) \in Nat
      BY <1>8, <1>11, <3>3
    <3>5. FirstAt(past, new[i]) < FirstAt(past, new[j])
      <4>1. <<rest[i - 1], rest[j - 1]>> \in FirstBefore(past)
        BY <1>3, <2>1, <3>1 DEF Sorted
      <4> QED
        BY <2>1, <3>1, <4>1 DEF FirstBefore
    <3>6. FirstAt(uses2, new[i]) < FirstAt(uses2, new[j])
      BY <2>4, <3>4, <3>5
    <3> QED
      BY <2>2, <3>3, <3>6 DEF FirstBefore
  <2> QED
    BY <2>5, <2>6
<1>14. \A x \in Keys : Occurs(new, x) => Occurs(uses2, x)
  BY <1>2, <1>7, <1>9, <1>10
<1>15. ASSUME NEW y \in Keys, Occurs(uses2, y), ~Occurs(new, y)
       PROVE  /\ Len(new) = capacity
              /\ \A x \in Keys : Occurs(new, x) => FirstAt(uses2, x) < FirstAt(uses2, y)
  <2>1. y # k /\ Occurs(past, y) /\ ~Occurs(kept, y)
    BY <1>7, <1>9, <1>15
  <2>2. /\ Len(list) = capacity
        /\ \A x \in Keys : Occurs(kept, x) => FirstAt(past, x) < FirstAt(past, y)
    <3>1. CASE ~Occurs(list, y)
      BY <1>2, <2>1, <3>1 DEF MostRecent
    <3>2. CASE Occurs(list, y)
      <4>1. y = Last(list) /\ Len(list) = capacity /\ kept # list /\ kept = Front(list)
        BY <1>2, <2>1, <3>2
      <4>2. ASSUME NEW x \in Keys, Occurs(kept, x)
            PROVE  FirstAt(past, x) < FirstAt(past, y)
        <5>1. Occurs(list, x) /\ x # Last(list)
          BY <1>1, <4>1, <4>2, WithoutLast
        <5>2. PICK i \in 1..Len(list) : list[i] = x
          BY <5>1 DEF Occurs
        <5>3. i < Len(list) /\ Len(list) \in 1..Len(list) /\ list[Len(list)] = y
          BY <1>1, <4>1, <5>1, <5>2 DEF Last
        <5>4. <<x, y>> \in FirstBefore(past)
          BY <1>1, <5>2, <5>3 DEF Sorted
        <5> QED
          BY <5>4 DEF FirstBefore
      <4> QED
        BY <4>1, <4>2
    <3> QED
      BY <3>1, <3>2
  <2>3. FirstAt(uses2, y) = FirstAt(past, y) + 1 /\ FirstAt(past, y) \in Nat /\ FirstAt(past, y) >= 1
    BY <1>8, <1>11, <2>1
  <2>4. ASSUME NEW x \in Keys, Occurs(new, x) PROVE FirstAt(uses2, x) < FirstAt(uses2, y)
    <3>1. CASE x = k
      BY <1>8, <2>3, <3>1
    <3>2. CASE x # k
      <4>1. Occurs(kept, x) /\ Occurs(past, x)
        BY <1>2, <1>9, <1>10, <2>4, <3>2
      <4>2. FirstAt(uses2, x) = FirstAt(past, x) + 1 /\ FirstAt(past, x) \in Nat
        BY <1>8, <1>11, <3>2, <4>1
      <4>3. FirstAt(past, x) < FirstAt(past, y)
        BY <2>2, <4>1
      <4> QED
        BY <2>3, <4>2, <4>3
    <3> QED
      BY <3>1, <3>2
  <2> QED
    BY <1>12, <2>2, <2>4
<1>16. MostRecent(new, uses2)
  BY <1>6, <1>7, <1>12, <1>13, <1>14, <1>15 DEF MostRecent
<1> QED
  BY <1>4, <1>9, <1>16 DEF uses2

-----------------------------------------------------------------------------
(* The invariant *)

LEMMA ItsElements ==
  ASSUME NEW S, NEW seq \in Seq(S)
  PROVE  \A x : x \in ToSet(seq) <=> Occurs(seq, x)
<1>1. DOMAIN seq = 1..Len(seq)
  BY LenProperties
<1> QED
  BY <1>1 DEF ToSet, Occurs

LEMMA InvGivesProperty == CacheInv => RecentlyUsedCached
<1> SUFFICES ASSUME CacheInv PROVE RecentlyUsedCached
  OBVIOUS
<1>1. /\ order \in Seq(Keys) /\ uses \in Seq(Keys) /\ Len(order) <= capacity
      /\ Sorted(order, FirstBefore(uses))
  BY DEF CacheInv, MostRecent
<1>2. DOMAIN order = 1..Len(order)
  BY <1>1, LenProperties
<1>3. \A k : LastUse(k) = FirstAt(uses, k)
  BY DEF LastUse, FirstAt
<1>4. \A k : (WasUsed(k) <=> Occurs(uses, k)) /\ (k \in ToSet(order) <=> Occurs(order, k))
  BY <1>1, ItsElements DEF WasUsed
<1>5. \A i \in DOMAIN order : order[i] \in Keys /\ Occurs(order, order[i])
  BY <1>1, <1>2, ElementOfSeq DEF Occurs
<1>6. \A i, j \in DOMAIN order : i < j => LastUse(order[i]) < LastUse(order[j])
  <2> SUFFICES ASSUME NEW i \in DOMAIN order, NEW j \in DOMAIN order, i < j
               PROVE  LastUse(order[i]) < LastUse(order[j])
    OBVIOUS
  <2>1. <<order[i], order[j]>> \in FirstBefore(uses)
    BY <1>1, <1>2 DEF Sorted
  <2> QED
    BY <1>3, <2>1 DEF FirstBefore
<1>7. ASSUME NEW k \in Keys, WasUsed(k), k \notin ToSet(order)
      PROVE  /\ Len(order) = capacity
             /\ \A i \in DOMAIN order : LastUse(order[i]) < LastUse(k)
  <2>1. /\ Len(order) = capacity
        /\ \A x \in Keys : Occurs(order, x) => FirstAt(uses, x) < FirstAt(uses, k)
    BY <1>4, <1>7 DEF CacheInv, MostRecent
  <2> QED
    BY <1>3, <1>5, <2>1
<1>8. \A i \in DOMAIN order : WasUsed(order[i])
  BY <1>4, <1>5 DEF CacheInv, MostRecent
<1>9. ToSet(order) = {k \in Keys : items[k] # 0}
  <2>1. \A k \in Keys : Occurs(order, k) <=> items[k] # 0
    BY DEF CacheInv
  <2>2. \A k : Occurs(order, k) => k \in Keys
    BY <1>1, ElementOfSeq DEF Occurs
  <2> QED
    BY <1>4, <2>1, <2>2
<1> QED
  BY <1>1, <1>6, <1>7, <1>8, <1>9 DEF RecentlyUsedCached

LEMMA EmptyCache == MostRecent(<<>>, <<>>) /\ \A k : ~Occurs(<<>>, k)
<1>1. <<>> \in Seq(Keys) /\ Len(<<>>) = 0
  BY EmptySeq
<1> QED
  BY <1>1, CapacityAssumption DEF MostRecent, Sorted, Occurs

LEMMA CacheStarts == CacheInit => CacheInv
<1> SUFFICES ASSUME CacheInit PROVE CacheInv
  OBVIOUS
<1>1. worker \in [Workers -> Call] /\ \A w \in Workers : worker[w].pc = "idle"
  BY DEF CacheInit, Call, NoCall
<1>2. items \in [Keys -> Nat] /\ \A k \in Keys : items[k] = 0
  BY DEF CacheInit
<1>3. MostRecent(order, uses) /\ \A k : ~Occurs(order, k)
  BY EmptyCache DEF CacheInit
<1> QED
  BY <1>1, <1>2, <1>3 DEF CacheInit, CacheInv

LEMMA CacheKeeps == CacheInv /\ [CacheNext]_cacheVars => CacheInv'
<1> SUFFICES ASSUME CacheInv, [CacheNext]_cacheVars PROVE CacheInv'
  OBVIOUS
<1>a. /\ MostRecent(order, uses) /\ items \in [Keys -> Nat]
      /\ \A k \in Keys : Occurs(order, k) <=> items[k] # 0
      /\ variantSets \in Nat \ {0} /\ worker \in [Workers -> Call]
  BY DEF CacheInv
<1>1. ASSUME NEW w \in Workers, NEW k \in Keys, Hit(w, k) PROVE CacheInv'
  <2>1. order' = ToFront(order, k) /\ uses' = <<k>> \o uses
    BY <1>1 DEF Hit, MovedToFront, Touched
  <2>2. Occurs(order, k) /\ UNCHANGED <<items, variantSets, worker>>
    BY <1>1, <1>a DEF Hit
  <2>3. /\ MostRecent(ToFront(order, k), <<k>> \o uses)
        /\ \A x : Occurs(ToFront(order, k), x) <=> x = k \/ Occurs(order, x)
    BY <1>a, <2>2, UseKeeps
  <2>4. /\ MostRecent(order', uses')
        /\ \A x : Occurs(order', x) <=> x = k \/ Occurs(order, x)
    BY <2>1, <2>3
  <2> QED
    BY <1>a, <2>2, <2>4 DEF CacheInv
<1>2. ASSUME NEW w \in Workers, NEW k \in Keys, Miss(w, k) PROVE CacheInv'
  <2>1. /\ worker' = [worker EXCEPT ![w] = [pc |-> "miss", key |-> k, score |-> 0]]
        /\ UNCHANGED <<order, items, variantSets, uses>>
    BY <1>2 DEF Miss
  <2>2. worker' \in [Workers -> Call]
    BY <1>a, <2>1 DEF Call
  <2>3. \A v \in Workers : /\ worker'[v].pc \in {"miss", "put"} => worker'[v].key \in Keys
                           /\ worker'[v].pc = "put" => worker'[v].score # 0
    BY <1>a, <2>1 DEF CacheInv
  <2> QED
    BY <1>a, <2>1, <2>2, <2>3 DEF CacheInv
<1>3. ASSUME NEW w \in Workers, Compute(w) PROVE CacheInv'
  <2>1. /\ worker' = [worker EXCEPT ![w] = [worker[w] EXCEPT !.pc = "put", !.score = variantSets]]
        /\ UNCHANGED <<order, items, variantSets, uses>>
        /\ worker[w].pc = "miss"
    BY <1>3, <1>a DEF Compute, Call
  <2>2. worker[w] \in Call /\ worker[w].key \in Keys
    BY <1>a, <2>1 DEF CacheInv
  <2>3. worker' \in [Workers -> Call]
    BY <1>a, <2>1, <2>2 DEF Call
  <2>4. /\ worker'[w].pc = "put" /\ worker'[w].key = worker[w].key /\ worker'[w].score = variantSets
        /\ \A v \in Workers \ {w} : worker'[v] = worker[v]
    BY <1>a, <2>1, <2>2 DEF Call
  <2>5. \A v \in Workers : /\ worker'[v].pc \in {"miss", "put"} => worker'[v].key \in Keys
                           /\ worker'[v].pc = "put" => worker'[v].score # 0
    BY <1>a, <2>2, <2>4 DEF CacheInv
  <2> QED
    BY <1>a, <2>1, <2>3, <2>5 DEF CacheInv
<1>4. ASSUME NEW w \in Workers, Put(w) PROVE CacheInv'
  <2> DEFINE k == worker[w].key
             full == items[k] = 0 /\ Len(order) >= capacity
             kept == IF full THEN Front(order) ELSE order
  <2>1. /\ k \in Keys /\ worker[w].score \in Nat /\ worker[w].score # 0
    BY <1>4, <1>a DEF Put, CacheInv, Call
  <2>2. order' = ToFront(kept, k) /\ uses' = <<k>> \o uses
    BY <1>4 DEF Put
  <2>3. /\ items' = [x \in Keys |-> IF x = k THEN worker[w].score
                                    ELSE IF full /\ x = Last(order) THEN 0 ELSE items[x]]
        /\ worker' = [worker EXCEPT ![w] = NoCall] /\ variantSets' = variantSets
    BY <1>4 DEF Put
  <2>4. /\ order \in Seq(Keys) /\ Len(order) \in Nat /\ Len(order) <= capacity /\ Distinct(order)
        /\ capacity \in Nat /\ capacity # 0
    BY <1>a, MostRecentDistinct, LenProperties, CapacityAssumption DEF MostRecent
  <2>5. Occurs(order, k) <=> items[k] # 0
    BY <1>a, <2>1
  <2> HIDE DEF k
  <2>6. \/ kept = order /\ (Occurs(order, k) \/ Len(order) < capacity)
        \/ kept = Front(order) /\ ~Occurs(order, k) /\ Len(order) = capacity
    BY <2>4, <2>5
  <2>7. \A x \in Keys : Occurs(kept, x) <=> Occurs(order, x) /\ ~(full /\ x = Last(order))
    <3>1. CASE full
      <4>1. Len(order) # 0
        BY <2>4, <3>1
      <4> QED
        BY <2>4, <3>1, <4>1, WithoutLast
    <3>2. CASE ~full
      BY <3>2
    <3> QED
      BY <3>1, <3>2
  <2> HIDE DEF kept, full
  <2>8. /\ MostRecent(ToFront(kept, k), <<k>> \o uses)
        /\ \A x : Occurs(ToFront(kept, k), x) <=> x = k \/ Occurs(kept, x)
    BY <1>a, <2>1, <2>6, UseKeeps
  <2>9. MostRecent(order', uses') /\ \A x : Occurs(order', x) <=> x = k \/ Occurs(kept, x)
    BY <2>2, <2>8
  <2>10. items' \in [Keys -> Nat]
    BY <1>a, <2>1, <2>3
  <2>11. \A x \in Keys : Occurs(order', x) <=> items'[x] # 0
    <3> TAKE x \in Keys
    <3>1. items'[x] = IF x = k THEN worker[w].score
                      ELSE IF full /\ x = Last(order) THEN 0 ELSE items[x]
      BY <2>3
    <3>2. Occurs(order, x) <=> items[x] # 0
      BY <1>a
    <3> QED
      BY <2>1, <2>7, <2>9, <3>1, <3>2
  <2>12. worker' \in [Workers -> Call]
    BY <1>a, <2>3 DEF Call, NoCall
  <2>13. \A v \in Workers : /\ worker'[v].pc \in {"miss", "put"} => worker'[v].key \in Keys
                            /\ worker'[v].pc = "put" => worker'[v].score # 0
    BY <1>a, <2>3 DEF CacheInv, NoCall
  <2> QED
    BY <1>a, <2>3, <2>9, <2>10, <2>11, <2>12, <2>13 DEF CacheInv
<1>5. ASSUME ResetCache PROVE CacheInv'
  <2>1. /\ order' = <<>> /\ uses' = <<>> /\ items' = [k \in Keys |-> 0]
        /\ UNCHANGED <<variantSets, worker>>
    BY <1>5 DEF ResetCache
  <2>2. MostRecent(order', uses') /\ \A k : ~Occurs(order', k)
    BY <2>1, EmptyCache
  <2>3. items' \in [Keys -> Nat] /\ \A k \in Keys : items'[k] = 0
    BY <2>1
  <2> QED
    BY <1>a, <2>1, <2>2, <2>3 DEF CacheInv
<1>6. ASSUME PrecomputeVariants PROVE CacheInv'
  BY <1>6, <1>a DEF PrecomputeVariants, CacheInv
<1>7. CASE UNCHANGED cacheVars
  BY <1>7, <1>a DEF cacheVars, CacheInv
<1> QED
  BY <1>1, <1>2, <1>3, <1>4, <1>5, <1>6, <1>7 DEF CacheNext

(* The cache holds the keys used last, the most recent first, however the gets and
   puts of different calls come between each other, and its map and its list have
   the same keys (latency.go, Get and Put). *)
THEOREM CacheKeepsRecent == CacheSpec => []RecentlyUsedCached
BY InvGivesProperty, CacheStarts, CacheKeeps, PTL DEF CacheSpec

-----------------------------------------------------------------------------
(*************************************************************************)
(* ResponseGuard, for any clients, limits and window. What the limiter   *)
(* has forgotten no later window counts, so what it counts when it       *)
(* decides is at least what any window that ends later has of the        *)
(* responses so far.                                                     *)
(*************************************************************************)

(* What the limiter counts at time t, and what was admitted by then. *)
After(t) == {e \in TokenEntry : e.timestamp > t - WindowDuration}
Window(t) == {e \in TokenEntry : e.timestamp > t - WindowDuration /\ e.timestamp <= t}
Past == {e \in TokenEntry : e.timestamp <= limiterTime}

(* The limiter has forgotten of client c only what no later window counts. *)
ForgetsExpired(c) ==
  \A t \in Nat : t >= limiterTime => Select(usage[c], After(t)) = Select(admitted[c], After(t))

GuardInv ==
  /\ limiterTime \in 0..MaxMinutes
  /\ usage \in [Clients -> Seq(TokenEntry)]
  /\ admitted \in [Clients -> Seq(TokenEntry)]
  /\ \A c \in Clients : admitted[c] \in Seq(Past) /\ ForgetsExpired(c)
  /\ WithinRate

-----------------------------------------------------------------------------
(* What the tokens of a sequence add up to *)

LEMMA GuardNumbers ==
  /\ \A n \in Counted : n \in Nat
  /\ TokensPerMinute \in Nat /\ MaxResponsesPerMinute \in Nat /\ MaxTokensPerResponse \in Nat
  /\ WindowDuration \in Nat /\ MaxMinutes \in Nat /\ MaxScans \in Nat
  BY GuardAssumption DEF Counted, Scanned

LEMMA WindowOfAfter ==
  ASSUME NEW t \in Nat, NEW u \in Nat, t <= u
  PROVE  /\ Window(u) \subseteq After(t)
         /\ After(t) \intersect After(u) = After(u)
<1>1. \A e \in TokenEntry : e.timestamp \in Int
  BY GuardNumbers DEF TokenEntry
<1>2. \A e \in TokenEntry : e.timestamp > u - WindowDuration => e.timestamp > t - WindowDuration
  BY <1>1, GuardNumbers
<1> QED
  BY <1>2 DEF Window, After

Additions(entries, n, g) ==
  g = [i \in 0..n |-> IF i = 0 THEN 0 ELSE g[i - 1] + entries[i].tokens]

LEMMA AdditionsExist == \A entries : \A n \in Nat : \E g : Additions(entries, n, g)
<1> SUFFICES ASSUME NEW entries PROVE \A n \in Nat : \E g : Additions(entries, n, g)
  OBVIOUS
<1> DEFINE N == {n \in Nat : \E g : Additions(entries, n, g)}
<1>1. 0 \in N
  <2>1. Additions(entries, 0, [i \in 0..0 |-> 0])
    BY DEF Additions
  <2> QED
    BY <2>1
<1>2. ASSUME NEW n \in Nat, n \in N PROVE n + 1 \in N
  <2>1. PICK g : Additions(entries, n, g)
    BY <1>2
  <2> DEFINE h == [i \in 0..(n + 1) |->
                     IF i = n + 1 THEN g[n] + entries[n + 1].tokens ELSE g[i]]
  <2>2. \A i \in 0..n : h[i] = g[i]
    OBVIOUS
  <2>3. h[n + 1] = g[n] + entries[n + 1].tokens
    OBVIOUS
  <2>4. g = [i \in 0..n |-> IF i = 0 THEN 0 ELSE g[i - 1] + entries[i].tokens]
    BY <2>1 DEF Additions
  <2>5. h = [i \in 0..(n + 1) |-> h[i]]
    OBVIOUS
  <2> HIDE DEF h
  <2>6. ASSUME NEW i \in 0..(n + 1)
        PROVE  h[i] = IF i = 0 THEN 0 ELSE h[i - 1] + entries[i].tokens
    <3>1. CASE i = n + 1
      <4>1. h[i - 1] = g[n] /\ i # 0
        BY <2>2, <3>1
      <4> QED
        BY <2>3, <3>1, <4>1
    <3>2. CASE i = 0
      BY <2>2, <2>4, <3>2
    <3>3. CASE i \in 1..n
      <4>1. h[i] = g[i] /\ h[i - 1] = g[i - 1] /\ i # 0 /\ i \in 0..n
        BY <2>2, <3>3
      <4> QED
        BY <2>4, <4>1
    <3> QED
      BY <3>1, <3>2, <3>3
  <2>7. Additions(entries, n + 1, h)
    BY <2>5, <2>6 DEF Additions
  <2> QED
    BY <2>7
<1> HIDE DEF N
<1>3. Nat \subseteq N
  BY <1>1, <1>2, Induction
<1> QED
  BY <1>3 DEF N

LEMMA TotalIsLast ==
  ASSUME NEW S, NEW entries \in Seq(S)
  PROVE  \E g : Additions(entries, Len(entries), g) /\ TotalTokens(entries) = g[Len(entries)]
<1> DEFINE g == CHOOSE g : Additions(entries, Len(entries), g)
<1>1. Additions(entries, Len(entries), g)
  BY AdditionsExist, LenProperties
<1>2. TotalTokens(entries) = g[Len(entries)]
  BY DEF TotalTokens, Additions
<1> QED
  BY <1>1, <1>2

LEMMA TotalEmpty == TotalTokens(<<>>) = 0
<1>1. <<>> \in Seq({})
  BY EmptySeq
<1>2. PICK g : Additions(<<>>, Len(<<>>), g) /\ TotalTokens(<<>>) = g[Len(<<>>)]
  BY <1>1, TotalIsLast
<1> QED
  BY <1>2 DEF Additions

LEMMA TotalAppend ==
  ASSUME NEW S, NEW seq \in Seq(S), NEW e \in S
  PROVE  TotalTokens(Append(seq, e)) = TotalTokens(seq) + e.tokens
<1> DEFINE longer == Append(seq, e)
<1>1. /\ longer \in Seq(S) /\ Len(longer) = Len(seq) + 1 /\ Len(seq) \in Nat
      /\ \A i \in 1..Len(seq) : longer[i] = seq[i]
      /\ longer[Len(seq) + 1] = e
  BY AppendProperties, LenProperties
<1> HIDE DEF longer
<1>2. PICK g : Additions(seq, Len(seq), g) /\ TotalTokens(seq) = g[Len(seq)]
  BY TotalIsLast
<1>3. PICK h : Additions(longer, Len(seq) + 1, h) /\ TotalTokens(longer) = h[Len(seq) + 1]
  BY <1>1, TotalIsLast
<1>4. \A i \in 0..Len(seq) : g[i] = IF i = 0 THEN 0 ELSE g[i - 1] + seq[i].tokens
  BY <1>2 DEF Additions
<1>5. \A i \in 0..(Len(seq) + 1) : h[i] = IF i = 0 THEN 0 ELSE h[i - 1] + longer[i].tokens
  BY <1>3 DEF Additions
<1> DEFINE N == {i \in Nat : i <= Len(seq) => g[i] = h[i]}
<1>6. 0 \in N
  BY <1>1, <1>4, <1>5
<1>7. ASSUME NEW i \in Nat, i \in N PROVE i + 1 \in N
  <2> SUFFICES ASSUME i + 1 <= Len(seq) PROVE g[i + 1] = h[i + 1]
    OBVIOUS
  <2>1. /\ i + 1 \in 0..Len(seq) /\ i + 1 \in 0..(Len(seq) + 1) /\ i + 1 \in 1..Len(seq)
        /\ i + 1 # 0 /\ (i + 1) - 1 = i
    BY <1>1
  <2>2. g[i] = h[i] /\ longer[i + 1] = seq[i + 1]
    BY <1>1, <1>7, <2>1
  <2>3. g[i + 1] = g[i] + seq[i + 1].tokens
    BY <1>4, <2>1
  <2>4. h[i + 1] = h[i] + longer[i + 1].tokens
    BY <1>5, <2>1
  <2> QED
    BY <2>2, <2>3, <2>4
<1>8. g[Len(seq)] = h[Len(seq)]
  <2> HIDE DEF N
  <2>1. Nat \subseteq N
    BY <1>6, <1>7, Induction
  <2> QED
    BY <1>1, <2>1 DEF N
<1>9. h[Len(seq) + 1] = h[Len(seq)] + e.tokens
  <2>1. Len(seq) + 1 \in 0..(Len(seq) + 1) /\ Len(seq) + 1 # 0 /\ (Len(seq) + 1) - 1 = Len(seq)
    BY <1>1
  <2> QED
    BY <1>1, <1>5, <2>1
<1> QED
  BY <1>2, <1>3, <1>8, <1>9 DEF longer

(* Of more entries there are more tokens. *)
LEMMA TotalGrows ==
  ASSUME NEW seq \in Seq(TokenEntry), NEW A, NEW B, A \subseteq B
  PROVE  /\ TotalTokens(Select(seq, A)) \in Nat /\ TotalTokens(Select(seq, B)) \in Nat
         /\ TotalTokens(Select(seq, A)) <= TotalTokens(Select(seq, B))
         /\ Len(Select(seq, A)) <= Len(Select(seq, B))
<1> DEFINE Good(s) == /\ TotalTokens(Select(s, A)) \in Nat /\ TotalTokens(Select(s, B)) \in Nat
                      /\ TotalTokens(Select(s, A)) <= TotalTokens(Select(s, B))
                      /\ Len(Select(s, A)) <= Len(Select(s, B))
           P == {s \in Seq(TokenEntry) : Good(s)}
<1>1. <<>> \in P
  BY SelectEmpty, TotalEmpty, EmptySeq
<1>2. ASSUME NEW s \in Seq(TokenEntry), NEW e \in TokenEntry, s \in P PROVE Append(s, e) \in P
  <2> DEFINE a == Select(s, A)
             b == Select(s, B)
  <2>1. e.tokens \in Nat
    BY GuardNumbers DEF TokenEntry
  <2>2. a \in Seq(TokenEntry) /\ b \in Seq(TokenEntry) /\ Append(s, e) \in Seq(TokenEntry)
    BY SelectType, AppendProperties
  <2>3. /\ Select(Append(s, e), A) = IF e \in A THEN Append(a, e) ELSE a
        /\ Select(Append(s, e), B) = IF e \in B THEN Append(b, e) ELSE b
    BY SelectAppend
  <2>4. Good(s)
    BY <1>2
  <2>5. /\ TotalTokens(a) \in Nat /\ TotalTokens(b) \in Nat /\ TotalTokens(a) <= TotalTokens(b)
        /\ Len(a) <= Len(b)
    BY <2>4
  <2> HIDE DEF a, b
  <2>6. /\ TotalTokens(Append(a, e)) = TotalTokens(a) + e.tokens /\ Len(Append(a, e)) = Len(a) + 1
        /\ TotalTokens(Append(b, e)) = TotalTokens(b) + e.tokens /\ Len(Append(b, e)) = Len(b) + 1
        /\ Len(a) \in Nat /\ Len(b) \in Nat
    BY <2>2, TotalAppend, AppendProperties, LenProperties
  <2>7. Good(Append(s, e))
    <3>1. CASE e \in A
      BY <2>1, <2>3, <2>5, <2>6, <3>1
    <3>2. CASE e \notin A /\ e \in B
      BY <2>1, <2>3, <2>5, <2>6, <3>2
    <3>3. CASE e \notin B
      BY <2>3, <2>5, <3>3
    <3> QED
      BY <3>1, <3>2, <3>3
  <2> QED
    BY <2>2, <2>7
<1> HIDE DEF P
<1>3. Seq(TokenEntry) \subseteq P
  BY <1>1, <1>2, SequenceInduction
<1> QED
  BY <1>3 DEF P

-----------------------------------------------------------------------------
(* The invariant *)

LEMMA GuardStarts == GuardInit => GuardInv
<1> SUFFICES ASSUME GuardInit PROVE GuardInv
  OBVIOUS
<1>1. limiterTime \in 0..MaxMinutes
  BY GuardAssumption DEF GuardInit
<1>2. <<>> \in Seq(TokenEntry) /\ <<>> \in Seq(Past)
  BY EmptySeq
<1>3. usage \in [Clients -> Seq(TokenEntry)] /\ admitted \in [Clients -> Seq(TokenEntry)]
  BY <1>2 DEF GuardInit
<1>4. \A c \in Clients : usage[c] = <<>> /\ admitted[c] = <<>>
  BY DEF GuardInit
<1>5. WithinRate
  <2>1. ASSUME NEW c \in Clients, NEW now \in 0..MaxMinutes
        PROVE  /\ TotalTokens(Select(admitted[c], Window(now))) <= TokensPerMinute
               /\ Len(Select(admitted[c], Window(now))) <= MaxResponsesPerMinute
    BY <1>4, SelectEmpty, TotalEmpty, EmptySeq, GuardAssumption
  <2> QED
    BY <2>1 DEF WithinRate, Window
<1> QED
  BY <1>1, <1>2, <1>3, <1>4, <1>5 DEF GuardInv, ForgetsExpired

(* What a window ending now has of the responses admitted so far is counted at
   the time the limiter decides. *)
LEMMA CountedNow ==
  ASSUME GuardInv, NEW c \in Clients, NEW now \in 0..MaxMinutes, now >= limiterTime
  PROVE  LET window == Select(admitted[c], Window(now))
             counted == Within(usage[c], limiterTime)
         IN /\ TotalTokens(window) \in Nat /\ TotalTokens(counted) \in Nat
            /\ TotalTokens(window) <= TotalTokens(counted)
            /\ Len(window) \in Nat /\ Len(counted) \in Nat
            /\ Len(window) <= Len(counted)
<1> USE GuardNumbers
<1>1. limiterTime \in Nat /\ WindowDuration \in Nat /\ now \in Nat
  BY DEF GuardInv
<1>2. Within(usage[c], limiterTime) = Select(admitted[c], After(limiterTime))
  <2>1. Within(usage[c], limiterTime) = Select(usage[c], After(limiterTime))
    BY DEF Within, After
  <2> QED
    BY <1>1, <2>1 DEF GuardInv, ForgetsExpired
<1>3. Window(now) \subseteq After(limiterTime)
  BY <1>1, WindowOfAfter
<1>4. admitted[c] \in Seq(TokenEntry)
  BY DEF GuardInv
<1>5. \A A : Len(Select(admitted[c], A)) \in Nat
  BY <1>4, SelectType, LenProperties
<1> QED
  BY <1>2, <1>3, <1>4, <1>5, TotalGrows

(* The limiter has room for a response that it does not refuse. *)
HasRoom(c, count) ==
  /\ ~(TotalTokens(Within(usage[c], limiterTime)) + count > TokensPerMinute)
  /\ ~(Len(Within(usage[c], limiterTime)) + 1 > MaxResponsesPerMinute)

LEMMA AllowedHasRoom == \A c, count : AllowToken(c, count) = "" => HasRoom(c, count)
  BY Zenon DEF AllowToken, Refusal, Refused, HasRoom

LEMMA AdmitKeeps ==
  ASSUME GuardInv, NEW c \in Clients, NEW count \in Counted,
         HasRoom(c, count), Admit(c, count), limiterTime' = limiterTime
  PROVE  GuardInv'
<1> USE GuardNumbers
<1> DEFINE entry == [tokens |-> count, timestamp |-> limiterTime]
           counted == Within(usage[c], limiterTime)
<1>1. limiterTime \in Nat /\ WindowDuration \in Nat /\ MaxMinutes \in Nat /\ limiterTime <= MaxMinutes
      /\ count \in Nat /\ TokensPerMinute \in Nat /\ MaxResponsesPerMinute \in Nat
  BY DEF GuardInv
<1>2. entry \in TokenEntry /\ entry \in Past /\ entry.timestamp = limiterTime /\ entry.tokens = count
  BY <1>1 DEF TokenEntry, Past
<1>3. /\ usage[c] \in Seq(TokenEntry) /\ admitted[c] \in Seq(TokenEntry)
      /\ admitted[c] \in Seq(Past) /\ counted \in Seq(TokenEntry)
  <2>1. usage[c] \in Seq(TokenEntry) /\ admitted[c] \in Seq(TokenEntry) /\ admitted[c] \in Seq(Past)
    BY DEF GuardInv
  <2> QED
    BY <2>1, SelectType DEF Within
<1>4. /\ usage' = [usage EXCEPT ![c] = Append(counted, entry)]
      /\ admitted' = [admitted EXCEPT ![c] = Append(admitted[c], entry)]
  BY DEF Admit, GuardInv
<1>5. /\ ~(TotalTokens(counted) + count > TokensPerMinute)
      /\ ~(Len(counted) + 1 > MaxResponsesPerMinute)
  BY DEF HasRoom
<1>6. counted = Select(usage[c], After(limiterTime))
  BY DEF Within, After
<1>7. ForgetsExpired(c)
  BY DEF GuardInv
<1> HIDE DEF entry, counted
<1>8. /\ Append(counted, entry) \in Seq(TokenEntry)
      /\ Append(admitted[c], entry) \in Seq(TokenEntry)
      /\ Append(admitted[c], entry) \in Seq(Past)
  BY <1>2, <1>3, AppendProperties
<1>9. usage' \in [Clients -> Seq(TokenEntry)] /\ admitted' \in [Clients -> Seq(TokenEntry)]
  BY <1>4, <1>8 DEF GuardInv
<1>10. /\ usage'[c] = Append(counted, entry) /\ admitted'[c] = Append(admitted[c], entry)
       /\ \A d \in Clients \ {c} : usage'[d] = usage[d] /\ admitted'[d] = admitted[d]
  BY <1>4 DEF GuardInv
<1>a. \A A : Select(Append(counted, entry), A) =
              IF entry \in A THEN Append(Select(counted, A), entry) ELSE Select(counted, A)
  BY <1>2, <1>3, SelectAppend
<1>b. \A A : Select(Append(admitted[c], entry), A) =
              IF entry \in A THEN Append(Select(admitted[c], A), entry) ELSE Select(admitted[c], A)
  <2> DEFINE old == admitted[c]
  <2>1. old \in Seq(TokenEntry) /\ entry \in TokenEntry
    BY <1>2, <1>3
  <2> HIDE DEF old
  <2>2. \A A : Select(Append(old, entry), A) =
                IF entry \in A THEN Append(Select(old, A), entry) ELSE Select(old, A)
    BY <2>1, SelectAppend
  <2> QED
    BY <2>2 DEF old
<1>11. \A t \in Nat : t >= limiterTime => Select(usage'[c], After(t)) = Select(admitted'[c], After(t))
  <2> SUFFICES ASSUME NEW t \in Nat, t >= limiterTime
               PROVE  Select(usage'[c], After(t)) = Select(admitted'[c], After(t))
    OBVIOUS
  <2>1. After(limiterTime) \intersect After(t) = After(t)
    BY <1>1, WindowOfAfter
  <2>2. Select(counted, After(t)) = Select(usage[c], After(t))
    <3>1. Select(Select(usage[c], After(limiterTime)), After(t)) =
            Select(usage[c], After(limiterTime) \intersect After(t))
      BY <1>3, SelectTwice
    <3> QED
      BY <1>6, <2>1, <3>1, Zenon
  <2>3. Select(counted, After(t)) = Select(admitted[c], After(t))
    BY <1>7, <2>2 DEF ForgetsExpired
  <2>4. Select(Append(counted, entry), After(t)) = Select(Append(admitted[c], entry), After(t))
    BY <1>a, <1>b, <2>3, Zenon
  <2> QED
    BY <1>10, <2>4, Zenon
<1>12. Past' = Past /\ \A t : After(t)' = After(t) /\ Window(t)' = Window(t)
  BY DEF Past, After, Window
<1>13. \A d \in Clients : (admitted[d] \in Seq(Past) /\ ForgetsExpired(d))'
  <2> SUFFICES ASSUME NEW d \in Clients
               PROVE  admitted'[d] \in Seq(Past) /\ \A t \in Nat : t >= limiterTime =>
                        Select(usage'[d], After(t)) = Select(admitted'[d], After(t))
    BY <1>12 DEF ForgetsExpired
  <2>1. CASE d = c
    BY <1>8, <1>10, <1>11, <2>1
  <2>2. CASE d # c
    BY <1>10, <2>2 DEF GuardInv, ForgetsExpired
  <2> QED
    BY <2>1, <2>2
<1>14. ASSUME NEW d \in Clients, NEW now \in 0..MaxMinutes
       PROVE  /\ TotalTokens(Select(admitted'[d], Window(now))) <= TokensPerMinute
              /\ Len(Select(admitted'[d], Window(now))) <= MaxResponsesPerMinute
  <2>1. /\ TotalTokens(Select(admitted[d], Window(now))) <= TokensPerMinute
        /\ Len(Select(admitted[d], Window(now))) <= MaxResponsesPerMinute
    BY DEF GuardInv, WithinRate, Window
  <2>2. CASE d # c
    BY <1>10, <2>1, <2>2
  <2>3. CASE d = c /\ entry \notin Window(now)
    <3>1. Select(admitted'[c], Window(now)) = Select(admitted[c], Window(now))
      BY <1>10, <1>b, <2>3, Zenon
    <3> QED
      BY <2>1, <2>3, <3>1
  <2>4. CASE d = c /\ entry \in Window(now)
    <3> DEFINE window == Select(admitted[c], Window(now))
    <3>1. now >= limiterTime
      BY <1>2, <2>4 DEF Window
    <3>2. /\ TotalTokens(window) \in Nat /\ TotalTokens(counted) \in Nat
          /\ TotalTokens(window) <= TotalTokens(counted)
          /\ Len(window) \in Nat /\ Len(counted) \in Nat /\ Len(window) <= Len(counted)
      BY <3>1, CountedNow DEF counted
    <3>3. window \in Seq(TokenEntry)
      BY <1>3, SelectType
    <3>4. Select(admitted'[c], Window(now)) = Append(window, entry)
      BY <1>10, <1>b, <2>4, Zenon
    <3> HIDE DEF window
    <3>5. TotalTokens(Append(window, entry)) = TotalTokens(window) + count
          /\ Len(Append(window, entry)) = Len(window) + 1
      BY <1>2, <3>3, TotalAppend, AppendProperties
    <3> QED
      BY <1>1, <1>5, <2>4, <3>2, <3>4, <3>5
  <2> QED
    BY <2>2, <2>3, <2>4
<1>15. WithinRate'
  BY <1>14 DEF WithinRate, Window
<1>16. limiterTime' \in 0..MaxMinutes
  BY DEF GuardInv
<1> QED
  BY <1>9, <1>13, <1>15, <1>16 DEF GuardInv

LEMMA GuardKeeps == GuardInv /\ [GuardNext]_guardVars => GuardInv'
<1> SUFFICES ASSUME GuardInv, [GuardNext]_guardVars PROVE GuardInv'
  OBVIOUS
<1> USE GuardNumbers
<1>1. ASSUME UNCHANGED <<limiterTime, usage, admitted>> PROVE GuardInv'
  BY <1>1 DEF GuardInv, ForgetsExpired, Past, After, WithinRate
<1>2. ASSUME NEW c \in Clients \union {NoClient}, NEW tokens \in TokenCounts,
             NEW found, NEW toxic, NEW hallucinated,
             ScanWithContext(c, tokens, found, toxic, hallucinated)
      PROVE  GuardInv'
  <2>1. CASE c # NoClient /\ AllowToken(c, Scanned(tokens)) = ""
    <3>1. Admit(c, Scanned(tokens)) /\ limiterTime' = limiterTime
      BY <1>2, <2>1 DEF ScanWithContext
    <3>2. c \in Clients /\ Scanned(tokens) \in Counted
      BY <2>1 DEF Counted
    <3>3. HasRoom(c, Scanned(tokens))
      BY <2>1, AllowedHasRoom, Zenon
    <3> QED
      BY <3>1, <3>2, <3>3, AdmitKeeps
  <2>2. CASE ~(c # NoClient /\ AllowToken(c, Scanned(tokens)) = "")
    BY <1>1, <1>2, <2>2 DEF ScanWithContext
  <2> QED
    BY <2>1, <2>2
<1>3. ASSUME NEW c \in Clients, LimiterReset(c) PROVE GuardInv'
  <2>1. /\ usage' = [usage EXCEPT ![c] = <<>>] /\ admitted' = [admitted EXCEPT ![c] = <<>>]
        /\ limiterTime' = limiterTime
    BY <1>3 DEF LimiterReset
  <2>2. <<>> \in Seq(TokenEntry) /\ <<>> \in Seq(Past)
    BY EmptySeq
  <2>3. usage' \in [Clients -> Seq(TokenEntry)] /\ admitted' \in [Clients -> Seq(TokenEntry)]
    BY <2>1, <2>2 DEF GuardInv
  <2>4. /\ usage'[c] = <<>> /\ admitted'[c] = <<>>
        /\ \A d \in Clients \ {c} : usage'[d] = usage[d] /\ admitted'[d] = admitted[d]
    BY <2>1 DEF GuardInv
  <2>5. Past' = Past
    BY <2>1 DEF Past
  <2>6. \A d \in Clients : (admitted[d] \in Seq(Past) /\ ForgetsExpired(d))'
    <3> SUFFICES ASSUME NEW d \in Clients
                 PROVE  admitted'[d] \in Seq(Past) /\ \A t \in Nat : t >= limiterTime =>
                          Select(usage'[d], After(t)) = Select(admitted'[d], After(t))
      BY <2>1, <2>5 DEF ForgetsExpired, After
    <3>1. CASE d = c
      BY <2>2, <2>4, <3>1
    <3>2. CASE d # c
      BY <2>4, <3>2 DEF GuardInv, ForgetsExpired
    <3> QED
      BY <3>1, <3>2
  <2>7. ASSUME NEW d \in Clients, NEW now \in 0..MaxMinutes
        PROVE  /\ TotalTokens(Select(admitted'[d], Window(now))) <= TokensPerMinute
               /\ Len(Select(admitted'[d], Window(now))) <= MaxResponsesPerMinute
    <3>1. CASE d = c
      BY <2>4, <3>1, SelectEmpty, TotalEmpty, EmptySeq
    <3>2. CASE d # c
      BY <2>4, <3>2 DEF GuardInv, WithinRate, Window
    <3> QED
      BY <3>1, <3>2
  <2>8. WithinRate'
    BY <2>7 DEF WithinRate, Window
  <2>9. limiterTime' \in 0..MaxMinutes
    BY <2>1 DEF GuardInv
  <2> QED
    BY <2>3, <2>6, <2>8, <2>9 DEF GuardInv
<1>4. ASSUME MinutesPass PROVE GuardInv'
  <2>1. UNCHANGED <<usage, admitted>> /\ limiterTime' = limiterTime + 1 /\ limiterTime < MaxMinutes
    BY <1>4 DEF MinutesPass
  <2>2. limiterTime \in Nat /\ MaxMinutes \in Nat /\ limiterTime' \in 0..MaxMinutes
    BY <2>1 DEF GuardInv
  <2>3. Past \subseteq Past'
    BY <2>1, <2>2 DEF Past, TokenEntry
  <2>4. Seq(Past) \subseteq Seq(Past')
    BY <2>3
  <2>5. \A c \in Clients : (admitted[c] \in Seq(Past) /\ ForgetsExpired(c))'
    <3> SUFFICES ASSUME NEW c \in Clients
                 PROVE  admitted[c] \in Seq(Past') /\ \A t \in Nat : t >= limiterTime + 1 =>
                          Select(usage[c], After(t)) = Select(admitted[c], After(t))
      BY <2>1 DEF ForgetsExpired, After
    <3>1. admitted[c] \in Seq(Past')
      BY <2>4 DEF GuardInv
    <3>2. \A t \in Nat : t >= limiterTime =>
            Select(usage[c], After(t)) = Select(admitted[c], After(t))
      BY DEF GuardInv, ForgetsExpired
    <3> QED
      BY <2>2, <3>1, <3>2
  <2> QED
    BY <2>1, <2>2, <2>5 DEF GuardInv, WithinRate
<1>5. CASE ScanDisabled \/ SwitchGuard \/ UpdateConfig
  BY <1>1, <1>5 DEF ScanDisabled, SwitchGuard, UpdateConfig
<1>6. CASE UNCHANGED guardVars
  BY <1>1, <1>6 DEF guardVars
<1> QED
  BY <1>2, <1>3, <1>4, <1>5, <1>6 DEF GuardNext

(* In no window does a client get more responses, or more tokens, than the limits
   say, for every length of the window, although the limiter decides by the
   entries it has not cleaned out (token_limiter.go, AllowToken). *)
THEOREM RateIsKept == GuardSpec => []WithinRate
<1>1. GuardInv => WithinRate
  BY DEF GuardInv
<1> QED
  BY <1>1, GuardStarts, GuardKeeps, PTL DEF GuardSpec

-----------------------------------------------------------------------------
(*************************************************************************)
(* LanguageServer, for any number of versions. A text that is stored is  *)
(* answered for, or something is under way that will read it, or has.    *)
(*************************************************************************)

(* What is left of a message: it is stored before anything is started for it. *)
MessageInOrder ==
  \/ message = Nothing
  \/ /\ message \in [version : Versions, job : {"read", "schedule"},
                     left : {HandlerSteps, <<"schedule", "go">>, <<"go">>}]
     /\ message.version = IF message.left = HandlerSteps THEN document + 1 ELSE document

(* Timers, goroutines and answers are of versions that have been stored, and a
   text that was read is not older than the version it is read for. *)
NoneAhead ==
  /\ timer <= document
  /\ \A job \in BagToSet(work) :
       /\ job.version <= document
       /\ job.does = "detect" => job.version <= job.text /\ job.text <= document
  /\ \A p \in published : p.version <= p.text

(* The text that is stored has been answered for, or something is under way that
   will read it, or has. *)
UnderWay ==
  open /\ document # 0 =>
    \/ \E p \in published : p.text = document
    \/ message # Nothing /\ message.left # HandlerSteps
    \/ timer # 0
    \/ \E job \in BagToSet(work) : job.does = "detect" => job.text = document

ServerInv == ServerTypeOK /\ MessageInOrder /\ NoneAhead /\ UnderWay

-----------------------------------------------------------------------------
(* Bags of goroutines *)

LEMMA SingleBag ==
  ASSUME NEW e
  PROVE  SetToBag({e}) = [x \in {e} |-> 1] /\ IsABag(SetToBag({e}))
  BY DEF SetToBag, IsABag

LEMMA BagAdd ==
  ASSUME NEW B, IsABag(B), NEW e
  PROVE  /\ IsABag(B (+) SetToBag({e}))
         /\ BagToSet(B (+) SetToBag({e})) = BagToSet(B) \union {e}
<1> DEFINE C == [x \in DOMAIN B \union {e} |->
                   (IF x \in DOMAIN B THEN B[x] ELSE 0) + (IF x \in {e} THEN 1 ELSE 0)]
<1>1. B (+) SetToBag({e}) = C
  BY DEF (+), SetToBag
<1>2. DOMAIN C = DOMAIN B \union {e}
  OBVIOUS
<1>3. C \in [DOMAIN B \union {e} -> {n \in Nat : n > 0}]
  <2>1. \A x \in DOMAIN B : B[x] \in Nat /\ B[x] > 0
    BY DEF IsABag
  <2> SUFFICES ASSUME NEW x \in DOMAIN B \union {e}
               PROVE  C[x] \in Nat /\ C[x] > 0
    OBVIOUS
  <2>2. CASE x \in DOMAIN B
    BY <2>1, <2>2
  <2>3. CASE x \notin DOMAIN B
    BY <2>3
  <2> QED  BY <2>2, <2>3
<1> QED
  <2> HIDE DEF C
  <2> QED  BY <1>1, <1>2, <1>3 DEF IsABag, BagToSet

LEMMA BagRemove ==
  ASSUME NEW B, IsABag(B), NEW e
  PROVE  /\ IsABag(B (-) SetToBag({e}))
         /\ BagToSet(B (-) SetToBag({e})) \subseteq BagToSet(B)
         /\ BagToSet(B) \ {e} \subseteq BagToSet(B (-) SetToBag({e}))
<1> DEFINE C == [x \in DOMAIN B |-> IF x \in {e} THEN B[x] - 1 ELSE B[x]]
           Left == {x \in DOMAIN B : C[x] > 0}
           D == [x \in Left |-> C[x]]
<1>1. B (-) SetToBag({e}) = D
  <2>1. \A x \in {e} : SetToBag({e})[x] = 1
    BY DEF SetToBag
  <2>2. DOMAIN SetToBag({e}) = {e}
    BY DEF SetToBag
  <2>3. [x \in DOMAIN B |-> IF x \in DOMAIN SetToBag({e})
                              THEN B[x] - SetToBag({e})[x] ELSE B[x]] = C
    BY <2>1, <2>2
  <2> QED  BY <2>3 DEF (-)
<1>2. \A x \in DOMAIN B : B[x] \in Nat /\ B[x] > 0
  BY DEF IsABag
<1>3. \A x \in DOMAIN B : C[x] \in Int /\ (x # e => C[x] > 0)
  BY <1>2
<1>4. DOMAIN D = Left
  OBVIOUS
<1>5. D \in [Left -> {n \in Nat : n > 0}]
  BY <1>3
<1>6. Left \subseteq DOMAIN B /\ DOMAIN B \ {e} \subseteq Left
  BY <1>3
<1> QED
  <2> HIDE DEF D, Left
  <2> QED  BY <1>1, <1>4, <1>5, <1>6 DEF IsABag, BagToSet

LEMMA NoWork == IsABag(EmptyBag) /\ BagToSet(EmptyBag) = {}
  BY DEF IsABag, BagToSet, EmptyBag, SetToBag

-----------------------------------------------------------------------------
(* Messages *)

Rest == {HandlerSteps, <<"schedule", "go">>, <<"go">>}

LEMMA StepOrder ==
  /\ Head(HandlerSteps) = "store" /\ Len(HandlerSteps) = 3 /\ Tail(HandlerSteps) = <<"schedule", "go">>
  /\ Head(<<"schedule", "go">>) = "schedule" /\ Len(<<"schedule", "go">>) = 2
  /\ Tail(<<"schedule", "go">>) = <<"go">>
  /\ Head(<<"go">>) = "go" /\ Len(<<"go">>) = 1
  /\ HandlerSteps # <<"schedule", "go">> /\ HandlerSteps # <<"go">>
  BY DEF HandlerSteps

(* The message while a step of it is due, and what is left after the step. *)
LEMMA Dispatched ==
  ASSUME MessageInOrder, NEW step, At(step)
  PROVE  /\ message \in [version : Versions, job : {"read", "schedule"}, left : Rest]
         /\ message # Nothing /\ step = Head(message.left)
         /\ step = "store" => message.left = HandlerSteps /\ message.version = document + 1
         /\ step = "schedule" => message.left = <<"schedule", "go">> /\ message.version = document
         /\ step = "go" => message.left = <<"go">> /\ message.version = document
<1>1. message # Nothing
  BY DEF At, Nothing
<1> QED  BY <1>1, StepOrder DEF MessageInOrder, At, Rest

LEMMA MovedOn ==
  ASSUME MessageInOrder, NEW step, At(step), Advance
  PROVE  /\ step = "store" => message' = [message EXCEPT !.left = <<"schedule", "go">>]
         /\ step = "schedule" => message' = [message EXCEPT !.left = <<"go">>]
         /\ step = "go" => message' = Nothing
<1>1. CASE step = "store"
  <2>1. message.left = HandlerSteps
    BY <1>1, Dispatched
  <2>2. Len(message.left) # 1 /\ Tail(message.left) = <<"schedule", "go">>
    BY <2>1, StepOrder
  <2> QED  BY <1>1, <2>2 DEF Advance
<1>2. CASE step = "schedule"
  <2>1. message.left = <<"schedule", "go">>
    BY <1>2, Dispatched
  <2> QED  BY <1>2, <2>1, StepOrder DEF Advance
<1>3. CASE step = "go"
  <2>1. message.left = <<"go">>
    BY <1>3, Dispatched
  <2> QED  BY <1>3, <2>1, StepOrder DEF Advance
<1> QED  BY <1>1, <1>2, <1>3 DEF Advance

-----------------------------------------------------------------------------
(* The invariant *)

LEMMA ServerStarts == ServerInit => ServerInv
  BY NoWork, MaxVersionAssumption
  DEF ServerInit, ServerInv, ServerTypeOK, MessageInOrder, NoneAhead, UnderWay, Nothing

(* A goroutine goes its next step: job leaves the bag, for what follows in next. *)
LEMMA GoroutineMoves ==
  ASSUME IsABag(work), BagToSet(work) \subseteq Jobs, NEW job \in BagToSet(work), NEW next \in Jobs
  PROVE  /\ IsABag(Becomes(job, {next}))
         /\ BagToSet(Becomes(job, {next})) \subseteq BagToSet(work) \union {next}
         /\ (BagToSet(work) \ {job}) \union {next} \subseteq BagToSet(Becomes(job, {next}))
<1> DEFINE B == work (-) SetToBag({job})
<1>1. IsABag(B) /\ BagToSet(B) \subseteq BagToSet(work) /\ BagToSet(work) \ {job} \subseteq BagToSet(B)
  BY BagRemove
<1>2. Becomes(job, {next}) = B (+) SetToBag({next})
  BY DEF Becomes
<1> HIDE DEF B
<1>3. IsABag(B (+) SetToBag({next})) /\ BagToSet(B (+) SetToBag({next})) = BagToSet(B) \union {next}
  BY <1>1, BagAdd
<1> QED  BY <1>1, <1>2, <1>3

LEMMA ServerKeeps == ServerInv /\ [ServerNext]_serverVars => ServerInv'
<1> SUFFICES ASSUME ServerInv, [ServerNext]_serverVars  PROVE ServerInv'
  OBVIOUS
<1> USE MaxVersionAssumption
<1>a. ServerTypeOK /\ MessageInOrder /\ NoneAhead /\ UnderWay
  BY DEF ServerInv
<1>b. document \in Nat /\ \A v \in Versions : v \in Nat /\ v # 0
  BY <1>a DEF ServerTypeOK, Versions
<1>1. ASSUME NEW job \in {"read", "schedule"}, Receive(job)  PROVE ServerInv'
  <2>1. document + 1 \in Versions
    BY <1>1, <1>b DEF Receive, Versions
  <2>2. message' = [version |-> document + 1, job |-> job, left |-> HandlerSteps]
    BY <1>1 DEF Receive, DispatchSteps
  <2>3. MessageInOrder'
    BY <1>1, <2>1, <2>2 DEF Receive, MessageInOrder
  <2>4. UnderWay'
    BY <1>1, <1>a DEF UnderWay, Receive
  <2>5. ServerTypeOK'
    BY <1>1, <1>a, <2>1, <2>2 DEF ServerTypeOK, Receive, Versions
  <2> QED  BY <1>1, <1>a, <2>3, <2>4, <2>5 DEF ServerInv, NoneAhead, Receive
<1>2. ASSUME StoreText  PROVE ServerInv'
  <2>1. message.left = HandlerSteps /\ message.version = document + 1
        /\ message \in [version : Versions, job : {"read", "schedule"}, left : Rest]
    BY <1>2, <1>a, Dispatched DEF StoreText
  <2>2. message' = [message EXCEPT !.left = <<"schedule", "go">>] /\ document' = document + 1
    BY <1>2, <1>a, <2>1, MovedOn DEF StoreText
  <2>3. /\ message' \in [version : Versions, job : {"read", "schedule"}, left : Rest]
        /\ message'.left = <<"schedule", "go">> /\ message'.version = document'
    BY <2>1, <2>2 DEF Rest
  <2>4. message' # Nothing /\ message'.left # HandlerSteps
    BY <2>3, <1>b, StepOrder DEF Nothing
  <2>5. MessageInOrder' /\ UnderWay'
    BY <2>3, <2>4 DEF MessageInOrder, UnderWay, Rest
  <2>6. ServerTypeOK'
    BY <1>2, <1>a, <2>1, <2>2, <2>3 DEF ServerTypeOK, StoreText, Versions
  <2>7. NoneAhead'
    <3>1. UNCHANGED <<timer, work, published>>
      BY <1>2 DEF StoreText
    <3>2. \A job \in Jobs : job.version \in Nat /\ (job.does = "detect" => job.text \in Nat)
      BY <1>b DEF Jobs
    <3>3. timer \in Nat
      BY <1>a DEF ServerTypeOK
    <3> QED  BY <1>a, <1>b, <2>2, <3>1, <3>2, <3>3 DEF NoneAhead, ServerTypeOK
  <2> QED  BY <2>5, <2>6, <2>7 DEF ServerInv
<1>3. ASSUME ScheduleDetect  PROVE ServerInv'
  <2>1. /\ message \in [version : Versions, job : {"read", "schedule"}, left : Rest]
        /\ message.left = <<"schedule", "go">> /\ message.version = document
    BY <1>3, <1>a, Dispatched DEF ScheduleDetect
  <2>2. message' = [message EXCEPT !.left = <<"go">>] /\ timer' = document
    BY <1>3, <1>a, <2>1, MovedOn DEF ScheduleDetect
  <2>3. /\ message' \in [version : Versions, job : {"read", "schedule"}, left : Rest]
        /\ message'.left = <<"go">> /\ message'.version = document
    BY <2>1, <2>2 DEF Rest
  <2>4. document \in Versions /\ timer' # 0
    BY <2>1, <2>2, <1>b
  <2>5. UNCHANGED <<document, work, published, open>>
    BY <1>3 DEF ScheduleDetect
  <2>6. MessageInOrder'
    BY <2>3, <2>5, StepOrder DEF MessageInOrder, Rest
  <2>7. ServerTypeOK'
    BY <1>a, <2>2, <2>3, <2>4, <2>5 DEF ServerTypeOK, Versions
  <2> QED  BY <1>a, <1>b, <2>2, <2>4, <2>5, <2>6, <2>7 DEF ServerInv, NoneAhead, UnderWay
<1>4. ASSUME StartGoroutine  PROVE ServerInv'
  <2> DEFINE new == Job(message.job, message.version, 0)
  <2>1. /\ message \in [version : Versions, job : {"read", "schedule"}, left : Rest]
        /\ message.left = <<"go">> /\ message.version = document
    BY <1>4, <1>a, Dispatched DEF StartGoroutine
  <2>2. new \in Jobs /\ new.does # "detect" /\ new.version = document
    BY <2>1 DEF Job, Jobs
  <2>3. IsABag(work') /\ BagToSet(work') = BagToSet(work) \union {new}
    <3>1. work' = work (+) SetToBag({new})
      BY <1>4 DEF StartGoroutine, Go
    <3> HIDE DEF new
    <3> QED  BY <1>a, <3>1, BagAdd DEF ServerTypeOK
  <2>4. message' = Nothing
    BY <1>4, <1>a, MovedOn DEF StartGoroutine
  <2>5. UNCHANGED <<document, timer, published, open>>
    BY <1>4 DEF StartGoroutine
  <2> HIDE DEF new
  <2>6. ServerTypeOK'
    BY <1>a, <2>2, <2>3, <2>4, <2>5 DEF ServerTypeOK, Nothing
  <2>7. NoneAhead'
    BY <1>a, <1>b, <2>2, <2>3, <2>5 DEF NoneAhead
  <2>8. MessageInOrder' /\ UnderWay'
    BY <2>2, <2>3, <2>4, <2>5 DEF MessageInOrder, UnderWay
  <2> QED  BY <2>6, <2>7, <2>8 DEF ServerInv
<1>5. ASSUME Disconnect  PROVE ServerInv'
  <2>1. IsABag(work') /\ BagToSet(work') = {}
    BY <1>5, NoWork DEF Disconnect
  <2>2. MessageInOrder' /\ UnderWay'
    BY <1>5 DEF Disconnect, MessageInOrder, UnderWay
  <2>3. /\ UNCHANGED <<document, published>>
        /\ open' = FALSE /\ timer' = 0 /\ message'.version = 0
    BY <1>5 DEF Disconnect, Nothing
  <2>4. ServerTypeOK'
    <3>1. open' \in BOOLEAN
      BY <2>3, Zenon
    <3>2. document' \in 0..MaxVersion /\ message'.version \in 0..MaxVersion /\ timer' \in 0..MaxVersion
      BY <1>a, <2>3 DEF ServerTypeOK
    <3>3. published' \subseteq [version : Versions, text : Versions]
      BY <1>a, <2>3 DEF ServerTypeOK
    <3> QED  BY <2>1, <3>1, <3>2, <3>3 DEF ServerTypeOK
  <2>5. NoneAhead'
    BY <1>a, <1>b, <2>1, <2>3 DEF NoneAhead
  <2> QED  BY <2>2, <2>4, <2>5 DEF ServerInv
<1>6. ASSUME TimerFires  PROVE ServerInv'
  <2> DEFINE new == Job("read", timer, 0)
  <2>1. timer \in Versions /\ timer <= document
    BY <1>6, <1>a DEF TimerFires, ServerTypeOK, Versions, NoneAhead
  <2>2. new \in Jobs /\ new.does # "detect" /\ new.version = timer
    BY <2>1 DEF Job, Jobs
  <2>3. IsABag(work') /\ BagToSet(work') = BagToSet(work) \union {new}
    <3>1. work' = work (+) SetToBag({new})
      BY <1>6 DEF TimerFires, Go
    <3> HIDE DEF new
    <3> QED  BY <1>a, <3>1, BagAdd DEF ServerTypeOK
  <2>4. UNCHANGED <<document, message, published, open>> /\ timer' = 0
    BY <1>6 DEF TimerFires
  <2> HIDE DEF new
  <2>5. ServerTypeOK'
    BY <1>a, <2>2, <2>3, <2>4 DEF ServerTypeOK
  <2>6. NoneAhead'
    BY <1>a, <1>b, <2>1, <2>2, <2>3, <2>4 DEF NoneAhead
  <2>7. MessageInOrder' /\ UnderWay'
    BY <1>a, <2>2, <2>3, <2>4 DEF MessageInOrder, UnderWay
  <2> QED  BY <2>5, <2>6, <2>7 DEF ServerInv
<1>7. ASSUME NEW job \in BagToSet(work), Reschedule(job)  PROVE ServerInv'
  <2>1. IsABag(work') /\ BagToSet(work') \subseteq BagToSet(work)
    BY <1>7, <1>a, BagRemove DEF ServerTypeOK, Reschedule
  <2>2. job.version \in Versions /\ job.version <= document /\ timer' = job.version
    BY <1>7, <1>a DEF ServerTypeOK, NoneAhead, Reschedule, Jobs
  <2>3. UNCHANGED <<document, message, published, open>>
    BY <1>7 DEF Reschedule
  <2>4. ServerTypeOK' /\ NoneAhead'
    BY <1>a, <2>1, <2>2, <2>3 DEF ServerTypeOK, NoneAhead, Versions
  <2>5. MessageInOrder' /\ UnderWay'
    BY <1>a, <1>b, <2>2, <2>3 DEF MessageInOrder, UnderWay
  <2> QED  BY <2>4, <2>5 DEF ServerInv
<1>8. ASSUME NEW job \in BagToSet(work), ReadText(job)  PROVE ServerInv'
  <2> DEFINE next == Job("detect", job.version, document)
  <2>1. job.version \in Versions /\ job.version <= document
    BY <1>8, <1>a DEF ServerTypeOK, NoneAhead, Jobs
  <2>2. document \in Versions
    BY <2>1, <1>a DEF ServerTypeOK, Versions
  <2>3. /\ next \in Jobs /\ next.does = "detect"
        /\ next.version = job.version /\ next.text = document
    BY <2>1, <2>2 DEF Job, Jobs
  <2>4. /\ IsABag(work')
        /\ BagToSet(work') \subseteq BagToSet(work) \union {next}
        /\ (BagToSet(work) \ {job}) \union {next} \subseteq BagToSet(work')
    <3>1. work' = Becomes(job, {next})
      BY <1>8 DEF ReadText, TextToDetect, TextRead
    <3> HIDE DEF next
    <3> QED  BY <1>a, <2>3, <3>1, GoroutineMoves DEF ServerTypeOK
  <2>5. UNCHANGED <<document, message, timer, published, open>>
    BY <1>8 DEF ReadText
  <2> HIDE DEF next
  <2>6. ServerTypeOK'
    BY <1>a, <2>3, <2>4, <2>5 DEF ServerTypeOK
  <2>7. NoneAhead'
    <3> SUFFICES ASSUME NEW j \in BagToSet(work')
                 PROVE  /\ j.version <= document
                        /\ j.does = "detect" => j.version <= j.text /\ j.text <= document
      BY <1>a, <2>5 DEF NoneAhead
    <3>1. CASE j = next
      BY <1>b, <2>1, <2>3, <3>1
    <3>2. CASE j \in BagToSet(work)
      BY <1>a, <3>2 DEF NoneAhead
    <3> QED  BY <2>4, <3>1, <3>2
  <2>8. MessageInOrder'
    BY <1>a, <2>5 DEF MessageInOrder
  <2>9. UnderWay'
    <3>1. next \in BagToSet(work') /\ next.text = document'
      BY <2>3, <2>4, <2>5
    <3> QED  BY <3>1 DEF UnderWay
  <2> QED  BY <2>6, <2>7, <2>8, <2>9 DEF ServerInv
<1>9. ASSUME NEW job \in BagToSet(work), Publish(job)  PROVE ServerInv'
  <2> DEFINE answer == [version |-> job.version, text |-> job.text]
  <2>1. IsABag(work') /\ BagToSet(work') \subseteq BagToSet(work) /\ BagToSet(work) \ {job} \subseteq BagToSet(work')
    BY <1>9, <1>a, BagRemove DEF ServerTypeOK, Publish
  <2>2. job.does = "detect" /\ published' = published \union {answer}
    BY <1>9 DEF Publish, Diagnostics
  <2>3. answer \in [version : Versions, text : Versions] /\ answer.version <= answer.text /\ answer.text = job.text
    BY <2>2, <1>a DEF ServerTypeOK, NoneAhead, Jobs
  <2>4. UNCHANGED <<document, message, timer, open>>
    BY <1>9 DEF Publish
  <2> HIDE DEF answer
  <2>5. ServerTypeOK'
    BY <1>a, <2>1, <2>2, <2>3, <2>4 DEF ServerTypeOK
  <2>6. NoneAhead'
    BY <1>a, <2>1, <2>2, <2>3, <2>4 DEF NoneAhead
  <2>7. MessageInOrder'
    BY <1>a, <2>4 DEF MessageInOrder
  <2>8. UnderWay'
    <3> SUFFICES ASSUME open, document # 0
                 PROVE  \/ \E p \in published' : p.text = document
                        \/ message # Nothing /\ message.left # HandlerSteps
                        \/ timer # 0
                        \/ \E j \in BagToSet(work') : j.does = "detect" => j.text = document
      BY <2>4 DEF UnderWay
    <3>1. CASE \E j \in BagToSet(work) : j.does = "detect" => j.text = document
      <4>1. PICK j \in BagToSet(work) : j.does = "detect" => j.text = document
        BY <3>1
      <4>2. CASE j = job
        BY <2>2, <2>3, <4>1, <4>2
      <4>3. CASE j # job
        BY <2>1, <4>1, <4>3
      <4> QED  BY <4>2, <4>3
    <3>2. CASE ~\E j \in BagToSet(work) : j.does = "detect" => j.text = document
      BY <1>a, <2>2, <3>2 DEF UnderWay
    <3> QED  BY <3>1, <3>2
  <2> QED  BY <2>5, <2>6, <2>7, <2>8 DEF ServerInv
<1>10. CASE UNCHANGED serverVars
  BY <1>10 DEF serverVars, ServerInv, ServerTypeOK, MessageInOrder, NoneAhead, UnderWay
<1> QED  BY <1>1, <1>2, <1>3, <1>4, <1>5, <1>6, <1>7, <1>8, <1>9, <1>10 DEF ServerNext

(* When the language server has nothing left to do, the editor has an answer for
   the text that is stored, and never one for a text older than the version the
   answer bears, however many documents versions, timers and goroutines of older
   versions there were (server.go, scheduleDetect and detectAndPublish). *)
THEOREM NewestGetsPublished == ServerSpec => []NewestPublished
<1>1. ServerInv => NewestPublished
  BY NoWork DEF ServerInv, NewestPublished, NoneAhead, UnderWay
<1> QED  BY <1>1, ServerStarts, ServerKeeps, PTL DEF ServerSpec

-----------------------------------------------------------------------------
(***************************************************************************)
(* DriftMonitor, for any number of values and of bins.  Division and       *)
(* rounding put a value of the baseline on the same side of every edge it  *)
(* is not on, whether they look for its index or its bin; so the counts of *)
(* what is observed and of the baseline are sums over the same values, but *)
(* for those on the edge.                                                  *)
(***************************************************************************)

(* The sums of a function's first values. *)
PartialSums(counts, n, g) ==
  g = [i \in 0..n |-> IF i = 0 THEN 0 ELSE g[i - 1] + counts[i - 1]]

LEMMA PartialSumsExist == \A counts : \A n \in Nat : \E g : PartialSums(counts, n, g)
<1> SUFFICES ASSUME NEW counts PROVE \A n \in Nat : \E g : PartialSums(counts, n, g)
  OBVIOUS
<1> DEFINE N == {n \in Nat : \E g : PartialSums(counts, n, g)}
<1>1. 0 \in N
  <2>1. PartialSums(counts, 0, [i \in 0..0 |-> 0])
    BY DEF PartialSums
  <2> QED
    BY <2>1
<1>2. ASSUME NEW n \in Nat, n \in N PROVE n + 1 \in N
  <2>1. PICK g : PartialSums(counts, n, g)
    BY <1>2
  <2> DEFINE h == [i \in 0..(n + 1) |-> IF i = n + 1 THEN g[n] + counts[n] ELSE g[i]]
  <2>2. \A i \in 0..n : h[i] = g[i]
    OBVIOUS
  <2>3. h[n + 1] = g[n] + counts[n]
    OBVIOUS
  <2>4. g = [i \in 0..n |-> IF i = 0 THEN 0 ELSE g[i - 1] + counts[i - 1]]
    BY <2>1 DEF PartialSums
  <2>5. h = [i \in 0..(n + 1) |-> h[i]]
    OBVIOUS
  <2> HIDE DEF h
  <2>6. ASSUME NEW i \in 0..(n + 1)
        PROVE  h[i] = IF i = 0 THEN 0 ELSE h[i - 1] + counts[i - 1]
    <3>1. CASE i = n + 1
      <4>1. h[i - 1] = g[n] /\ i # 0 /\ i - 1 = n
        BY <2>2, <3>1
      <4> QED
        BY <2>3, <3>1, <4>1
    <3>2. CASE i = 0
      BY <2>2, <2>4, <3>2
    <3>3. CASE i \in 1..n
      <4>1. h[i] = g[i] /\ h[i - 1] = g[i - 1] /\ i # 0 /\ i \in 0..n
        BY <2>2, <3>3
      <4> QED
        BY <2>4, <4>1
    <3> QED
      BY <3>1, <3>2, <3>3
  <2>7. PartialSums(counts, n + 1, h)
    BY <2>5, <2>6 DEF PartialSums
  <2> QED
    BY <2>7
<1> HIDE DEF N
<1>3. Nat \subseteq N
  BY <1>1, <1>2, Induction
<1> QED
  BY <1>3 DEF N

LEMMA SumIsLast ==
  ASSUME NEW counts, NEW n \in Nat
  PROVE  \E g : PartialSums(counts, n, g) /\ Sum(counts, n) = g[n]
<1> DEFINE g == CHOOSE g : PartialSums(counts, n, g)
<1>1. PartialSums(counts, n, g)
  BY PartialSumsExist
<1>2. Sum(counts, n) = g[n]
  BY DEF Sum, PartialSums
<1> QED
  BY <1>1, <1>2

LEMMA SumOfNone == \A counts : Sum(counts, 0) = 0
<1> TAKE counts
<1>1. PICK g : PartialSums(counts, 0, g) /\ Sum(counts, 0) = g[0]
  BY SumIsLast
<1> QED
  BY <1>1 DEF PartialSums

LEMMA SumOfOneMore ==
  ASSUME NEW counts, NEW n \in Nat
  PROVE  Sum(counts, n + 1) = Sum(counts, n) + counts[n]
<1>1. PICK g : PartialSums(counts, n, g) /\ Sum(counts, n) = g[n]
  BY SumIsLast
<1>2. PICK h : PartialSums(counts, n + 1, h) /\ Sum(counts, n + 1) = h[n + 1]
  BY SumIsLast
<1>3. /\ \A i \in 0..n : g[i] = IF i = 0 THEN 0 ELSE g[i - 1] + counts[i - 1]
      /\ \A i \in 0..(n + 1) : h[i] = IF i = 0 THEN 0 ELSE h[i - 1] + counts[i - 1]
  <2>1. g = [i \in 0..n |-> IF i = 0 THEN 0 ELSE g[i - 1] + counts[i - 1]]
    BY <1>1 DEF PartialSums
  <2>2. h = [i \in 0..(n + 1) |-> IF i = 0 THEN 0 ELSE h[i - 1] + counts[i - 1]]
    BY <1>2 DEF PartialSums
  <2>3. \A i \in 0..n : g[i] = IF i = 0 THEN 0 ELSE g[i - 1] + counts[i - 1]
    BY <2>1, Zenon
  <2>4. \A i \in 0..(n + 1) : h[i] = IF i = 0 THEN 0 ELSE h[i - 1] + counts[i - 1]
    BY <2>2, Zenon
  <2> QED
    BY <2>3, <2>4
<1> DEFINE N == {i \in Nat : i <= n => g[i] = h[i]}
<1>4. 0 \in N
  BY <1>3
<1>5. ASSUME NEW i \in Nat, i \in N PROVE i + 1 \in N
  <2> SUFFICES ASSUME i + 1 <= n PROVE g[i + 1] = h[i + 1]
    OBVIOUS
  <2>1. g[i] = h[i] /\ i + 1 \in 0..n /\ i + 1 \in 0..(n + 1) /\ i + 1 # 0 /\ (i + 1) - 1 = i
    BY <1>5
  <2> QED
    BY <1>3, <2>1
<1> HIDE DEF N
<1>6. Nat \subseteq N
  BY <1>4, <1>5, Induction
<1>7. g[n] = h[n]
  BY <1>6 DEF N
<1>8. n + 1 \in 0..(n + 1) /\ n + 1 # 0 /\ (n + 1) - 1 = n
  OBVIOUS
<1>9. h[n + 1] = h[n] + counts[n]
  BY <1>3, <1>8
<1> QED
  BY <1>1, <1>2, <1>7, <1>9

(* What two sums have to do with each other, when their terms have. *)
LEMMA SumIsNat ==
  ASSUME NEW n \in Nat, NEW counts, \A i \in 0..n - 1 : counts[i] \in Nat
  PROVE  Sum(counts, n) \in Nat
<1> DEFINE N == {m \in Nat : m <= n => Sum(counts, m) \in Nat}
<1>1. 0 \in N
  BY SumOfNone
<1>2. ASSUME NEW m \in Nat, m \in N PROVE m + 1 \in N
  <2> SUFFICES ASSUME m + 1 <= n PROVE Sum(counts, m + 1) \in Nat
    OBVIOUS
  <2>1. Sum(counts, m) \in Nat /\ counts[m] \in Nat
    BY <1>2
  <2>2. Sum(counts, m + 1) = Sum(counts, m) + counts[m]
    BY SumOfOneMore
  <2> QED
    BY <2>1, <2>2
<1> HIDE DEF N
<1>3. Nat \subseteq N
  BY <1>1, <1>2, Induction
<1> QED
  BY <1>3 DEF N

LEMMA SumGrows ==
  ASSUME NEW n \in Nat, NEW c, NEW d, \A i \in 0..n - 1 : c[i] \in Nat /\ d[i] \in Nat /\ c[i] <= d[i]
  PROVE  Sum(c, n) <= Sum(d, n)
<1> DEFINE N == {m \in Nat : m <= n => Sum(c, m) \in Nat /\ Sum(d, m) \in Nat /\ Sum(c, m) <= Sum(d, m)}
<1>1. 0 \in N
  BY SumOfNone
<1>2. ASSUME NEW m \in Nat, m \in N PROVE m + 1 \in N
  <2> SUFFICES ASSUME m + 1 <= n
               PROVE  Sum(c, m + 1) \in Nat /\ Sum(d, m + 1) \in Nat /\ Sum(c, m + 1) <= Sum(d, m + 1)
    OBVIOUS
  <2>1. /\ Sum(c, m) \in Nat /\ Sum(d, m) \in Nat /\ Sum(c, m) <= Sum(d, m)
        /\ c[m] \in Nat /\ d[m] \in Nat /\ c[m] <= d[m]
    BY <1>2
  <2>2. Sum(c, m + 1) = Sum(c, m) + c[m] /\ Sum(d, m + 1) = Sum(d, m) + d[m]
    BY SumOfOneMore
  <2> QED
    BY <2>1, <2>2
<1> HIDE DEF N
<1>3. Nat \subseteq N
  BY <1>1, <1>2, Induction
<1> QED
  BY <1>3 DEF N

LEMMA SumOfZeros ==
  ASSUME NEW n \in Nat, NEW c, \A i \in 0..n - 1 : c[i] = 0
  PROVE  Sum(c, n) = 0
<1> DEFINE N == {m \in Nat : m <= n => Sum(c, m) = 0}
<1>1. 0 \in N
  BY SumOfNone
<1>2. ASSUME NEW m \in Nat, m \in N PROVE m + 1 \in N
  <2> SUFFICES ASSUME m + 1 <= n PROVE Sum(c, m + 1) = 0
    OBVIOUS
  <2>1. Sum(c, m) = 0 /\ c[m] = 0
    BY <1>2
  <2>2. Sum(c, m + 1) = Sum(c, m) + c[m]
    BY SumOfOneMore
  <2> QED
    BY <2>1, <2>2
<1> HIDE DEF N
<1>3. Nat \subseteq N
  BY <1>1, <1>2, Induction
<1> QED
  BY <1>3 DEF N

LEMMA TermsBelowSum ==
  ASSUME NEW n \in Nat, NEW c, \A i \in 0..n - 1 : c[i] \in Nat, NEW k \in 0..n - 1
  PROVE  c[k] <= Sum(c, n)
<1> DEFINE N == {m \in Nat : m <= n => Sum(c, m) \in Nat /\ (k < m => c[k] <= Sum(c, m))}
<1>1. 0 \in N
  BY SumOfNone
<1>2. ASSUME NEW m \in Nat, m \in N PROVE m + 1 \in N
  <2> SUFFICES ASSUME m + 1 <= n
               PROVE  Sum(c, m + 1) \in Nat /\ (k < m + 1 => c[k] <= Sum(c, m + 1))
    OBVIOUS
  <2>1. Sum(c, m) \in Nat /\ (k < m => c[k] <= Sum(c, m)) /\ c[m] \in Nat /\ c[k] \in Nat
    BY <1>2
  <2>2. Sum(c, m + 1) = Sum(c, m) + c[m]
    BY SumOfOneMore
  <2>3. k < m \/ k = m \/ k > m
    OBVIOUS
  <2> QED
    BY <2>1, <2>2, <2>3
<1> HIDE DEF N
<1>3. Nat \subseteq N
  BY <1>1, <1>2, Induction
<1> QED
  BY <1>3 DEF N

LEMMA SumCountsOne ==
  ASSUME NEW n \in Nat, NEW c, NEW d, NEW k \in 0..n - 1, \A i \in 0..n - 1 : c[i] \in Nat,
         \A i \in 0..n - 1 : d[i] = IF i = k THEN c[i] + 1 ELSE c[i]
  PROVE  Sum(d, n) = Sum(c, n) + 1
<1> DEFINE N == {m \in Nat : m <= n =>
                   Sum(c, m) \in Nat /\ Sum(d, m) = Sum(c, m) + (IF k < m THEN 1 ELSE 0)}
<1>1. 0 \in N
  BY SumOfNone
<1>2. ASSUME NEW m \in Nat, m \in N PROVE m + 1 \in N
  <2> SUFFICES ASSUME m + 1 <= n
               PROVE  /\ Sum(c, m + 1) \in Nat
                      /\ Sum(d, m + 1) = Sum(c, m + 1) + (IF k < m + 1 THEN 1 ELSE 0)
    OBVIOUS
  <2>1. /\ Sum(c, m) \in Nat /\ Sum(d, m) = Sum(c, m) + (IF k < m THEN 1 ELSE 0)
        /\ c[m] \in Nat /\ d[m] = IF m = k THEN c[m] + 1 ELSE c[m]
    BY <1>2
  <2>2. Sum(c, m + 1) = Sum(c, m) + c[m] /\ Sum(d, m + 1) = Sum(d, m) + d[m]
    BY SumOfOneMore
  <2>3. CASE k < m
    BY <2>1, <2>2, <2>3
  <2>4. CASE k = m
    BY <2>1, <2>2, <2>4
  <2>5. CASE k > m
    BY <2>1, <2>2, <2>5
  <2> QED
    BY <2>3, <2>4, <2>5
<1> HIDE DEF N
<1>3. Nat \subseteq N
  BY <1>1, <1>2, Induction
<1> QED
  BY <1>3 DEF N

-----------------------------------------------------------------------------
LEMMA MinIsLeast ==
  ASSUME NEW T, T \subseteq Nat, T # {}
  PROVE  Min(T) \in T /\ \A n \in T : Min(T) <= n
<1>1. PICK n \in T : \A m \in T : n <= m
  BY Least
<1> QED
  BY <1>1 DEF Min

LEMMA MaxIsGreatest ==
  ASSUME NEW N \in Nat, NEW T, T \subseteq 0..N, T # {}
  PROVE  Max(T) \in T /\ \A n \in T : Max(T) >= n
<1> DEFINE R == {r \in 0..N : N - r \in T}
<1>0. \A n \in T : n \in 0..N /\ N - n \in 0..N /\ N - (N - n) = n
  OBVIOUS
<1>1. R \subseteq Nat /\ R # {}
  <2>1. PICK n \in T : TRUE
    OBVIOUS
  <2>2. N - n \in R
    BY <1>0, <2>1
  <2>3. R \subseteq 0..N
    OBVIOUS
  <2> HIDE DEF R
  <2> QED
    BY <2>2, <2>3
<1> HIDE DEF R
<1>2. PICK r \in R : \A m \in R : r <= m
  BY <1>1, Least
<1> USE DEF R
<1>3. PICK n \in T : r = N - n
  BY <1>2, <1>0
<1>4. \A m \in T : n >= m
  <2> TAKE m \in T
  <2>1. N - m \in R
    BY <1>0
  <2>2. N - n <= N - m /\ n \in Int /\ m \in Int
    BY <1>0, <1>2, <1>3, <2>1
  <2> QED
    BY <2>2
<1> QED
  BY <1>4 DEF Max

LEMMA ProductsOrdered ==
  ASSUME NEW a \in Nat, NEW b \in Nat, NEW d \in Nat, a <= b
  PROVE  a * d <= b * d
<1>1. PICK c \in Nat : b = a + c
  OBVIOUS
<1>2. b * d = a * d + c * d /\ c * d >= 0
  BY <1>1
<1> QED
  BY <1>2

(* The quotient is the number of whole widths d in x. *)
LEMMA QuotientFits ==
  ASSUME NEW x \in Nat, NEW d \in Nat \ {0}
  PROVE  x \div d \in Nat /\ (x \div d) * d <= x /\ x < (x \div d + 1) * d
  OBVIOUS

LEMMA QuotientUnique ==
  ASSUME NEW x \in Nat, NEW d \in Nat \ {0}, NEW b \in Nat
  PROVE  /\ b * d <= x => b <= x \div d
         /\ x < (b + 1) * d => x \div d <= b
<1> DEFINE q == x \div d
<1>1. q \in Nat /\ q * d <= x /\ x < (q + 1) * d
  BY QuotientFits
<1> HIDE DEF q
<1>2. ASSUME b * d <= x, ~ (b <= q) PROVE FALSE
  <2>1. (q + 1) * d <= b * d
    BY <1>1, <1>2, ProductsOrdered
  <2>2. (q + 1) * d \in Int /\ b * d \in Int
    BY <1>1
  <2> QED
    BY <1>1, <1>2, <2>1, <2>2
<1>3. ASSUME x < (b + 1) * d, ~ (q <= b) PROVE FALSE
  <2>1. (b + 1) * d <= q * d
    BY <1>1, <1>3, ProductsOrdered
  <2>2. (b + 1) * d \in Int /\ q * d \in Int
    BY <1>1
  <2> QED
    BY <1>1, <1>3, <2>1, <2>2
<1> QED
  BY <1>2, <1>3 DEF q

LEMMA MinOfTwo ==
  ASSUME NEW a \in Nat, NEW b \in Nat
  PROVE  Min({a, b}) = IF a <= b THEN a ELSE b
<1>1. Min({a, b}) \in {a, b} /\ \A n \in {a, b} : Min({a, b}) <= n
  BY MinIsLeast
<1> QED
  BY <1>1

(* What buildDistribution computes, by name. *)
Seen(sample) == {v \in Values : sample[v] > 0}
From(sample) ==
  IF Seen(sample) = {} \/ Cardinality(Seen(sample)) = 1 THEN 0 ELSE Min(Seen(sample))
Span(sample) ==
  IF Seen(sample) = {} THEN 0
  ELSE IF Cardinality(Seen(sample)) = 1 THEN Scale ELSE Max(Seen(sample)) - Min(Seen(sample))
Quotient(sample, v) == ((v - From(sample)) * BinCount) \div Span(sample)
Rounded(sample, below, v) ==
  IF /\ Quotient(sample, v) \in below
     /\ Quotient(sample, v) * Span(sample) = (v - From(sample)) * BinCount
  THEN Quotient(sample, v) - 1 ELSE Quotient(sample, v)
Index(sample, below, v) == Min({Rounded(sample, below, v), BinCount - 1})
BinCounts(sample, below) ==
  [b \in Bins |-> Size([v \in Values |->
     IF v \in Seen(sample) /\ Index(sample, below, v) = b THEN sample[v] ELSE 0])]

LEMMA DistributionIs ==
  \A sample, above, below :
    Distribution(sample, above, below) =
      [values |-> sample, from |-> From(sample), span |-> Span(sample),
       above |-> IF Seen(sample) = {} THEN {} ELSE above, counts |-> BinCounts(sample, below)]
BY DEF Distribution, Seen, From, Span, Quotient, Rounded, Index, BinCounts

LEMMA RangeOfSample ==
  ASSUME NEW sample \in [Values -> Nat]
  PROVE  /\ From(sample) \in Values
         /\ Span(sample) \in 0..Scale
         /\ Seen(sample) # {} => /\ Span(sample) > 0
                                /\ \A v \in Seen(sample) : v >= From(sample)
<1> USE DriftAssumption
<1>1. CASE Seen(sample) = {}
  BY <1>1 DEF From, Span, Values
<1>2. CASE Seen(sample) # {} /\ Cardinality(Seen(sample)) = 1
  BY <1>2 DEF From, Span, Values, Seen
<1>3. CASE Seen(sample) # {} /\ Cardinality(Seen(sample)) # 1
  <2> DEFINE T == Seen(sample)
  <2>1. T \subseteq 0..Scale /\ T # {} /\ Scale \in Nat
    BY <1>3 DEF Seen, Values
  <2>2. From(sample) = Min(T) /\ Span(sample) = Max(T) - Min(T)
    BY <1>3 DEF From, Span
  <2>3. Cardinality(T) # 1
    BY <1>3
  <2> HIDE DEF T
  <2>4. Min(T) \in T /\ (\A n \in T : Min(T) <= n) /\ Max(T) \in T /\ \A n \in T : Max(T) >= n
    <3>1. T \subseteq Nat
      BY <2>1
    <3>2. Min(T) \in T /\ \A n \in T : Min(T) <= n
      BY <2>1, <3>1, MinIsLeast
    <3>3. Max(T) \in T /\ \A n \in T : Max(T) >= n
      BY <2>1, MaxIsGreatest
    <3> QED
      BY <3>2, <3>3
  <2>0. \A n \in T : n \in Int
    BY <2>1
  <2>5. Max(T) # Min(T)
    <3> SUFFICES ASSUME Max(T) = Min(T) PROVE FALSE
      OBVIOUS
    <3>1. T = {Min(T)}
      <4>1. \A n \in T : n = Min(T)
        <5> TAKE n \in T
        <5>1. n \in Int /\ Min(T) \in Int /\ Min(T) <= n /\ Max(T) >= n
          BY <2>0, <2>4
        <5> QED
          BY <5>1
      <4> QED
        BY <2>4, <4>1
    <3>2. Cardinality(T) = 1
      BY <3>1, FS_Singleton
    <3> QED
      BY <2>3, <3>2
  <2>6. Min(T) \in 0..Scale /\ Max(T) \in 0..Scale /\ Max(T) >= Min(T)
    BY <2>1, <2>4
  <2>7. Max(T) - Min(T) > 0 /\ Max(T) - Min(T) \in 0..Scale
    BY <2>5, <2>6
  <2>8. \A v \in T : v >= Min(T)
    <3> TAKE v \in T
    <3>1. v \in Int /\ Min(T) \in Int /\ Min(T) <= v
      BY <2>0, <2>4
    <3> QED
      BY <3>1
  <2> QED
    BY <2>2, <2>6, <2>7, <2>8 DEF Values, T
<1> QED
  BY <1>1, <1>2, <1>3

(* Sizes *)

LEMMA SizeOfNone == Size(NoValues) = 0
BY DriftAssumption, SumOfZeros DEF Size, NoValues, Values

LEMMA OnlyNoneIsEmpty == \A sample \in [Values -> Nat] : Size(sample) = 0 => sample = NoValues
<1> TAKE sample \in [Values -> Nat]
<1> HAVE Size(sample) = 0
<1>1. Scale + 1 \in Nat /\ Values = 0..(Scale + 1) - 1
  BY DriftAssumption DEF Values
<1>2. \A v \in Values : sample[v] <= Size(sample) /\ sample[v] \in Nat
  BY <1>1, TermsBelowSum DEF Size
<1>3. \A v \in Values : sample[v] = 0
  BY <1>2
<1> QED
  BY <1>3 DEF NoValues

LEMMA SizeOfOneMore ==
  ASSUME NEW sample \in [Values -> Nat], NEW more \in [Values -> Nat], NEW v \in Values,
         \A w \in Values : more[w] = IF w = v THEN sample[w] + 1 ELSE sample[w]
  PROVE  Size(more) = Size(sample) + 1
<1>1. Scale + 1 \in Nat /\ Values = 0..(Scale + 1) - 1
  BY DriftAssumption DEF Values
<1> QED
  BY <1>1, SumCountsOne DEF Size

LEMMA SizeIsNat == \A sample \in [Values -> Nat] : Size(sample) \in Nat
<1>1. Scale + 1 \in Nat /\ Values = 0..(Scale + 1) - 1
  BY DriftAssumption DEF Values
<1> QED
  BY <1>1, SumIsNat DEF Size

(* Part of a sample is no larger. *)
LEMMA SizeOfPart ==
  ASSUME NEW sample \in [Values -> Nat], NEW part \in [Values -> Nat],
         \A v \in Values : part[v] <= sample[v]
  PROVE  Size(part) <= Size(sample)
<1>1. Scale + 1 \in Nat /\ Values = 0..(Scale + 1) - 1
  BY DriftAssumption DEF Values
<1> QED
  BY <1>1, SumGrows DEF Size

LEMMA ValuesBelowSize ==
  \A sample \in [Values -> Nat] : \A v \in Values : sample[v] <= Size(sample)
<1>1. Scale + 1 \in Nat /\ Values = 0..(Scale + 1) - 1
  BY DriftAssumption DEF Values
<1> QED
  BY <1>1, TermsBelowSum DEF Size

LEMMA MultiplesOrdered ==
  ASSUME NEW a \in Nat, NEW b \in Nat, NEW d \in Nat \ {0}, a < b
  PROVE  a * d < b * d
<1>1. (a + 1) * d <= b * d
  BY ProductsOrdered
<1>2. (a + 1) * d = a * d + d /\ a * d \in Nat /\ b * d \in Nat
  OBVIOUS
<1> QED
  BY <1>1, <1>2

(* Where a quotient puts x among multiples of d, when it is rounded down on some of
   the edges, and cut to the last bin: on the right side of every edge it is not on. *)
RoundedTo(q, x, d, edges) == IF q \in edges /\ q * d = x THEN q - 1 ELSE q
CutTo(r) == IF r <= BinCount - 1 THEN r ELSE BinCount - 1

LEMMA RightSide ==
  ASSUME NEW x \in Nat, NEW d \in Nat \ {0}, NEW edges \in SUBSET InnerEdges
  PROVE  LET r == RoundedTo(x \div d, x, d, edges)
         IN /\ r \in Nat /\ r <= x \div d /\ CutTo(r) \in Bins
            /\ \A b \in InnerEdges : x # b * d => (CutTo(r) < b <=> x < b * d)
<1> USE DriftAssumption
<1> DEFINE q == x \div d
           r == RoundedTo(q, x, d, edges)
<1>1. q \in Nat /\ q * d <= x /\ x < (q + 1) * d
  BY QuotientFits
<1>2. \A b \in Nat : b * d <= x => b <= q
  BY QuotientUnique
<1>3. \A b \in InnerEdges : x < b * d => q < b
  <2> TAKE b \in InnerEdges
  <2> HAVE x < b * d
  <2>1. b \in Nat
    BY DEF InnerEdges
  <2>2. CASE b <= q
    <3>1. b * d <= q * d /\ q * d \in Nat /\ b * d \in Nat
      BY <1>1, <2>1, <2>2, ProductsOrdered
    <3> QED
      BY <1>1, <3>1
  <2> QED
    BY <1>1, <2>1, <2>2
<1> HIDE DEF q
<1>4. r \in Nat /\ r <= q /\ (r = q \/ (r = q - 1 /\ q * d = x))
  BY <1>1 DEF RoundedTo, InnerEdges
<1> HIDE DEF r
<1>5. CutTo(r) \in Bins
  BY <1>4 DEF CutTo, Bins
<1>6. ASSUME NEW b \in InnerEdges, x # b * d PROVE CutTo(r) < b <=> x < b * d
  <2>1. b \in Nat /\ b <= BinCount - 1 /\ b * d \in Nat
    BY DEF InnerEdges
  <2>2. CutTo(r) < b <=> r < b
    BY <1>4, <2>1 DEF CutTo
  <2>3. x < b * d <=> q < b
    BY <1>1, <1>2, <1>3, <1>6, <2>1
  <2>4. r < b <=> q < b
    BY <1>1, <1>4, <1>6, <2>1
  <2> QED
    BY <2>2, <2>3, <2>4
<1> QED
  BY <1>4, <1>5, <1>6 DEF r, q

(* The only bin whose computed bounds hold a value of the baseline. *)
LEMMA OnlyBin ==
  ASSUME NEW d \in Nat \ {0}, NEW x \in Nat, NEW v \in Values,
         baseline.span # -1, baseline.above \in SUBSET InnerEdges,
         \A b \in 0..BinCount :
           Reaches(v, b) <=> b * d <= x /\ ~(b \in baseline.above /\ x = b * d)
  PROVE  HoldingBins(v) = {CutTo(RoundedTo(x \div d, x, d, baseline.above))}
<1> USE DriftAssumption
<1> DEFINE q == x \div d
           r == RoundedTo(q, x, d, baseline.above)
           i == CutTo(r)
           P == [b \in Nat |-> b * d]
<1>1. q \in Nat /\ P[q] <= x /\ x < P[q + 1]
  <2>1. q \in Nat /\ q * d <= x /\ x < (q + 1) * d
    BY QuotientFits
  <2>2. q + 1 \in Nat
    BY <2>1
  <2> HIDE DEF q
  <2>3. P[q] = q * d /\ P[q + 1] = (q + 1) * d
    BY <2>1, <2>2
  <2> QED
    BY <2>1, <2>3
<1>2. \A b \in Nat : P[b] \in Nat /\ (P[b] <= x => b <= q) /\ (x < P[b + 1] => q <= b)
  <2> TAKE b \in Nat
  <2>1. P[b] = b * d /\ P[b + 1] = (b + 1) * d /\ b * d \in Nat
    OBVIOUS
  <2> QED
    BY <2>1, QuotientUnique
<1>3. \A a, b \in Nat : a < b => P[a] < P[b]
  <2> TAKE a, b \in Nat
  <2>1. P[a] = a * d /\ P[b] = b * d
    OBVIOUS
  <2> QED
    BY <2>1, MultiplesOrdered
<1>4. \A b \in 0..BinCount : Reaches(v, b) <=> P[b] <= x /\ ~(b \in baseline.above /\ x = P[b])
  <2> TAKE b \in 0..BinCount
  <2>1. P[b] = b * d
    OBVIOUS
  <2> QED
    BY <2>1
<1>5. r = IF q \in baseline.above /\ P[q] = x THEN q - 1 ELSE q
  BY <1>1 DEF RoundedTo
<1> HIDE DEF q, r, P
<1>6. \A b \in baseline.above : b \in 1..BinCount - 1
  BY DEF InnerEdges
<1>7. /\ r \in Nat /\ r <= q /\ i \in 0..BinCount - 1 /\ i <= r /\ (i = BinCount - 1 \/ i = r)
      /\ r = q \/ (r = q - 1 /\ q \in baseline.above /\ P[q] = x)
      /\ q \in baseline.above /\ P[q] = x => r = q - 1
  BY <1>1, <1>5, <1>6 DEF CutTo
<1> HIDE DEF i
<1>8. Reaches(v, i)
  <2>1. i \in 0..BinCount /\ i \in Nat /\ i <= q
    BY <1>1, <1>7
  <2>2. P[i] <= x
    BY <1>1, <1>2, <1>3, <2>1
  <2>3. ASSUME i \in baseline.above, x = P[i] PROVE FALSE
    <3>1. x < P[i + 1]
      BY <1>2, <1>3, <2>1, <2>3
    <3>2. q = i
      BY <1>1, <1>2, <2>1, <3>1
    <3> QED
      BY <1>1, <1>7, <2>1, <2>3, <3>2
  <2> QED
    BY <1>4, <2>1, <2>2, <2>3
<1>9. i = BinCount - 1 \/ ~Reaches(v, i + 1)
  <2> SUFFICES ASSUME i # BinCount - 1 PROVE ~Reaches(v, i + 1)
    OBVIOUS
  <2>1. i = r /\ i + 1 \in 0..BinCount /\ i + 1 \in Nat
    BY <1>7
  <2>2. CASE r = q
    BY <1>1, <1>2, <1>4, <2>1, <2>2
  <2>3. CASE r = q - 1 /\ q \in baseline.above /\ P[q] = x
    <3>1. i + 1 = q
      BY <1>1, <2>1, <2>3
    <3> QED
      BY <1>4, <2>1, <2>3, <3>1
  <2> QED
    BY <1>7, <2>2, <2>3
<1>10. HoldingBins(v) = {b \in Bins : Reaches(v, b) /\ (b = BinCount - 1 \/ ~Reaches(v, b + 1))}
  BY DEF HoldingBins, BinsOf
<1>11. ASSUME NEW a \in 0..BinCount, NEW b \in 0..BinCount, a < b, Reaches(v, b)
       PROVE  Reaches(v, a)
  <2>1. P[a] < P[b] /\ P[a] \in Nat /\ P[b] \in Nat /\ P[b] <= x
    BY <1>2, <1>3, <1>4, <1>11
  <2> QED
    BY <1>4, <2>1
<1>12. ASSUME NEW b \in Bins, Reaches(v, b), b = BinCount - 1 \/ ~Reaches(v, b + 1) PROVE b = i
  <2>1. b \in 0..BinCount - 1 /\ b + 1 \in 0..BinCount /\ b \in 0..BinCount
    BY DEF Bins
  <2>2. i \in 0..BinCount /\ (i # BinCount - 1 => i + 1 \in 0..BinCount)
    BY <1>7
  <2>3. CASE b < i
    <3>1. ~Reaches(v, b + 1)
      BY <1>7, <1>12, <2>1, <2>3
    <3>2. b + 1 = i \/ b + 1 < i
      BY <1>7, <2>1, <2>3
    <3> QED
      BY <1>8, <1>11, <2>1, <2>2, <3>1, <3>2
  <2>4. CASE i < b
    <3>1. ~Reaches(v, i + 1) /\ i + 1 \in 0..BinCount
      BY <1>7, <1>9, <2>1, <2>2, <2>4
    <3>2. i + 1 = b \/ i + 1 < b
      BY <1>7, <2>1, <2>4
    <3> QED
      BY <1>11, <1>12, <2>1, <3>1, <3>2
  <2> QED
    BY <1>7, <2>1, <2>3, <2>4
<1>13. i \in Bins
  BY <1>7 DEF Bins
<1>14. HoldingBins(v) = {i}
  BY <1>8, <1>9, <1>10, <1>12, <1>13
<1> QED
  BY <1>14 DEF i, r, q

(* A value of the baseline has a bin, as it has an index, and both are on the same
   side of every edge that it is not on. *)
BinOf(v) == Min(HoldingBins(v))

LEMMA BinOfValue ==
  ASSUME NEW sample \in [Values -> Nat], NEW above \in SUBSET InnerEdges,
         NEW below \in SUBSET InnerEdges, baseline = Distribution(sample, above, below),
         NEW v \in Seen(sample)
  PROVE  /\ HoldingBins(v) # {} /\ BinOf(v) \in Bins
         /\ Index(sample, below, v) \in Bins
         /\ \A b \in InnerEdges : v * BinCount # Lower(b) =>
              (BinOf(v) < b <=> Index(sample, below, v) < b)
<1> USE DriftAssumption
<1> DEFINE d == Span(sample)
           f == From(sample)
           B == BinCount
           x == (v - f) * B
           q == x \div d
           i == Index(sample, below, v)
<1>1. /\ v \in Nat /\ f \in Nat /\ d \in Nat \ {0} /\ B \in Nat \ {0} /\ v >= f
      /\ v \in 0..Scale /\ v \in Values
  <2>1. Seen(sample) # {} /\ v \in Values
    BY DEF Seen
  <2>2. f \in Values /\ d \in 0..Scale /\ d > 0 /\ v >= f
    BY <2>1, RangeOfSample
  <2> QED
    BY <2>1, <2>2 DEF Values
<1>2. baseline.from = f /\ baseline.span = d /\ baseline.above = above
  <2>1. Seen(sample) # {}
    OBVIOUS
  <2> QED
    BY <2>1, DistributionIs
<1>3. i = Min({RoundedTo(q, x, d, below), B - 1})
  BY DEF Index, Rounded, Quotient, RoundedTo
<1> HIDE DEF d, f, i
<1>4. x \in Nat /\ v * B = f * B + x /\ f * B \in Nat
  <2>1. PICK k \in Nat : v = f + k
    BY <1>1
  <2>2. v - f = k /\ v * B = f * B + k * B /\ k * B \in Nat
    BY <1>1, <2>1
  <2> QED
    BY <1>1, <2>2
<1> HIDE DEF x
<1>5. \A b \in Nat : Lower(b) = f * B + b * d /\ b * d \in Nat
  BY <1>1, <1>2 DEF Lower
<1>6. \A b \in 0..BinCount : Reaches(v, b) <=> b * d <= x /\ ~(b \in baseline.above /\ x = b * d)
  <2> TAKE b \in 0..BinCount
  <2>1. Lower(b) = f * B + b * d /\ b * d \in Nat
    BY <1>5
  <2>2. v * B >= Lower(b) <=> b * d <= x
    BY <1>4, <2>1
  <2>3. v * B = Lower(b) <=> x = b * d
    BY <1>4, <2>1
  <2> QED
    BY <2>2, <2>3 DEF Reaches
<1>7. HoldingBins(v) = {CutTo(RoundedTo(q, x, d, above))}
  <2>1. baseline.span # -1
    BY <1>1, <1>2
  <2> QED
    <3>1. baseline.above \in SUBSET InnerEdges
      BY <1>2
    <3>2. HoldingBins(v) = {CutTo(RoundedTo(x \div d, x, d, baseline.above))}
      <4>1. \A b \in 0..BinCount :
              Reaches(v, b) <=> b * d <= x /\ ~(b \in baseline.above /\ x = b * d)
        BY <1>6
      <4>2. d \in Nat \ {0} /\ x \in Nat /\ v \in Values
        BY <1>1, <1>4
      <4> HIDE DEF q
      <4> QED
        BY <2>1, <3>1, <4>1, <4>2, OnlyBin
    <3> QED
      BY <1>2, <3>2
<1>8. /\ CutTo(RoundedTo(q, x, d, above)) \in Bins
      /\ \A b \in InnerEdges : x # b * d => (CutTo(RoundedTo(q, x, d, above)) < b <=> x < b * d)
  BY <1>1, <1>4, RightSide
<1>9. /\ RoundedTo(q, x, d, below) \in Nat /\ CutTo(RoundedTo(q, x, d, below)) \in Bins
      /\ \A b \in InnerEdges : x # b * d => (CutTo(RoundedTo(q, x, d, below)) < b <=> x < b * d)
  BY <1>1, <1>4, RightSide
<1> DEFINE m == CutTo(RoundedTo(q, x, d, above))
<1>10. i = CutTo(RoundedTo(q, x, d, below))
  BY <1>1, <1>3, <1>9, MinOfTwo DEF CutTo
<1>11. BinOf(v) = m
  <2> HIDE DEF m
  <2>1. m \in Nat
    BY <1>8 DEF Bins, m
  <2>2. Min({m}) = m
    BY <2>1, MinIsLeast
  <2> QED
    BY <1>7, <2>2 DEF BinOf, m
<1>12. \A b \in InnerEdges : v * BinCount # Lower(b) => x # b * d
  <2> TAKE b \in InnerEdges
  <2>1. b \in Nat
    BY DEF InnerEdges
  <2> QED
    BY <1>4, <1>5, <2>1
<1> HIDE DEF q
<1> QED
  BY <1>7, <1>8, <1>9, <1>10, <1>11, <1>12 DEF i

(* Sums and sizes that add up. *)
LEMMA SumAdds ==
  ASSUME NEW n \in Nat, NEW c, NEW d, NEW e,
         \A i \in 0..n - 1 : c[i] \in Nat /\ d[i] \in Nat /\ e[i] = c[i] + d[i]
  PROVE  Sum(e, n) = Sum(c, n) + Sum(d, n)
<1> DEFINE N == {m \in Nat : m <= n =>
                   Sum(c, m) \in Nat /\ Sum(d, m) \in Nat /\ Sum(e, m) = Sum(c, m) + Sum(d, m)}
<1>1. 0 \in N
  BY SumOfNone
<1>2. ASSUME NEW m \in Nat, m \in N PROVE m + 1 \in N
  <2> SUFFICES ASSUME m + 1 <= n
               PROVE  /\ Sum(c, m + 1) \in Nat /\ Sum(d, m + 1) \in Nat
                      /\ Sum(e, m + 1) = Sum(c, m + 1) + Sum(d, m + 1)
    OBVIOUS
  <2>1. /\ Sum(c, m) \in Nat /\ Sum(d, m) \in Nat /\ Sum(e, m) = Sum(c, m) + Sum(d, m)
        /\ c[m] \in Nat /\ d[m] \in Nat /\ e[m] = c[m] + d[m]
    BY <1>2
  <2>2. /\ Sum(c, m + 1) = Sum(c, m) + c[m] /\ Sum(d, m + 1) = Sum(d, m) + d[m]
        /\ Sum(e, m + 1) = Sum(e, m) + e[m]
    BY SumOfOneMore
  <2> QED
    BY <2>1, <2>2
<1> HIDE DEF N
<1>3. Nat \subseteq N
  BY <1>1, <1>2, Induction
<1> QED
  BY <1>3 DEF N

LEMMA SizeAdds ==
  ASSUME NEW c \in [Values -> Nat], NEW d \in [Values -> Nat], NEW e,
         \A v \in Values : e[v] = c[v] + d[v]
  PROVE  Size(e) = Size(c) + Size(d)
<1>1. Scale + 1 \in Nat /\ Values = 0..(Scale + 1) - 1
  BY DriftAssumption DEF Values
<1> QED
  BY <1>1, SumAdds DEF Size

LEMMA SizeWithin ==
  ASSUME NEW a \in [Values -> Nat], NEW c \in [Values -> Nat], NEW h \in [Values -> Nat],
         \A v \in Values : a[v] <= c[v] + h[v]
  PROVE  Size(a) <= Size(c) + Size(h)
<1> DEFINE e == [v \in Values |-> c[v] + h[v]]
<1>1. e \in [Values -> Nat] /\ \A v \in Values : e[v] = c[v] + h[v] /\ a[v] <= e[v]
  OBVIOUS
<1> HIDE DEF e
<1>2. Size(e) = Size(c) + Size(h)
  BY <1>1, SizeAdds
<1>3. Size(a) <= Size(e)
  BY <1>1, SizeOfPart
<1> QED
  BY <1>2, <1>3

(* The observations in a bin, and in the bins before one, when each is in the bin
   of its place. *)
PlacedIn(sample, place, b) == [v \in Values |-> IF place[v] = b THEN sample[v] ELSE 0]
PlacedBefore(sample, place, b) == [v \in Values |-> IF place[v] < b THEN sample[v] ELSE 0]

LEMMA SumOfBins ==
  ASSUME NEW sample \in [Values -> Nat], NEW place \in [Values -> Nat], NEW counts,
         \A b \in Bins : counts[b] = Size(PlacedIn(sample, place, b)),
         NEW e \in 0..BinCount
  PROVE  Sum(counts, e) = Size(PlacedBefore(sample, place, e))
<1> USE DEF PlacedIn, PlacedBefore
<1> DEFINE Before(m) == PlacedBefore(sample, place, m)
           In(m) == PlacedIn(sample, place, m)
           N == {m \in Nat : m <= BinCount => Sum(counts, m) = Size(Before(m))}
<1>1. 0 \in N
  <2>1. Before(0) = NoValues
    BY DEF NoValues
  <2> HIDE DEF Before
  <2> QED
    BY <2>1, SumOfNone, SizeOfNone
<1>2. ASSUME NEW m \in Nat, m \in N PROVE m + 1 \in N
  <2> SUFFICES ASSUME m + 1 <= BinCount PROVE Sum(counts, m + 1) = Size(Before(m + 1))
    OBVIOUS
  <2>1. Sum(counts, m) = Size(Before(m)) /\ m \in Bins
    BY <1>2, DriftAssumption DEF Bins
  <2>2. counts[m] = Size(In(m))
    BY <2>1
  <2>3. Sum(counts, m + 1) = Sum(counts, m) + counts[m]
    BY SumOfOneMore
  <2>4. /\ Before(m) \in [Values -> Nat] /\ In(m) \in [Values -> Nat]
        /\ \A v \in Values : Before(m + 1)[v] = Before(m)[v] + In(m)[v]
    OBVIOUS
  <2> HIDE DEF Before, In
  <2>5. Size(Before(m + 1)) = Size(Before(m)) + Size(In(m))
    BY <2>4, SizeAdds
  <2> QED
    BY <2>1, <2>2, <2>3, <2>5
<1> HIDE DEF N
<1>3. Nat \subseteq N
  BY <1>1, <1>2, Induction
<1>4. e \in Nat /\ e <= BinCount
  BY DriftAssumption
<1> QED
  BY <1>3, <1>4 DEF N

(* What is kept of the observations as long as one baseline is in force, and all of
   them have a bin of it. *)
ObservedIn(b) ==
  [v \in Values |-> IF HoldingBins(v) # {} /\ BinOf(v) = b THEN observed.values[v] ELSE 0]
AllHeld == \A v \in Values : observed.values[v] > 0 => HoldingBins(v) # {}

DriftInv ==
  /\ DriftTypeOK
  /\ baseline.span = -1 \/ \E above, below \in SUBSET InnerEdges :
                             baseline = Distribution(baseline.values, above, below)
  /\ \A b \in Bins : current[b] <= Size(observed.values)
  /\ observed.values = NoValues => current = NoCounts
  /\ baseline.span # -1 /\ observed.one /\ AllHeld =>
       \A b \in Bins : current[b] = Size(ObservedIn(b))

(* Both distributions of the same data, edge by edge. *)
LEMMA SameSides ==
  ASSUME DriftInv, baseline.span # -1, observed.one, observed.values = baseline.values,
         NEW e \in 1..BinCount
  PROVE  /\ OnEdge(e) \in Nat
         /\ Sum(current, e) \in Nat /\ Sum(baseline.counts, e) \in Nat
         /\ Sum(current, e) <= Sum(baseline.counts, e) + OnEdge(e)
         /\ Sum(baseline.counts, e) <= Sum(current, e) + OnEdge(e)
<1> USE DriftAssumption
<1> DEFINE sample == baseline.values
<1>1. sample \in [Values -> Nat]
  BY DEF DriftInv, DriftTypeOK, Samples
<1>2. PICK above, below \in SUBSET InnerEdges : baseline = Distribution(sample, above, below)
  BY DEF DriftInv
<1>3. baseline.counts = BinCounts(sample, below)
  BY <1>2, DistributionIs
<1>4. \A v \in Seen(sample) :
        /\ HoldingBins(v) # {} /\ BinOf(v) \in Bins /\ Index(sample, below, v) \in Bins
        /\ \A b \in InnerEdges : v * BinCount # Lower(b) =>
             (BinOf(v) < b <=> Index(sample, below, v) < b)
  BY <1>1, <1>2, BinOfValue
<1>5. \A v \in Values : v \notin Seen(sample) => sample[v] = 0
  <2> TAKE v \in Values
  <2>1. sample[v] \in Nat /\ (v \notin Seen(sample) => ~(sample[v] > 0))
    BY <1>1 DEF Seen
  <2> QED
    BY <2>1
<1> DEFINE p == [v \in Values |-> IF v \in Seen(sample) THEN BinOf(v) ELSE 0]
           c == [v \in Values |-> IF v \in Seen(sample) THEN Index(sample, below, v) ELSE 0]
<1>6. /\ p \in [Values -> Nat] /\ c \in [Values -> Nat]
      /\ \A v \in Values : p[v] < BinCount /\ c[v] < BinCount
  BY <1>4 DEF Bins
<1>7. \A b \in Bins : current[b] = Size(PlacedIn(sample, p, b))
  <2> TAKE b \in Bins
  <2>1. AllHeld
    BY <1>4 DEF AllHeld, Seen
  <2>2. current[b] = Size(ObservedIn(b))
    BY <2>1 DEF DriftInv
  <2>3. ASSUME NEW v \in Values
        PROVE  (IF HoldingBins(v) # {} /\ BinOf(v) = b THEN observed.values[v] ELSE 0) =
               (IF p[v] = b THEN sample[v] ELSE 0)
    <3>1. CASE v \in Seen(sample)
      BY <1>4, <3>1
    <3>2. CASE v \notin Seen(sample)
      BY <1>5, <3>2
    <3> QED
      BY <3>1, <3>2
  <2>4. ObservedIn(b) = PlacedIn(sample, p, b)
    BY <2>3 DEF ObservedIn, PlacedIn
  <2> QED
    BY <2>2, <2>4
<1>8. \A b \in Bins :
        baseline.counts[b] = Size(PlacedIn(sample, c, b))
  <2> TAKE b \in Bins
  <2>1. ASSUME NEW v \in Values
        PROVE  (IF v \in Seen(sample) /\ Index(sample, below, v) = b THEN sample[v] ELSE 0) =
               (IF c[v] = b THEN sample[v] ELSE 0)
    <3>1. CASE v \in Seen(sample)
      BY <3>1
    <3>2. CASE v \notin Seen(sample)
      BY <1>5, <3>2
    <3> QED
      BY <3>1, <3>2
  <2>2. [v \in Values |-> IF v \in Seen(sample) /\ Index(sample, below, v) = b THEN sample[v] ELSE 0]
          = PlacedIn(sample, c, b)
    BY <2>1 DEF PlacedIn
  <2> QED
    BY <1>3, <2>2 DEF BinCounts
<1> DEFINE Here == PlacedBefore(sample, p, e)
           There == PlacedBefore(sample, c, e)
           Edge == IF e = BinCount THEN NoValues
                   ELSE [v \in Values |-> IF v * BinCount = Lower(e) THEN observed.values[v] ELSE 0]
<1>9. Sum(current, e) = Size(Here) /\ Sum(baseline.counts, e) = Size(There)
  <2>1. e \in 0..BinCount
    OBVIOUS
  <2>2. p \in [Values -> Nat] /\ c \in [Values -> Nat]
    BY <1>5, <1>6
  <2>3. sample \in [Values -> Nat]
    BY <1>1
  <2> HIDE DEF p, c
  <2>4. Sum(current, e) = Size(PlacedBefore(sample, p, e))
    BY <1>7, <2>1, <2>2, <2>3, SumOfBins
  <2>5. Sum(baseline.counts, e) = Size(PlacedBefore(sample, c, e))
    BY <1>8, <2>1, <2>2, <2>3, SumOfBins
  <2> QED
    BY <2>4, <2>5
<1> USE DEF PlacedBefore
<1>10. OnEdge(e) = Size(Edge)
  BY SizeOfNone DEF OnEdge
<1>11. Here \in [Values -> Nat] /\ There \in [Values -> Nat] /\ Edge \in [Values -> Nat]
  BY <1>1 DEF NoValues
<1>12. ASSUME NEW v \in Values PROVE Here[v] <= There[v] + Edge[v] /\ There[v] <= Here[v] + Edge[v]
  <2>0. Here[v] \in Nat /\ There[v] \in Nat /\ Edge[v] \in Nat /\ sample[v] \in Nat
    BY <1>1, <1>11
  <2>1. CASE e = BinCount
    <3>1. p[v] < e /\ c[v] < e
      BY <1>6, <2>1
    <3>2. Here[v] = sample[v] /\ There[v] = sample[v]
      BY <3>1
    <3> HIDE DEF Here, There, Edge
    <3> QED
      BY <2>0, <3>2
  <2>2. CASE e # BinCount /\ v * BinCount = Lower(e)
    <3>1. Edge[v] = sample[v]
      BY <2>2
    <3>2. Here[v] <= sample[v] /\ There[v] <= sample[v]
      BY <2>0
    <3> HIDE DEF Here, There, Edge
    <3> QED
      BY <2>0, <3>1, <3>2
  <2>3. CASE e # BinCount /\ v * BinCount # Lower(e)
    <3>0. e \in InnerEdges
      BY <2>3 DEF InnerEdges
    <3>1. p[v] < e <=> c[v] < e
      BY <1>4, <2>3, <3>0
    <3>2. Here[v] = There[v]
      BY <3>1
    <3> HIDE DEF Here, There, Edge
    <3> QED
      BY <2>0, <3>2
  <2> QED
    BY <2>1, <2>2, <2>3
<1> HIDE DEF Here, There, Edge
<1>13. Size(Here) \in Nat /\ Size(There) \in Nat /\ Size(Edge) \in Nat
  BY <1>11, SizeIsNat
<1>14. Size(Here) <= Size(There) + Size(Edge) /\ Size(There) <= Size(Here) + Size(Edge)
  BY <1>11, <1>12, SizeWithin
<1> QED
  BY <1>9, <1>10, <1>13, <1>14

LEMMA DriftGivesProperty == DriftInv => SameDataNoDrift
<1> SUFFICES ASSUME DriftInv, baseline.span # -1, observed.one, observed.values = baseline.values
             PROVE  /\ \A b \in 1..BinCount :
                         Sum(current, b) - Sum(baseline.counts, b) \in -OnEdge(b)..OnEdge(b)
                    /\ (\A b \in InnerEdges : OnEdge(b) = 0) => Classified = {"none"}
  BY DEF SameDataNoDrift
<1> USE DriftAssumption
<1>1. \A b \in 1..BinCount : Sum(current, b) - Sum(baseline.counts, b) \in -OnEdge(b)..OnEdge(b)
  <2> TAKE b \in 1..BinCount
  <2>1. /\ OnEdge(b) \in Nat
        /\ Sum(current, b) \in Nat /\ Sum(baseline.counts, b) \in Nat
        /\ Sum(current, b) <= Sum(baseline.counts, b) + OnEdge(b)
        /\ Sum(baseline.counts, b) <= Sum(current, b) + OnEdge(b)
    BY SameSides
  <2> QED
    BY <2>1
<1>2. ASSUME \A b \in InnerEdges : OnEdge(b) = 0 PROVE Classified = {"none"}
  <2>1. \A b \in 0..BinCount : Sum(current, b) = Sum(baseline.counts, b)
    <3> TAKE b \in 0..BinCount
    <3>1. CASE b = 0
      BY <3>1, SumOfNone
    <3>2. CASE b # 0
      <4>1. b \in 1..BinCount
        BY <3>2
      <4>2. OnEdge(b) = 0
        <5>1. CASE b = BinCount
          BY <5>1 DEF OnEdge
        <5>2. CASE b # BinCount
          <6>1. b \in InnerEdges
            BY <4>1, <5>2 DEF InnerEdges
          <6> QED
            BY <1>2, <6>1
        <5> QED
          BY <5>1, <5>2
      <4>3. /\ Sum(current, b) \in Nat /\ Sum(baseline.counts, b) \in Nat
            /\ Sum(current, b) <= Sum(baseline.counts, b) + OnEdge(b)
            /\ Sum(baseline.counts, b) <= Sum(current, b) + OnEdge(b)
        BY <4>1, SameSides
      <4> QED
        BY <4>2, <4>3
    <3> QED
      BY <3>1, <3>2
  <2>2. /\ \A b \in Bins : current[b] \in Nat /\ baseline.counts[b] \in Nat
        /\ \A b \in Bins : b \in Nat /\ b \in 0..BinCount /\ b + 1 \in 0..BinCount
    <3>1. \A b \in Bins : b \in Nat /\ b \in 0..BinCount /\ b + 1 \in 0..BinCount
      BY DEF Bins
    <3>2. current \in [Bins -> 0..MaxValues] /\ baseline.counts \in [Bins -> 0..MaxValues]
      BY DEF DriftInv, DriftTypeOK
    <3> QED
      BY <3>1, <3>2
  <2>3. \A b \in Bins : current[b] = baseline.counts[b]
    <3> TAKE b \in Bins
    <3>1. /\ Sum(current, b + 1) = Sum(current, b) + current[b]
          /\ Sum(baseline.counts, b + 1) = Sum(baseline.counts, b) + baseline.counts[b]
      BY <2>2, SumOfOneMore
    <3>2. /\ Sum(current, b + 1) = Sum(baseline.counts, b + 1)
          /\ Sum(current, b) = Sum(baseline.counts, b)
      BY <2>1, <2>2
    <3>3. Sum(current, b) \in Nat
      <4>1. \A i \in 0..b - 1 : current[i] \in Nat
        BY <2>2 DEF Bins
      <4> QED
        BY <2>2, <4>1, SumIsNat
    <3> QED
      BY <2>2, <3>1, <3>2, <3>3
  <2>4. Total(current) = Total(baseline.counts)
    BY <2>1 DEF Total
  <2>5. ZeroPSI
    BY <2>3, <2>4 DEF ZeroPSI
  <2> QED
    BY <2>5 DEF Classified
<1> QED
  BY <1>1, <1>2

LEMMA DistributionTyped ==
  ASSUME NEW sample \in Samples, NEW above \in SUBSET InnerEdges, NEW below \in SUBSET InnerEdges
  PROVE  /\ Distribution(sample, above, below) \in
              [values : Samples, from : Values, span : -1..Scale,
               above : SUBSET InnerEdges, counts : [Bins -> 0..MaxValues]]
         /\ Distribution(sample, above, below).values = sample
<1> USE DriftAssumption
<1>1. sample \in [Values -> Nat] /\ Size(sample) <= MaxValues /\ Size(sample) \in Nat
  <2>1. sample \in [Values -> Nat] /\ Size(sample) <= MaxValues
    BY DEF Samples
  <2> QED
    BY <2>1, SizeIsNat
<1>2. BinCounts(sample, below) \in [Bins -> 0..MaxValues]
  <2>1. ASSUME NEW b \in Bins PROVE BinCounts(sample, below)[b] \in 0..MaxValues
    <3> DEFINE part ==
          [v \in Values |-> IF v \in Seen(sample) /\ Index(sample, below, v) = b THEN sample[v] ELSE 0]
    <3>1. part \in [Values -> Nat] /\ \A v \in Values : part[v] <= sample[v]
      BY <1>1
    <3>2. BinCounts(sample, below)[b] = Size(part)
      BY DEF BinCounts
    <3> HIDE DEF part
    <3>3. Size(part) \in Nat /\ Size(part) <= Size(sample)
      BY <1>1, <3>1, SizeIsNat, SizeOfPart
    <3> QED
      BY <1>1, <3>2, <3>3
  <2> QED
    BY <2>1 DEF BinCounts
<1>3. From(sample) \in Values /\ Span(sample) \in -1..Scale
  <2>1. From(sample) \in Values /\ Span(sample) \in 0..Scale
    BY <1>1, RangeOfSample
  <2> QED
    BY <2>1
<1> QED
  BY <1>2, <1>3, DistributionIs

LEMMA NothingIsTyped == NoValues \in Samples /\ NoCounts \in [Bins -> 0..MaxValues] /\ 0 \in Values
<1>1. NoValues \in [Values -> 0..MaxValues]
  BY DriftAssumption DEF NoValues
<1>2. Size(NoValues) <= MaxValues
  BY DriftAssumption, SizeOfNone
<1> QED
  BY <1>1, <1>2, DriftAssumption DEF Samples, NoCounts, Values

LEMMA DriftStarts == DriftInit => DriftInv
<1> SUFFICES ASSUME DriftInit PROVE DriftInv
  OBVIOUS
<1> USE DEF DriftInit
<1>1. DriftTypeOK
  <2>1. <<>> \in Seq({"none", "drift"}) /\ Len(<<>>) <= historyLimit
    BY DriftAssumption, EmptySeq
  <2>2. -1 \in -1..Scale
    BY DriftAssumption
  <2> QED
    BY <2>1, <2>2, NothingIsTyped DEF DriftTypeOK, NoBaseline
<1>2. observed.values = NoValues /\ current = NoCounts
  OBVIOUS
<1>3. \A b \in Bins : current[b] <= Size(observed.values)
  BY <1>2, SizeOfNone DEF NoCounts
<1> QED
  BY <1>1, <1>2, <1>3 DEF DriftInv, NoBaseline

LEMMA NoneObserved ==
  ASSUME observed'.values = NoValues, current' = NoCounts
  PROVE  \A b \in Bins : current'[b] = Size(ObservedIn(b)')
<1> TAKE b \in Bins
<1>1. ObservedIn(b)' = NoValues
  BY DEF ObservedIn, NoValues
<1> QED
  BY <1>1, SizeOfNone DEF NoCounts

LEMMA SetBaselineKeeps == DriftInv /\ SetBaseline => DriftInv'
<1> SUFFICES ASSUME DriftInv, SetBaseline PROVE DriftInv'
  OBVIOUS
<1>1. PICK sample \in Samples, above \in SUBSET InnerEdges, below \in SUBSET InnerEdges :
        /\ baseline' = Distribution(sample, above, below)
        /\ observed' = [observed EXCEPT !.one = Size(observed.values) = 0]
        /\ UNCHANGED <<current, history>>
  BY DEF SetBaseline
<1>2. /\ baseline' \in [values : Samples, from : Values, span : -1..Scale,
                        above : SUBSET InnerEdges, counts : [Bins -> 0..MaxValues]]
      /\ baseline'.values = sample
  BY <1>1, DistributionTyped
<1>3. /\ observed'.values = observed.values /\ current' = current /\ history' = history
      /\ observed'.one <=> Size(observed.values) = 0
      /\ observed' \in [values : Samples, one : BOOLEAN]
  BY <1>1 DEF DriftInv, DriftTypeOK
<1>4. DriftTypeOK'
  BY <1>2, <1>3 DEF DriftInv, DriftTypeOK
<1>5. \E a, b \in SUBSET InnerEdges : baseline' = Distribution(baseline'.values, a, b)
  BY <1>1, <1>2
<1>6. \A a, b : Distribution(baseline'.values, a, b) = Distribution(baseline.values, a, b)'
  BY DEF Distribution
<1>7. ASSUME observed'.one PROVE \A b \in Bins : current'[b] = Size(ObservedIn(b)')
  <2>1. observed.values = NoValues
    BY <1>3, <1>7, OnlyNoneIsEmpty DEF DriftInv, DriftTypeOK, Samples
  <2>2. observed'.values = NoValues /\ current' = NoCounts
    BY <1>3, <2>1 DEF DriftInv
  <2> QED
    BY <2>2, NoneObserved
<1> QED
  BY <1>3, <1>4, <1>5, <1>6, <1>7 DEF DriftInv, Size, NoValues, NoCounts, Bins

(* The bins of a value depend on the baseline alone. *)
LEMMA SameBins ==
  ASSUME baseline' = baseline
  PROVE  \A v \in Values : HoldingBins(v)' = HoldingBins(v) /\ BinOf(v)' = BinOf(v)
<1>1. \A v \in Values : HoldingBins(v)' = HoldingBins(v)
  BY DEF HoldingBins, BinsOf, Reaches, Lower
<1> QED
  BY <1>1 DEF BinOf

LEMMA ObserveKeeps ==
  ASSUME NEW v \in Values, DriftInv, Observe(v)
  PROVE  DriftInv'
<1> USE DriftAssumption
<1> DEFINE old == observed.values
           new == observed'.values
<1>1. /\ old \in [Values -> Nat] /\ Size(old) \in Nat /\ Size(old) < MaxValues
      /\ observed \in [values : Samples, one : BOOLEAN]
  <2>1. old \in [Values -> Nat] /\ observed \in [values : Samples, one : BOOLEAN]
    BY DEF DriftInv, DriftTypeOK, Samples
  <2> QED
    BY <2>1, SizeIsNat DEF Observe
<1>0. PICK bin \in FoundBins(v) :
        current' = IF bin \in Bins THEN [current EXCEPT ![bin] = @ + 1] ELSE current
  BY DEF Observe
<1>2. /\ baseline' = baseline /\ history' = history
      /\ observed'.one = observed.one
      /\ new = [old EXCEPT ![v] = @ + 1]
      /\ observed' = [values |-> new, one |-> observed.one]
  BY <1>1 DEF Observe
<1> HIDE DEF old, new
<1>3. new \in [Values -> Nat] /\ \A w \in Values : new[w] = IF w = v THEN old[w] + 1 ELSE old[w]
  BY <1>1, <1>2
<1>4. Size(new) = Size(old) + 1
  BY <1>1, <1>3, SizeOfOneMore
<1>5. new \in Samples
  <2>1. Size(new) <= MaxValues /\ Size(new) \in Nat
    BY <1>1, <1>4
  <2>2. \A w \in Values : new[w] \in Nat /\ new[w] <= Size(new)
    BY <1>3, ValuesBelowSize
  <2>3. \A w \in Values : new[w] \in 0..MaxValues
    BY <2>1, <2>2
  <2> QED
    BY <1>3, <2>1, <2>3 DEF Samples
<1>6. /\ current \in [Bins -> 0..MaxValues]
      /\ \A b \in Bins : current[b] <= Size(old)
  BY DEF DriftInv, DriftTypeOK, old
<1>7. /\ current' \in [Bins -> Nat]
      /\ \A b \in Bins : current'[b] = IF bin = b THEN current[b] + 1 ELSE current[b]
  <2>1. CASE bin \in Bins
    BY <1>0, <1>6, <2>1
  <2>2. CASE bin \notin Bins
    BY <1>0, <1>6, <2>2
  <2> QED
    BY <2>1, <2>2
<1>8. \A b \in Bins : current'[b] <= Size(new) /\ current'[b] \in 0..MaxValues
  <2> TAKE b \in Bins
  <2>1. current[b] \in Nat /\ current[b] <= Size(old) /\ current'[b] \in Nat
        /\ current'[b] = IF bin = b THEN current[b] + 1 ELSE current[b]
    BY <1>6, <1>7
  <2> QED
    BY <1>1, <1>4, <2>1
<1>9. DriftTypeOK'
  <2>1. current' \in [Bins -> 0..MaxValues]
    BY <1>7, <1>8
  <2>2. observed' \in [values : Samples, one : BOOLEAN]
    BY <1>1, <1>2, <1>5
  <2> QED
    BY <1>2, <2>1, <2>2 DEF DriftInv, DriftTypeOK
<1>10. \A w \in Values : HoldingBins(w)' = HoldingBins(w) /\ BinOf(w)' = BinOf(w)
  BY <1>2, SameBins
<1>11. ASSUME baseline'.span # -1, observed'.one, AllHeld', NEW b \in Bins
       PROVE  current'[b] = Size(ObservedIn(b)')
  <2> DEFINE was == ObservedIn(b)
             is == ObservedIn(b)'
  <2>1. was = [w \in Values |-> IF HoldingBins(w) # {} /\ BinOf(w) = b THEN old[w] ELSE 0]
    BY DEF ObservedIn, old
  <2>2. is = [w \in Values |-> IF HoldingBins(w) # {} /\ BinOf(w) = b THEN new[w] ELSE 0]
    BY <1>10 DEF ObservedIn, new
  <2>a. \A w \in Values : new[w] > 0 => HoldingBins(w) # {}
    BY <1>10, <1>11 DEF AllHeld, new
  <2>b. AllHeld
    <3>1. \A w \in Values : old[w] > 0 => new[w] > 0
      BY <1>1, <1>3
    <3> QED
      BY <2>a, <3>1 DEF AllHeld, old
  <2>c. HoldingBins(v) # {} /\ bin = BinOf(v)
    <3>1. new[v] > 0
      BY <1>1, <1>3
    <3> QED
      BY <1>0, <2>a, <3>1 DEF FoundBins, BinOf
  <2>3. current[b] = Size(was)
    BY <1>2, <1>11, <2>b DEF DriftInv
  <2> HIDE DEF was, is
  <2>4. was \in [Values -> Nat] /\ is \in [Values -> Nat]
    BY <1>1, <1>3, <2>1, <2>2
  <2>5. CASE bin = b
    <3>1. \A w \in Values : is[w] = IF w = v THEN was[w] + 1 ELSE was[w]
      BY <1>3, <2>1, <2>2, <2>5, <2>c
    <3>2. Size(is) = Size(was) + 1
      BY <2>4, <3>1, SizeOfOneMore
    <3> QED
      BY <1>7, <2>3, <2>5, <3>2 DEF is
  <2>6. CASE bin # b
    <3>1. \A w \in Values : is[w] = was[w]
      BY <1>3, <2>1, <2>2, <2>6, <2>c
    <3>2. is = was
      BY <2>4, <3>1
    <3> QED
      BY <1>7, <2>3, <2>6, <3>2 DEF is
  <2> QED
    BY <2>5, <2>6
<1>12. new # NoValues
  <2>1. new[v] = old[v] + 1 /\ old[v] \in Nat /\ NoValues[v] = 0
    BY <1>1, <1>3 DEF NoValues
  <2> QED
    BY <2>1
<1>13. baseline'.span = -1 \/ \E a, b \in SUBSET InnerEdges :
                               baseline' = Distribution(baseline'.values, a, b)
  BY <1>2 DEF DriftInv
<1>14. observed'.values = new
  BY DEF new
<1>15. Size(observed.values)' = Size(new)
  BY <1>14 DEF Size, Sum
<1>17. \A a, b : Distribution(baseline'.values, a, b) = Distribution(baseline.values, a, b)'
  BY DEF Distribution
<1> QED
  BY <1>8, <1>9, <1>11, <1>12, <1>13, <1>14, <1>15, <1>17
     DEF DriftInv, NoValues, NoCounts, Bins, Size, Sum

LEMMA CheckDriftKeeps == DriftInv /\ CheckDrift => DriftInv'
<1> SUFFICES ASSUME DriftInv, CheckDrift PROVE DriftInv'
  OBVIOUS
<1> USE DriftAssumption
<1>1. PICK level \in Classified :
        LET longer == Append(history, level)
        IN history' = IF Len(longer) > historyLimit THEN Tail(longer) ELSE longer
  BY DEF CheckDrift
<1>2. baseline' = baseline /\ current' = current /\ observed' = observed
  BY DEF CheckDrift
<1> DEFINE longer == Append(history, level)
<1>3. level \in {"none", "drift"}
  BY DEF Classified
<1>4. /\ history \in Seq({"none", "drift"}) /\ Len(history) <= historyLimit /\ Len(history) \in Nat
      /\ longer \in Seq({"none", "drift"}) /\ Len(longer) = Len(history) + 1
  BY <1>3, AppendProperties, LenProperties DEF DriftInv, DriftTypeOK
<1>5. history' \in Seq({"none", "drift"}) /\ Len(history') <= historyLimit
  <2>1. CASE Len(longer) > historyLimit
    <3>1. longer # <<>> /\ history' = Tail(longer)
      BY <1>1, <1>4, <2>1
    <3> HIDE DEF longer
    <3>2. Tail(longer) \in Seq({"none", "drift"}) /\ Len(Tail(longer)) = Len(longer) - 1
      BY <1>4, <3>1, HeadTailProperties
    <3> QED
      BY <1>4, <3>1, <3>2
  <2>2. CASE Len(longer) <= historyLimit
    BY <1>1, <1>4, <2>2
  <2> QED
    BY <1>4, <2>1, <2>2
<1>6. DriftTypeOK'
  BY <1>2, <1>5 DEF DriftInv, DriftTypeOK
<1>7. \A v \in Values : HoldingBins(v)' = HoldingBins(v) /\ BinOf(v)' = BinOf(v)
  BY <1>2, SameBins
<1> QED
  BY <1>2, <1>6, <1>7 DEF DriftInv, ObservedIn, AllHeld

LEMMA ResetCurrentKeeps == DriftInv /\ ResetCurrent => DriftInv'
<1> SUFFICES ASSUME DriftInv, ResetCurrent PROVE DriftInv'
  OBVIOUS
<1>1. /\ current' = NoCounts /\ observed' = [values |-> NoValues, one |-> TRUE]
      /\ baseline' = baseline /\ history' = history
  BY DEF ResetCurrent
<1>2. DriftTypeOK'
  BY <1>1, NothingIsTyped DEF DriftInv, DriftTypeOK
<1>3. \A b \in Bins : current'[b] = Size(ObservedIn(b)') /\ current'[b] <= Size(observed'.values)
  BY <1>1, NoneObserved, SizeOfNone DEF NoCounts
<1> QED
  BY <1>1, <1>2, <1>3 DEF DriftInv

LEMMA DriftKeeps == DriftInv /\ [DriftNext]_driftVars => DriftInv'
<1> SUFFICES ASSUME DriftInv, [DriftNext]_driftVars PROVE DriftInv'
  OBVIOUS
<1>1. CASE SetBaseline
  BY <1>1, SetBaselineKeeps
<1>2. ASSUME NEW v \in Values, Observe(v) PROVE DriftInv'
  BY <1>2, ObserveKeeps
<1>3. CASE CheckDrift
  BY <1>3, CheckDriftKeeps
<1>4. CASE ResetCurrent
  BY <1>4, ResetCurrentKeeps
<1>5. CASE UNCHANGED driftVars
  <2>1. /\ baseline' = baseline /\ current' = current /\ history' = history
        /\ observed' = observed
    BY <1>5 DEF driftVars
  <2>2. DriftTypeOK'
    BY <2>1 DEF DriftInv, DriftTypeOK
  <2>3. \A v \in Values : HoldingBins(v)' = HoldingBins(v) /\ BinOf(v)' = BinOf(v)
    BY <2>1, SameBins
  <2> QED
    BY <2>1, <2>2, <2>3 DEF DriftInv, ObservedIn, AllHeld
<1> QED
  BY <1>1, <1>2, <1>3, <1>4, <1>5 DEF DriftNext

LEMMA DriftInvHolds == DriftSpec => []DriftInv
BY DriftStarts, DriftKeeps, PTL DEF DriftSpec

(* For any resolution, any number of bins, any samples and however the edges are
   rounded: when the values of the baseline are observed again, none is dropped, each
   is counted on the same side of every edge that it is not on, and without values on
   inner edges CheckDrift finds no drift (SameDataNoDrift). *)
THEOREM SameDataIsNoDrift == DriftSpec => []SameDataNoDrift
BY DriftInvHolds, DriftGivesProperty, PTL

-----------------------------------------------------------------------------
(***************************************************************************)
(* Redaction, for texts of any length, any matches and masks.  The text    *)
(* after some of the matches were replaced is what ReplacedTo says of      *)
(* these; a match that overlaps none of them is still whole in it, at one  *)
(* place only, and the text before and behind that place does not change   *)
(* when it is replaced.                                                    *)
(***************************************************************************)

Texts == Seq(0..TextLength)

Pieces(ms, n, g) == g = [i \in 0..n |-> IF i = 0 THEN <<>> ELSE g[i - 1] \o Piece(ms, i)]

LEMMA PiecesExist == \A ms : \A n \in Nat : \E g : Pieces(ms, n, g)
<1> SUFFICES ASSUME NEW ms PROVE \A n \in Nat : \E g : Pieces(ms, n, g)
  OBVIOUS
<1> DEFINE N == {n \in Nat : \E g : Pieces(ms, n, g)}
<1>1. 0 \in N
  <2>1. Pieces(ms, 0, [i \in 0..0 |-> <<>>])
    BY DEF Pieces
  <2> QED
    BY <2>1
<1>2. ASSUME NEW n \in Nat, n \in N PROVE n + 1 \in N
  <2>1. PICK g : Pieces(ms, n, g)
    BY <1>2
  <2> DEFINE h == [i \in 0..(n + 1) |-> IF i = n + 1 THEN g[n] \o Piece(ms, n + 1) ELSE g[i]]
  <2>2. \A i \in 0..n : h[i] = g[i]
    OBVIOUS
  <2>3. h[n + 1] = g[n] \o Piece(ms, n + 1)
    <3>1. n + 1 \in 0..(n + 1)
      OBVIOUS
    <3> QED
      BY <3>1, Zenon
  <2>4. \A i \in 0..n : g[i] = IF i = 0 THEN <<>> ELSE g[i - 1] \o Piece(ms, i)
    <3>1. g = [i \in 0..n |-> IF i = 0 THEN <<>> ELSE g[i - 1] \o Piece(ms, i)]
      BY <2>1 DEF Pieces
    <3> QED
      BY <3>1, Zenon
  <2>5. h = [i \in 0..(n + 1) |-> h[i]]
    OBVIOUS
  <2> HIDE DEF h
  <2>6. ASSUME NEW i \in 0..(n + 1)
        PROVE  h[i] = IF i = 0 THEN <<>> ELSE h[i - 1] \o Piece(ms, i)
    <3>1. CASE i = n + 1
      <4>1. h[i - 1] = g[n] /\ i # 0
        BY <2>2, <3>1
      <4> QED
        BY <2>3, <3>1, <4>1
    <3>2. CASE i = 0
      BY <2>2, <2>4, <3>2
    <3>3. CASE i \in 1..n
      <4>1. h[i] = g[i] /\ h[i - 1] = g[i - 1] /\ i # 0 /\ i \in 0..n
        BY <2>2, <3>3
      <4> QED
        BY <2>4, <4>1
    <3> QED
      BY <3>1, <3>2, <3>3
  <2>7. Pieces(ms, n + 1, h)
    BY <2>5, <2>6 DEF Pieces
  <2> QED
    BY <2>7
<1> HIDE DEF N
<1>3. Nat \subseteq N
  BY <1>1, <1>2, Induction
<1> QED
  BY <1>3 DEF N

LEMMA ReplacedToIsLast ==
  ASSUME NEW ms, NEW n \in Nat
  PROVE  \E g : Pieces(ms, n, g) /\ ReplacedTo(ms, n) = g[n]
<1> DEFINE g == CHOOSE g : Pieces(ms, n, g)
<1>1. Pieces(ms, n, g)
  BY PiecesExist
<1>2. ReplacedTo(ms, n) = g[n]
  BY DEF ReplacedTo, Pieces
<1> QED
  BY <1>1, <1>2

LEMMA ReplacedToNone == \A ms : ReplacedTo(ms, 0) = <<>>
<1> TAKE ms
<1>1. PICK g : Pieces(ms, 0, g) /\ ReplacedTo(ms, 0) = g[0]
  BY ReplacedToIsLast
<1> QED
  BY <1>1 DEF Pieces

LEMMA ReplacedToOneMore ==
  ASSUME NEW ms, NEW n \in Nat
  PROVE  ReplacedTo(ms, n + 1) = ReplacedTo(ms, n) \o Piece(ms, n + 1)
<1>1. PICK g : Pieces(ms, n, g) /\ ReplacedTo(ms, n) = g[n]
  BY ReplacedToIsLast
<1>2. PICK h : Pieces(ms, n + 1, h) /\ ReplacedTo(ms, n + 1) = h[n + 1]
  BY ReplacedToIsLast
<1>3. /\ \A i \in 0..n : g[i] = IF i = 0 THEN <<>> ELSE g[i - 1] \o Piece(ms, i)
      /\ \A i \in 0..(n + 1) : h[i] = IF i = 0 THEN <<>> ELSE h[i - 1] \o Piece(ms, i)
  <2>1. g = [i \in 0..n |-> IF i = 0 THEN <<>> ELSE g[i - 1] \o Piece(ms, i)]
    BY <1>1 DEF Pieces
  <2>2. h = [i \in 0..(n + 1) |-> IF i = 0 THEN <<>> ELSE h[i - 1] \o Piece(ms, i)]
    BY <1>2 DEF Pieces
  <2>3. \A i \in 0..n : g[i] = IF i = 0 THEN <<>> ELSE g[i - 1] \o Piece(ms, i)
    BY <2>1, Zenon
  <2>4. \A i \in 0..(n + 1) : h[i] = IF i = 0 THEN <<>> ELSE h[i - 1] \o Piece(ms, i)
    BY <2>2, Zenon
  <2> QED
    BY <2>3, <2>4
<1> DEFINE N == {i \in Nat : i <= n => g[i] = h[i]}
<1>4. 0 \in N
  BY <1>3
<1>5. ASSUME NEW i \in Nat, i \in N PROVE i + 1 \in N
  <2> SUFFICES ASSUME i + 1 <= n PROVE g[i + 1] = h[i + 1]
    OBVIOUS
  <2>1. g[i] = h[i] /\ i + 1 \in 0..n /\ i + 1 \in 0..(n + 1) /\ i + 1 # 0 /\ (i + 1) - 1 = i
    BY <1>5
  <2> QED
    BY <1>3, <2>1
<1> HIDE DEF N
<1>6. Nat \subseteq N
  BY <1>4, <1>5, Induction
<1>7. g[n] = h[n]
  BY <1>6 DEF N
<1>8. n + 1 \in 0..(n + 1) /\ n + 1 # 0 /\ (n + 1) - 1 = n
  OBVIOUS
<1>9. h[n + 1] = h[n] \o Piece(ms, n + 1)
  BY <1>3, <1>8
<1> QED
  BY <1>1, <1>2, <1>7, <1>9

-----------------------------------------------------------------------------
LEMMA NoText == <<>> \in Texts /\ Len(<<>>) = 0 /\ 1..Len(<<>>) = {}
<1>1. <<>> \in Seq(0..TextLength) /\ Len(<<>>) = 0
  BY EmptySeq
<1> QED
  BY <1>1 DEF Texts

LEMMA MaskIsText ==
  ASSUME NEW n \in MaskLengths
  PROVE  Mask(n) \in Texts /\ \A i \in 1..Len(Mask(n)) : Mask(n)[i] = 0
<1>1. n \in Nat /\ TextLength \in Nat
  BY RedactionAssumption
<1>2. Mask(n) \in [1..n -> 0..TextLength]
  BY <1>1 DEF Mask
<1>3. Mask(n) \in Texts /\ Len(Mask(n)) = n
  BY <1>1, <1>2, FunctionIsSeq DEF Texts
<1> QED
  BY <1>1, <1>3 DEF Mask

LEMMA MaskLength ==
  ASSUME NEW n \in MaskLengths
  PROVE  Len(Mask(n)) = n /\ n \in Nat /\ n >= 1
<1>1. n \in Nat /\ n >= 1
  BY RedactionAssumption
<1>2. Mask(n) \in [1..n -> {0}]
  BY <1>1 DEF Mask
<1> QED
  BY <1>1, <1>2, FunctionIsSeq

LEMMA MatchBounds ==
  ASSUME NEW m \in Matches
  PROVE  /\ m.from \in Nat /\ m.to \in Nat /\ m.from < m.to /\ m.to <= TextLength
         /\ m.mask \in MaskLengths /\ m.category \in Categories
         /\ \A i \in Nat : i \in Cells(m) <=> m.from < i /\ i <= m.to
BY RedactionAssumption DEF Matches, Cells

LEMMA PieceIsText ==
  ASSUME NEW ms \in SUBSET Matches, NEW i \in 1..TextLength
  PROVE  Piece(ms, i) \in Texts /\ \A j \in 1..Len(Piece(ms, i)) : Piece(ms, i)[j] \in {0, i}
<1> DEFINE begun == {m \in ms : m.from + 1 = i}
           a == IF begun # {} THEN Mask((CHOOSE m \in begun : TRUE).mask) ELSE <<>>
           b == IF \E m \in ms : i \in Cells(m) THEN <<>> ELSE <<i>>
<1>1. a \in Texts /\ \A j \in 1..Len(a) : a[j] \in {0, i}
  <2>1. CASE begun # {}
    <3> DEFINE m == CHOOSE m \in begun : TRUE
    <3>1. m \in begun
      BY <2>1
    <3>2. m.mask \in MaskLengths
      BY <3>1, MatchBounds
    <3>3. a = Mask(m.mask)
      BY <2>1
    <3> HIDE DEF a, m
    <3> QED
      BY <3>2, <3>3, MaskIsText
  <2>2. CASE begun = {}
    <3>1. a = <<>>
      BY <2>2
    <3> HIDE DEF a
    <3> QED
      BY <3>1, NoText
  <2> QED
    BY <2>1, <2>2
<1>2. b \in Texts /\ \A j \in 1..Len(b) : b[j] \in {0, i}
  <2>1. <<i>> \in Texts /\ Len(<<i>>) = 1 /\ <<i>>[1] = i
    BY RedactionAssumption DEF Texts
  <2>2. CASE \E m \in ms : i \in Cells(m)
    <3>1. b = <<>>
      BY <2>2
    <3> HIDE DEF b
    <3> QED
      BY <3>1, NoText
  <2>3. CASE ~ \E m \in ms : i \in Cells(m)
    <3>1. b = <<i>>
      BY <2>3
    <3> HIDE DEF b
    <3> QED
      BY <2>1, <3>1
  <2> QED
    BY <2>2, <2>3
<1>3. Piece(ms, i) = a \o b
  BY DEF Piece
<1> HIDE DEF a, b
<1>4. a \o b \in Texts /\ Len(a \o b) = Len(a) + Len(b) /\ Len(a) \in Nat /\ Len(b) \in Nat
      /\ \A j \in 1..Len(a) + Len(b) : (a \o b)[j] = IF j <= Len(a) THEN a[j] ELSE b[j - Len(a)]
  BY <1>1, <1>2, ConcatProperties, LenProperties DEF Texts
<1>5. ASSUME NEW j \in 1..Len(a \o b) PROVE (a \o b)[j] \in {0, i}
  <2>1. CASE j <= Len(a)
    BY <1>1, <1>4, <2>1
  <2>2. CASE j > Len(a)
    <3>1. j - Len(a) \in 1..Len(b) /\ (a \o b)[j] = b[j - Len(a)]
      BY <1>4, <2>2
    <3> QED
      BY <1>2, <3>1
  <2> QED
    BY <1>4, <2>1, <2>2
<1> QED
  BY <1>3, <1>4, <1>5

(* The text up to cell n has only cells up to n. *)
LEMMA ReplacedToIsText ==
  ASSUME NEW ms \in SUBSET Matches, NEW n \in 0..TextLength
  PROVE  /\ ReplacedTo(ms, n) \in Texts
         /\ \A j \in 1..Len(ReplacedTo(ms, n)) : ReplacedTo(ms, n)[j] \in 0..n
<1> DEFINE Good(k) == /\ ReplacedTo(ms, k) \in Texts
                      /\ \A j \in 1..Len(ReplacedTo(ms, k)) : ReplacedTo(ms, k)[j] \in 0..k
           N == {k \in Nat : k <= TextLength => Good(k)}
<1>0. TextLength \in Nat
  BY RedactionAssumption
<1>1. 0 \in N
  <2>1. ReplacedTo(ms, 0) = <<>>
    BY ReplacedToNone
  <2>2. Good(0)
    BY <2>1, NoText
  <2> QED
    BY <2>2
<1>2. ASSUME NEW k \in Nat, k \in N PROVE k + 1 \in N
  <2> SUFFICES ASSUME k + 1 <= TextLength PROVE Good(k + 1)
    OBVIOUS
  <2> DEFINE a == ReplacedTo(ms, k)
             b == Piece(ms, k + 1)
  <2>1. a \in Texts /\ \A j \in 1..Len(a) : a[j] \in 0..k
    BY <1>0, <1>2
  <2>2. b \in Texts /\ \A j \in 1..Len(b) : b[j] \in {0, k + 1}
    BY <1>0, PieceIsText
  <2>3. ReplacedTo(ms, k + 1) = a \o b
    BY ReplacedToOneMore
  <2> HIDE DEF a, b
  <2>4. a \o b \in Texts /\ Len(a \o b) = Len(a) + Len(b) /\ Len(a) \in Nat /\ Len(b) \in Nat
        /\ \A j \in 1..Len(a) + Len(b) : (a \o b)[j] = IF j <= Len(a) THEN a[j] ELSE b[j - Len(a)]
    BY <2>1, <2>2, ConcatProperties, LenProperties DEF Texts
  <2>5. ASSUME NEW j \in 1..Len(a \o b) PROVE (a \o b)[j] \in 0..(k + 1)
    <3>1. CASE j <= Len(a)
      <4>1. (a \o b)[j] \in 0..k
        BY <2>1, <2>4, <3>1
      <4> QED
        BY <4>1
    <3>2. CASE j > Len(a)
      <4>1. j - Len(a) \in 1..Len(b) /\ (a \o b)[j] = b[j - Len(a)]
        BY <2>4, <3>2
      <4> QED
        BY <2>2, <4>1
    <3> QED
      BY <2>4, <3>1, <3>2
  <2> QED
    BY <2>3, <2>4, <2>5
<1> HIDE DEF N, Good
<1>3. Nat \subseteq N
  BY <1>1, <1>2, Induction
<1>4. Good(n)
  BY <1>0, <1>3 DEF N
<1> QED
  BY <1>4 DEF Good

-----------------------------------------------------------------------------
(* One more match to replace. *)

Clear(ms, m) == ms \in SUBSET Matches /\ m \in Matches /\ \A x \in ms : ~Overlap(x, m)

Begun(ms, i) == {m \in ms : m.from + 1 = i}
MaskOf(begun) == IF begun # {} THEN Mask((CHOOSE m \in begun : TRUE).mask) ELSE <<>>

LEMMA PieceIs ==
  \A ms, i : Piece(ms, i) =
    MaskOf(Begun(ms, i)) \o (IF \E m \in ms : i \in Cells(m) THEN <<>> ELSE <<i>>)
BY DEF Piece, Begun, MaskOf

LEMMA ClearCells ==
  ASSUME NEW ms, NEW m, Clear(ms, m), NEW i \in Cells(m), NEW x \in ms
  PROVE  i \notin Cells(x) /\ x.from + 1 # i
<1>1. i \notin Cells(x)
  BY DEF Clear, Overlap
<1>2. x.from + 1 \in Cells(x)
  <2>1. x \in Matches
    BY DEF Clear
  <2> QED
    BY <2>1, MatchBounds
<1> QED
  BY <1>1, <1>2

LEMMA PieceInside ==
  ASSUME NEW ms, NEW m, Clear(ms, m), NEW i \in Cells(m)
  PROVE  Piece(ms, i) = <<i>>
<1>1. Begun(ms, i) = {} /\ ~ \E x \in ms : i \in Cells(x)
  BY ClearCells DEF Begun
<1>2. MaskOf(Begun(ms, i)) = <<>>
  BY <1>1 DEF MaskOf
<1>3. Piece(ms, i) = <<>> \o <<i>>
  BY <1>1, <1>2, PieceIs
<1>4. i \in Nat
  BY MatchBounds DEF Clear, Cells
<1>5. <<i>> \in Seq(Nat)
  BY <1>4
<1> QED
  BY <1>3, <1>5, ConcatEmptySeq

LEMMA PieceReplaced ==
  ASSUME NEW ms, NEW m, Clear(ms, m), NEW i \in Cells(m)
  PROVE  Piece(ms \union {m}, i) = IF i = m.from + 1 THEN Mask(m.mask) ELSE <<>>
<1> DEFINE more == ms \union {m}
<1>1. \E x \in more : i \in Cells(x)
  OBVIOUS
<1>2. Piece(more, i) = MaskOf(Begun(more, i)) \o <<>>
  <2> HIDE DEF more
  <2> QED
    BY <1>1, PieceIs
<1>3. Mask(m.mask) \in Texts /\ <<>> \in Texts
  BY MatchBounds, MaskIsText, NoText DEF Clear
<1>4. CASE i = m.from + 1
  <2>1. Begun(more, i) = {m}
    BY <1>4, ClearCells DEF Begun
  <2>2. MaskOf({m}) = Mask(m.mask)
    BY DEF MaskOf
  <2> HIDE DEF more
  <2>3. Piece(more, i) = Mask(m.mask) \o <<>>
    BY <1>2, <2>1, <2>2
  <2>4. Piece(more, i) = Mask(m.mask)
    BY <1>3, <2>3, ConcatEmptySeq DEF Texts
  <2> QED
    BY <1>4, <2>4 DEF more
<1>5. CASE i # m.from + 1
  <2>1. Begun(more, i) = {}
    BY <1>5, ClearCells DEF Begun
  <2>2. MaskOf({}) = <<>>
    BY DEF MaskOf
  <2> HIDE DEF more
  <2>3. Piece(more, i) = <<>> \o <<>>
    BY <1>2, <2>1, <2>2
  <2>4. Piece(more, i) = <<>>
    BY <1>3, <2>3, ConcatEmptySeq DEF Texts
  <2> QED
    BY <1>5, <2>4 DEF more
<1> QED
  BY <1>4, <1>5

LEMMA PieceOutside ==
  ASSUME NEW ms, NEW m, Clear(ms, m), NEW i \in Nat, i \notin Cells(m)
  PROVE  Piece(ms \union {m}, i) = Piece(ms, i)
<1> DEFINE more == ms \union {m}
<1>1. m.from + 1 # i
  BY MatchBounds DEF Clear
<1>2. Begun(more, i) = Begun(ms, i)
  BY <1>1 DEF Begun
<1>3. (\E x \in more : i \in Cells(x)) <=> \E x \in ms : i \in Cells(x)
  OBVIOUS
<1> HIDE DEF more
<1>4. Piece(more, i) = Piece(ms, i)
  BY <1>2, <1>3, PieceIs
<1> QED
  BY <1>4 DEF more

LEMMA SameBefore ==
  ASSUME NEW ms, NEW m, Clear(ms, m)
  PROVE  ReplacedTo(ms \union {m}, m.from) = ReplacedTo(ms, m.from)
<1> DEFINE more == ms \union {m}
           N == {k \in Nat : k <= m.from => ReplacedTo(more, k) = ReplacedTo(ms, k)}
<1>0. m.from \in Nat
  BY MatchBounds DEF Clear
<1>1. 0 \in N
  BY ReplacedToNone
<1>2. ASSUME NEW k \in Nat, k \in N PROVE k + 1 \in N
  <2> SUFFICES ASSUME k + 1 <= m.from PROVE ReplacedTo(more, k + 1) = ReplacedTo(ms, k + 1)
    OBVIOUS
  <2>1. ReplacedTo(more, k) = ReplacedTo(ms, k)
    BY <1>0, <1>2
  <2>2. k + 1 \notin Cells(m)
    BY <1>0, MatchBounds DEF Clear
  <2>3. Piece(more, k + 1) = Piece(ms, k + 1)
    BY <2>2, PieceOutside
  <2> HIDE DEF more
  <2>4. /\ ReplacedTo(more, k + 1) = ReplacedTo(more, k) \o Piece(more, k + 1)
        /\ ReplacedTo(ms, k + 1) = ReplacedTo(ms, k) \o Piece(ms, k + 1)
    BY ReplacedToOneMore
  <2> QED
    BY <2>1, <2>3, <2>4
<1> HIDE DEF N
<1>3. Nat \subseteq N
  BY <1>1, <1>2, Induction
<1> QED
  BY <1>0, <1>3 DEF N

(* The first k cells of a match, which are those of the original text. *)
Whole(m, k) == [j \in 1..k |-> m.from + j]

LEMMA WholeInside ==
  ASSUME NEW ms, NEW m, Clear(ms, m), NEW n \in 0..m.to - m.from
  PROVE  ReplacedTo(ms, m.from + n) = ReplacedTo(ms, m.from) \o Whole(m, n)
<1> DEFINE a == ReplacedTo(ms, m.from)
           N == {k \in Nat : k <= m.to - m.from => ReplacedTo(ms, m.from + k) = a \o Whole(m, k)}
<1>0. /\ m.from \in Nat /\ m.to \in Nat /\ m.from < m.to /\ m.to <= TextLength
      /\ TextLength \in Nat /\ ms \in SUBSET Matches
  BY MatchBounds, RedactionAssumption DEF Clear
<1>1. a \in Texts
  BY <1>0, ReplacedToIsText
<1> HIDE DEF a
<1>2. 0 \in N
  <2>1. Whole(m, 0) = <<>>
    BY DEF Whole
  <2>2. a \o <<>> = a /\ m.from + 0 = m.from
    BY <1>0, <1>1, ConcatEmptySeq DEF Texts
  <2> QED
    BY <2>1, <2>2 DEF a
<1>3. ASSUME NEW k \in Nat, k \in N PROVE k + 1 \in N
  <2> SUFFICES ASSUME k + 1 <= m.to - m.from
               PROVE  ReplacedTo(ms, m.from + (k + 1)) = a \o Whole(m, k + 1)
    OBVIOUS
  <2> DEFINE i == m.from + k
  <2>1. ReplacedTo(ms, i) = a \o Whole(m, k)
    BY <1>0, <1>3
  <2>2. i \in Nat /\ i + 1 = m.from + (k + 1) /\ i + 1 \in 0..TextLength
    BY <1>0
  <2>3. i + 1 \in Cells(m)
    BY <1>0, <2>2, MatchBounds DEF Clear
  <2>4. Piece(ms, i + 1) = <<i + 1>>
    BY <2>3, PieceInside
  <2>5. ReplacedTo(ms, i + 1) = (a \o Whole(m, k)) \o <<i + 1>>
    BY <2>1, <2>2, <2>4, ReplacedToOneMore
  <2>6. Whole(m, k) \in [1..k -> 0..TextLength]
    BY <1>0 DEF Whole
  <2>7. Whole(m, k) \in Texts /\ Len(Whole(m, k)) = k
    BY <2>6, FunctionIsSeq DEF Texts
  <2>8. <<i + 1>> \in Texts
    BY <2>2 DEF Texts
  <2>9. Whole(m, k) \o <<i + 1>> = Whole(m, k + 1)
    <3>1. Whole(m, k + 1) \in [1..k + 1 -> 0..TextLength]
      BY <1>0 DEF Whole
    <3>2. Whole(m, k + 1) \in Texts /\ Len(Whole(m, k + 1)) = k + 1
      <4>1. k + 1 \in Nat
        OBVIOUS
      <4> QED
        BY <3>1, <4>1, FunctionIsSeq DEF Texts
    <3>3. /\ Whole(m, k) \o <<i + 1>> \in Texts /\ Len(Whole(m, k) \o <<i + 1>>) = k + 1
          /\ \A j \in 1..k + 1 : (Whole(m, k) \o <<i + 1>>)[j] =
                 IF j <= k THEN Whole(m, k)[j] ELSE <<i + 1>>[j - k]
      BY <2>7, <2>8, ConcatProperties DEF Texts
    <3>4. \A j \in 1..k + 1 : (Whole(m, k) \o <<i + 1>>)[j] = Whole(m, k + 1)[j]
      <4> TAKE j \in 1..k + 1
      <4>1. CASE j <= k
        BY <3>3, <4>1 DEF Whole
      <4>2. CASE j = k + 1
        BY <2>2, <3>3, <4>2 DEF Whole
      <4>3. j <= k \/ j = k + 1
        OBVIOUS
      <4> QED
        BY <4>1, <4>2, <4>3
    <3>5. /\ Len(Whole(m, k) \o <<i + 1>>) = Len(Whole(m, k + 1))
          /\ \A j \in 1..Len(Whole(m, k) \o <<i + 1>>) :
               (Whole(m, k) \o <<i + 1>>)[j] = Whole(m, k + 1)[j]
      BY <3>2, <3>3, <3>4
    <3> QED
      BY <3>2, <3>3, <3>5, SeqEqual DEF Texts
  <2>10. (a \o Whole(m, k)) \o <<i + 1>> = a \o (Whole(m, k) \o <<i + 1>>)
    BY <1>1, <2>7, <2>8, ConcatAssociative DEF Texts
  <2> QED
    BY <2>2, <2>5, <2>9, <2>10
<1> HIDE DEF N
<1>4. Nat \subseteq N
  BY <1>2, <1>3, Induction
<1> QED
  BY <1>0, <1>4 DEF N, a

LEMMA MaskInside ==
  ASSUME NEW ms, NEW m, Clear(ms, m)
  PROVE  ReplacedTo(ms \union {m}, m.to) = ReplacedTo(ms, m.from) \o Mask(m.mask)
<1> DEFINE more == ms \union {m}
           a == ReplacedTo(ms, m.from) \o Mask(m.mask)
           N == {k \in Nat : k < m.to - m.from => ReplacedTo(more, m.from + (k + 1)) = a}
<1>0. /\ m.from \in Nat /\ m.to \in Nat /\ m.from < m.to /\ m.to <= TextLength
      /\ TextLength \in Nat /\ ms \in SUBSET Matches /\ m.mask \in MaskLengths
  BY MatchBounds, RedactionAssumption DEF Clear
<1>1. a \in Texts
  <2>1. ReplacedTo(ms, m.from) \in Texts /\ Mask(m.mask) \in Texts
    BY <1>0, ReplacedToIsText, MaskIsText
  <2> QED
    BY <2>1, ConcatProperties DEF Texts
<1>2. 0 \in N
  <2>1. m.from + 1 \in Cells(m)
    BY <1>0, MatchBounds DEF Clear
  <2>2. Piece(more, m.from + 1) = Mask(m.mask)
    BY <2>1, PieceReplaced
  <2>3. ReplacedTo(more, m.from) = ReplacedTo(ms, m.from)
    BY SameBefore
  <2> HIDE DEF more
  <2>4. ReplacedTo(more, m.from + 1) = ReplacedTo(more, m.from) \o Piece(more, m.from + 1)
    BY <1>0, ReplacedToOneMore
  <2> QED
    BY <2>2, <2>3, <2>4
<1> HIDE DEF a
<1>3. ASSUME NEW k \in Nat, k \in N PROVE k + 1 \in N
  <2> SUFFICES ASSUME k + 1 < m.to - m.from PROVE ReplacedTo(more, m.from + ((k + 1) + 1)) = a
    OBVIOUS
  <2> DEFINE i == m.from + (k + 1)
  <2>1. ReplacedTo(more, i) = a
    BY <1>0, <1>3
  <2>2. i \in Nat /\ i + 1 = m.from + ((k + 1) + 1) /\ i + 1 # m.from + 1
    BY <1>0
  <2>3. i + 1 \in Cells(m)
    BY <1>0, <2>2, MatchBounds DEF Clear
  <2>4. Piece(more, i + 1) = <<>>
    BY <2>2, <2>3, PieceReplaced
  <2> HIDE DEF more, i
  <2>5. ReplacedTo(more, i + 1) = a \o <<>>
    BY <2>1, <2>2, <2>4, ReplacedToOneMore
  <2> QED
    BY <1>1, <2>2, <2>5, ConcatEmptySeq DEF Texts
<1> HIDE DEF N, more
<1>4. Nat \subseteq N
  BY <1>2, <1>3, Induction
<1>5. m.to - m.from - 1 \in Nat /\ m.to - m.from - 1 < m.to - m.from
      /\ m.from + ((m.to - m.from - 1) + 1) = m.to
  BY <1>0
<1>6. ReplacedTo(more, m.from + ((m.to - m.from - 1) + 1)) = a
  BY <1>4, <1>5 DEF N
<1> QED
  BY <1>5, <1>6 DEF a, more

(* Behind the match both texts go on in the same way. *)
LEMMA SameBehind ==
  ASSUME NEW ms, NEW m, Clear(ms, m)
  PROVE  \E t \in Texts :
           /\ Replaced(ms) = (ReplacedTo(ms, m.from) \o Whole(m, m.to - m.from)) \o t
           /\ Replaced(ms \union {m}) = (ReplacedTo(ms, m.from) \o Mask(m.mask)) \o t
           /\ \A i \in 1..Len(t) : t[i] = 0 \/ t[i] > m.to
<1> DEFINE more == ms \union {m}
           a == ReplacedTo(ms, m.from) \o Whole(m, m.to - m.from)
           b == ReplacedTo(ms, m.from) \o Mask(m.mask)
           TextBehind(k, t) == /\ ReplacedTo(ms, m.to + k) = a \o t
                         /\ ReplacedTo(more, m.to + k) = b \o t
                         /\ \A i \in 1..Len(t) : t[i] = 0 \/ t[i] > m.to
           N == {k \in Nat : k <= TextLength - m.to => \E t \in Texts : TextBehind(k, t)}
<1>0. /\ m.from \in Nat /\ m.to \in Nat /\ m.from < m.to /\ m.to <= TextLength
      /\ TextLength \in Nat /\ ms \in SUBSET Matches /\ more \in SUBSET Matches
      /\ m.mask \in MaskLengths
  BY MatchBounds, RedactionAssumption DEF Clear
<1>1. ReplacedTo(ms, m.to) = a /\ ReplacedTo(more, m.to) = b
  <2>1. m.to - m.from \in 0..m.to - m.from /\ m.from + (m.to - m.from) = m.to
    BY <1>0
  <2>2. ReplacedTo(ms, m.from + (m.to - m.from)) = a
    BY <2>1, WholeInside
  <2> QED
    BY <2>1, <2>2, MaskInside
<1>2. a \in Texts /\ b \in Texts
  <2>1. ReplacedTo(ms, m.to) \in Texts /\ ReplacedTo(more, m.to) \in Texts
    BY <1>0, ReplacedToIsText
  <2> QED
    BY <1>1, <2>1
<1>3. \A i \in Nat : i > m.to => Piece(more, i) = Piece(ms, i)
  <2> SUFFICES ASSUME NEW i \in Nat, i > m.to PROVE Piece(more, i) = Piece(ms, i)
    OBVIOUS
  <2>1. i \notin Cells(m)
    BY <1>0, MatchBounds DEF Clear
  <2> QED
    BY <2>1, PieceOutside
<1> HIDE DEF a, b, more
<1>4. 0 \in N
  <2>1. a \o <<>> = a /\ b \o <<>> = b /\ m.to + 0 = m.to
    BY <1>0, <1>2, ConcatEmptySeq DEF Texts
  <2>2. TextBehind(0, <<>>) /\ <<>> \in Texts
    BY <1>1, <2>1, NoText
  <2> QED
    BY <2>2
<1>5. ASSUME NEW k \in Nat, k \in N PROVE k + 1 \in N
  <2> HIDE DEF TextBehind
  <2> SUFFICES ASSUME k + 1 <= TextLength - m.to PROVE \E t \in Texts : TextBehind(k + 1, t)
    OBVIOUS
  <2>0. k <= TextLength - m.to
    BY <1>0
  <2>1. PICK t \in Texts : TextBehind(k, t)
    BY <1>5, <2>0
  <2> USE DEF TextBehind
  <2> DEFINE i == m.to + k
             p == Piece(ms, i + 1)
  <2>2. i \in Nat /\ i + 1 = m.to + (k + 1) /\ i + 1 \in 1..TextLength /\ i + 1 > m.to
    BY <1>0
  <2>3. p \in Texts /\ \A j \in 1..Len(p) : p[j] \in {0, i + 1}
    BY <1>0, <2>2, PieceIsText
  <2>4. Piece(more, i + 1) = p
    BY <1>3, <2>2
  <2> HIDE DEF p, i
  <2>5. /\ ReplacedTo(ms, i + 1) = (a \o t) \o p
        /\ ReplacedTo(more, i + 1) = (b \o t) \o p
    <3>1. ReplacedTo(ms, i) = a \o t /\ ReplacedTo(more, i) = b \o t
      BY <2>1 DEF i
    <3>2. /\ ReplacedTo(ms, i + 1) = ReplacedTo(ms, i) \o Piece(ms, i + 1)
          /\ ReplacedTo(more, i + 1) = ReplacedTo(more, i) \o Piece(more, i + 1)
      BY <2>2, ReplacedToOneMore
    <3> QED
      BY <2>4, <3>1, <3>2 DEF p
  <2>6. (a \o t) \o p = a \o (t \o p) /\ (b \o t) \o p = b \o (t \o p)
    <3> HIDE DEF TextBehind
    <3>0. PICK S : a \in Seq(S) /\ b \in Seq(S) /\ t \in Seq(S) /\ p \in Seq(S)
      BY <1>2, <2>1, <2>3 DEF Texts
    <3>1. (a \o t) \o p = a \o (t \o p)
      BY <3>0, ConcatAssociative
    <3>2. (b \o t) \o p = b \o (t \o p)
      BY <3>0, ConcatAssociative
    <3> QED
      BY <3>1, <3>2
  <2>7. /\ t \o p \in Texts /\ Len(t \o p) = Len(t) + Len(p) /\ Len(t) \in Nat /\ Len(p) \in Nat
        /\ \A j \in 1..Len(t) + Len(p) : (t \o p)[j] = IF j <= Len(t) THEN t[j] ELSE p[j - Len(t)]
    BY <2>3, ConcatProperties, LenProperties DEF Texts
  <2>8. ASSUME NEW j \in 1..Len(t \o p) PROVE (t \o p)[j] = 0 \/ (t \o p)[j] > m.to
    <3>1. CASE j <= Len(t)
      BY <2>1, <2>7, <3>1
    <3>2. CASE j > Len(t)
      <4>1. j - Len(t) \in 1..Len(p) /\ (t \o p)[j] = p[j - Len(t)]
        BY <2>7, <3>2
      <4> QED
        BY <2>2, <2>3, <4>1
    <3> QED
      BY <2>7, <3>1, <3>2
  <2>9. TextBehind(k + 1, t \o p)
    BY <2>2, <2>5, <2>6, <2>8
  <2> QED
    BY <2>7, <2>9
<1> HIDE DEF N, TextBehind
<1>6. Nat \subseteq N
  BY <1>4, <1>5, Induction
<1>7. TextLength - m.to \in Nat /\ m.to + (TextLength - m.to) = TextLength
  BY <1>0
<1>8. PICK t \in Texts : TextBehind(TextLength - m.to, t)
  BY <1>6, <1>7 DEF N
<1> QED
  BY <1>7, <1>8 DEF TextBehind, Replaced, a, b, more

-----------------------------------------------------------------------------
(* The two ways to replace a match. *)

IsJoined(a, b, s) ==
  /\ s \in Texts /\ Len(s) = Len(a) + Len(b)
  /\ \A i \in 1..Len(a) + Len(b) : s[i] = IF i <= Len(a) THEN a[i] ELSE b[i - Len(a)]

LEMMA TextsJoined == \A a, b \in Texts : IsJoined(a, b, a \o b)
BY ConcatProperties DEF Texts, IsJoined

HasParts(s, a, w, t) ==
  /\ s \in Texts /\ Len(a) \in Nat /\ Len(w) \in Nat /\ Len(t) \in Nat
  /\ Len(s) = Len(a) + Len(w) + Len(t)
  /\ \A i \in 1..Len(a) : s[i] = a[i]
  /\ \A i \in 1..Len(w) : s[Len(a) + i] = w[i]
  /\ \A i \in 1..Len(t) : s[Len(a) + Len(w) + i] = t[i]

LEMMA Parts ==
  ASSUME NEW a \in Texts, NEW w \in Texts, NEW t \in Texts
  PROVE  HasParts((a \o w) \o t, a, w, t)
<1> DEFINE aw == a \o w
           s == aw \o t
<1>1. IsJoined(a, w, aw)
  BY TextsJoined
<1>2. Len(a) \in Nat /\ Len(w) \in Nat /\ Len(t) \in Nat
  BY LenProperties DEF Texts
<1> HIDE DEF aw
<1>3. IsJoined(aw, t, s)
  BY <1>1, TextsJoined DEF IsJoined
<1> HIDE DEF s
<1> USE DEF IsJoined
<1>4. \A i \in 1..Len(a) : s[i] = a[i]
  BY <1>1, <1>2, <1>3
<1>5. \A i \in 1..Len(w) : s[Len(a) + i] = w[i]
  <2> TAKE i \in 1..Len(w)
  <2>1. Len(a) + i \in 1..Len(aw) /\ ~(Len(a) + i <= Len(a)) /\ (Len(a) + i) - Len(a) = i
    BY <1>1, <1>2
  <2>2. s[Len(a) + i] = aw[Len(a) + i]
    BY <1>1, <1>2, <1>3, <2>1
  <2>3. aw[Len(a) + i] = w[i]
    BY <1>1, <2>1
  <2> QED
    BY <2>2, <2>3
<1>6. \A i \in 1..Len(t) : s[Len(a) + Len(w) + i] = t[i]
  <2> TAKE i \in 1..Len(t)
  <2> DEFINE j == Len(a) + Len(w) + i
  <2>1. j \in 1..Len(aw) + Len(t) /\ ~(j <= Len(aw)) /\ j - Len(aw) = i
    BY <1>1, <1>2
  <2> HIDE DEF j
  <2>2. s[j] = t[j - Len(aw)]
    BY <1>3, <2>1
  <2> QED
    BY <2>1, <2>2 DEF j
<1> QED
  BY <1>1, <1>2, <1>3, <1>4, <1>5, <1>6 DEF s, aw, HasParts

PartsFound(s, a, w, t) ==
  /\ SubSeq(s, 1, Len(a)) = a
  /\ SubSeq(s, Len(a) + 1, Len(a) + Len(w)) = w
  /\ SubSeq(s, Len(a) + Len(w) + 1, Len(s)) = t

LEMMA PartsAsSubSeq ==
  ASSUME NEW a \in Texts, NEW w \in Texts, NEW t \in Texts, NEW s, HasParts(s, a, w, t)
  PROVE  PartsFound(s, a, w, t)
<1>1. /\ s \in Texts /\ Len(a) \in Nat /\ Len(w) \in Nat /\ Len(t) \in Nat
      /\ Len(s) = Len(a) + Len(w) + Len(t)
      /\ \A i \in 1..Len(a) : s[i] = a[i]
      /\ \A i \in 1..Len(w) : s[Len(a) + i] = w[i]
      /\ \A i \in 1..Len(t) : s[Len(a) + Len(w) + i] = t[i]
  BY DEF HasParts
<1>2. \A i \in 1..Len(s) : s[i] \in 0..TextLength
  BY <1>1, ElementOfSeq DEF Texts
<1>3. SubSeq(s, 1, Len(a)) = a
  <2>1. \A i \in 1..Len(a) : s[i] \in 0..TextLength
    BY <1>1, <1>2
  <2>2. /\ SubSeq(s, 1, Len(a)) \in Texts
        /\ Len(SubSeq(s, 1, Len(a))) = Len(a)
        /\ \A i \in 1..Len(a) : SubSeq(s, 1, Len(a))[i] = s[i]
    <3> DEFINE u == SubSeq(s, 1, Len(a))
    <3>1. /\ u \in Texts
          /\ Len(u) = IF 1 <= Len(a) THEN Len(a) - 1 + 1 ELSE 0
          /\ \A i \in 1..Len(a) - 1 + 1 : u[i] = s[1 + i - 1]
      BY <1>1, <2>1, SubSeqProperties DEF Texts
    <3> HIDE DEF u
    <3>2. Len(u) = Len(a) /\ \A i \in 1..Len(a) : u[i] = s[i]
      BY <1>1, <3>1
    <3> QED
      BY <3>1, <3>2 DEF u
  <2> QED
    BY <1>1, <2>2, SeqEqual DEF Texts
<1>4. SubSeq(s, Len(a) + 1, Len(a) + Len(w)) = w
  <2> DEFINE u == SubSeq(s, Len(a) + 1, Len(a) + Len(w))
  <2>1. \A i \in Len(a) + 1..Len(a) + Len(w) : s[i] \in 0..TextLength
    BY <1>1, <1>2
  <2>2. /\ u \in Texts
        /\ Len(u) = IF Len(a) + 1 <= Len(a) + Len(w) THEN (Len(a) + Len(w)) - (Len(a) + 1) + 1 ELSE 0
        /\ \A i \in 1..(Len(a) + Len(w)) - (Len(a) + 1) + 1 : u[i] = s[(Len(a) + 1) + i - 1]
    <3>1. Len(a) + 1 \in Int /\ Len(a) + Len(w) \in Int
      BY <1>1
    <3> QED
      BY <2>1, <3>1, SubSeqProperties DEF Texts
  <2> HIDE DEF u
  <2>3. Len(u) = Len(w)
    BY <1>1, <2>2
  <2>4. ASSUME NEW i \in 1..Len(w) PROVE u[i] = w[i]
    <3>1. i \in 1..(Len(a) + Len(w)) - (Len(a) + 1) + 1 /\ (Len(a) + 1) + i - 1 = Len(a) + i
      BY <1>1
    <3>2. u[i] = s[Len(a) + i]
      BY <2>2, <3>1
    <3> QED
      BY <1>1, <3>2
  <2>5. u = w
    BY <2>2, <2>3, <2>4, SeqEqual DEF Texts
  <2> QED
    BY <2>5 DEF u
<1>5. SubSeq(s, Len(a) + Len(w) + 1, Len(s)) = t
  <2> DEFINE k == Len(a) + Len(w)
             n == Len(s)
             u == SubSeq(s, k + 1, n)
  <2>0. k \in Nat /\ n = k + Len(t) /\ n \in Nat
    BY <1>1
  <2>1. \A i \in k + 1..n : s[i] \in 0..TextLength
    BY <1>1, <1>2
  <2>2. \A i \in 1..Len(t) : s[k + i] = t[i]
    BY <1>1
  <2> HIDE DEF k, n
  <2>3. /\ u \in Texts
        /\ Len(u) = IF k + 1 <= n THEN n - (k + 1) + 1 ELSE 0
        /\ \A i \in 1..n - (k + 1) + 1 : u[i] = s[(k + 1) + i - 1]
    <3>1. k + 1 \in Int /\ n \in Int
      BY <2>0
    <3> QED
      BY <2>1, <3>1, SubSeqProperties DEF Texts
  <2> HIDE DEF u
  <2>4. Len(u) = Len(t)
    BY <1>1, <2>0, <2>3
  <2>5. ASSUME NEW i \in 1..Len(t) PROVE u[i] = t[i]
    <3>1. i \in 1..n - (k + 1) + 1 /\ (k + 1) + i - 1 = k + i
      BY <1>1, <2>0
    <3> QED
      BY <2>2, <2>3, <3>1
  <2>6. u = t
    BY <2>3, <2>4, <2>5, SeqEqual DEF Texts
  <2> QED
    BY <2>6 DEF u, k, n
<1> QED
  BY <1>3, <1>4, <1>5 DEF PartsFound

(* Nothing has moved before the first match that was replaced. *)
LEMMA Unmoved ==
  ASSUME NEW ms \in SUBSET Matches, NEW n \in 0..TextLength, \A x \in ms : n <= x.from
  PROVE  ReplacedTo(ms, n) \in Texts /\ Len(ReplacedTo(ms, n)) = n
         /\ \A i \in 1..n : ReplacedTo(ms, n)[i] = i
<1> DEFINE Good(k) == /\ ReplacedTo(ms, k) \in Texts /\ Len(ReplacedTo(ms, k)) = k
                      /\ \A i \in 1..k : ReplacedTo(ms, k)[i] = i
           N == {k \in Nat : k <= n => Good(k)}
<1>0. n \in Nat /\ TextLength \in Nat /\ n <= TextLength
  BY RedactionAssumption
<1>1. 0 \in N
  <2>1. ReplacedTo(ms, 0) = <<>>
    BY ReplacedToNone
  <2>2. Good(0)
    BY <2>1, NoText
  <2> QED
    BY <2>2
<1>2. ASSUME NEW k \in Nat, k \in N PROVE k + 1 \in N
  <2> SUFFICES ASSUME k + 1 <= n PROVE Good(k + 1)
    OBVIOUS
  <2> DEFINE a == ReplacedTo(ms, k)
             i == k + 1
  <2>1. Good(k)
    BY <1>0, <1>2
  <2>2. i \in Nat /\ i \in 1..TextLength /\ i <= n
    BY <1>0
  <2>3. Begun(ms, i) = {} /\ ~ \E x \in ms : i \in Cells(x)
    <3>1. ASSUME NEW x \in ms PROVE i \notin Cells(x) /\ x.from + 1 # i
      <4>1. x.from \in Nat /\ n <= x.from /\ (i \in Cells(x) <=> x.from < i /\ i <= x.to)
        BY <2>2, MatchBounds
      <4> QED
        BY <1>0, <2>2, <4>1
    <3> QED
      BY <3>1 DEF Begun
  <2>4. MaskOf(Begun(ms, i)) = <<>>
    BY <2>3 DEF MaskOf
  <2>5. <<i>> \in Texts /\ Len(<<i>>) = 1 /\ <<i>>[1] = i
    BY <2>2 DEF Texts
  <2>6. Piece(ms, i) = <<i>>
    <3>1. Piece(ms, i) = <<>> \o <<i>>
      BY <2>3, <2>4, PieceIs
    <3> QED
      BY <2>5, <3>1, ConcatEmptySeq DEF Texts
  <2>7. ReplacedTo(ms, k + 1) = a \o <<i>>
    BY <2>6, ReplacedToOneMore
  <2>8. a \in Texts /\ Len(a) = k /\ \A j \in 1..k : a[j] = j
    BY <2>1
  <2> HIDE DEF a
  <2>9. a \o <<i>> \in Texts /\ Len(a \o <<i>>) = k + 1
        /\ \A j \in 1..k + 1 : (a \o <<i>>)[j] = IF j <= k THEN a[j] ELSE <<i>>[j - k]
    BY <2>5, <2>8, ConcatProperties DEF Texts
  <2>10. \A j \in 1..k + 1 : (a \o <<i>>)[j] = j
    <3> TAKE j \in 1..k + 1
    <3>1. CASE j <= k
      BY <2>8, <2>9, <3>1
    <3>2. CASE j = k + 1
      BY <2>5, <2>9, <3>2
    <3>3. j <= k \/ j = k + 1
      OBVIOUS
    <3> QED
      BY <3>1, <3>2, <3>3
  <2> QED
    BY <2>7, <2>9, <2>10
<1> HIDE DEF N, Good
<1>3. Nat \subseteq N
  BY <1>1, <1>2, Induction
<1>4. Good(n)
  BY <1>0, <1>3 DEF N
<1> QED
  BY <1>4 DEF Good

LEMMA NothingReplaced == Replaced({}) = Original /\ Original \in Texts
<1>1. TextLength \in Nat /\ TextLength \in 0..TextLength
  BY RedactionAssumption
<1>2. /\ Replaced({}) \in Texts /\ Len(Replaced({})) = TextLength
      /\ \A i \in 1..TextLength : Replaced({})[i] = i
  BY <1>1, Unmoved DEF Replaced
<1>3. Original \in [1..TextLength -> 0..TextLength] /\ \A i \in 1..TextLength : Original[i] = i
  BY <1>1 DEF Original
<1>4. Original \in Texts /\ Len(Original) = TextLength
  BY <1>1, <1>3, FunctionIsSeq DEF Texts
<1> QED
  BY <1>2, <1>3, <1>4, SeqEqual DEF Texts

(* A match that was not touched is where the text before it ends, and nowhere else. *)
LEMMA MatchInText ==
  ASSUME NEW ms, NEW m, Clear(ms, m)
  PROVE  \E a, t \in Texts :
           /\ a = ReplacedTo(ms, m.from)
           /\ HasParts(Replaced(ms), a, Whole(m, m.to - m.from), t)
           /\ Replaced(ms \union {m}) = (a \o Mask(m.mask)) \o t
           /\ \A i \in 1..Len(a) : a[i] <= m.from
           /\ \A i \in 1..Len(t) : t[i] = 0 \/ t[i] > m.to
           /\ Whole(m, m.to - m.from) \in Texts
           /\ Len(Whole(m, m.to - m.from)) = m.to - m.from
<1> DEFINE a == ReplacedTo(ms, m.from)
           w == Whole(m, m.to - m.from)
<1>0. /\ m.from \in Nat /\ m.to \in Nat /\ m.from < m.to /\ m.to <= TextLength
      /\ TextLength \in Nat /\ ms \in SUBSET Matches
  BY MatchBounds, RedactionAssumption DEF Clear
<1>1. a \in Texts /\ \A i \in 1..Len(a) : a[i] \in 0..m.from
  BY <1>0, ReplacedToIsText
<1>2. w \in Texts /\ Len(w) = m.to - m.from
  <2>1. m.to - m.from \in Nat /\ w \in [1..m.to - m.from -> 0..TextLength]
    BY <1>0 DEF Whole
  <2> HIDE DEF w
  <2> QED
    BY <2>1, FunctionIsSeq DEF Texts
<1>3. PICK t \in Texts :
           /\ Replaced(ms) = (a \o w) \o t
           /\ Replaced(ms \union {m}) = (a \o Mask(m.mask)) \o t
           /\ \A i \in 1..Len(t) : t[i] = 0 \/ t[i] > m.to
  BY SameBehind
<1> HIDE DEF a, w
<1>4. HasParts(Replaced(ms), a, w, t)
  BY <1>1, <1>2, <1>3, Parts
<1>5. \A i \in 1..Len(a) : a[i] <= m.from
  BY <1>0, <1>1
<1> QED
  BY <1>1, <1>2, <1>3, <1>4, <1>5 DEF a, w

(* Cut, when nothing has moved before the match. *)
LEMMA CutIsExact ==
  ASSUME NEW ms, NEW m, Clear(ms, m), \A x \in ms : m.to <= x.from, NEW s, s = Replaced(ms)
  PROVE  /\ m.to <= Len(s) /\ s \in Texts
         /\ SubSeq(s, 1, m.from) \o Mask(m.mask) \o SubSeq(s, m.to + 1, Len(s))
              = Replaced(ms \union {m})
<1>0. /\ m.from \in Nat /\ m.to \in Nat /\ m.from < m.to /\ m.to <= TextLength
      /\ TextLength \in Nat /\ ms \in SUBSET Matches
  BY MatchBounds, RedactionAssumption DEF Clear
<1> DEFINE w == Whole(m, m.to - m.from)
<1>1. PICK a, t \in Texts :
        /\ a = ReplacedTo(ms, m.from)
        /\ HasParts(s, a, w, t)
        /\ Replaced(ms \union {m}) = (a \o Mask(m.mask)) \o t
        /\ w \in Texts /\ Len(w) = m.to - m.from
  BY MatchInText
<1> HIDE DEF w
<1>2. Len(a) = m.from
  <2>1. \A x \in ms : m.from <= x.from
    <3> TAKE x \in ms
    <3>1. x.from \in Nat /\ m.to <= x.from
      BY <1>0, MatchBounds
    <3> QED
      BY <1>0, <3>1
  <2>2. m.from \in 0..TextLength
    BY <1>0
  <2> QED
    BY <1>0, <1>1, <2>1, <2>2, Unmoved
<1>3. /\ SubSeq(s, 1, Len(a)) = a /\ SubSeq(s, Len(a) + Len(w) + 1, Len(s)) = t
  <2>1. HasParts(s, a, w, t) /\ w \in Texts
    BY <1>1
  <2> QED
    BY <2>1, PartsAsSubSeq DEF PartsFound
<1>4. Len(a) + Len(w) = m.to /\ Len(s) = m.to + Len(t) /\ Len(t) \in Nat /\ s \in Texts
  BY <1>0, <1>1, <1>2 DEF HasParts
<1>5. SubSeq(s, 1, m.from) = a /\ SubSeq(s, m.to + 1, Len(s)) = t
  BY <1>2, <1>3, <1>4
<1>6. m.to <= Len(s)
  BY <1>0, <1>4
<1> QED
  BY <1>1, <1>4, <1>5, <1>6

-----------------------------------------------------------------------------
(* By value: where in t each cell was that AllReplaced leaves of its last n cells (0:
   in a mask that is new), and what became of the others. *)

InValue(t, m, q) == \E i \in 0..Len(t) : HoldsValue(t, i, m) /\ q \in i + 1..i + m.to - m.from
NoValue(u, m) == \A i \in 0..Len(u) : ~HoldsValue(u, i, m)

CameFrom(u, h, t, n) ==
  /\ u \in Texts /\ h \in [1..Len(u) -> 0..Len(t)]
  /\ \A p \in 1..Len(u) : /\ h[p] = 0 => u[p] = 0
                          /\ h[p] # 0 => h[p] > Len(t) - n /\ u[p] = t[h[p]]
  /\ \A p, q \in 1..Len(u) : p <= q /\ (\A r \in p..q : h[r] # 0) => h[q] = h[p] + q - p
  /\ \A p, q \in 1..Len(u) : p < q /\ h[q] # 0 => h[p] < h[q]
  /\ n >= 1 => Len(u) >= 1 /\ h[1] \in {0, Len(t) - n + 1}
NoneLost(u, h, t, n, m) ==
  \A q \in Len(t) - n + 1..Len(t) : (\E p \in 1..Len(u) : h[p] = q) \/ InValue(t, m, q)

LEMMA HeldRange ==
  ASSUME NEW u \in Texts, NEW m \in Matches, NEW i \in Nat, HoldsValue(u, i, m)
  PROVE  /\ i + 1 \in 1..Len(u) /\ i \in 0..Len(u) /\ i + (m.to - m.from) <= Len(u)
         /\ m.to - m.from \in Nat /\ m.to - m.from >= 1
         /\ \A k \in 1..m.to - m.from : i + k \in 1..Len(u) /\ u[i + k] # 0
<1>1. m.to - m.from \in Nat /\ m.to - m.from >= 1 /\ Len(u) \in Nat /\ m.to \in Nat /\ m.from \in Nat
  BY MatchBounds, LenProperties DEF Texts
<1>2. i + (m.to - m.from) <= Len(u)
  BY <1>1 DEF HoldsValue
<1>3. \A k \in 1..m.to - m.from : u[i + k] # 0
  BY DEF HoldsValue
<1> QED
  BY <1>1, <1>2, <1>3

(* The same cells elsewhere hold the same value. *)
LEMMA HeldAlike ==
  ASSUME NEW u \in Texts, NEW t \in Texts, NEW m \in Matches, NEW i \in Nat, NEW j \in Nat,
         HoldsValue(u, i, m), j + (m.to - m.from) <= Len(t),
         \A k \in 1..m.to - m.from : t[j + k] = u[i + k]
  PROVE  HoldsValue(t, j, m) /\ j \in 0..Len(t)
<1>1. m.to - m.from \in Nat /\ Len(t) \in Nat /\ m.to \in Nat /\ m.from \in Nat
  BY MatchBounds, LenProperties DEF Texts
<1>2. j + m.to - m.from <= Len(t) /\ j \in 0..Len(t)
  BY <1>1
<1> QED
  BY <1>2 DEF HoldsValue

(* What holds a value after the replacement held it before, at the same cells. *)
LEMMA HeldBefore ==
  ASSUME NEW t \in Texts, NEW u, NEW h, NEW n \in 0..Len(t), CameFrom(u, h, t, n),
         NEW m \in Matches, NEW i \in Nat, HoldsValue(u, i, m)
  PROVE  /\ h[i + 1] \in 1..Len(t) /\ i + 1 \in 1..Len(u)
         /\ HoldsValue(t, h[i + 1] - 1, m) /\ h[i + 1] - 1 \in 0..Len(t)
<1> DEFINE d == m.to - m.from
           a == h[i + 1] - 1
<1>1. u \in Texts /\ h \in [1..Len(u) -> 0..Len(t)] /\ Len(u) \in Nat /\ Len(t) \in Nat
  BY LenProperties DEF CameFrom, Texts
<1>2. /\ i + 1 \in 1..Len(u) /\ i + d <= Len(u) /\ d \in Nat /\ d >= 1
      /\ \A k \in 1..d : i + k \in 1..Len(u) /\ u[i + k] # 0
  BY <1>1, HeldRange
<1> HIDE DEF d
<1>3. \A k \in 1..d : h[i + k] \in 1..Len(t) /\ u[i + k] = t[h[i + k]]
  <2> TAKE k \in 1..d
  <2>1. i + k \in 1..Len(u) /\ u[i + k] # 0 /\ h[i + k] \in 0..Len(t)
    BY <1>1, <1>2
  <2>2. /\ h[i + k] = 0 => u[i + k] = 0
        /\ h[i + k] # 0 => u[i + k] = t[h[i + k]]
    BY <2>1 DEF CameFrom
  <2> QED
    BY <1>1, <2>1, <2>2
<1>4. h[i + 1] \in 1..Len(t)
  BY <1>2, <1>3
<1>5. ASSUME NEW k \in 1..d PROVE h[i + k] = a + k
  <2>1. i + 1 \in 1..Len(u) /\ i + k \in 1..Len(u) /\ i + 1 <= i + k
    BY <1>2
  <2>2. ASSUME NEW r \in i + 1..i + k PROVE h[r] # 0
    <3>1. r - i \in 1..d /\ i + (r - i) = r
      BY <1>2, <2>2
    <3>2. h[i + (r - i)] \in 1..Len(t)
      BY <1>3, <3>1
    <3> QED
      BY <3>1, <3>2
  <2>3. h[i + k] = h[i + 1] + (i + k) - (i + 1)
    BY <2>1, <2>2 DEF CameFrom
  <2> QED
    BY <1>4, <2>3
<1>6. a \in Nat /\ a + d <= Len(t)
  <2>1. d \in 1..d
    BY <1>2
  <2>2. h[i + d] = a + d /\ h[i + d] \in 1..Len(t)
    BY <1>3, <1>5, <2>1
  <2> QED
    BY <1>4, <2>2
<1>7. \A k \in 1..d : t[a + k] = u[i + k]
  BY <1>3, <1>5
<1> HIDE DEF a
<1>8. HoldsValue(t, a, m) /\ a \in 0..Len(t)
  <2>1. a + (m.to - m.from) <= Len(t) /\ \A k \in 1..m.to - m.from : t[a + k] = u[i + k]
    BY <1>6, <1>7 DEF d
  <2> QED
    BY <1>1, <1>6, <2>1, HeldAlike
<1> QED
  BY <1>2, <1>4, <1>8 DEF a

(* One more cell, which no value begins at. *)
LEMMA CellKept ==
  ASSUME NEW t \in Texts, NEW m \in Matches, NEW n \in Nat, n + 1 <= Len(t),
         NEW u, NEW h, CameFrom(u, h, t, n), NoneLost(u, h, t, n, m), NoValue(u, m),
         ~HoldsValue(t, Len(t) - (n + 1), m)
  PROVE  \E g : /\ CameFrom(<<t[Len(t) - n]>> \o u, g, t, n + 1)
                /\ NoneLost(<<t[Len(t) - n]>> \o u, g, t, n + 1, m)
                /\ NoValue(<<t[Len(t) - n]>> \o u, m)
<1> DEFINE L == Len(t)
           x == t[L - n]
           v == <<x>> \o u
           g == [p \in 1..Len(u) + 1 |-> IF p = 1 THEN L - n ELSE h[p - 1]]
<1>1. u \in Texts /\ h \in [1..Len(u) -> 0..L] /\ Len(u) \in Nat /\ L \in Nat
  BY LenProperties DEF CameFrom, Texts
<1>2. L - n \in 1..L /\ L - n \in Nat /\ x \in 0..TextLength
  <2>1. L - n \in 1..L /\ L - n \in Nat
    BY <1>1
  <2> QED
    BY <2>1, ElementOfSeq DEF Texts
<1>3. <<x>> \in Texts /\ Len(<<x>>) = 1 /\ <<x>>[1] = x
  BY <1>2 DEF Texts
<1>4. v \in Texts /\ Len(v) = Len(u) + 1 /\ v[1] = x /\ \A p \in 1..Len(u) : v[p + 1] = u[p]
  <2> HIDE DEF x
  <2>1. IsJoined(<<x>>, u, <<x>> \o u)
    BY <1>1, <1>3, TextsJoined
  <2>2. v \in Texts /\ Len(v) = 1 + Len(u)
        /\ \A i \in 1..1 + Len(u) : v[i] = IF i <= 1 THEN <<x>>[i] ELSE u[i - 1]
    BY <1>3, <2>1 DEF IsJoined
  <2> HIDE DEF v
  <2>3. 1 \in 1..1 + Len(u) /\ \A p \in 1..Len(u) : p + 1 \in 1..1 + Len(u) /\ ~(p + 1 <= 1) /\ (p + 1) - 1 = p
    BY <1>1
  <2> QED
    BY <1>1, <1>3, <2>2, <2>3
<1>5. /\ g \in [1..Len(v) -> 0..L] /\ g[1] = L - n
      /\ \A p \in 1..Len(u) : g[p + 1] = h[p]
  <2> HIDE DEF v
  <2>1. \A p \in 1..Len(u) + 1 : p = 1 \/ p - 1 \in 1..Len(u)
    BY <1>1
  <2> QED
    BY <1>1, <1>2, <1>4, <2>1
<1> HIDE DEF g, v, x
<1>6. \A p \in 1..Len(v) : p = 1 \/ (p - 1 \in 1..Len(u) /\ v[p] = u[p - 1] /\ g[p] = h[p - 1])
  <2> TAKE p \in 1..Len(v)
  <2>1. CASE p # 1
    <3>1. p - 1 \in 1..Len(u) /\ (p - 1) + 1 = p
      BY <1>1, <1>4, <2>1
    <3> QED
      BY <1>4, <1>5, <3>1
  <2> QED
    BY <2>1
<1>7. \A p \in 1..Len(v) : /\ g[p] = 0 => v[p] = 0
                           /\ g[p] # 0 => g[p] > L - (n + 1) /\ v[p] = t[g[p]]
  <2> TAKE p \in 1..Len(v)
  <2>1. CASE p = 1
    BY <1>1, <1>2, <1>4, <1>5, <2>1 DEF x
  <2>2. CASE p # 1
    <3>1. p - 1 \in 1..Len(u) /\ v[p] = u[p - 1] /\ g[p] = h[p - 1] /\ h[p - 1] \in 0..L
      BY <1>1, <1>6, <2>2
    <3>2. /\ h[p - 1] = 0 => u[p - 1] = 0
          /\ h[p - 1] # 0 => h[p - 1] > L - n /\ u[p - 1] = t[h[p - 1]]
      BY <3>1 DEF CameFrom
    <3> QED
      BY <1>1, <3>1, <3>2
  <2> QED
    BY <2>1, <2>2
<1>8. \A q \in 1..Len(u) : h[q] # 0 => h[q] > L - n
  BY DEF CameFrom
<1>9. ASSUME NEW p \in 1..Len(v), NEW q \in 1..Len(v), p <= q, \A r \in p..q : g[r] # 0
      PROVE  g[q] = g[p] + q - p
  <2>1. CASE p = q
    <3>1. g[p] \in Nat /\ p \in Nat
      BY <1>1, <1>5
    <3> QED
      BY <2>1, <3>1
  <2>2. CASE p # q /\ p = 1
    <3>1. q - 1 \in 1..Len(u) /\ g[q] = h[q - 1] /\ 1 \in 1..Len(u) /\ 1 <= q - 1
      BY <1>1, <1>4, <1>6, <1>9, <2>2
    <3>2. ASSUME NEW r \in 1..q - 1 PROVE h[r] # 0
      <4>1. r + 1 \in p..q /\ r \in 1..Len(u)
        BY <1>1, <2>2, <3>1
      <4> QED
        BY <1>5, <1>9, <4>1
    <3>3. h[q - 1] = h[1] + (q - 1) - 1
      BY <3>1, <3>2 DEF CameFrom
    <3>4. h[1] = L - n + 1
      <4>1. h[1] # 0
        BY <3>1, <3>2
      <4>2. n >= 1
        <5>1. h[1] > L - n /\ h[1] \in 0..L
          BY <1>1, <1>8, <3>1, <4>1
        <5> QED
          BY <1>1, <5>1
      <4> QED
        BY <4>1, <4>2 DEF CameFrom
    <3> QED
      BY <1>1, <1>5, <2>2, <3>1, <3>3, <3>4
  <2>3. CASE p # 1
    <3>1. /\ p - 1 \in 1..Len(u) /\ g[p] = h[p - 1] /\ q - 1 \in 1..Len(u) /\ g[q] = h[q - 1]
          /\ p - 1 <= q - 1
      BY <1>1, <1>4, <1>6, <1>9, <2>3
    <3>2. ASSUME NEW r \in p - 1..q - 1 PROVE h[r] # 0
      <4>1. r + 1 \in p..q /\ r \in 1..Len(u)
        BY <1>1, <3>1
      <4> QED
        BY <1>5, <1>9, <4>1
    <3>3. h[q - 1] = h[p - 1] + (q - 1) - (p - 1)
      BY <3>1, <3>2 DEF CameFrom
    <3>4. h[p - 1] \in Nat
      BY <1>1, <3>1
    <3> QED
      BY <3>1, <3>3, <3>4
  <2> QED
    BY <2>1, <2>2, <2>3
<1>10. ASSUME NEW p \in 1..Len(v), NEW q \in 1..Len(v), p < q, g[q] # 0 PROVE g[p] < g[q]
  <2>1. q - 1 \in 1..Len(u) /\ g[q] = h[q - 1] /\ h[q - 1] > L - n
    BY <1>4, <1>6, <1>8, <1>10
  <2>2. CASE p = 1
    BY <1>5, <2>1, <2>2
  <2>3. CASE p # 1
    <3>1. p - 1 \in 1..Len(u) /\ g[p] = h[p - 1] /\ p - 1 < q - 1
      BY <1>4, <1>6, <1>10, <2>3
    <3> QED
      BY <1>10, <2>1, <3>1 DEF CameFrom
  <2> QED
    BY <2>2, <2>3
<1>11. CameFrom(v, g, t, n + 1)
  <2>1. Len(v) >= 1 /\ g[1] = L - (n + 1) + 1
    BY <1>1, <1>4, <1>5
  <2> QED
    BY <1>4, <1>5, <1>7, <1>9, <1>10, <2>1 DEF CameFrom
<1>12. NoneLost(v, g, t, n + 1, m)
  <2> SUFFICES ASSUME NEW q \in L - (n + 1) + 1..L
               PROVE  (\E p \in 1..Len(v) : g[p] = q) \/ InValue(t, m, q)
    BY DEF NoneLost
  <2>1. CASE q = L - n
    <3>1. 1 \in 1..Len(v)
      BY <1>1, <1>4
    <3> QED
      BY <1>5, <2>1, <3>1
  <2>2. CASE q # L - n
    <3>1. q \in L - n + 1..L
      BY <1>1, <2>2
    <3>2. (\E p \in 1..Len(u) : h[p] = q) \/ InValue(t, m, q)
      BY <3>1 DEF NoneLost
    <3>3. \A p \in 1..Len(u) : p + 1 \in 1..Len(v)
      BY <1>1, <1>4
    <3> QED
      BY <1>5, <3>2, <3>3
  <2> QED
    BY <2>1, <2>2
<1>13. NoValue(v, m)
  <2> SUFFICES ASSUME NEW i \in 0..Len(v), HoldsValue(v, i, m) PROVE FALSE
    BY DEF NoValue
  <2>0. i \in Nat /\ n + 1 \in 0..Len(t)
    BY <1>1, <1>4
  <2>1. HoldsValue(t, g[i + 1] - 1, m) /\ i + 1 \in 1..Len(v)
    BY <1>11, <2>0, HeldBefore
  <2>2. CASE i = 0
    <3>1. g[i + 1] - 1 = L - (n + 1)
      BY <1>1, <1>5, <2>2
    <3> QED
      BY <2>1, <3>1
  <2>3. CASE i # 0
    <3>1. /\ i + (m.to - m.from) <= Len(v) /\ m.to - m.from \in Nat
          /\ \A k \in 1..m.to - m.from : i + k \in 1..Len(v)
      BY <1>4, <2>0, HeldRange
    <3>2. i - 1 \in Nat /\ (i - 1) + (m.to - m.from) <= Len(u)
      BY <1>1, <1>4, <2>0, <2>3, <3>1
    <3>3. ASSUME NEW k \in 1..m.to - m.from PROVE u[(i - 1) + k] = v[i + k]
      <4>1. i + k \in 1..Len(v) /\ i + k # 1 /\ (i + k) - 1 = (i - 1) + k
        BY <2>0, <2>3, <3>1
      <4> QED
        BY <1>6, <4>1
    <3>4. HoldsValue(u, i - 1, m) /\ i - 1 \in 0..Len(u)
      BY <1>1, <1>4, <2>0, <3>2, <3>3, HeldAlike
    <3> QED
      BY <3>4 DEF NoValue
  <2> QED
    BY <2>2, <2>3
<1> QED
  BY <1>11, <1>12, <1>13 DEF v, x

(* A value, which becomes a mask. *)
LEMMA ValueMasked ==
  ASSUME NEW t \in Texts, NEW m \in Matches, NEW n \in Nat, NEW l \in Nat,
         l + (m.to - m.from) = n, n <= Len(t), HoldsValue(t, Len(t) - n, m),
         NEW u, NEW h, CameFrom(u, h, t, l), NoneLost(u, h, t, l, m), NoValue(u, m)
  PROVE  \E g : /\ CameFrom(Mask(m.mask) \o u, g, t, n)
                /\ NoneLost(Mask(m.mask) \o u, g, t, n, m)
                /\ NoValue(Mask(m.mask) \o u, m)
<1> DEFINE L == Len(t)
           w == Mask(m.mask)
           M == Len(w)
           v == w \o u
           g == [p \in 1..M + Len(u) |-> IF p <= M THEN 0 ELSE h[p - M]]
<1>1. u \in Texts /\ h \in [1..Len(u) -> 0..L] /\ Len(u) \in Nat /\ L \in Nat
  BY LenProperties DEF CameFrom, Texts
<1>2. m.to - m.from \in Nat /\ m.to - m.from >= 1 /\ m.mask \in MaskLengths
      /\ m.to \in Nat /\ m.from \in Nat
  BY MatchBounds
<1>3. w \in Texts /\ (\A p \in 1..M : w[p] = 0) /\ M \in Nat /\ M >= 1
  <2>1. w \in Texts /\ \A p \in 1..M : w[p] = 0
    BY <1>2, MaskIsText
  <2>2. M = m.mask /\ m.mask \in Nat /\ m.mask >= 1
    BY <1>2, MaskLength
  <2> HIDE DEF w
  <2> QED
    BY <2>1, <2>2
<1> HIDE DEF w
<1>4. /\ v \in Texts /\ Len(v) = M + Len(u) /\ \A p \in 1..M : v[p] = 0
      /\ \A p \in 1..Len(u) : v[p + M] = u[p]
  <2>1. IsJoined(w, u, w \o u)
    BY <1>1, <1>3, TextsJoined
  <2>2. v \in Texts /\ Len(v) = M + Len(u)
        /\ \A i \in 1..M + Len(u) : v[i] = IF i <= M THEN w[i] ELSE u[i - M]
    BY <2>1 DEF IsJoined
  <2> HIDE DEF v, M
  <2>3. \A p \in 1..M : p \in 1..M + Len(u) /\ p <= M
    BY <1>1, <1>3
  <2>4. \A p \in 1..Len(u) : p + M \in 1..M + Len(u) /\ ~(p + M <= M) /\ (p + M) - M = p
    BY <1>1, <1>3
  <2> QED
    BY <1>3, <2>2, <2>3, <2>4
<1> HIDE DEF v, M
<1>5. /\ g \in [1..Len(v) -> 0..L] /\ \A p \in 1..M : g[p] = 0
      /\ \A p \in 1..Len(u) : g[p + M] = h[p]
  <2>1. \A p \in 1..M + Len(u) : p <= M \/ p - M \in 1..Len(u)
    BY <1>1, <1>3
  <2>2. \A p \in 1..Len(u) : p + M \in 1..M + Len(u) /\ ~(p + M <= M) /\ (p + M) - M = p
    BY <1>1, <1>3
  <2>3. \A p \in 1..M : p \in 1..M + Len(u) /\ p <= M
    BY <1>1, <1>3
  <2> QED
    BY <1>1, <1>4, <2>1, <2>2, <2>3
<1> HIDE DEF g
<1>6. \A p \in 1..Len(v) : \/ p \in 1..M /\ g[p] = 0 /\ v[p] = 0
                           \/ p - M \in 1..Len(u) /\ v[p] = u[p - M] /\ g[p] = h[p - M]
  <2> TAKE p \in 1..Len(v)
  <2>1. CASE p <= M
    <3>1. p \in 1..M
      BY <1>3, <2>1
    <3> QED
      BY <1>4, <1>5, <3>1
  <2>2. CASE ~(p <= M)
    <3>1. p - M \in 1..Len(u) /\ (p - M) + M = p
      BY <1>1, <1>3, <1>4, <2>2
    <3> QED
      BY <1>4, <1>5, <3>1
  <2> QED
    BY <2>1, <2>2
<1>7. \A p \in 1..Len(v) : /\ g[p] = 0 => v[p] = 0
                           /\ g[p] # 0 => g[p] > L - n /\ v[p] = t[g[p]]
  <2> TAKE p \in 1..Len(v)
  <2>1. CASE p - M \in 1..Len(u) /\ v[p] = u[p - M] /\ g[p] = h[p - M]
    <3>1. /\ h[p - M] = 0 => u[p - M] = 0
          /\ h[p - M] # 0 => h[p - M] > L - l /\ u[p - M] = t[h[p - M]]
          /\ h[p - M] \in 0..L
      BY <1>1, <2>1 DEF CameFrom
    <3>2. L - l >= L - n
      BY <1>1, <1>2
    <3> QED
      BY <1>1, <2>1, <3>1, <3>2
  <2> QED
    BY <1>6, <2>1
<1>8. ASSUME NEW p \in 1..Len(v), NEW q \in 1..Len(v), p <= q, \A r \in p..q : g[r] # 0
      PROVE  g[q] = g[p] + q - p
  <2>1. g[p] # 0 /\ g[q] # 0
    BY <1>8
  <2>2. /\ p - M \in 1..Len(u) /\ g[p] = h[p - M] /\ q - M \in 1..Len(u) /\ g[q] = h[q - M]
        /\ p - M <= q - M
    BY <1>1, <1>3, <1>4, <1>6, <1>8, <2>1
  <2>3. ASSUME NEW r \in p - M..q - M PROVE h[r] # 0
    <3>1. r + M \in p..q /\ r \in 1..Len(u)
      BY <1>1, <1>3, <2>2
    <3> QED
      BY <1>5, <1>8, <3>1
  <2>4. h[q - M] = h[p - M] + (q - M) - (p - M)
    BY <2>2, <2>3 DEF CameFrom
  <2>5. h[p - M] \in Nat
    BY <1>1, <2>2
  <2> QED
    BY <1>3, <2>2, <2>4, <2>5
<1>9. ASSUME NEW p \in 1..Len(v), NEW q \in 1..Len(v), p < q, g[q] # 0 PROVE g[p] < g[q]
  <2>1. g[p] \in 0..L /\ g[q] \in 0..L
    BY <1>5
  <2>2. CASE g[p] = 0
    BY <1>9, <2>1, <2>2
  <2>3. CASE g[p] # 0
    <3>1. /\ p - M \in 1..Len(u) /\ g[p] = h[p - M] /\ q - M \in 1..Len(u) /\ g[q] = h[q - M]
          /\ p - M < q - M
      BY <1>1, <1>3, <1>4, <1>6, <1>9, <2>3
    <3> QED
      BY <1>9, <3>1 DEF CameFrom
  <2> QED
    BY <2>2, <2>3
<1>10. CameFrom(v, g, t, n)
  <2>1. Len(v) >= 1 /\ g[1] = 0
    <3>1. 1 \in 1..M
      BY <1>3
    <3> QED
      BY <1>1, <1>3, <1>4, <1>5, <3>1
  <2> QED
    BY <1>4, <1>5, <1>7, <1>8, <1>9, <2>1 DEF CameFrom
<1>11. NoneLost(v, g, t, n, m)
  <2> SUFFICES ASSUME NEW q \in L - n + 1..L
               PROVE  (\E p \in 1..Len(v) : g[p] = q) \/ InValue(t, m, q)
    BY DEF NoneLost
  <2>1. CASE q \in L - l + 1..L
    <3>1. (\E p \in 1..Len(u) : h[p] = q) \/ InValue(t, m, q)
      BY <2>1 DEF NoneLost
    <3>2. \A p \in 1..Len(u) : p + M \in 1..Len(v)
      BY <1>1, <1>3, <1>4
    <3> QED
      BY <1>5, <3>1, <3>2
  <2>2. CASE q \notin L - l + 1..L
    <3> DEFINE i == L - n
    <3>1. i \in 0..L /\ q \in i + 1..i + m.to - m.from
      BY <1>1, <1>2, <2>2
    <3> QED
      BY <3>1 DEF InValue
  <2> QED
    BY <2>1, <2>2
<1>12. NoValue(v, m)
  <2> SUFFICES ASSUME NEW i \in 0..Len(v), HoldsValue(v, i, m) PROVE FALSE
    BY DEF NoValue
  <2>0. i \in Nat
    BY <1>1, <1>3, <1>4
  <2>1. /\ i + 1 \in 1..Len(v) /\ v[i + 1] # 0
        /\ i + (m.to - m.from) <= Len(v) /\ m.to - m.from \in Nat
        /\ \A k \in 1..m.to - m.from : i + k \in 1..Len(v)
    <3>1. /\ i + 1 \in 1..Len(v) /\ i + (m.to - m.from) <= Len(v)
          /\ \A k \in 1..m.to - m.from : i + k \in 1..Len(v) /\ v[i + k] # 0
      BY <1>4, <2>0, HeldRange
    <3>2. 1 \in 1..m.to - m.from
      BY <1>2
    <3> QED
      BY <1>2, <3>1, <3>2
  <2>2. (i + 1) - M \in 1..Len(u)
    BY <1>6, <2>1
  <2>3. i - M \in Nat /\ (i - M) + (m.to - m.from) <= Len(u)
    BY <1>1, <1>3, <1>4, <2>0, <2>1, <2>2
  <2>4. ASSUME NEW k \in 1..m.to - m.from PROVE u[(i - M) + k] = v[i + k]
    <3>1. i + k \in 1..Len(v) /\ i + k \notin 1..M /\ (i + k) - M = (i - M) + k
      BY <1>3, <2>0, <2>1, <2>3
    <3> QED
      BY <1>6, <3>1
  <2>5. HoldsValue(u, i - M, m) /\ i - M \in 0..Len(u)
    BY <1>1, <1>4, <2>0, <2>3, <2>4, HeldAlike
  <2> QED
    BY <2>5 DEF NoValue
<1> QED
  BY <1>10, <1>11, <1>12 DEF v, w

(* The function of AllReplaced, up to N. *)
RestOf(t, m, rest, n) ==
  IF n = 0 THEN <<>>
  ELSE IF HoldsValue(t, Len(t) - n, m) THEN Mask(m.mask) \o rest[n - (m.to - m.from)]
  ELSE <<t[Len(t) - n + 1]>> \o rest[n - 1]
IsRest(t, m, N, rest) == rest = [n \in 0..N |-> RestOf(t, m, rest, n)]

LEMMA RestOfValue ==
  ASSUME NEW t, NEW m, NEW rest, NEW n, n # 0, HoldsValue(t, Len(t) - n, m)
  PROVE  RestOf(t, m, rest, n) = Mask(m.mask) \o rest[n - (m.to - m.from)]
BY Zenon DEF RestOf

LEMMA ValueFits ==
  ASSUME NEW t \in Texts, NEW m \in Matches, NEW n \in 0..Len(t), HoldsValue(t, Len(t) - n, m)
  PROVE  /\ m.to - m.from \in Nat /\ m.to - m.from >= 1 /\ m.to - m.from <= n
         /\ n - (m.to - m.from) \in 0..n - 1
<1>1. Len(t) \in Nat
  BY LenProperties DEF Texts
<1> DEFINE i == Len(t) - n
<1>2. i \in Nat
  BY <1>1
<1>3. i + (m.to - m.from) <= Len(t) /\ m.to - m.from \in Nat /\ m.to - m.from >= 1
  <2>1. HoldsValue(t, i, m)
    OBVIOUS
  <2> HIDE DEF i
  <2> QED
    BY <1>2, <2>1, HeldRange
<1> QED
  BY <1>1, <1>3

LEMMA RestExists ==
  ASSUME NEW t \in Texts, NEW m \in Matches
  PROVE  \A n \in Nat : n <= Len(t) => \E rest : IsRest(t, m, n, rest)
<1> DEFINE N == {n \in Nat : n <= Len(t) => \E rest : IsRest(t, m, n, rest)}
<1>0. Len(t) \in Nat
  BY LenProperties DEF Texts
<1>1. 0 \in N
  <2>1. IsRest(t, m, 0, [n \in 0..0 |-> <<>>])
    BY DEF IsRest, RestOf
  <2> QED
    BY <2>1
<1>2. ASSUME NEW n \in Nat, n \in N PROVE n + 1 \in N
  <2> SUFFICES ASSUME n + 1 <= Len(t) PROVE \E rest : IsRest(t, m, n + 1, rest)
    OBVIOUS
  <2>1. PICK g : IsRest(t, m, n, g)
    BY <1>0, <1>2
  <2> DEFINE h == [k \in 0..(n + 1) |-> IF k = n + 1 THEN RestOf(t, m, g, n + 1) ELSE g[k]]
  <2>2. \A k \in 0..n : h[k] = g[k]
    OBVIOUS
  <2>3. h[n + 1] = RestOf(t, m, g, n + 1)
    <3>1. n + 1 \in 0..(n + 1)
      OBVIOUS
    <3> QED
      BY <3>1, Zenon
  <2>4. \A k \in 0..n : g[k] = RestOf(t, m, g, k)
    <3>1. g = [k \in 0..n |-> RestOf(t, m, g, k)]
      BY <2>1 DEF IsRest
    <3> QED
      BY <3>1, Zenon
  <2>5. h = [k \in 0..(n + 1) |-> h[k]]
    OBVIOUS
  <2> HIDE DEF h
  <2>6. ASSUME NEW k \in 0..(n + 1) PROVE RestOf(t, m, g, k) = RestOf(t, m, h, k)
    <3>1. k \in 0..Len(t) /\ k \in Nat
      BY <1>0
    <3>2. CASE k = 0
      BY <3>2 DEF RestOf
    <3>3. CASE k # 0 /\ HoldsValue(t, Len(t) - k, m)
      <4>1. k - (m.to - m.from) \in 0..k - 1
        BY <3>1, <3>3, ValueFits
      <4>2. k - (m.to - m.from) \in 0..n
        BY <4>1
      <4> QED
        BY <2>2, <3>3, <4>2 DEF RestOf
    <3>4. CASE k # 0 /\ ~HoldsValue(t, Len(t) - k, m)
      <4>1. k - 1 \in 0..n
        BY <3>4
      <4> QED
        BY <2>2, <3>4, <4>1 DEF RestOf
    <3> QED
      BY <3>2, <3>3, <3>4
  <2>7. \A k \in 0..(n + 1) : h[k] = RestOf(t, m, g, k)
    <3> TAKE k \in 0..(n + 1)
    <3>1. CASE k = n + 1
      BY <2>3, <3>1
    <3>2. CASE k # n + 1
      <4>1. k \in 0..n
        BY <3>2
      <4> QED
        BY <2>2, <2>4, <4>1
    <3> QED
      BY <3>1, <3>2
  <2>8. IsRest(t, m, n + 1, h)
    BY <2>5, <2>6, <2>7 DEF IsRest
  <2> QED
    BY <2>8
<1> HIDE DEF N
<1>3. Nat \subseteq N
  BY <1>1, <1>2, Induction
<1> QED
  BY <1>3 DEF N

(* ReplaceAll leaves nothing of the value, and of the other cells all, as they were. *)
LEMMA AllReplacedIs ==
  ASSUME NEW t \in Texts, NEW m \in Matches
  PROVE  \E h : /\ CameFrom(AllReplaced(t, m), h, t, Len(t))
                /\ NoneLost(AllReplaced(t, m), h, t, Len(t), m)
                /\ NoValue(AllReplaced(t, m), m)
<1>0. Len(t) \in Nat
  BY LenProperties DEF Texts
<1> DEFINE g == CHOOSE rest : IsRest(t, m, Len(t), rest)
<1>1. IsRest(t, m, Len(t), g)
  BY <1>0, RestExists
<1>2. AllReplaced(t, m) = g[Len(t)]
  BY DEF AllReplaced, IsRest, RestOf
<1> HIDE DEF g
<1>3. \A n \in 0..Len(t) : g[n] = RestOf(t, m, g, n)
  <2>1. g = [n \in 0..Len(t) |-> RestOf(t, m, g, n)]
    BY <1>1 DEF IsRest
  <2> QED
    BY <2>1, Zenon
<1> DEFINE Good(n) == \E h : CameFrom(g[n], h, t, n) /\ NoneLost(g[n], h, t, n, m) /\ NoValue(g[n], m)
           N == {n \in Nat : \A k \in 0..n : k <= Len(t) => Good(k)}
<1>4. Good(0)
  <2>1. g[0] = <<>>
    <3>1. 0 \in 0..Len(t)
      BY <1>0
    <3>2. g[0] = RestOf(t, m, g, 0)
      BY <1>3, <3>1
    <3> QED
      BY <3>2, Zenon DEF RestOf
  <2> DEFINE h == [p \in 1..0 |-> 0]
  <2>2. CameFrom(<<>>, h, t, 0)
    <3>1. <<>> \in Texts /\ 1..Len(<<>>) = {}
      BY NoText
    <3> QED
      BY <3>1 DEF CameFrom
  <2>3. NoneLost(<<>>, h, t, 0, m)
    BY <1>0 DEF NoneLost
  <2>4. NoValue(<<>>, m)
    <3> SUFFICES ASSUME NEW i \in 0..Len(<<>>), HoldsValue(<<>>, i, m) PROVE FALSE
      BY DEF NoValue
    <3>1. <<>> \in Texts /\ Len(<<>>) = 0
      BY NoText
    <3>2. i \in Nat
      BY <3>1
    <3>3. i + 1 \in 1..Len(<<>>)
      BY <3>1, <3>2, HeldRange
    <3> QED
      BY <3>1, <3>2, <3>3
  <2> QED
    BY <2>1, <2>2, <2>3, <2>4
<1>5. 0 \in N
  BY <1>4
<1>6. ASSUME NEW n \in Nat, n \in N PROVE n + 1 \in N
  <2>1. \A k \in 0..n : k <= Len(t) => Good(k)
    BY <1>6
  <2>2. ASSUME n + 1 <= Len(t) PROVE Good(n + 1)
    <3>1. n + 1 \in 0..Len(t) /\ n + 1 # 0 /\ Len(t) - (n + 1) + 1 = Len(t) - n
          /\ (n + 1) - 1 = n /\ n \in 0..n /\ n <= Len(t)
      BY <1>0, <2>2
    <3>2. CASE HoldsValue(t, Len(t) - (n + 1), m)
      <4> DEFINE l == n + 1 - (m.to - m.from)
      <4>1. /\ m.to - m.from \in Nat /\ m.to - m.from >= 1 /\ m.to - m.from <= n + 1
            /\ l \in 0..(n + 1) - 1
        BY <3>1, <3>2, ValueFits
      <4>2. l \in 0..n /\ l <= Len(t) /\ l \in Nat /\ l + (m.to - m.from) = n + 1
        BY <3>1, <4>1
      <4>3. g[n + 1] = Mask(m.mask) \o g[l]
        <5>1. g[n + 1] = RestOf(t, m, g, n + 1)
          BY <1>3, <3>1
        <5>2. PICK k : k = n + 1
          OBVIOUS
        <5>3. k # 0 /\ HoldsValue(t, Len(t) - k, m)
          BY <3>1, <3>2, <5>2
        <5>4. RestOf(t, m, g, k) = Mask(m.mask) \o g[k - (m.to - m.from)]
          BY <5>3, RestOfValue
        <5>5. k - (m.to - m.from) = l
          BY <4>1, <5>2
        <5> HIDE DEF l
        <5> QED
          BY <5>1, <5>2, <5>4, <5>5
      <4> HIDE DEF l, Good
      <4>4. Good(l)
        BY <2>1, <4>2
      <4>5. PICK h : CameFrom(g[l], h, t, l) /\ NoneLost(g[l], h, t, l, m) /\ NoValue(g[l], m)
        BY <4>4 DEF Good
      <4>6. \E x : /\ CameFrom(Mask(m.mask) \o g[l], x, t, n + 1)
                   /\ NoneLost(Mask(m.mask) \o g[l], x, t, n + 1, m)
                   /\ NoValue(Mask(m.mask) \o g[l], m)
        <5>1. n + 1 \in Nat
          OBVIOUS
        <5> QED
          BY <2>2, <3>2, <4>2, <4>5, <5>1, ValueMasked
      <4> QED
        BY <4>3, <4>6 DEF Good
    <3>3. CASE ~HoldsValue(t, Len(t) - (n + 1), m)
      <4>1. g[n + 1] = <<t[Len(t) - n]>> \o g[n]
        BY <1>3, <3>1, <3>3 DEF RestOf
      <4> HIDE DEF Good
      <4>2. Good(n)
        BY <2>1, <3>1
      <4>3. PICK h : CameFrom(g[n], h, t, n) /\ NoneLost(g[n], h, t, n, m) /\ NoValue(g[n], m)
        BY <4>2 DEF Good
      <4>4. \E x : /\ CameFrom(<<t[Len(t) - n]>> \o g[n], x, t, n + 1)
                   /\ NoneLost(<<t[Len(t) - n]>> \o g[n], x, t, n + 1, m)
                   /\ NoValue(<<t[Len(t) - n]>> \o g[n], m)
        BY <2>2, <3>3, <4>3, CellKept
      <4> QED
        BY <4>1, <4>4 DEF Good
    <3> QED
      BY <3>2, <3>3
  <2> HIDE DEF Good
  <2>3. \A k \in 0..n + 1 : k \in 0..n \/ k = n + 1
    OBVIOUS
  <2> QED
    BY <2>1, <2>2, <2>3
<1> HIDE DEF N
<1>7. Nat \subseteq N
  BY <1>5, <1>6, Induction
<1>8. Good(Len(t))
  <2>1. Len(t) \in N /\ Len(t) \in 0..Len(t)
    BY <1>0, <1>7
  <2> HIDE DEF Good
  <2> QED
    BY <1>0, <2>1 DEF N
<1> QED
  BY <1>2, <1>8

(* The invariant of redactPII: what stands side by side in the text did so at first,
   so that a value it holds is one of the original text. *)
InRuns(u) ==
  /\ \A p, q \in 1..Len(u) : p <= q /\ (\A r \in p..q : u[r] # 0) => u[q] = u[p] + q - p
  /\ \A p, q \in 1..Len(u) : p < q /\ u[q] # 0 => u[p] < u[q]
Still(u, ms) ==
  \A c \in 1..TextLength :
    (\E p \in 1..Len(u) : u[p] = c) \/ (\E m \in ms : InValue(Original, m, c))

LEMMA OriginalCells ==
  /\ Original \in Texts /\ Len(Original) = TextLength /\ \A i \in 1..TextLength : Original[i] = i
  /\ InRuns(Original) /\ \A ms : Still(Original, ms)
<1>1. TextLength \in Nat
  BY RedactionAssumption
<1>2. Original \in [1..TextLength -> 0..TextLength] /\ \A i \in 1..TextLength : Original[i] = i
  BY <1>1 DEF Original
<1>3. Original \in Texts /\ Len(Original) = TextLength
  BY <1>1, <1>2, FunctionIsSeq DEF Texts
<1>4. InRuns(Original)
  BY <1>1, <1>2, <1>3 DEF InRuns
<1> QED
  BY <1>2, <1>3, <1>4 DEF Still

LEMMA RunsKept ==
  ASSUME NEW t \in Texts, NEW u, NEW h, CameFrom(u, h, t, Len(t)), InRuns(t)
  PROVE  InRuns(u)
<1>1. /\ u \in Texts /\ h \in [1..Len(u) -> 0..Len(t)] /\ Len(u) \in Nat /\ Len(t) \in Nat
      /\ \A p \in 1..Len(u) : u[p] \in 0..TextLength
      /\ \A p \in 1..Len(t) : t[p] \in 0..TextLength
  <2>1. u \in Texts /\ h \in [1..Len(u) -> 0..Len(t)]
    BY DEF CameFrom
  <2> QED
    BY <2>1, LenProperties, ElementOfSeq DEF Texts
<1>2. \A p \in 1..Len(u) : u[p] # 0 => h[p] \in 1..Len(t) /\ u[p] = t[h[p]]
  <2> TAKE p \in 1..Len(u)
  <2>1. h[p] \in 0..Len(t) /\ (h[p] = 0 => u[p] = 0) /\ (h[p] # 0 => u[p] = t[h[p]])
    BY <1>1 DEF CameFrom
  <2> QED
    BY <1>1, <2>1
<1>3. ASSUME NEW p \in 1..Len(u), NEW q \in 1..Len(u), p <= q, \A r \in p..q : u[r] # 0
      PROVE  u[q] = u[p] + q - p
  <2>1. \A r \in p..q : r \in 1..Len(u) /\ h[r] \in 1..Len(t) /\ u[r] = t[h[r]]
    <3> TAKE r \in p..q
    <3>1. r \in 1..Len(u) /\ u[r] # 0
      BY <1>1, <1>3
    <3> QED
      BY <1>2, <3>1
  <2>2. \A r \in p..q : h[r] # 0
    BY <1>1, <2>1
  <2>3. ASSUME NEW r \in p..q PROVE h[r] = h[p] + r - p
    <3>1. r \in 1..Len(u) /\ p <= r /\ \A x \in p..r : x \in p..q
      BY <2>1
    <3>2. \A x \in p..r : h[x] # 0
      BY <2>2, <3>1
    <3> QED
      BY <3>1, <3>2 DEF CameFrom
  <2>4. p \in p..q /\ q \in p..q
    BY <1>3
  <2>5. h[p] \in 1..Len(t) /\ h[q] \in 1..Len(t) /\ h[q] = h[p] + q - p /\ h[p] <= h[q]
    BY <1>1, <1>3, <2>1, <2>3, <2>4
  <2>6. ASSUME NEW x \in h[p]..h[q] PROVE t[x] # 0
    <3> DEFINE r == p + (x - h[p])
    <3>1. r \in p..q /\ h[p] + r - p = x
      BY <1>1, <2>5
    <3> HIDE DEF r
    <3>2. h[r] = x /\ u[r] = t[h[r]] /\ u[r] # 0
      BY <1>3, <2>1, <2>3, <3>1
    <3> QED
      BY <3>2
  <2>7. t[h[q]] = t[h[p]] + h[q] - h[p]
    BY <2>5, <2>6 DEF InRuns
  <2>8. u[p] = t[h[p]] /\ u[q] = t[h[q]] /\ u[p] \in Nat /\ u[q] \in Nat
    BY <1>1, <2>1, <2>4
  <2> QED
    BY <1>1, <2>5, <2>7, <2>8
<1>4. ASSUME NEW p \in 1..Len(u), NEW q \in 1..Len(u), p < q, u[q] # 0 PROVE u[p] < u[q]
  <2>1. h[q] \in 1..Len(t) /\ u[q] = t[h[q]] /\ u[p] \in Nat /\ u[q] \in Nat
    BY <1>1, <1>2, <1>4
  <2>2. CASE u[p] = 0
    BY <1>4, <2>1, <2>2
  <2>3. CASE u[p] # 0
    <3>1. h[p] \in 1..Len(t) /\ u[p] = t[h[p]]
      BY <1>2, <2>3
    <3>2. h[p] < h[q]
      <4>1. h[q] # 0
        BY <1>1, <2>1
      <4> QED
        BY <1>4, <4>1 DEF CameFrom
    <3> QED
      BY <1>4, <2>1, <3>1, <3>2 DEF InRuns
  <2> QED
    BY <2>2, <2>3
<1> QED
  BY <1>3, <1>4 DEF InRuns

(* A cell that a value covers is covered by that value in the original text. *)
LEMMA CoveredAtFirst ==
  ASSUME NEW t \in Texts, InRuns(t), NEW m \in Matches, NEW q \in 1..Len(t), InValue(t, m, q)
  PROVE  InValue(Original, m, t[q])
<1> DEFINE d == m.to - m.from
<1>1. PICK i \in 0..Len(t) : HoldsValue(t, i, m) /\ q \in i + 1..i + m.to - m.from
  BY DEF InValue
<1>2. i \in Nat /\ Len(t) \in Nat /\ \A p \in 1..Len(t) : t[p] \in 0..TextLength
  <2>1. Len(t) \in Nat
    BY LenProperties DEF Texts
  <2>2. \A p \in 1..Len(t) : t[p] \in 0..TextLength
    BY ElementOfSeq DEF Texts
  <2> QED
    BY <2>1, <2>2
<1>3. /\ i + 1 \in 1..Len(t) /\ i + d <= Len(t) /\ d \in Nat /\ d >= 1
      /\ \A k \in 1..d : i + k \in 1..Len(t) /\ t[i + k] # 0
  <2>1. i \in Nat /\ HoldsValue(t, i, m)
    BY <1>1, <1>2
  <2>2. /\ i + 1 \in 1..Len(t) /\ i + (m.to - m.from) <= Len(t)
        /\ m.to - m.from \in Nat /\ m.to - m.from >= 1
        /\ \A k \in 1..m.to - m.from : i + k \in 1..Len(t) /\ t[i + k] # 0
    BY <2>1, HeldRange
  <2> QED
    BY <2>2
<1>4. q \in i + 1..i + d
  BY <1>1, <1>3, MatchBounds
<1> HIDE DEF d
<1> DEFINE a == t[i + 1] - 1
<1>5. a \in Nat /\ t[i + 1] \in 1..TextLength
  <2>1. 1 \in 1..d
    BY <1>3
  <2>2. t[i + 1] # 0 /\ t[i + 1] \in 0..TextLength
    BY <1>2, <1>3, <2>1
  <2> QED
    BY <2>2, RedactionAssumption
<1>6. ASSUME NEW k \in 1..d PROVE t[i + k] = a + k /\ a + k \in 1..TextLength
  <2>1. i + 1 \in 1..Len(t) /\ i + k \in 1..Len(t) /\ i + 1 <= i + k /\ t[i + k] \in 0..TextLength
    BY <1>2, <1>3
  <2>2. ASSUME NEW r \in i + 1..i + k PROVE t[r] # 0
    <3>1. r - i \in 1..d /\ i + (r - i) = r
      BY <1>2, <1>3
    <3>2. t[i + (r - i)] # 0
      BY <1>3, <3>1
    <3> QED
      BY <3>1, <3>2
  <2>3. t[i + k] = t[i + 1] + (i + k) - (i + 1)
    BY <2>1, <2>2 DEF InRuns
  <2> QED
    BY <1>2, <1>5, <2>1, <2>3, RedactionAssumption
<1>7. a + d <= TextLength
  <2>1. d \in 1..d
    BY <1>3
  <2> QED
    BY <1>6, <2>1, RedactionAssumption
<1>8. \A k \in 1..d : Original[a + k] = t[i + k]
  BY <1>6, OriginalCells
<1>9. q - i \in 1..d /\ i + (q - i) = q
  BY <1>2, <1>3, <1>4
<1>10. t[q] = a + (q - i)
  BY <1>6, <1>9
<1> HIDE DEF a
<1>11. HoldsValue(Original, a, m) /\ a \in 0..Len(Original)
  <2>1. a + (m.to - m.from) <= Len(Original) /\ \A k \in 1..m.to - m.from : Original[a + k] = t[i + k]
    BY <1>7, <1>8, OriginalCells DEF d
  <2> QED
    BY <1>1, <1>2, <1>5, <2>1, OriginalCells, HeldAlike
<1>12. t[q] \in a + 1..a + m.to - m.from
  <2>1. a + m.to - m.from = a + d
    BY <1>5, MatchBounds DEF d
  <2> QED
    BY <1>3, <1>5, <1>9, <1>10, <2>1
<1> QED
  BY <1>11, <1>12 DEF InValue

(* What replacing one more value does to all that. *)
LEMMA OneMoreValue ==
  ASSUME NEW t \in Texts, InRuns(t), NEW m \in Matches, NEW ms, m \in ms, Still(t, ms)
  PROVE  /\ AllReplaced(t, m) \in Texts /\ InRuns(AllReplaced(t, m))
         /\ Still(AllReplaced(t, m), ms) /\ NoValue(AllReplaced(t, m), m)
         /\ \A x \in Matches : NoValue(t, x) => NoValue(AllReplaced(t, m), x)
<1> DEFINE u == AllReplaced(t, m)
<1>1. PICK h : CameFrom(u, h, t, Len(t)) /\ NoneLost(u, h, t, Len(t), m) /\ NoValue(u, m)
  BY AllReplacedIs
<1> HIDE DEF u
<1>2. u \in Texts /\ Len(u) \in Nat /\ Len(t) \in Nat
  BY <1>1, LenProperties DEF CameFrom, Texts
<1>3. InRuns(u)
  BY <1>1, RunsKept
<1>4. Still(u, ms)
  <2> SUFFICES ASSUME NEW c \in 1..TextLength
               PROVE  (\E p \in 1..Len(u) : u[p] = c) \/ (\E x \in ms : InValue(Original, x, c))
    BY DEF Still
  <2>1. CASE \E x \in ms : InValue(Original, x, c)
    BY <2>1
  <2>2. CASE \E q \in 1..Len(t) : t[q] = c
    <3>1. PICK q \in 1..Len(t) : t[q] = c
      BY <2>2
    <3>2. q \in Len(t) - Len(t) + 1..Len(t) /\ q # 0
      BY <1>2
    <3>3. CASE InValue(t, m, q)
      BY <3>1, <3>3, CoveredAtFirst
    <3>4. CASE \E p \in 1..Len(u) : h[p] = q
      <4>1. PICK p \in 1..Len(u) : h[p] = q
        BY <3>4
      <4>2. u[p] = t[q]
        BY <1>1, <3>2, <4>1 DEF CameFrom
      <4> QED
        BY <3>1, <4>2
    <3> QED
      BY <1>1, <3>2, <3>3, <3>4 DEF NoneLost
  <2> QED
    BY <2>1, <2>2 DEF Still
<1>5. ASSUME NEW x \in Matches, NoValue(t, x) PROVE NoValue(u, x)
  <2> SUFFICES ASSUME NEW i \in 0..Len(u), HoldsValue(u, i, x) PROVE FALSE
    BY DEF NoValue
  <2>1. i \in Nat /\ Len(t) \in 0..Len(t)
    BY <1>2
  <2>2. HoldsValue(t, h[i + 1] - 1, x) /\ h[i + 1] - 1 \in 0..Len(t)
    BY <1>1, <2>1, HeldBefore
  <2> QED
    BY <1>5, <2>2 DEF NoValue
<1> QED
  BY <1>1, <1>2, <1>3, <1>4, <1>5 DEF u

-----------------------------------------------------------------------------
(* The invariant: by position, what is left to replace is whole, and the text is what
   the rest makes of it; by value, the values that are not left are gone. *)

ByPosition == {"RedactPII", "MaskSecrets"}
Chosen == {m \in ToSet(redaction.found) : m.category \in redaction.enabled}
Left == {m \in Matches : Occurs(pending, m)}
Apart == {p \in Matches \X Matches : ~Overlap(p[1], p[2])}
Behind == {p \in Matches \X Matches : p[2].to <= p[1].from}

Progress ==
  /\ redaction.pc # "panic"
  /\ redaction.pc = "done" => pending = <<>>
  /\ Left \subseteq Chosen
  /\ redacted = Replaced(Chosen \ Left)
  /\ Sorted(pending, Apart)
  /\ redaction.how \in ByPosition =>
       /\ Sorted(pending, Behind)
       /\ \A m \in Left, n \in Chosen \ Left : m.to <= n.from

ValuesInv ==
  /\ redaction.pc = "done" => pending = <<>>
  /\ InRuns(redacted) /\ Still(redacted, Chosen)
  /\ Left \subseteq Chosen
  /\ \A m \in Chosen \ Left : NoValue(redacted, m)

RedactionInv ==
  /\ RedactionTypeOK
  /\ redaction \in [how : {"none", "RedactPII", "MaskSecrets", "Redact PII", "Redact secrets"},
                    found : Seq(Matches), enabled : SUBSET Categories,
                    pc : {"idle", "replacing", "done", "panic"}]
  /\ redaction.pc = "idle" => redacted = Original
  /\ redaction.pc # "idle" /\ redaction.how \in ByPosition /\ DisjointMatches(redaction.found)
       => Progress
  /\ redaction.pc # "idle" /\ redaction.how = "Redact PII" => ValuesInv

LEMMA PositionsGiveProperty == RedactionInv => DisjointExact
<1> SUFFICES ASSUME RedactionInv, redaction.pc \in {"done", "panic"}, redaction.how \in ByPosition,
                    DisjointMatches(redaction.found)
             PROVE  redaction.pc = "done" /\ redacted = Replaced(Chosen)
  BY DEF DisjointExact, Chosen, ByPosition
<1>1. Progress
  BY DEF RedactionInv
<1>2. redaction.pc = "done" /\ pending = <<>>
  BY <1>1 DEF Progress
<1>3. Left = {}
  BY <1>2, NoText DEF Left, Occurs
<1>4. Chosen \ Left = Chosen
  BY <1>3
<1> QED
  BY <1>1, <1>2, <1>4 DEF Progress

LEMMA ChosenFound ==
  ASSUME RedactionInv
  PROVE  Chosen \subseteq Matches /\ redacted \in Texts
<1>1. redaction.found \in Seq(Matches) /\ redacted \in Texts
  BY DEF RedactionInv, RedactionTypeOK, Texts
<1>2. DOMAIN redaction.found = 1..Len(redaction.found)
  BY <1>1, LenProperties
<1> QED
  BY <1>1, <1>2, ElementOfSeq DEF Chosen, ToSet

LEMMA ValuesGiveProperty == RedactionInv => ValuesGone
<1> SUFFICES ASSUME RedactionInv, redaction.pc = "done", redaction.how = "Redact PII"
             PROVE  ValuesGone
  BY DEF ValuesGone
<1> DEFINE covered == {c \in 1..TextLength : \E m \in Chosen, i \in 0..TextLength :
                         c \in i + 1..i + m.to - m.from /\ HoldsValue(Original, i, m)}
<1>1. ValuesInv
  BY DEF RedactionInv
<1>2. Left = {}
  BY <1>1, NoText DEF ValuesInv, Left, Occurs
<1>3. Chosen \subseteq Matches /\ redacted \in Texts /\ DOMAIN redacted = 1..Len(redacted)
  BY ChosenFound, LenProperties DEF Texts
<1>4. \A m \in Chosen : \A i \in 0..Len(redacted) : ~HoldsValue(redacted, i, m)
  BY <1>1, <1>2 DEF ValuesInv, NoValue
<1>5. ASSUME NEW c \in 1..TextLength PROVE c \in covered \/ c \in ToSet(redacted)
  <2>1. CASE \E p \in 1..Len(redacted) : redacted[p] = c
    BY <1>3, <2>1 DEF ToSet
  <2>2. CASE \E m \in Chosen : InValue(Original, m, c)
    BY <2>2, OriginalCells DEF InValue
  <2> QED
    BY <1>1, <2>1, <2>2 DEF ValuesInv, Still
<1>6. \A p, q \in DOMAIN redacted : p < q /\ redacted[q] # 0 => redacted[p] < redacted[q]
  BY <1>1, <1>3 DEF ValuesInv, InRuns
<1>7. 1..TextLength \subseteq covered \union ToSet(redacted)
  BY <1>5
<1>8. Chosen = {m \in ToSet(redaction.found) : m.category \in redaction.enabled}
  BY DEF Chosen
<1> HIDE DEF Chosen
<1> QED
  BY <1>4, <1>6, <1>7, <1>8 DEF ValuesGone

LEMMA RedactionStarts == RedactionInit => RedactionInv
<1> SUFFICES ASSUME RedactionInit PROVE RedactionInv
  OBVIOUS
<1>1. Original \in Seq(0..TextLength)
  BY NothingReplaced DEF Texts
<1>2. <<>> \in Seq(Matches)
  BY EmptySeq
<1> QED
  BY <1>1, <1>2 DEF RedactionInit, RedactionInv, RedactionTypeOK

(* What begins a call. *)
LEMMA FoundIsSeq == \A found \in Findable : found \in Seq(Matches)
<1> TAKE found \in Findable
<1>1. PICK n \in 0..MaxMatches : found \in [1..n -> Matches]
  BY DEF Findable
<1>2. n \in Nat
  BY RedactionAssumption
<1> QED
  BY <1>1, <1>2, FunctionIsSeq

LEMMA SeqElements ==
  ASSUME NEW S, NEW seq \in Seq(S)
  PROVE  \A x : x \in ToSet(seq) <=> Occurs(seq, x)
BY LenProperties DEF ToSet, Occurs

(* An injection of a finite set into itself reaches all of it. *)
LEMMA Reordered ==
  ASSUME NEW found \in Seq(Matches), NEW seq \in Reorderings(found)
  PROVE  /\ seq \in Seq(Matches) /\ Len(seq) = Len(found)
         /\ \A x : Occurs(seq, x) <=> Occurs(found, x)
         /\ DisjointMatches(found) => DisjointMatches(seq)
<1> DEFINE D == 1..Len(found)
<1>1. DOMAIN found = D /\ Len(found) \in Nat /\ found \in [D -> Matches]
  BY LenProperties
<1>2. PICK q \in [D -> D] : (\A i, j \in D : q[i] = q[j] => i = j) /\ seq = [i \in D |-> found[q[i]]]
  BY <1>1 DEF Reorderings
<1>3. seq \in Seq(Matches) /\ Len(seq) = Len(found)
  <2>1. seq \in [D -> Matches]
    BY <1>1, <1>2
  <2> QED
    BY <1>1, <2>1, FunctionIsSeq
<1>4. \A j \in D : \E i \in D : q[i] = j
  <2> DEFINE I == {q[i] : i \in D}
  <2>1. IsFiniteSet(D)
    BY <1>1, FS_Interval
  <2>2. q \in Bijection(D, I)
    BY <1>2 DEF Bijection, Injection, Surjection, IsInjective
  <2>3. I \subseteq D
    BY <1>2
  <2>4. IsFiniteSet(I) /\ Cardinality(I) = Cardinality(D)
    <3> HIDE DEF I, D
    <3> QED
      BY <2>1, <2>2, FS_Bijection DEF ExistsBijection
  <2>5. I = D
    <3> HIDE DEF I, D
    <3> QED
      BY <2>1, <2>3, <2>4, FS_Subset
  <2> QED
    BY <2>5
<1>5. \A x : Occurs(seq, x) <=> Occurs(found, x)
  <2> TAKE x
  <2>1. ASSUME Occurs(seq, x) PROVE Occurs(found, x)
    <3>1. PICK i \in D : seq[i] = x
      BY <1>3, <2>1 DEF Occurs
    <3>2. q[i] \in D /\ found[q[i]] = x
      BY <1>2, <3>1
    <3> QED
      BY <3>2 DEF Occurs
  <2>2. ASSUME Occurs(found, x) PROVE Occurs(seq, x)
    <3>1. PICK j \in D : found[j] = x
      BY <2>2 DEF Occurs
    <3>2. PICK i \in D : q[i] = j
      BY <1>4
    <3>3. seq[i] = x
      BY <1>2, <3>1, <3>2
    <3> QED
      BY <1>3, <3>3 DEF Occurs
  <2> QED
    BY <2>1, <2>2
<1>6. ASSUME DisjointMatches(found) PROVE DisjointMatches(seq)
  <2> SUFFICES ASSUME NEW i \in D, NEW j \in D, i # j PROVE ~Overlap(seq[i], seq[j])
    BY <1>2 DEF DisjointMatches
  <2>1. q[i] \in D /\ q[j] \in D /\ q[i] # q[j]
    BY <1>2
  <2> QED
    BY <1>1, <1>2, <1>6, <2>1 DEF DisjointMatches
<1> QED
  BY <1>3, <1>5, <1>6

LEMMA SortedApart ==
  ASSUME NEW seq \in Seq(Matches), DisjointMatches(seq)
  PROVE  Sorted(seq, Apart)
<1>1. DOMAIN seq = 1..Len(seq) /\ Len(seq) \in Nat
  BY LenProperties
<1> SUFFICES ASSUME NEW i \in 1..Len(seq), NEW j \in 1..Len(seq), i < j
             PROVE  <<seq[i], seq[j]>> \in Apart
  BY DEF Sorted
<1>2. seq[i] \in Matches /\ seq[j] \in Matches /\ i # j
  BY <1>1, ElementOfSeq
<1>3. ~Overlap(seq[i], seq[j])
  BY <1>1, <1>2 DEF DisjointMatches
<1> QED
  BY <1>2, <1>3 DEF Apart

LEMMA ApartIsOrdered ==
  ASSUME NEW m \in Matches, NEW n \in Matches, ~Overlap(m, n), m.from >= n.from
  PROVE  n.to <= m.from
<1> SUFFICES ASSUME n.to > m.from PROVE FALSE
  BY MatchBounds
<1>1. m.from + 1 \in Nat /\ m.from < m.from + 1 /\ m.from + 1 <= m.to /\ n.from < m.from + 1
      /\ m.from + 1 <= n.to
  BY MatchBounds
<1>2. m.from + 1 \in Cells(m) /\ m.from + 1 \in Cells(n)
  BY <1>1, MatchBounds
<1> QED
  BY <1>2 DEF Overlap

LEMMA SortedBehind ==
  ASSUME NEW seq \in Seq(Matches), DisjointMatches(seq), LastFirst(seq)
  PROVE  Sorted(seq, Behind)
<1>1. DOMAIN seq = 1..Len(seq) /\ Len(seq) \in Nat
  BY LenProperties
<1> SUFFICES ASSUME NEW i \in 1..Len(seq), NEW j \in 1..Len(seq), i < j
             PROVE  <<seq[i], seq[j]>> \in Behind
  BY DEF Sorted
<1>2. seq[i] \in Matches /\ seq[j] \in Matches /\ i # j
  BY <1>1, ElementOfSeq
<1>3. ~Overlap(seq[i], seq[j]) /\ seq[i].from >= seq[j].from
  BY <1>1, <1>2 DEF DisjointMatches, LastFirst
<1>4. seq[j].to <= seq[i].from
  BY <1>2, <1>3, ApartIsOrdered
<1> QED
  BY <1>2, <1>4 DEF Behind

(* Of matches that are apart, the first at a match's range is that match. *)
LEMMA ShouldRedactIsOwn ==
  ASSUME NEW found \in Seq(Matches), DisjointMatches(found), NEW chosen,
         NEW m \in Matches, Occurs(found, m)
  PROVE  ShouldRedact(found, chosen, m) <=> m.category \in chosen
<1> DEFINE K == {n \in Matches : n.from = m.from /\ n.to = m.to}
           same == Select(found, K)
<1>1. \A x : Occurs(same, x) <=> Occurs(found, x) /\ x \in K
  BY SelectElements
<1>2. same \in Seq(Matches) /\ Len(same) \in Nat
  BY SelectType, LenProperties
<1>3. Occurs(same, m)
  BY <1>1
<1> HIDE DEF same
<1>4. 1 \in 1..Len(same)
  <2>1. PICK i \in 1..Len(same) : same[i] = m
    BY <1>3 DEF Occurs
  <2> QED
    BY <1>2, <2>1
<1>5. Occurs(same, same[1])
  BY <1>4 DEF Occurs
<1>6. Occurs(found, same[1]) /\ same[1] \in K
  BY <1>1, <1>5
<1>7. same[1] = m
  <2>1. PICK i \in 1..Len(found) : found[i] = m
    BY DEF Occurs
  <2>2. PICK j \in 1..Len(found) : found[j] = same[1]
    BY <1>6 DEF Occurs
  <2>3. Overlap(found[i], found[j])
    <3>1. found[j].from = m.from /\ found[j].to = m.to
      BY <1>6, <2>2
    <3>2. m.from + 1 \in Nat /\ m.from < m.from + 1 /\ m.from + 1 <= m.to
      BY MatchBounds
    <3>3. m.from + 1 \in Cells(m)
      BY <3>2, MatchBounds
    <3>4. Cells(found[j]) = Cells(m)
      BY <3>1 DEF Cells
    <3> QED
      BY <2>1, <3>3, <3>4 DEF Overlap
  <2>4. i = j
    BY <2>3, LenProperties DEF DisjointMatches
  <2> QED
    BY <2>1, <2>2, <2>4
<1> QED
  BY <1>7 DEF ShouldRedact, same, K

(* A call that has replaced nothing yet. *)
LEMMA BeginsWell ==
  ASSUME RedactionInv, redacted' = Original,
         redaction'.pc = "replacing",
         NEW found \in Seq(Matches), NEW chosen \in SUBSET Categories,
         redaction'.found = found, redaction'.enabled = chosen,
         pending' \in Seq(Matches),
         \A x : Occurs(pending', x) <=> Occurs(found, x) /\ x.category \in chosen,
         Sorted(pending', Apart),
         redaction'.how \in ByPosition => Sorted(pending', Behind)
  PROVE  Progress'
<1>1. \A x : x \in ToSet(found) <=> Occurs(found, x) /\ x \in Matches
  <2>1. \A x : Occurs(found, x) => x \in Matches
    BY ElementOfSeq DEF Occurs
  <2> QED
    BY <2>1, SeqElements
<1>2. Left' = Chosen'
  BY <1>1 DEF Left, Chosen
<1>3. Chosen' \ Left' = {}
  BY <1>2
<1>4. redacted' = Replaced(Chosen' \ Left')
  BY <1>3, NothingReplaced
<1>5. Replaced(Chosen' \ Left') = Replaced(Chosen \ Left)'
  BY DEF Replaced, ReplacedTo, Piece
<1> QED
  BY <1>2, <1>3, <1>4, <1>5 DEF Progress, Sorted

LEMMA BeginByPositionKeeps ==
  ASSUME RedactionInv, NEW how \in ByPosition, BeginByPosition(how)
  PROVE  RedactionInv'
<1>1. PICK found \in Findable, chosen \in SUBSET Categories :
        /\ how = "MaskSecrets" => chosen = Categories
        /\ redaction' = [how |-> how, found |-> found, enabled |-> chosen, pc |-> "replacing"]
        /\ \E seq \in Reorderings(found) :
             /\ InOrder(seq)
             /\ pending' = IF how = "MaskSecrets" THEN seq
                           ELSE Select(seq, {m \in Matches : ShouldRedact(found, chosen, m)})
  BY DEF BeginByPosition
<1>2. PICK seq \in Reorderings(found) :
             /\ InOrder(seq)
             /\ pending' = IF how = "MaskSecrets" THEN seq
                           ELSE Select(seq, {m \in Matches : ShouldRedact(found, chosen, m)})
  BY <1>1
<1>3. /\ redacted' = Original /\ redaction.pc = "idle"
      /\ characters' \in [1..TextLength -> Letters] \union {<<>>}
  BY DEF BeginByPosition, RedactionInv, RedactionTypeOK
<1>4. found \in Seq(Matches)
  BY FoundIsSeq
<1>5. /\ seq \in Seq(Matches) /\ \A x : Occurs(seq, x) <=> Occurs(found, x)
      /\ DisjointMatches(found) => DisjointMatches(seq)
  BY <1>4, Reordered
<1>6. pending' \in Seq(Matches)
  BY <1>2, <1>5, SelectType
<1>7. RedactionTypeOK' /\ redaction' \in
        [how : {"none", "RedactPII", "MaskSecrets", "Redact PII", "Redact secrets"},
         found : Seq(Matches), enabled : SUBSET Categories,
         pc : {"idle", "replacing", "done", "panic"}]
  BY <1>1, <1>3, <1>4, <1>6, NothingReplaced DEF RedactionTypeOK, ByPosition, Texts
<1>8. ASSUME DisjointMatches(found) PROVE Progress'
  <2>1. \A x : Occurs(pending', x) <=> Occurs(found, x) /\ x.category \in chosen
    <3>0. \A x : Occurs(found, x) => x \in Matches
      BY <1>4, ElementOfSeq DEF Occurs
    <3>1. CASE how = "MaskSecrets"
      <4>1. pending' = seq /\ chosen = Categories
        BY <1>1, <1>2, <3>1
      <4>2. \A x \in Matches : x.category \in Categories
        BY DEF Matches
      <4> QED
        BY <1>5, <3>0, <4>1, <4>2
    <3>2. CASE how # "MaskSecrets"
      <4> DEFINE K == {m \in Matches : ShouldRedact(found, chosen, m)}
      <4>1. pending' = Select(seq, K)
        BY <1>2, <3>2
      <4>2. \A x : Occurs(pending', x) <=> Occurs(seq, x) /\ x \in K
        <5> HIDE DEF K
        <5> QED
          BY <1>5, <4>1, SelectElements
      <4>3. \A x \in Matches : Occurs(found, x) =>
              (ShouldRedact(found, chosen, x) <=> x.category \in chosen)
        BY <1>4, <1>8, ShouldRedactIsOwn
      <4> QED
        BY <1>5, <3>0, <4>2, <4>3
    <3> QED
      BY <3>1, <3>2
  <2>2. Sorted(seq, Apart) /\ Sorted(seq, Behind)
    BY <1>2, <1>5, <1>8, SortedApart, SortedBehind DEF InOrder
  <2>3. Sorted(pending', Apart) /\ Sorted(pending', Behind)
    BY <1>2, <1>5, <2>2, SelectSorted
  <2>4. redaction'.pc = "replacing" /\ redaction'.found = found /\ redaction'.enabled = chosen
    BY <1>1
  <2> QED
    BY <1>3, <1>4, <1>6, <2>1, <2>3, <2>4, BeginsWell
<1>9. DisjointMatches(redaction.found)' <=> DisjointMatches(found)
  BY <1>1 DEF DisjointMatches
<1>10. redaction'.how # "Redact PII" /\ redaction'.pc = "replacing"
  BY <1>1 DEF ByPosition
<1> QED
  BY <1>7, <1>8, <1>9, <1>10 DEF RedactionInv

LEMMA BeginByValueKeeps ==
  ASSUME RedactionInv, NEW how \in {"Redact PII", "Redact secrets"}, BeginByValue(how)
  PROVE  RedactionInv'
<1>1. PICK found \in Findable, chosen \in SUBSET Categories :
        /\ redaction' = [how |-> how, found |-> found, enabled |-> chosen, pc |-> "replacing"]
        /\ pending' = Select(found, {m \in Matches : m.category \in chosen})
  BY DEF BeginByValue
<1>2. /\ redacted' = Original /\ redaction.pc = "idle"
      /\ characters' \in [1..TextLength -> Letters] \union {<<>>}
  BY DEF BeginByValue, RedactionInv, RedactionTypeOK
<1>3. found \in Seq(Matches)
  BY FoundIsSeq
<1>4. pending' \in Seq(Matches)
  BY <1>1, <1>3, SelectType
<1>5. RedactionTypeOK' /\ redaction' \in
        [how : {"none", "RedactPII", "MaskSecrets", "Redact PII", "Redact secrets"},
         found : Seq(Matches), enabled : SUBSET Categories,
         pc : {"idle", "replacing", "done", "panic"}]
  BY <1>1, <1>2, <1>3, <1>4, NothingReplaced DEF RedactionTypeOK, Texts
<1>6. redaction'.how \notin ByPosition /\ redaction'.pc = "replacing"
  BY <1>1 DEF ByPosition
<1>7. Left' = Chosen'
  <2> DEFINE K == {m \in Matches : m.category \in chosen}
  <2>1. pending' = Select(found, K)
    BY <1>1
  <2>2. \A x : Occurs(pending', x) <=> Occurs(found, x) /\ x \in K
    <3> HIDE DEF K
    <3> QED
      BY <1>3, <2>1, SelectElements
  <2>3. \A x : x \in ToSet(found) <=> Occurs(found, x)
    BY <1>3, SeqElements
  <2>4. \A x : Occurs(found, x) => x \in Matches
    BY <1>3, ElementOfSeq DEF Occurs
  <2>5. redaction'.found = found /\ redaction'.enabled = chosen
    BY <1>1
  <2> QED
    BY <2>2, <2>3, <2>4, <2>5 DEF Left, Chosen
<1>8. InRuns(redacted)'
  BY <1>2, OriginalCells DEF InRuns
<1>9. Still(redacted, Chosen)'
  BY <1>2, OriginalCells DEF Still
<1>10. ValuesInv'
  <2> HIDE DEF Left, Chosen
  <2> QED
    BY <1>6, <1>7, <1>8, <1>9 DEF ValuesInv
<1> QED
  BY <1>1, <1>5, <1>6, <1>10 DEF RedactionInv

-----------------------------------------------------------------------------
(* The first of a sequence and the others. *)
LEMMA OccursFirst ==
  ASSUME NEW seq \in Seq(Matches), seq # <<>>
  PROVE  /\ Head(seq) \in Matches /\ Occurs(seq, Head(seq))
         /\ \A x : Occurs(seq, x) <=> Occurs(Tail(seq), x) \/ x = Head(seq)
<1>1. /\ Len(seq) \in Nat /\ Len(seq) >= 1 /\ Head(seq) = seq[1] /\ Head(seq) \in Matches
      /\ Len(Tail(seq)) = Len(seq) - 1 /\ \A i \in 1..Len(Tail(seq)) : Tail(seq)[i] = seq[i + 1]
  BY HeadTailProperties, LenProperties, EmptySeq
<1>2. Occurs(seq, Head(seq))
  BY <1>1 DEF Occurs
<1>3. ASSUME NEW x, Occurs(seq, x), x # Head(seq) PROVE Occurs(Tail(seq), x)
  <2>1. PICK i \in 1..Len(seq) : seq[i] = x
    BY <1>3 DEF Occurs
  <2>2. i - 1 \in 1..Len(Tail(seq)) /\ (i - 1) + 1 = i
    BY <1>1, <1>3, <2>1
  <2> QED
    BY <1>1, <2>1, <2>2 DEF Occurs
<1>4. ASSUME NEW x, Occurs(Tail(seq), x) PROVE Occurs(seq, x)
  <2>1. PICK i \in 1..Len(Tail(seq)) : Tail(seq)[i] = x
    BY <1>4 DEF Occurs
  <2>2. i + 1 \in 1..Len(seq)
    BY <1>1, <2>1
  <2> QED
    BY <1>1, <2>1, <2>2 DEF Occurs
<1> QED
  BY <1>1, <1>2, <1>3, <1>4

(* The first of the matches that are left. *)
LEMMA NextMatch ==
  ASSUME RedactionInv, Progress, pending # <<>>, DisjointMatches(redaction.found)
  PROVE  LET m == Head(pending)
         IN /\ m \in Left /\ Clear(Chosen \ Left, m)
            /\ {x \in Matches : Occurs(Tail(pending), x)} = Left \ {m}
            /\ Chosen \ (Left \ {m}) = (Chosen \ Left) \union {m}
            /\ Tail(pending) \in Seq(Matches)
            /\ Sorted(Tail(pending), Apart)
            /\ redaction.how \in ByPosition =>
                 /\ \A x \in Chosen \ Left : m.to <= x.from
                 /\ \A x \in Left \ {m} : x.to <= m.from
                 /\ Sorted(Tail(pending), Behind)
<1> DEFINE m == Head(pending)
           rest == Tail(pending)
<1>1. /\ pending \in Seq(Matches) /\ Len(pending) \in Nat /\ Len(pending) >= 1
      /\ \A i \in 1..Len(pending) : pending[i] \in Matches
  <2>1. pending \in Seq(Matches)
    BY DEF RedactionInv, RedactionTypeOK
  <2> QED
    BY <2>1, LenProperties, EmptySeq, ElementOfSeq
<1>2. /\ m = pending[1] /\ rest \in Seq(Matches) /\ Len(rest) = Len(pending) - 1
      /\ \A i \in 1..Len(rest) : rest[i] = pending[i + 1]
  BY <1>1, HeadTailProperties
<1> HIDE DEF m, rest
<1>3. m \in Matches /\ Occurs(pending, m) /\ m \in Left
  BY <1>1, <1>2 DEF Occurs, Left
<1>4. \A i \in 1..Len(rest) : i + 1 \in 1..Len(pending) /\ 1 < i + 1 /\ 1 \in 1..Len(pending)
  BY <1>1, <1>2
<1>5. \A i \in 1..Len(rest) : <<m, rest[i]>> \in Apart
  BY <1>2, <1>4 DEF Progress, Sorted
<1>6. ~ Occurs(rest, m)
  <2> SUFFICES ASSUME NEW i \in 1..Len(rest), rest[i] = m PROVE FALSE
    BY DEF Occurs
  <2>1. ~Overlap(m, m)
    BY <1>5 DEF Apart
  <2>2. m.from + 1 \in Cells(m)
    BY <1>3, MatchBounds
  <2> QED
    BY <2>1, <2>2 DEF Overlap
<1>7. \A x : Occurs(pending, x) <=> x = m \/ Occurs(rest, x)
  <2> TAKE x
  <2>1. ASSUME Occurs(pending, x), x # m PROVE Occurs(rest, x)
    <3>1. PICK i \in 1..Len(pending) : pending[i] = x
      BY <2>1 DEF Occurs
    <3>2. i - 1 \in 1..Len(rest) /\ (i - 1) + 1 = i
      BY <1>1, <1>2, <2>1, <3>1
    <3>3. rest[i - 1] = x
      BY <1>2, <3>1, <3>2
    <3> QED
      BY <3>2, <3>3 DEF Occurs
  <2>2. ASSUME Occurs(rest, x) PROVE Occurs(pending, x)
    <3>1. PICK i \in 1..Len(rest) : rest[i] = x
      BY <2>2 DEF Occurs
    <3>2. i + 1 \in 1..Len(pending) /\ pending[i + 1] = x
      BY <1>2, <1>4, <3>1
    <3> QED
      BY <3>2 DEF Occurs
  <2> QED
    BY <1>3, <2>1, <2>2
<1>8. {x \in Matches : Occurs(rest, x)} = Left \ {m}
  BY <1>6, <1>7 DEF Left
<1>9. Chosen \ (Left \ {m}) = (Chosen \ Left) \union {m}
  BY <1>3 DEF Progress
<1>10. redaction.found \in Seq(Matches) /\ Len(redaction.found) \in Nat
       /\ DOMAIN redaction.found = 1..Len(redaction.found)
  <2>1. redaction.found \in Seq(Matches)
    BY DEF RedactionInv, RedactionTypeOK
  <2> QED
    BY <2>1, LenProperties
<1>11. \A x \in Chosen : Occurs(redaction.found, x) /\ x \in Matches
  <2>1. \A x \in Chosen : Occurs(redaction.found, x)
    BY <1>10, SeqElements DEF Chosen
  <2> QED
    BY <1>10, <2>1, ElementOfSeq DEF Occurs
<1>12. Clear(Chosen \ Left, m)
  <2>1. ASSUME NEW x \in Chosen \ Left PROVE ~Overlap(x, m)
    <3>1. Occurs(redaction.found, x) /\ Occurs(redaction.found, m) /\ x # m
      BY <1>3, <1>11 DEF Progress
    <3>2. PICK i, j \in DOMAIN redaction.found : redaction.found[i] = x /\ redaction.found[j] = m
      BY <1>10, <3>1 DEF Occurs
    <3> QED
      BY <3>1, <3>2 DEF DisjointMatches
  <2> QED
    BY <1>3, <1>11, <2>1 DEF Clear
<1>13. ASSUME NEW R, Sorted(pending, R) PROVE Sorted(rest, R)
  <2> SUFFICES ASSUME NEW i \in 1..Len(rest), NEW j \in 1..Len(rest), i < j
               PROVE  <<rest[i], rest[j]>> \in R
    BY DEF Sorted
  <2>1. i + 1 \in 1..Len(pending) /\ j + 1 \in 1..Len(pending) /\ i + 1 < j + 1
    BY <1>1, <1>2
  <2>2. <<pending[i + 1], pending[j + 1]>> \in R
    BY <1>13, <2>1 DEF Sorted
  <2> QED
    BY <1>2, <2>2
<1>14. Sorted(rest, Apart)
  BY <1>13 DEF Progress
<1>15. ASSUME redaction.how \in ByPosition
       PROVE  /\ \A x \in Chosen \ Left : m.to <= x.from
              /\ \A x \in Left \ {m} : x.to <= m.from
              /\ Sorted(rest, Behind)
  <2>1. Sorted(pending, Behind) /\ \A x \in Chosen \ Left : m.to <= x.from
    BY <1>3, <1>15 DEF Progress
  <2>2. ASSUME NEW x \in Left \ {m} PROVE x.to <= m.from
    <3>1. PICK i \in 1..Len(rest) : rest[i] = x
      BY <1>7, <2>2 DEF Left, Occurs
    <3>2. <<pending[1], pending[i + 1]>> \in Behind
      BY <1>4, <2>1 DEF Sorted
    <3>3. <<m, x>> \in Behind
      BY <1>2, <3>1, <3>2
    <3> QED
      BY <3>3 DEF Behind
  <2>3. Sorted(rest, Behind)
    BY <1>13, <2>1
  <2> QED
    BY <2>1, <2>2, <2>3
<1> HIDE DEF Left, Chosen, Clear, Sorted
<1> QED
  BY <1>2, <1>3, <1>8, <1>9, <1>12, <1>14, <1>15 DEF m, rest

LEMMA ReplacedOne ==
  ASSUME RedactionInv, Progress, pending # <<>>, DisjointMatches(redaction.found),
         redaction.pc = "replacing", redaction' = redaction, pending' = Tail(pending),
         redacted' = Replaced((Chosen \ Left) \union {Head(pending)})
  PROVE  Progress'
<1> DEFINE m == Head(pending)
<1>1. /\ m \in Left
      /\ {x \in Matches : Occurs(Tail(pending), x)} = Left \ {m}
      /\ Chosen \ (Left \ {m}) = (Chosen \ Left) \union {m}
      /\ Sorted(Tail(pending), Apart)
      /\ redaction.how \in ByPosition =>
           /\ \A x \in Chosen \ Left : m.to <= x.from
           /\ \A x \in Left \ {m} : x.to <= m.from
           /\ Sorted(Tail(pending), Behind)
  BY NextMatch
<1> HIDE DEF m
<1>2. Left' = Left \ {m} /\ Chosen' = Chosen
  BY <1>1 DEF Left, Chosen
<1>3. Chosen' \ Left' = (Chosen \ Left) \union {m}
  BY <1>1, <1>2
<1>4. redacted' = Replaced(Chosen' \ Left')
  BY <1>3 DEF m
<1>5. Replaced(Chosen' \ Left') = Replaced(Chosen \ Left)'
  BY DEF Replaced, ReplacedTo, Piece
<1>6. Sorted(pending, Apart)'
  BY <1>1 DEF Sorted
<1>7. ASSUME redaction.how \in ByPosition
      PROVE  /\ Sorted(pending, Behind)'
             /\ \A x \in Left', n \in Chosen' \ Left' : x.to <= n.from
  <2>1. Sorted(pending, Behind)'
    BY <1>1, <1>7 DEF Sorted
  <2>2. ASSUME NEW x \in Left', NEW n \in Chosen' \ Left' PROVE x.to <= n.from
    <3>1. x \in Left \ {m} /\ (n \in Chosen \ Left \/ n = m)
      BY <1>2, <1>3, <2>2
    <3>2. \A y \in Left, z \in Chosen \ Left : y.to <= z.from
      BY <1>7 DEF Progress
    <3> QED
      BY <1>1, <1>7, <3>1, <3>2
  <2> QED
    BY <2>1, <2>2
<1>8. Left' \subseteq Chosen'
  BY <1>2 DEF Progress
<1> HIDE DEF Left, Chosen, Sorted, Replaced
<1> QED
  BY <1>4, <1>5, <1>6, <1>7, <1>8 DEF Progress

(* What the pieces of a text and a mask between them make is a text. *)
LEMMA CutText ==
  ASSUME NEW s \in Texts, NEW m \in Matches, NEW i \in Int, NEW j \in Int,
         i <= Len(s), 1 <= j
  PROVE  SubSeq(s, 1, i) \o Mask(m.mask) \o SubSeq(s, j, Len(s)) \in Texts
<1>1. Len(s) \in Nat /\ \A k \in 1..Len(s) : s[k] \in 0..TextLength
  BY LenProperties, ElementOfSeq DEF Texts
<1>2. SubSeq(s, 1, i) \in Texts
  <2>1. \A k \in 1..i : s[k] \in 0..TextLength
    BY <1>1
  <2> QED
    BY <1>1, <2>1, SubSeqProperties DEF Texts
<1>3. SubSeq(s, j, Len(s)) \in Texts
  <2>1. \A k \in j..Len(s) : s[k] \in 0..TextLength
    BY <1>1
  <2> QED
    BY <1>1, <2>1, SubSeqProperties DEF Texts
<1>4. Mask(m.mask) \in Texts
  <2>1. m.mask \in MaskLengths
    BY DEF Matches
  <2> QED
    BY <2>1, RedactionAssumption, MaskIsText
<1> QED
  BY <1>2, <1>3, <1>4, TextsJoined DEF IsJoined

LEMMA CutKeeps ==
  ASSUME RedactionInv, Cut
  PROVE  RedactionInv'
<1> DEFINE m == Head(pending)
<1>1. /\ redaction.pc = "replacing" /\ redaction.how \in ByPosition /\ pending # <<>>
      /\ pending' = Tail(pending)
      /\ IF m.to > Len(redacted)
         THEN redaction' = [redaction EXCEPT !.pc = "panic"] /\ redacted' = redacted
         ELSE /\ redacted' = SubSeq(redacted, 1, m.from) \o Mask(m.mask)
                               \o SubSeq(redacted, m.to + 1, Len(redacted))
              /\ redaction' = redaction
      /\ characters' = characters
  BY DEF Cut, ByPosition
<1>2. /\ pending \in Seq(Matches) /\ redacted \in Texts /\ Len(redacted) \in Nat
      /\ m \in Matches /\ Tail(pending) \in Seq(Matches)
  <2>1. pending \in Seq(Matches) /\ redacted \in Texts
    BY DEF RedactionInv, RedactionTypeOK, Texts
  <2> QED
    BY <1>1, <2>1, HeadTailProperties, LenProperties DEF Texts
<1>3. redacted' \in Texts
  <2>1. CASE m.to > Len(redacted)
    BY <1>1, <1>2, <2>1
  <2>2. CASE ~(m.to > Len(redacted))
    <3>1. m.from \in Int /\ m.to + 1 \in Int /\ m.from <= Len(redacted) /\ 1 <= m.to + 1
      BY <1>2, <2>2, MatchBounds
    <3>2. SubSeq(redacted, 1, m.from) \o Mask(m.mask) \o SubSeq(redacted, m.to + 1, Len(redacted))
            \in Texts
      <4> HIDE DEF m
      <4> QED
        BY <1>2, <3>1, CutText
    <3> QED
      BY <1>1, <2>2, <3>2
  <2> QED
    BY <2>1, <2>2
<1>4. /\ RedactionTypeOK'
      /\ redaction' \in
        [how : {"none", "RedactPII", "MaskSecrets", "Redact PII", "Redact secrets"},
         found : Seq(Matches), enabled : SUBSET Categories,
         pc : {"idle", "replacing", "done", "panic"}]
      /\ redaction'.pc # "idle" /\ redaction'.found = redaction.found
      /\ redaction'.how = redaction.how /\ redaction'.how # "Redact PII"
  BY <1>1, <1>2, <1>3 DEF RedactionInv, RedactionTypeOK, Texts, ByPosition
<1>5. ASSUME DisjointMatches(redaction.found) PROVE Progress'
  <2>1. Progress
    BY <1>1, <1>5 DEF RedactionInv, ByPosition
  <2>2. Clear(Chosen \ Left, m) /\ \A x \in Chosen \ Left : m.to <= x.from
    BY <1>1, <1>5, <2>1, NextMatch
  <2>3. redacted = Replaced(Chosen \ Left)
    BY <2>1 DEF Progress
  <2>4. /\ m.to <= Len(redacted)
        /\ SubSeq(redacted, 1, m.from) \o Mask(m.mask) \o SubSeq(redacted, m.to + 1, Len(redacted))
             = Replaced((Chosen \ Left) \union {m})
    <3> HIDE DEF m, Chosen, Left
    <3> QED
      BY <2>2, <2>3, CutIsExact
  <2>5. ~(m.to > Len(redacted))
    BY <1>2, <2>4, MatchBounds
  <2> QED
    BY <1>1, <1>5, <2>1, <2>4, <2>5, ReplacedOne
<1>6. DisjointMatches(redaction.found)' <=> DisjointMatches(redaction.found)
  BY <1>4 DEF DisjointMatches
<1> QED
  BY <1>4, <1>5, <1>6 DEF RedactionInv

LEMMA ReplaceValueKeeps ==
  ASSUME RedactionInv, ReplaceValue
  PROVE  RedactionInv'
<1> DEFINE m == Head(pending)
           u == AllReplaced(redacted, m)
<1>1. /\ redaction.pc = "replacing" /\ redaction.how \in {"Redact PII", "Redact secrets"}
      /\ pending # <<>> /\ pending' = Tail(pending) /\ redaction' = redaction
      /\ redacted' = IF redaction.how = "Redact PII" THEN u ELSE redacted
      /\ characters' = characters
  BY DEF ReplaceValue, ReplaceIn
<1>2. /\ pending \in Seq(Matches) /\ redacted \in Texts
      /\ m \in Matches /\ Tail(pending) \in Seq(Matches)
  <2>1. pending \in Seq(Matches) /\ redacted \in Texts
    BY DEF RedactionInv, RedactionTypeOK, Texts
  <2> QED
    BY <1>1, <2>1, HeadTailProperties
<1> HIDE DEF u
<1>3. redaction.how \notin ByPosition
  BY <1>1 DEF ByPosition
<1>4. ASSUME redaction.how = "Redact PII" PROVE ValuesInv' /\ redacted' \in Texts
  <2>1. ValuesInv
    BY <1>1, <1>4 DEF RedactionInv
  <2>2. m \in Left /\ {x \in Matches : Occurs(Tail(pending), x)} \union {m} = Left
    BY <1>1, <1>2, OccursFirst DEF Left
  <2>3. m \in Chosen /\ Chosen \subseteq Matches
    BY <2>1, <2>2, ChosenFound DEF ValuesInv
  <2>4. redacted' = u
    BY <1>1, <1>4
  <2>5. Chosen' = Chosen /\ Left' = {x \in Matches : Occurs(Tail(pending), x)}
    BY <1>1 DEF Chosen, Left
  <2> HIDE DEF m, Left, Chosen
  <2>6. /\ u \in Texts /\ InRuns(u) /\ Still(u, Chosen) /\ NoValue(u, m)
        /\ \A x \in Matches : NoValue(redacted, x) => NoValue(u, x)
    BY <1>2, <2>1, <2>3, OneMoreValue DEF ValuesInv, u
  <2>7. Still(redacted, Chosen)'
    <3>1. Still(u, Chosen)
      BY <2>6
    <3>2. \A ms, c : InValue(Original, ms, c)' <=> InValue(Original, ms, c)
      BY <1>1 DEF InValue, HoldsValue
    <3> QED
      BY <2>4, <2>5, <3>1, <3>2 DEF Still
  <2>8. InRuns(redacted)'
    BY <2>4, <2>6 DEF InRuns
  <2>9. ASSUME NEW x \in Chosen' \ Left' PROVE NoValue(redacted', x)
    <3>1. x \in Chosen /\ x \in Matches /\ (x \notin Left \/ x = m)
      BY <2>2, <2>3, <2>5, <2>9
    <3> QED
      BY <2>1, <2>4, <2>6, <3>1 DEF ValuesInv
  <2>10. \A x : NoValue(redacted', x) <=> NoValue(redacted, x)'
    BY <1>1 DEF NoValue, HoldsValue
  <2>11. Left' \subseteq Chosen'
    BY <2>1, <2>2, <2>5 DEF ValuesInv
  <2>12. redaction'.pc # "done"
    BY <1>1
  <2> QED
    BY <2>4, <2>6, <2>7, <2>8, <2>9, <2>10, <2>11, <2>12 DEF ValuesInv
<1>5. redacted' \in Texts
  BY <1>1, <1>2, <1>4
<1>6. RedactionTypeOK' /\ redaction' = redaction
  BY <1>1, <1>2, <1>5 DEF RedactionInv, RedactionTypeOK, Texts
<1> QED
  BY <1>1, <1>3, <1>4, <1>6 DEF RedactionInv

(* What is said of the values speaks of the text and the characters alone. *)
LEMMA ValuesUnchanged ==
  ASSUME redacted' = redacted, characters' = characters, Chosen' = Chosen
  PROVE  /\ InRuns(redacted)' <=> InRuns(redacted)
         /\ Still(redacted, Chosen)' <=> Still(redacted, Chosen)
         /\ \A m : NoValue(redacted, m)' <=> NoValue(redacted, m)
<1>1. InRuns(redacted)' <=> InRuns(redacted)
  BY DEF InRuns
<1>2. \A m : NoValue(redacted, m)' <=> NoValue(redacted, m)
  BY DEF NoValue, HoldsValue
<1>3. \A m, c : InValue(Original, m, c)' <=> InValue(Original, m, c)
  BY DEF InValue, HoldsValue
<1> HIDE DEF Chosen
<1>4. Still(redacted, Chosen)' <=> Still(redacted, Chosen)
  BY <1>3 DEF Still
<1> QED
  BY <1>1, <1>2, <1>4

LEMMA ReturnKeeps ==
  ASSUME RedactionInv, Return
  PROVE  RedactionInv'
<1>1. /\ redaction' = [redaction EXCEPT !.pc = "done"] /\ pending' = pending
      /\ redacted' = redacted /\ pending = <<>> /\ redaction.pc = "replacing"
      /\ characters' = characters
  BY DEF Return
<1>2. /\ RedactionTypeOK'
      /\ redaction' \in
        [how : {"none", "RedactPII", "MaskSecrets", "Redact PII", "Redact secrets"},
         found : Seq(Matches), enabled : SUBSET Categories,
         pc : {"idle", "replacing", "done", "panic"}]
      /\ redaction'.pc = "done" /\ redaction'.found = redaction.found
      /\ redaction'.enabled = redaction.enabled /\ redaction'.how = redaction.how
  BY <1>1 DEF RedactionInv, RedactionTypeOK
<1>3. ASSUME Progress PROVE Progress'
  <2>1. Chosen' = Chosen /\ Left' = Left
    BY <1>1, <1>2 DEF Chosen, Left
  <2>2. Replaced(Chosen' \ Left') = Replaced(Chosen \ Left)'
    BY DEF Replaced, ReplacedTo, Piece
  <2>3. /\ pending = <<>> /\ pending' = pending /\ redacted' = redacted
        /\ redaction'.pc = "done" /\ redaction'.how = redaction.how
    BY <1>1, <1>2
  <2>4. redacted' = Replaced(Chosen \ Left)'
    BY <1>3, <2>1, <2>2, <2>3 DEF Progress
  <2>5. Sorted(pending, Apart)' /\ Sorted(pending, Behind)'
    BY <2>3 DEF Sorted
  <2>6. /\ Left' \subseteq Chosen'
        /\ redaction'.how \in ByPosition =>
             \A m \in Left', n \in Chosen' \ Left' : m.to <= n.from
    <3> HIDE DEF Chosen, Left
    <3> QED
      BY <1>3, <2>1, <2>3 DEF Progress
  <2> HIDE DEF Chosen, Left, Replaced, Sorted
  <2> QED
    BY <2>3, <2>4, <2>5, <2>6 DEF Progress
<1>4. DisjointMatches(redaction.found)' <=> DisjointMatches(redaction.found)
  BY <1>2 DEF DisjointMatches
<1>5. ASSUME ValuesInv PROVE ValuesInv'
  <2>1. Chosen' = Chosen /\ Left' = Left /\ pending' = <<>> /\ redacted' = redacted
    BY <1>1, <1>2 DEF Chosen, Left
  <2> HIDE DEF Chosen, Left
  <2> QED
    BY <1>1, <1>5, <2>1, ValuesUnchanged DEF ValuesInv
<1> QED
  BY <1>1, <1>2, <1>3, <1>4, <1>5 DEF RedactionInv

LEMMA RedactionKeeps == RedactionInv /\ [RedactionNext]_redactionVars => RedactionInv'
<1> SUFFICES ASSUME RedactionInv, [RedactionNext]_redactionVars PROVE RedactionInv'
  OBVIOUS
<1>1. ASSUME NEW how \in {"RedactPII", "MaskSecrets"}, BeginByPosition(how) PROVE RedactionInv'
  BY <1>1, BeginByPositionKeeps DEF ByPosition
<1>2. ASSUME NEW how \in {"Redact PII", "Redact secrets"}, BeginByValue(how) PROVE RedactionInv'
  BY <1>2, BeginByValueKeeps
<1>3. CASE Cut
  BY <1>3, CutKeeps
<1>4. CASE ReplaceValue
  BY <1>4, ReplaceValueKeeps
<1>5. CASE Return
  BY <1>5, ReturnKeeps
<1>6. CASE UNCHANGED redactionVars
  <2>1. redaction' = redaction /\ pending' = pending /\ redacted' = redacted
        /\ characters' = characters
    BY <1>6 DEF redactionVars
  <2>3. ValuesInv => ValuesInv'
    <3>1. Chosen' = Chosen /\ Left' = Left
      BY <2>1 DEF Chosen, Left
    <3> HIDE DEF Chosen, Left
    <3> QED
      BY <2>1, <3>1, ValuesUnchanged DEF ValuesInv
  <2>2. RedactionTypeOK' /\ (Progress => Progress')
        /\ (DisjointMatches(redaction.found)' <=> DisjointMatches(redaction.found))
    <3>1. RedactionTypeOK'
      BY <2>1 DEF RedactionInv, RedactionTypeOK
    <3>2. Chosen' = Chosen /\ Left' = Left
      BY <2>1 DEF Chosen, Left
    <3>3. Replaced(Chosen' \ Left') = Replaced(Chosen \ Left)'
      BY DEF Replaced, ReplacedTo, Piece
    <3>4. Progress => Progress'
      <4> HIDE DEF Chosen, Left, Replaced
      <4> QED
        BY <2>1, <3>2, <3>3 DEF Progress, Sorted
    <3>5. DisjointMatches(redaction.found)' <=> DisjointMatches(redaction.found)
      BY <2>1 DEF DisjointMatches
    <3> QED
      BY <3>1, <3>4, <3>5
  <2> QED
    BY <2>1, <2>2, <2>3 DEF RedactionInv
<1> QED
  BY <1>1, <1>2, <1>3, <1>4, <1>5, <1>6 DEF RedactionNext

LEMMA RedactionInvHolds == RedactionSpec => []RedactionInv
BY RedactionStarts, RedactionKeeps, PTL DEF RedactionSpec

(* Redacting takes out what it was to take out and only that (RedactedExactly), for
   texts, matches and masks of any length: by position (RedactPII, MaskSecrets) matches
   that do not overlap, last first, with no slice that panics; by value
   (Redactor.redactPII) every value, wherever ReplaceAll finds it, however values
   overlap or hold one another, and of the rest only what one of them covered. *)
THEOREM RedactsExactly == RedactionSpec => []RedactedExactly
<1>1. RedactionInv => RedactedExactly
  BY PositionsGiveProperty, ValuesGiveProperty DEF RedactedExactly
<1> QED
  BY <1>1, RedactionInvHolds, PTL

-----------------------------------------------------------------------------
(***************************************************************************)
(* Normalize, for phrases of any length and any number of disguises.  What *)
(* a pass keeps is read along the positions it keeps, in their order, and  *)
(* there is only one way to enumerate these; so to show that a pass gives  *)
(* the phrase back it is enough to know where the phrase is in the text.   *)
(***************************************************************************)

Less == {p \in Nat \X Nat : p[1] < p[2]}
Enumerates(f, P) ==
  f \in Seq(Nat) /\ Sorted(f, Less) /\ \A x : Occurs(f, x) <=> x \in P
Along(s, f) == [j \in DOMAIN f |-> s[f[j]]]

LEMMA EnumeratedBefore ==
  ASSUME NEW P, NEW f, NEW g, Enumerates(f, P), Enumerates(g, P), NEW i \in 1..Len(f),
         i <= Len(g), \A j \in 1..i - 1 : f[j] = g[j]
  PROVE  g[i] <= f[i]
<1>1. /\ f \in Seq(Nat) /\ g \in Seq(Nat) /\ Len(f) \in Nat /\ Len(g) \in Nat
      /\ \A j \in 1..Len(f) : f[j] \in Nat
      /\ \A j \in 1..Len(g) : g[j] \in Nat
      /\ \A j, k \in 1..Len(f) : j < k => f[j] < f[k]
      /\ \A j, k \in 1..Len(g) : j < k => g[j] < g[k]
  <2>1. f \in Seq(Nat) /\ g \in Seq(Nat)
    BY DEF Enumerates
  <2>2. \A j, k \in 1..Len(f) : j < k => f[j] < f[k]
    BY DEF Enumerates, Sorted, Less
  <2>3. \A j, k \in 1..Len(g) : j < k => g[j] < g[k]
    BY DEF Enumerates, Sorted, Less
  <2> QED
    BY <2>1, <2>2, <2>3, LenProperties, ElementOfSeq
<1>2. Occurs(g, f[i])
  <2>1. Occurs(f, f[i])
    BY DEF Occurs
  <2> QED
    BY <2>1 DEF Enumerates
<1>3. PICK k \in 1..Len(g) : g[k] = f[i]
  BY <1>2 DEF Occurs
<1>4. ~(k < i)
  <2> SUFFICES ASSUME k < i PROVE FALSE
    OBVIOUS
  <2>1. k \in 1..i - 1 /\ k \in 1..Len(f)
    BY <1>1
  <2>2. f[k] = f[i] /\ f[k] < f[i]
    BY <1>1, <1>3, <2>1
  <2> QED
    BY <1>1, <2>1, <2>2
<1>5. i \in 1..Len(g)
  BY <1>1
<1>6. CASE k = i
  BY <1>1, <1>3, <1>5, <1>6
<1>7. CASE k > i
  BY <1>1, <1>3, <1>5, <1>7
<1> QED
  BY <1>1, <1>4, <1>6, <1>7

(* No set of numbers has two enumerations. *)
LEMMA EnumeratedOnce ==
  ASSUME NEW P, NEW f, NEW g, Enumerates(f, P), Enumerates(g, P)
  PROVE  f = g
<1>1. /\ f \in Seq(Nat) /\ g \in Seq(Nat) /\ Len(f) \in Nat /\ Len(g) \in Nat
      /\ \A j \in 1..Len(f) : f[j] \in Nat
      /\ \A j \in 1..Len(g) : g[j] \in Nat
      /\ \A j, k \in 1..Len(f) : j < k => f[j] < f[k]
      /\ \A j, k \in 1..Len(g) : j < k => g[j] < g[k]
  <2>1. f \in Seq(Nat) /\ g \in Seq(Nat)
    BY DEF Enumerates
  <2>2. \A j, k \in 1..Len(f) : j < k => f[j] < f[k]
    BY DEF Enumerates, Sorted, Less
  <2>3. \A j, k \in 1..Len(g) : j < k => g[j] < g[k]
    BY DEF Enumerates, Sorted, Less
  <2> QED
    BY <2>1, <2>2, <2>3, LenProperties, ElementOfSeq
<1> DEFINE bad == {i \in Nat : i \in 1..Len(f) /\ i <= Len(g) /\ f[i] # g[i]}
<1>2. bad = {}
  <2> SUFFICES ASSUME bad # {} PROVE FALSE
    OBVIOUS
  <2>1. PICK i \in bad : \A j \in bad : i <= j
    <3>1. bad \subseteq Nat
      OBVIOUS
    <3> HIDE DEF bad
    <3> QED
      BY <3>1, Least
  <2>2. \A j \in 1..i - 1 : f[j] = g[j] /\ g[j] = f[j]
    <3> TAKE j \in 1..i - 1
    <3>1. Len(f) \in Nat /\ Len(g) \in Nat /\ i \in 1..Len(f) /\ i <= Len(g)
      BY <1>1
    <3>2. j \in Nat /\ j \in 1..Len(f) /\ j <= Len(g) /\ ~(i <= j)
      <4> HIDE DEF bad
      <4> QED
        BY <3>1
    <3> QED
      BY <2>1, <3>2
  <2>3. i \in 1..Len(f) /\ i \in 1..Len(g) /\ i <= Len(g) /\ i <= Len(f)
    BY <1>1
  <2>4. g[i] <= f[i]
    BY <2>2, <2>3, EnumeratedBefore
  <2>5. f[i] <= g[i]
    BY <2>2, <2>3, EnumeratedBefore
  <2> QED
    BY <1>1, <2>3, <2>4, <2>5
<1>3. \A i \in 1..Len(f) : i <= Len(g) => f[i] = g[i]
  BY <1>1, <1>2
<1> HIDE DEF bad
<1>4. \A x : Occurs(f, x) <=> Occurs(g, x)
  BY DEF Enumerates
<1>5. ~(Len(f) < Len(g))
  <2> SUFFICES ASSUME Len(f) < Len(g) PROVE FALSE
    OBVIOUS
  <2> DEFINE i == Len(f) + 1
  <2>1. i \in 1..Len(g)
    BY <1>1
  <2>2. Occurs(f, g[i])
    BY <1>4, <2>1 DEF Occurs
  <2>3. PICK k \in 1..Len(f) : f[k] = g[i]
    BY <2>2 DEF Occurs
  <2>4. k \in 1..Len(g) /\ k <= Len(g) /\ k < i
    BY <1>1
  <2>5. f[k] = g[k] /\ g[k] < g[i] /\ g[k] \in Nat /\ g[i] \in Nat
    BY <1>1, <1>3, <2>1, <2>4
  <2> QED
    BY <2>3, <2>5
<1>6. ~(Len(g) < Len(f))
  <2> SUFFICES ASSUME Len(g) < Len(f) PROVE FALSE
    OBVIOUS
  <2> DEFINE i == Len(g) + 1
  <2>1. i \in 1..Len(f)
    BY <1>1
  <2>2. Occurs(g, f[i])
    BY <1>4, <2>1 DEF Occurs
  <2>3. PICK k \in 1..Len(g) : g[k] = f[i]
    BY <2>2 DEF Occurs
  <2>4. k \in 1..Len(f) /\ k <= Len(g) /\ k < i
    BY <1>1
  <2>5. f[k] = g[k] /\ f[k] < f[i] /\ f[k] \in Nat /\ f[i] \in Nat
    BY <1>1, <1>3, <2>1, <2>4
  <2> QED
    BY <2>3, <2>5
<1>7. Len(f) = Len(g) /\ \A i \in 1..Len(f) : f[i] = g[i]
  BY <1>1, <1>3, <1>5, <1>6
<1> QED
  BY <1>1, <1>7, SeqEqual

LEMMA PlacesEnumerated ==
  ASSUME NEW S, NEW s \in Seq(S), NEW P, P \subseteq DOMAIN s
  PROVE  Enumerates(Select([i \in DOMAIN s |-> i], P), P)
<1> DEFINE ids == [i \in DOMAIN s |-> i]
           f == Select(ids, P)
<1>1. DOMAIN s = 1..Len(s) /\ Len(s) \in Nat
  BY LenProperties
<1>2. ids \in Seq(Nat) /\ Len(ids) = Len(s)
  <2>1. ids \in [1..Len(s) -> Nat]
    BY <1>1
  <2> HIDE DEF ids
  <2> QED
    BY <1>1, <2>1, FunctionIsSeq
<1>3. \A i \in 1..Len(s) : ids[i] = i
  BY <1>1
<1> HIDE DEF ids
<1>4. Sorted(ids, Less)
  BY <1>1, <1>2, <1>3 DEF Sorted, Less
<1>5. f \in Seq(Nat) /\ Sorted(f, Less)
  BY <1>2, <1>4, SelectType, SelectSorted
<1>6. \A x : Occurs(f, x) <=> Occurs(ids, x) /\ x \in P
  BY <1>2, SelectElements
<1>7. \A x \in P : Occurs(ids, x)
  BY <1>1, <1>2, <1>3 DEF Occurs
<1>8. Enumerates(f, P)
  BY <1>5, <1>6, <1>7 DEF Enumerates
<1> QED
  BY <1>8 DEF ids

LEMMA KeepAlong ==
  ASSUME NEW S, NEW s \in Seq(S), NEW P, P \subseteq DOMAIN s
  PROVE  \E f : Enumerates(f, P) /\ Keep(s, P) = Along(s, f)
<1> DEFINE f == Select([i \in DOMAIN s |-> i], P)
<1>1. Enumerates(f, P)
  BY PlacesEnumerated
<1>2. Keep(s, P) = Along(s, f)
  BY DEF Keep, Along
<1> HIDE DEF f
<1> QED
  BY <1>1, <1>2

LEMMA KeepIs ==
  ASSUME NEW S, NEW s \in Seq(S), NEW P, P \subseteq DOMAIN s, NEW f, Enumerates(f, P)
  PROVE  Keep(s, P) = Along(s, f)
BY KeepAlong, EnumeratedOnce

IsAlong(t, S, s, P, f) ==
  /\ t \in Seq(S) /\ Len(t) = Len(f) /\ Len(f) \in Nat
  /\ \A j \in 1..Len(f) : t[j] = s[f[j]] /\ f[j] \in P
  /\ \A x \in P : \E j \in 1..Len(f) : f[j] = x

LEMMA AlongIs ==
  ASSUME NEW S, NEW s \in Seq(S), NEW P, P \subseteq DOMAIN s, NEW f, Enumerates(f, P)
  PROVE  IsAlong(Along(s, f), S, s, P, f)
<1>1. f \in Seq(Nat) /\ DOMAIN f = 1..Len(f) /\ Len(f) \in Nat
  <2>1. f \in Seq(Nat)
    BY DEF Enumerates
  <2> QED
    BY <2>1, LenProperties
<1>2. \A j \in 1..Len(f) : f[j] \in P
  BY DEF Enumerates, Occurs
<1>3. \A x \in P : \E j \in 1..Len(f) : f[j] = x
  BY DEF Enumerates, Occurs
<1>4. \A j \in 1..Len(f) : s[f[j]] \in S
  <2>1. \A i \in DOMAIN s : s[i] \in S
    BY LenProperties, ElementOfSeq
  <2> QED
    BY <1>2, <2>1
<1>5. Along(s, f) \in [1..Len(f) -> S]
  BY <1>1, <1>4 DEF Along
<1>6. Along(s, f) \in Seq(S) /\ Len(Along(s, f)) = Len(f)
  BY <1>1, <1>5, FunctionIsSeq
<1>7. \A j \in 1..Len(f) : Along(s, f)[j] = s[f[j]]
  BY <1>1 DEF Along
<1> QED
  BY <1>1, <1>2, <1>3, <1>6, <1>7 DEF IsAlong

LEMMA InOrderOf ==
  ASSUME NEW P, NEW f, Enumerates(f, P)
  PROVE  \A j, k \in 1..Len(f) : /\ f[j] \in Nat
                                 /\ j < k => f[j] < f[k]
                                 /\ f[j] < f[k] => j < k
                                 /\ f[j] = f[k] => j = k
<1>1. /\ f \in Seq(Nat) /\ Len(f) \in Nat
      /\ \A j \in 1..Len(f) : f[j] \in Nat
  <2>1. f \in Seq(Nat)
    BY DEF Enumerates
  <2> QED
    BY <2>1, LenProperties, ElementOfSeq
<1>2. \A j, k \in 1..Len(f) : j < k => f[j] < f[k]
  BY DEF Enumerates, Sorted, Less
<1> SUFFICES ASSUME NEW j \in 1..Len(f), NEW k \in 1..Len(f)
             PROVE  /\ f[j] \in Nat
                    /\ j < k => f[j] < f[k]
                    /\ f[j] < f[k] => j < k
                    /\ f[j] = f[k] => j = k
  OBVIOUS
<1>3. f[j] \in Nat /\ f[k] \in Nat /\ (j < k => f[j] < f[k]) /\ (k < j => f[k] < f[j])
  BY <1>1, <1>2
<1> QED
  BY <1>1, <1>3

(* A number is not enumerated before its turn. *)
LEMMA EnumeratedInTurn ==
  ASSUME NEW P, P \subseteq Nat \ {0}, NEW f, Enumerates(f, P)
  PROVE  \A j \in 1..Len(f) : j <= f[j]
<1>1. Len(f) \in Nat /\ \A j \in 1..Len(f) : f[j] \in Nat \ {0}
  <2>1. f \in Seq(Nat)
    BY DEF Enumerates
  <2>2. \A j \in 1..Len(f) : f[j] \in P
    BY DEF Enumerates, Occurs
  <2> QED
    BY <2>1, <2>2, LenProperties
<1> DEFINE T == {n \in Nat : n + 1 \in 1..Len(f) => n + 1 <= f[n + 1]}
<1>2. 0 \in T
  BY <1>1
<1>3. ASSUME NEW n \in Nat, n \in T PROVE n + 1 \in T
  <2> SUFFICES ASSUME (n + 1) + 1 \in 1..Len(f) PROVE (n + 1) + 1 <= f[(n + 1) + 1]
    OBVIOUS
  <2>1. n + 1 \in 1..Len(f) /\ n + 1 < (n + 1) + 1
    BY <1>1
  <2>2. n + 1 <= f[n + 1] /\ f[n + 1] < f[(n + 1) + 1]
    BY <1>3, <2>1, InOrderOf
  <2> QED
    BY <1>1, <2>1, <2>2
<1>4. Nat \subseteq T
  <2> HIDE DEF T
  <2> QED
    BY <1>2, <1>3, Induction
<1> SUFFICES ASSUME NEW j \in 1..Len(f) PROVE j <= f[j]
  OBVIOUS
<1>5. j - 1 \in Nat /\ (j - 1) + 1 = j
  BY <1>1
<1>6. j - 1 \in T
  BY <1>4, <1>5
<1> QED
  BY <1>5, <1>6

LEMMA AlongAlong ==
  ASSUME NEW S, NEW s \in Seq(S), NEW P, P \subseteq DOMAIN s, NEW f, Enumerates(f, P),
         NEW Q, Q \subseteq 1..Len(f), NEW g, Enumerates(g, Q)
  PROVE  /\ Along(Along(s, f), g) = Along(s, Along(f, g))
         /\ Enumerates(Along(f, g), {f[q] : q \in Q})
<1> DEFINE h == Along(f, g)
<1>1. f \in Seq(Nat) /\ DOMAIN f = 1..Len(f)
  <2>1. f \in Seq(Nat)
    BY DEF Enumerates
  <2> QED
    BY <2>1, LenProperties
<1>2. /\ h \in Seq(Nat) /\ Len(h) = Len(g) /\ Len(g) \in Nat
      /\ \A j \in 1..Len(g) : h[j] = f[g[j]] /\ g[j] \in Q
      /\ \A x \in Q : \E j \in 1..Len(g) : g[j] = x
  <2>1. Q \subseteq DOMAIN f
    BY <1>1
  <2>2. IsAlong(h, Nat, f, Q, g)
    BY <1>1, <2>1, AlongIs
  <2> HIDE DEF h
  <2> QED
    BY <2>2 DEF IsAlong
<1>3. DOMAIN h = 1..Len(g) /\ DOMAIN g = 1..Len(g)
  <2>1. g \in Seq(Nat)
    BY DEF Enumerates
  <2> QED
    BY <1>2, <2>1, LenProperties
<1> HIDE DEF h
<1>4. Along(Along(s, f), g) = Along(s, h)
  <2>1. \A j \in 1..Len(g) : Along(s, f)[g[j]] = s[h[j]]
    BY <1>1, <1>2 DEF Along
  <2> QED
    BY <1>3, <2>1 DEF Along
<1>5. \A j, k \in 1..Len(h) : j < k => <<h[j], h[k]>> \in Less
  <2> SUFFICES ASSUME NEW j \in 1..Len(g), NEW k \in 1..Len(g), j < k
               PROVE  <<h[j], h[k]>> \in Less
    BY <1>2
  <2>1. g[j] < g[k] /\ g[j] \in 1..Len(f) /\ g[k] \in 1..Len(f)
    BY <1>2, InOrderOf
  <2>2. f[g[j]] < f[g[k]] /\ f[g[j]] \in Nat /\ f[g[k]] \in Nat
    BY <2>1, InOrderOf
  <2> QED
    BY <1>2, <2>2 DEF Less
<1>6. \A x : Occurs(h, x) <=> x \in {f[q] : q \in Q}
  <2>1. \A x : Occurs(h, x) => x \in {f[q] : q \in Q}
    BY <1>2 DEF Occurs
  <2>2. ASSUME NEW q \in Q PROVE Occurs(h, f[q])
    <3>1. PICK j \in 1..Len(g) : g[j] = q
      BY <1>2
    <3>2. j \in 1..Len(h) /\ h[j] = f[q]
      BY <1>2, <3>1
    <3> QED
      BY <3>2 DEF Occurs
  <2> QED
    BY <2>1, <2>2
<1>7. Enumerates(h, {f[q] : q \in Q})
  BY <1>2, <1>5, <1>6 DEF Enumerates, Sorted
<1> QED
  BY <1>4, <1>7 DEF h

-----------------------------------------------------------------------------
(* Variants, once each. *)

LEMMA KeptElements ==
  ASSUME NEW S, NEW s \in Seq(S), NEW P, P \subseteq DOMAIN s
  PROVE  /\ Keep(s, P) \in Seq(S) /\ Len(Keep(s, P)) \in Nat
         /\ \A i \in P : \E j \in 1..Len(Keep(s, P)) : Keep(s, P)[j] = s[i] /\ j <= i
         /\ \A j \in 1..Len(Keep(s, P)) : \E i \in P : Keep(s, P)[j] = s[i]
         /\ \A j, k \in 1..Len(Keep(s, P)) : j # k =>
              \E h, i \in P : h # i /\ Keep(s, P)[j] = s[h] /\ Keep(s, P)[k] = s[i]
<1>1. PICK f : Enumerates(f, P) /\ Keep(s, P) = Along(s, f)
  BY KeepAlong
<1>2. /\ Along(s, f) \in Seq(S) /\ Len(Along(s, f)) = Len(f) /\ Len(f) \in Nat
      /\ \A j \in 1..Len(f) : Along(s, f)[j] = s[f[j]] /\ f[j] \in P
      /\ \A x \in P : \E j \in 1..Len(f) : f[j] = x
  <2>1. IsAlong(Along(s, f), S, s, P, f)
    BY <1>1, AlongIs
  <2> QED
    BY <2>1 DEF IsAlong
<1>3. P \subseteq Nat \ {0}
  <2>1. DOMAIN s = 1..Len(s)
    BY LenProperties
  <2> QED
    BY <2>1
<1>4. \A j \in 1..Len(f) : j <= f[j]
  BY <1>1, <1>3, EnumeratedInTurn
<1>5. \A j, k \in 1..Len(f) : f[j] = f[k] => j = k
  BY <1>1, InOrderOf
<1> QED
  BY <1>1, <1>2, <1>4, <1>5

LEMMA AllButIs ==
  ASSUME NEW S, NEW seq \in Seq(S), NEW text
  PROVE  /\ AllBut(seq, text) \in Seq(S) /\ Len(AllBut(seq, text)) \in Nat
         /\ \A i \in 1..Len(seq) : seq[i] # text =>
              \E j \in 1..Len(AllBut(seq, text)) : AllBut(seq, text)[j] = seq[i] /\ j <= i
         /\ \A j \in 1..Len(AllBut(seq, text)) : AllBut(seq, text)[j] # text
<1> DEFINE P == {i \in DOMAIN seq : seq[i] # text}
<1>1. DOMAIN seq = 1..Len(seq)
  BY LenProperties
<1>2. /\ Keep(seq, P) \in Seq(S) /\ Len(Keep(seq, P)) \in Nat
      /\ \A i \in P : \E j \in 1..Len(Keep(seq, P)) : Keep(seq, P)[j] = seq[i] /\ j <= i
      /\ \A j \in 1..Len(Keep(seq, P)) : \E i \in P : Keep(seq, P)[j] = seq[i]
  <2>1. P \subseteq DOMAIN seq
    OBVIOUS
  <2> HIDE DEF P
  <2> QED
    BY <2>1, KeptElements
<1>3. AllBut(seq, text) = Keep(seq, P)
  BY DEF AllBut
<1> QED
  BY <1>1, <1>2, <1>3

LEMMA OnceIs ==
  ASSUME NEW S, NEW seq \in Seq(S)
  PROVE  /\ Once(seq) \in Seq(S) /\ Len(Once(seq)) \in Nat
         /\ \A i \in 1..Len(seq) : \E j \in 1..Len(Once(seq)) : Once(seq)[j] = seq[i] /\ j <= i
         /\ \A j, k \in 1..Len(Once(seq)) : j # k => Once(seq)[j] # Once(seq)[k]
<1> DEFINE P == {i \in DOMAIN seq : \A j \in 1..i - 1 : seq[j] # seq[i]}
<1>1. DOMAIN seq = 1..Len(seq) /\ Len(seq) \in Nat
  BY LenProperties
<1>2. /\ Keep(seq, P) \in Seq(S) /\ Len(Keep(seq, P)) \in Nat
      /\ \A i \in P : \E j \in 1..Len(Keep(seq, P)) : Keep(seq, P)[j] = seq[i] /\ j <= i
      /\ \A j, k \in 1..Len(Keep(seq, P)) : j # k =>
           \E h, i \in P : h # i /\ Keep(seq, P)[j] = seq[h] /\ Keep(seq, P)[k] = seq[i]
  <2>1. P \subseteq DOMAIN seq
    OBVIOUS
  <2> HIDE DEF P
  <2> QED
    <3>1. Keep(seq, P) \in Seq(S) /\ Len(Keep(seq, P)) \in Nat
      BY <2>1, KeptElements, Zenon
    <3>2. \A i \in P : \E j \in 1..Len(Keep(seq, P)) : Keep(seq, P)[j] = seq[i] /\ j <= i
      BY <2>1, KeptElements, Zenon
    <3>3. ASSUME NEW j \in 1..Len(Keep(seq, P)), NEW k \in 1..Len(Keep(seq, P)), j # k
          PROVE  \E h, i \in P : h # i /\ Keep(seq, P)[j] = seq[h] /\ Keep(seq, P)[k] = seq[i]
      BY <2>1, <3>3, KeptElements
    <3> QED
      BY <3>1, <3>2, <3>3
<1>3. Once(seq) = Keep(seq, P)
  BY DEF Once
<1>4. \A h, i \in P : h # i => seq[h] # seq[i]
  <2> SUFFICES ASSUME NEW h \in P, NEW i \in P, h # i, seq[h] = seq[i] PROVE FALSE
    OBVIOUS
  <2>1. h \in 1..i - 1 \/ i \in 1..h - 1
    BY <1>1
  <2> QED
    BY <2>1
<1>5. ASSUME NEW i \in 1..Len(seq)
      PROVE  \E j \in 1..Len(Keep(seq, P)) : Keep(seq, P)[j] = seq[i] /\ j <= i
  <2> DEFINE same == {k \in 1..i : seq[k] = seq[i]}
  <2>1. PICK k \in same : \A m \in same : k <= m
    <3>1. same \subseteq Nat /\ i \in same
      BY <1>1
    <3> HIDE DEF same
    <3> QED
      BY <3>1, Least
  <2>2. k \in P
    <3> SUFFICES ASSUME NEW j \in 1..k - 1, seq[j] = seq[k] PROVE FALSE
      BY <1>1
    <3>1. j \in same /\ j < k
      OBVIOUS
    <3> QED
      BY <2>1, <3>1
  <2>3. PICK j \in 1..Len(Keep(seq, P)) : Keep(seq, P)[j] = seq[k] /\ j <= k
    BY <1>2, <2>2
  <2>4. j <= i
    BY <1>2, <2>3
  <2> QED
    BY <2>3, <2>4
<1> HIDE DEF P
<1> QED
  BY <1>2, <1>3, <1>4, <1>5

-----------------------------------------------------------------------------
(* A character put into a text. *)

Shift(k, i) == IF i < k THEN i ELSE i + 1
IsInserted(t, s, k, x) ==
  /\ Len(t) = Len(s) + 1 /\ k \in 1..Len(t) /\ t[k] = x
  /\ \A j \in 1..Len(s) : t[Shift(k, j)] = s[j]

LEMMA InsertIs ==
  ASSUME NEW S, NEW s \in Seq(S), NEW x \in S, NEW i \in 1..Len(s) + 1
  PROVE  InsertAt(s, i, x) \in Seq(S) /\ IsInserted(InsertAt(s, i, x), s, i, x)
<1> DEFINE front == SubSeq(s, 1, i - 1)
           back == SubSeq(s, i, Len(s))
           t == (front \o <<x>>) \o back
<1>1. Len(s) \in Nat /\ i \in Nat
  BY LenProperties
<1>2. /\ front \in Seq(S) /\ Len(front) = i - 1
      /\ \A j \in 1..i - 1 : front[j] = s[j]
  <2>1. front \in Seq(S) /\ Len(front) = i - 1
    BY <1>1, SubSeqProperties
  <2>2. \A j \in 1..i - 1 : front[j] = s[1 + j - 1]
    BY <1>1, SubSeqProperties
  <2>3. \A j \in 1..i - 1 : 1 + j - 1 = j
    BY <1>1
  <2> QED
    BY <2>1, <2>2, <2>3
<1>3. /\ back \in Seq(S) /\ Len(back) = Len(s) - i + 1
      /\ \A j \in 1..Len(s) - i + 1 : back[j] = s[i + j - 1]
  <2>1. CASE i <= Len(s)
    BY <1>1, <2>1, SubSeqProperties
  <2>2. CASE i = Len(s) + 1
    <3>1. back = <<>>
      BY <1>1, <2>2, SubSeqProperties
    <3> HIDE DEF back
    <3> QED
      BY <1>1, <2>2, <3>1, EmptySeq
  <2> QED
    BY <1>1, <2>1, <2>2
<1> HIDE DEF front, back
<1>4. /\ front \o <<x>> \in Seq(S) /\ Len(front \o <<x>>) = i
      /\ \A j \in 1..i - 1 : (front \o <<x>>)[j] = s[j]
      /\ (front \o <<x>>)[i] = x
  <2>1. <<x>> \in Seq(S) /\ Len(<<x>>) = 1 /\ <<x>>[1] = x
    OBVIOUS
  <2> DEFINE o == <<x>>
  <2> HIDE DEF o
  <2>2. o \in Seq(S) /\ Len(o) = 1 /\ o[1] = x
    BY <2>1 DEF o
  <2>3. /\ front \o o \in Seq(S) /\ Len(front \o o) = Len(front) + Len(o)
        /\ \A j \in 1..Len(front) + Len(o) :
             (front \o o)[j] = IF j <= Len(front) THEN front[j] ELSE o[j - Len(front)]
    BY <1>2, <2>2, ConcatProperties
  <2>4. \A j \in 1..i - 1 : j \in 1..Len(front) + Len(o) /\ j <= Len(front)
    BY <1>1, <1>2, <2>2
  <2>5. i \in 1..Len(front) + Len(o) /\ ~(i <= Len(front)) /\ i - Len(front) = 1
    BY <1>1, <1>2, <2>2
  <2>6. Len(front) + Len(o) = i
    BY <1>1, <1>2, <2>2
  <2>7. front \o o \in Seq(S) /\ Len(front \o o) = i
    BY <2>3, <2>6
  <2>8. \A j \in 1..i - 1 : (front \o o)[j] = s[j]
    BY <1>2, <2>3, <2>4
  <2>9. (front \o o)[i] = x
    BY <2>2, <2>3, <2>5
  <2> QED
    BY <2>7, <2>8, <2>9 DEF o
<1> DEFINE a == front \o <<x>>
<1> HIDE DEF a
<1>5. /\ a \in Seq(S) /\ Len(a) = i /\ a[i] = x
      /\ \A j \in 1..i - 1 : a[j] = s[j]
  BY <1>4 DEF a
<1>6. /\ a \o back \in Seq(S) /\ Len(a \o back) = Len(a) + Len(back)
      /\ \A j \in 1..Len(a) + Len(back) :
           (a \o back)[j] = IF j <= Len(a) THEN a[j] ELSE back[j - Len(a)]
  BY <1>3, <1>5, ConcatProperties
<1>7. t = a \o back
  BY DEF a
<1> HIDE DEF t
<1>8. Len(t) = Len(s) + 1 /\ i \in 1..Len(t) /\ t[i] = x
  <2>1. Len(a) + Len(back) = Len(s) + 1 /\ i \in 1..Len(s) + 1 /\ i <= Len(a)
    BY <1>1, <1>3, <1>5
  <2> QED
    BY <1>5, <1>6, <1>7, <2>1
<1>9. ASSUME NEW j \in 1..Len(s) PROVE t[Shift(i, j)] = s[j]
  <2>1. CASE j < i
    <3>1. j \in 1..i - 1 /\ j \in 1..Len(a) + Len(back) /\ j <= Len(a)
      BY <1>1, <1>3, <1>5, <2>1
    <3> QED
      BY <1>5, <1>6, <1>7, <2>1, <3>1 DEF Shift
  <2>2. CASE ~(j < i)
    <3> DEFINE m == j + 1 - Len(a)
    <3>1. j + 1 \in 1..Len(a) + Len(back) /\ ~(j + 1 <= Len(a))
          /\ m \in 1..Len(s) - i + 1 /\ i + m - 1 = j
      BY <1>1, <1>3, <1>5, <2>2
    <3>2. t[j + 1] = back[m]
      <4>1. t[j + 1] = IF j + 1 <= Len(a) THEN a[j + 1] ELSE back[j + 1 - Len(a)]
        BY <1>6, <1>7, <3>1
      <4> QED
        BY <3>1, <4>1
    <3> HIDE DEF m
    <3> QED
      BY <1>3, <2>2, <3>1, <3>2 DEF Shift
  <2> QED
    BY <2>1, <2>2
<1>10. InsertAt(s, i, x) = t /\ t \in Seq(S)
  BY <1>6, <1>7 DEF InsertAt, t, front, back
<1> QED
  BY <1>8, <1>9, <1>10 DEF IsInserted

LEMMA ShiftIs ==
  ASSUME NEW k \in Nat \ {0}
  PROVE  \A i, j \in Nat : /\ Shift(k, i) \in Nat /\ Shift(k, i) # k
                           /\ i < j => Shift(k, i) < Shift(k, j)
                           /\ Shift(k, i) <= i + 1 /\ i <= Shift(k, i)
BY DEF Shift

(* What an enumeration shifted by a number put in enumerates. *)
LEMMA ShiftedEnumerates ==
  ASSUME NEW P, NEW f, Enumerates(f, P), NEW k \in Nat \ {0}
  PROVE  LET g == [j \in 1..Len(f) |-> Shift(k, f[j])]
         IN Enumerates(g, {Shift(k, i) : i \in P}) /\ Len(g) = Len(f)
<1> DEFINE g == [j \in 1..Len(f) |-> Shift(k, f[j])]
<1>1. Len(f) \in Nat /\ \A i, j \in 1..Len(f) : f[j] \in Nat /\ (i < j => f[i] < f[j])
  <2>1. f \in Seq(Nat)
    BY DEF Enumerates
  <2> QED
    BY <2>1, InOrderOf, LenProperties
<1>2. \A j \in 1..Len(f) : g[j] = Shift(k, f[j]) /\ g[j] \in Nat
  BY <1>1, ShiftIs
<1>3. g \in Seq(Nat) /\ Len(g) = Len(f)
  <2>1. g \in [1..Len(f) -> Nat]
    BY <1>2
  <2> HIDE DEF g
  <2> QED
    BY <1>1, <2>1, FunctionIsSeq
<1> HIDE DEF g
<1>4. ASSUME NEW i \in 1..Len(f), NEW j \in 1..Len(f), i < j PROVE <<g[i], g[j]>> \in Less
  <2>1. f[i] \in Nat /\ f[j] \in Nat /\ f[i] < f[j]
    BY <1>1, <1>4
  <2>2. g[i] < g[j]
    BY <1>2, <2>1, ShiftIs
  <2> QED
    BY <1>2, <2>2 DEF Less
<1>5. Sorted(g, Less)
  BY <1>3, <1>4 DEF Sorted
<1>6. \A x : Occurs(g, x) <=> x \in {Shift(k, i) : i \in P}
  <2>1. ASSUME NEW x, Occurs(g, x) PROVE x \in {Shift(k, i) : i \in P}
    <3>1. PICK j \in 1..Len(f) : g[j] = x
      BY <1>3, <2>1 DEF Occurs
    <3>2. Occurs(f, f[j])
      BY <3>1 DEF Occurs
    <3>3. f[j] \in P
      BY <3>2 DEF Enumerates
    <3> QED
      BY <1>2, <3>1, <3>3
  <2>2. ASSUME NEW i \in P PROVE Occurs(g, Shift(k, i))
    <3>1. Occurs(f, i)
      BY DEF Enumerates
    <3>2. PICK j \in 1..Len(f) : f[j] = i
      BY <3>1 DEF Occurs
    <3>3. j \in 1..Len(g) /\ g[j] = Shift(k, i)
      BY <1>2, <1>3, <3>2
    <3> QED
      BY <3>3 DEF Occurs
  <2> QED
    BY <2>1, <2>2
<1>7. Enumerates(g, {Shift(k, i) : i \in P})
  BY <1>3, <1>5, <1>6 DEF Enumerates
<1> QED
  BY <1>3, <1>7 DEF g

LEMMA ShiftedKeep ==
  ASSUME NEW S, NEW s \in Seq(S), NEW t \in Seq(S), NEW k, NEW x, IsInserted(t, s, k, x),
         NEW P, P \subseteq DOMAIN s, NEW Q, Q = {Shift(k, i) : i \in P}
  PROVE  Keep(t, Q) = Keep(s, P)
<1>1. PICK f : Enumerates(f, P) /\ Keep(s, P) = Along(s, f)
  BY KeepAlong
<1>2. /\ Len(s) \in Nat /\ DOMAIN s = 1..Len(s) /\ DOMAIN t = 1..Len(t)
      /\ Len(t) = Len(s) + 1 /\ k \in 1..Len(t)
      /\ \A j \in 1..Len(s) : t[Shift(k, j)] = s[j]
  BY LenProperties DEF IsInserted
<1>3. k \in Nat \ {0}
  BY <1>2
<1> DEFINE g == [j \in 1..Len(f) |-> Shift(k, f[j])]
<1>4. Enumerates(g, Q) /\ Len(g) = Len(f)
  BY <1>1, <1>3, ShiftedEnumerates
<1>5. Q \subseteq DOMAIN t
  <2> SUFFICES ASSUME NEW i \in P PROVE Shift(k, i) \in 1..Len(t)
    BY <1>2
  <2>1. i \in 1..Len(s)
    BY <1>2
  <2> QED
    BY <1>2, <1>3, <2>1 DEF Shift
<1>6. \A j \in 1..Len(f) : g[j] = Shift(k, f[j]) /\ f[j] \in P
  <2>1. ASSUME NEW j \in 1..Len(f) PROVE f[j] \in P
    <3>1. Occurs(f, f[j])
      BY DEF Occurs
    <3> QED
      BY <1>1, <3>1 DEF Enumerates
  <2>2. \A j \in 1..Len(f) : g[j] = Shift(k, f[j])
    OBVIOUS
  <2> QED
    BY <2>1, <2>2
<1>7. f \in Seq(Nat) /\ g \in Seq(Nat)
  BY <1>1, <1>4 DEF Enumerates
<1> HIDE DEF g
<1>8. DOMAIN f = 1..Len(f) /\ DOMAIN g = 1..Len(f)
  BY <1>4, <1>7, LenProperties
<1>9. \A j \in 1..Len(f) : t[g[j]] = s[f[j]]
  BY <1>2, <1>6
<1>10. Along(t, g) = Along(s, f)
  BY <1>8, <1>9 DEF Along
<1>11. Keep(t, Q) = Along(t, g)
  BY <1>4, <1>5, KeepIs
<1> QED
  BY <1>1, <1>10, <1>11

(* The places of a text are the shifted ones of the text before and the new one. *)
LEMMA InsertedPlaces ==
  ASSUME NEW S, NEW s \in Seq(S), NEW t \in Seq(S), NEW k, NEW x, IsInserted(t, s, k, x)
  PROVE  /\ k \in Nat \ {0} /\ k \in DOMAIN t
         /\ \A j \in DOMAIN s : Shift(k, j) \in DOMAIN t /\ t[Shift(k, j)] = s[j]
         /\ \A m \in DOMAIN t : m = k \/ \E j \in DOMAIN s : m = Shift(k, j)
<1>1. /\ Len(s) \in Nat /\ DOMAIN s = 1..Len(s) /\ DOMAIN t = 1..Len(t)
      /\ Len(t) = Len(s) + 1 /\ k \in 1..Len(t)
      /\ \A j \in 1..Len(s) : t[Shift(k, j)] = s[j]
  BY LenProperties DEF IsInserted
<1>2. k \in Nat \ {0}
  BY <1>1
<1>3. ASSUME NEW j \in 1..Len(s) PROVE Shift(k, j) \in 1..Len(t)
  BY <1>1, <1>2 DEF Shift
<1>4. ASSUME NEW m \in 1..Len(t), m # k PROVE \E j \in 1..Len(s) : m = Shift(k, j)
  <2>1. CASE m < k
    <3>1. m \in 1..Len(s) /\ m = Shift(k, m)
      BY <1>1, <1>2, <2>1 DEF Shift
    <3> QED
      BY <3>1
  <2>2. CASE k < m
    <3>1. m - 1 \in 1..Len(s) /\ m = Shift(k, m - 1)
      BY <1>1, <1>2, <2>2 DEF Shift
    <3> QED
      BY <3>1
  <2> QED
    BY <1>1, <1>4, <2>1, <2>2
<1> QED
  BY <1>1, <1>2, <1>3, <1>4

LEMMA WithoutInserted ==
  ASSUME NEW S, NEW s \in Seq(S), NEW t \in Seq(S), NEW k, NEW x, IsInserted(t, s, k, x)
  PROVE  Without(t, x) = Without(s, x)
<1> DEFINE P == {i \in DOMAIN s : s[i] # x}
           Q == {i \in DOMAIN t : t[i] # x}
<1>1. t[k] = x
  BY DEF IsInserted
<1>2. Q = {Shift(k, i) : i \in P}
  <2>1. \A i \in P : Shift(k, i) \in Q
    BY InsertedPlaces
  <2>2. \A m \in Q : \E i \in P : m = Shift(k, i)
    <3> TAKE m \in Q
    <3>1. PICK i \in DOMAIN s : m = Shift(k, i)
      BY <1>1, InsertedPlaces
    <3>2. i \in P
      BY <3>1, InsertedPlaces
    <3> QED
      BY <3>1, <3>2
  <2> HIDE DEF P, Q
  <2> QED
    BY <2>1, <2>2
<1>3. P \subseteq DOMAIN s
  OBVIOUS
<1>4. Without(s, x) = Keep(s, P) /\ Without(t, x) = Keep(t, Q)
  BY DEF Without
<1> HIDE DEF P, Q
<1> QED
  BY <1>2, <1>3, <1>4, ShiftedKeep

(* Put between the positions that are kept, or elsewhere: what is kept then has it too. *)
LEMMA KeptInserted ==
  ASSUME NEW S, NEW s \in Seq(S), NEW t \in Seq(S), NEW k, NEW x, IsInserted(t, s, k, x),
         NEW f, NEW P, P \subseteq DOMAIN s, Enumerates(f, P),
         NEW g, Enumerates(g, {Shift(k, i) : i \in P} \cup {k})
  PROVE  \E m \in 1..Len(g) :
            /\ Len(g) = Len(f) + 1
            /\ g[m] = k
            /\ \A j \in 1..Len(f) : g[Shift(m, j)] = Shift(k, f[j])
<1>1. k \in Nat \ {0}
  BY InsertedPlaces
<1> DEFINE h == [j \in 1..Len(f) |-> Shift(k, f[j])]
           SP == {Shift(k, i) : i \in P}
<1>2. Enumerates(h, SP) /\ Len(h) = Len(f)
  BY <1>1, ShiftedEnumerates
<1>3. k \notin SP
  <2>1. \A i \in P : i \in Nat
    BY LenProperties
  <2> QED
    BY <1>1, <2>1, ShiftIs
<1>4. \A j \in 1..Len(f) : h[j] = Shift(k, f[j])
  OBVIOUS
<1>5. Enumerates(g, SP \cup {k})
  OBVIOUS
<1> HIDE DEF h, SP
<1>6. g \in Seq(Nat) /\ Len(g) \in Nat /\ DOMAIN g = 1..Len(g)
  <2>1. g \in Seq(Nat)
    BY <1>5 DEF Enumerates
  <2> QED
    BY <2>1, LenProperties
<1>7. PICK m \in 1..Len(g) : g[m] = k
  BY <1>5 DEF Enumerates, Occurs
<1>8. \A i, j \in 1..Len(g) : /\ g[i] \in Nat
                              /\ i < j => g[i] < g[j]
                              /\ g[i] = g[j] => i = j
  BY <1>5, InOrderOf
<1> DEFINE n == Len(g) - 1
           r == [j \in 1..n |-> g[Shift(m, j)]]
<1>9. n \in Nat /\ n + 1 = Len(g) /\ m \in Nat \ {0}
  BY <1>6
<1>10. ASSUME NEW j \in 1..n
       PROVE  Shift(m, j) \in 1..Len(g) /\ Shift(m, j) # m
  BY <1>6, <1>9 DEF Shift
<1>11. r \in Seq(Nat) /\ Len(r) = n /\ \A j \in 1..n : r[j] = g[Shift(m, j)]
  <2>1. r \in [1..n -> Nat]
    BY <1>8, <1>10
  <2>2. \A j \in 1..n : r[j] = g[Shift(m, j)]
    OBVIOUS
  <2> HIDE DEF r
  <2> QED
    BY <1>9, <2>1, <2>2, FunctionIsSeq
<1> HIDE DEF r, n
<1>12. Sorted(r, Less)
  <2> SUFFICES ASSUME NEW i \in 1..n, NEW j \in 1..n, i < j PROVE <<r[i], r[j]>> \in Less
    BY <1>11 DEF Sorted
  <2>1. Shift(m, i) < Shift(m, j)
    BY <1>9, ShiftIs
  <2>2. g[Shift(m, i)] < g[Shift(m, j)]
        /\ g[Shift(m, i)] \in Nat /\ g[Shift(m, j)] \in Nat
    BY <1>8, <1>10, <2>1
  <2> QED
    BY <1>11, <2>2 DEF Less
<1>13. \A y : Occurs(r, y) <=> y \in SP
  <2>1. ASSUME NEW y, Occurs(r, y) PROVE y \in SP
    <3>1. PICK j \in 1..n : r[j] = y
      BY <1>11, <2>1 DEF Occurs
    <3>2. Shift(m, j) \in 1..Len(g) /\ Shift(m, j) # m /\ g[Shift(m, j)] = y
      BY <1>10, <1>11, <3>1
    <3>3. y # k
      BY <1>7, <1>8, <3>2
    <3>4. Occurs(g, y)
      BY <3>2 DEF Occurs
    <3> QED
      BY <1>5, <3>3, <3>4 DEF Enumerates
  <2>2. ASSUME NEW y \in SP PROVE Occurs(r, y)
    <3>1. Occurs(g, y)
      BY <1>5 DEF Enumerates
    <3>2. PICK q \in 1..Len(g) : g[q] = y
      BY <3>1 DEF Occurs
    <3>3. q # m
      BY <1>3, <1>7, <3>2
    <3>4. \E j \in 1..n : q = Shift(m, j)
      <4>1. CASE q < m
        <5>1. q \in 1..n /\ q = Shift(m, q)
          BY <1>6, <1>9, <4>1 DEF Shift
        <5> QED
          BY <5>1
      <4>2. CASE m < q
        <5>1. q - 1 \in 1..n /\ q = Shift(m, q - 1)
          BY <1>6, <1>9, <4>2 DEF Shift
        <5> QED
          BY <5>1
      <4> QED
        BY <1>6, <3>3, <4>1, <4>2
    <3>5. PICK j \in 1..n : q = Shift(m, j)
      BY <3>4
    <3>6. j \in 1..Len(r) /\ r[j] = y
      BY <1>11, <3>2, <3>5
    <3> QED
      BY <3>6 DEF Occurs
  <2> QED
    BY <2>1, <2>2
<1>14. r = h
  <2>1. Enumerates(r, SP)
    BY <1>11, <1>12, <1>13 DEF Enumerates
  <2> QED
    BY <1>2, <2>1, EnumeratedOnce
<1>15. Len(g) = Len(f) + 1
  BY <1>2, <1>9, <1>11, <1>14
<1>16. \A j \in 1..Len(f) : g[Shift(m, j)] = Shift(k, f[j])
  BY <1>2, <1>4, <1>11, <1>14
<1> QED
  BY <1>7, <1>15, <1>16

(* The same for a pass that takes one character out, and another one put in: if it was
   put in before its like, it is before its like in what is kept. *)
LEMMA WithoutOther ==
  ASSUME NEW S, NEW s \in Seq(S), NEW t \in Seq(S), NEW k, NEW x, IsInserted(t, s, k, x),
         NEW c, x # c
  PROVE  \E m : /\ IsInserted(Without(t, c), Without(s, c), m, x)
                /\ k \in 1..Len(s) /\ s[k] = x =>
                     m \in 1..Len(Without(s, c)) /\ Without(s, c)[m] = x
<1> DEFINE P == {i \in DOMAIN s : s[i] # c}
           Q == {i \in DOMAIN t : t[i] # c}
<1>1. /\ P \subseteq DOMAIN s /\ Q \subseteq DOMAIN t
      /\ Without(s, c) = Keep(s, P) /\ Without(t, c) = Keep(t, Q)
  BY DEF Without
<1>2. t[k] = x
  BY DEF IsInserted
<1>3. Q = {Shift(k, i) : i \in P} \cup {k}
  <2>1. \A i \in P : Shift(k, i) \in Q
    BY InsertedPlaces
  <2>2. k \in Q
    BY <1>2, InsertedPlaces
  <2>3. \A q \in Q : q = k \/ \E i \in P : q = Shift(k, i)
    <3> TAKE q \in Q
    <3>1. q = k \/ \E i \in DOMAIN s : q = Shift(k, i)
      BY InsertedPlaces
    <3>2. \A i \in DOMAIN s : q = Shift(k, i) => i \in P
      BY InsertedPlaces
    <3> QED
      BY <3>1, <3>2
  <2> HIDE DEF P, Q
  <2> QED
    BY <2>1, <2>2, <2>3
<1>4. k \in 1..Len(s) /\ s[k] = x => k \in P
  BY LenProperties
<1> HIDE DEF P, Q
<1>5. PICK f : Enumerates(f, P) /\ Keep(s, P) = Along(s, f)
  BY <1>1, KeepAlong
<1>6. PICK g : Enumerates(g, Q) /\ Keep(t, Q) = Along(t, g)
  BY <1>1, KeepAlong
<1>7. IsAlong(Along(s, f), S, s, P, f) /\ IsAlong(Along(t, g), S, t, Q, g)
  BY <1>1, <1>5, <1>6, AlongIs
<1> DEFINE a == Along(s, f)
           b == Along(t, g)
<1>8. Without(s, c) = a /\ Without(t, c) = b
  BY <1>1, <1>5, <1>6
<1>9. /\ Len(a) = Len(f) /\ Len(f) \in Nat
      /\ \A j \in 1..Len(f) : a[j] = s[f[j]] /\ f[j] \in P
      /\ \A y \in P : \E j \in 1..Len(f) : f[j] = y
      /\ Len(b) = Len(g) /\ Len(g) \in Nat
      /\ \A j \in 1..Len(g) : b[j] = t[g[j]]
  BY <1>7 DEF IsAlong
<1> HIDE DEF a, b
<1>10. PICK m \in 1..Len(g) :
            /\ Len(g) = Len(f) + 1
            /\ g[m] = k
            /\ \A j \in 1..Len(f) : g[Shift(m, j)] = Shift(k, f[j])
  <2>1. Enumerates(g, {Shift(k, i) : i \in P} \cup {k})
    BY <1>3, <1>6
  <2> QED
    BY <1>1, <1>5, <2>1, KeptInserted
<1>11. ASSUME NEW j \in 1..Len(f) PROVE b[Shift(m, j)] = a[j]
  <2>1. Shift(m, j) \in 1..Len(g)
    BY <1>9, <1>10 DEF Shift
  <2>2. b[Shift(m, j)] = t[Shift(k, f[j])] /\ a[j] = s[f[j]] /\ f[j] \in DOMAIN s
    BY <1>1, <1>9, <1>10, <2>1
  <2> QED
    BY <2>2, InsertedPlaces
<1>12. IsInserted(b, a, m, x)
  BY <1>2, <1>9, <1>10, <1>11 DEF IsInserted
<1>13. ASSUME k \in 1..Len(s), s[k] = x PROVE m \in 1..Len(a) /\ a[m] = x
  <2>1. PICK q \in 1..Len(f) : f[q] = k
    BY <1>4, <1>9, <1>13
  <2>2. k \in Nat /\ m \in Nat
    BY <1>9, <1>13
  <2>3. g[Shift(m, q)] = k + 1
    BY <1>10, <2>1, <2>2 DEF Shift
  <2>4. \A i, j \in 1..Len(g) : g[i] \in Nat /\ (i < j => g[i] < g[j])
    BY <1>6, InOrderOf
  <2>5. ~(q < m)
    <3> SUFFICES ASSUME q < m PROVE FALSE
      OBVIOUS
    <3>1. q \in 1..Len(g) /\ g[q] = k + 1
      BY <1>9, <1>10, <2>3 DEF Shift
    <3>2. g[q] < g[m]
      BY <2>4, <3>1
    <3> QED
      BY <1>10, <2>2, <3>1, <3>2
  <2>6. ~(m < q)
    <3> SUFFICES ASSUME m < q PROVE FALSE
      OBVIOUS
    <3>1. q + 1 \in 1..Len(g) /\ m + 1 \in 1..Len(g) /\ m < m + 1 /\ m + 1 < q + 1
          /\ Shift(m, q) = q + 1
      BY <1>9, <1>10, <2>2 DEF Shift
    <3>2. g[m] < g[m + 1] /\ g[m + 1] < g[q + 1] /\ g[m + 1] \in Nat
      BY <2>4, <3>1
    <3> QED
      BY <1>10, <2>2, <2>3, <3>1, <3>2
  <2>7. q = m
    BY <1>9, <2>2, <2>5, <2>6
  <2> QED
    BY <1>9, <1>13, <2>1, <2>7
<1> QED
  BY <1>8, <1>12, <1>13

-----------------------------------------------------------------------------
(* The passes of NormalizeText, on a text that may have to be decoded first. *)

Blank == " "
Slash == "\\"
Chars == {"a", "n", Blank, "ha", "4", "zw", ".", Slash, "s", "m", "f", "z", "b"}
NoTable == [c \in {} |-> c]
Tables == {NoTable, ROT13, KeyWalkReverse}
Sub(c, table) == IF c \in DOMAIN table THEN table[c] ELSE c
Plain(c, table) == Sub(Sub(Sub(c, table), Homoglyph), L33t)
Cleared(d, table) == Translate(Translate(stripZeroWidth(Translate(d, table)), Homoglyph), L33t)
Beside(t, j) ==
  /\ Len(t) >= 3
  /\ \/ j > 1 /\ IsLetter(t[j - 1])
     \/ j < Len(t) /\ IsLetter(t[j + 1])
DotsBeside(t) == \A j \in 1..Len(t) : t[j] = "." => Beside(t, j)

LEMMA SignsApart ==
  /\ Blank # Slash
  /\ {Blank, Slash} \intersect {"a", "n", "ha", "4", "zw", ".", "s", "m", "f", "z", "b"} = {}
BY Zenon DEF Blank, Slash

LEMMA SubIs ==
  ASSUME NEW table \in Tables \cup {Homoglyph, L33t}, NEW c \in Chars
  PROVE  /\ Sub(c, table) \in Chars
         /\ Sub(c, table) = "." <=> c = "."
         /\ Sub(c, table) = Blank <=> c = Blank
         /\ Sub(c, table) = "zw" <=> c = "zw"
         /\ IsLetter(c) => IsLetter(Sub(c, table))
         /\ c = "4" => IsLetter(Sub(c, table)) \/ Sub(c, table) = "4"
<1>1. CASE table = NoTable
  BY <1>1 DEF Sub, NoTable
<1>2. CASE table = ROT13
  <2>1. /\ Sub("a", table) = "n" /\ Sub("n", table) = "a"
        /\ Sub("s", table) = "f" /\ Sub("m", table) = "z"
        /\ c \notin {"a", "n", "s", "m"} => Sub(c, table) = c
    BY <1>2 DEF Sub, ROT13
  <2> QED
    BY <2>1, SignsApart DEF Chars, IsLetter
<1>3. CASE table = KeyWalkReverse
  <2>1. /\ Sub("s", table) = "a" /\ Sub("m", table) = "n" /\ Sub("n", table) = "b"
        /\ c \notin {"s", "m", "n"} => Sub(c, table) = c
    BY <1>3 DEF Sub, KeyWalkReverse
  <2> QED
    BY <2>1, SignsApart DEF Chars, IsLetter
<1>4. CASE table = Homoglyph
  BY <1>4, SignsApart DEF Sub, Homoglyph, Chars, IsLetter
<1>5. CASE table = L33t
  BY <1>5, SignsApart DEF Sub, L33t, Chars, IsLetter
<1> QED
  BY <1>1, <1>2, <1>3, <1>4, <1>5 DEF Tables

LEMMA PlainIs ==
  ASSUME NEW table \in Tables, NEW c \in Chars
  PROVE  /\ Plain(c, table) \in Chars
         /\ Plain(c, table) = "." <=> c = "."
         /\ Plain(c, table) = Blank <=> c = Blank
         /\ IsLetter(c) \/ c = "4" => IsLetter(Plain(c, table))
<1> DEFINE b == Sub(c, table)
           a == Sub(b, Homoglyph)
<1>1. /\ b \in Chars /\ (b = "." <=> c = ".") /\ (b = Blank <=> c = Blank)
      /\ IsLetter(c) \/ c = "4" => IsLetter(b) \/ b = "4"
  BY SubIs
<1> HIDE DEF b
<1>2. /\ a \in Chars /\ (a = "." <=> b = ".") /\ (a = Blank <=> b = Blank)
      /\ IsLetter(b) \/ b = "4" => IsLetter(a) \/ a = "4"
  BY <1>1, SubIs
<1> HIDE DEF a
<1>3. /\ Sub(a, L33t) \in Chars /\ (Sub(a, L33t) = "." <=> a = ".")
      /\ (Sub(a, L33t) = Blank <=> a = Blank)
      /\ IsLetter(a) => IsLetter(Sub(a, L33t))
  BY <1>2, SubIs
<1>4. a = "4" => IsLetter(Sub(a, L33t))
  BY DEF Sub, L33t, IsLetter
<1>5. Plain(c, table) = Sub(a, L33t)
  BY DEF Plain, a, b
<1> QED
  BY <1>1, <1>2, <1>3, <1>4, <1>5

LEMMA TranslateIs ==
  ASSUME NEW S, NEW s \in Seq(S), NEW table
  PROVE  /\ Len(Translate(s, table)) = Len(s) /\ DOMAIN Translate(s, table) = 1..Len(s)
         /\ DOMAIN s = 1..Len(s) /\ Len(s) \in Nat
         /\ \A j \in 1..Len(s) : Translate(s, table)[j] = Sub(s[j], table)
         /\ \A R : (\A j \in 1..Len(s) : Sub(s[j], table) \in R) => Translate(s, table) \in Seq(R)
<1> DEFINE t == Translate(s, table)
<1>1. DOMAIN s = 1..Len(s) /\ Len(s) \in Nat
  BY LenProperties
<1>2. DOMAIN t = 1..Len(s) /\ \A j \in 1..Len(s) : t[j] = Sub(s[j], table)
  BY <1>1 DEF Translate, Sub
<1>3. t = [j \in 1..Len(s) |-> t[j]]
  BY <1>1 DEF Translate
<1> HIDE DEF t
<1>4. ASSUME NEW R, \A j \in 1..Len(s) : Sub(s[j], table) \in R
      PROVE  t \in Seq(R) /\ Len(t) = Len(s)
  <2>1. t \in [1..Len(s) -> R]
    BY <1>2, <1>3, <1>4
  <2> QED
    BY <1>1, <2>1, FunctionIsSeq
<1>5. Len(t) = Len(s)
  <2> DEFINE R == {Sub(s[j], table) : j \in 1..Len(s)}
  <2>1. \A j \in 1..Len(s) : Sub(s[j], table) \in R
    OBVIOUS
  <2> HIDE DEF R
  <2> QED
    BY <1>4, <2>1
<1> QED
  BY <1>1, <1>2, <1>4, <1>5 DEF t

LEMMA TranslatedChars ==
  ASSUME NEW s \in Seq(Chars), NEW table \in Tables \cup {Homoglyph, L33t}
  PROVE  Translate(s, table) \in Seq(Chars)
<1>1. \A j \in 1..Len(s) : s[j] \in Chars
  BY ElementOfSeq
<1>2. \A j \in 1..Len(s) : Sub(s[j], table) \in Chars
  BY <1>1, SubIs
<1> QED
  BY <1>2, TranslateIs

LEMMA KeptAll ==
  ASSUME NEW S, NEW s \in Seq(S)
  PROVE  Keep(s, DOMAIN s) = s
<1> DEFINE f == [j \in 1..Len(s) |-> j]
<1>1. DOMAIN s = 1..Len(s) /\ Len(s) \in Nat
  BY LenProperties
<1>2. f \in Seq(Nat) /\ Len(f) = Len(s)
  <2>1. f \in [1..Len(s) -> Nat]
    BY <1>1
  <2> HIDE DEF f
  <2> QED
    BY <1>1, <2>1, FunctionIsSeq
<1>3. \A j \in 1..Len(s) : f[j] = j
  OBVIOUS
<1>4. DOMAIN f = 1..Len(s)
  OBVIOUS
<1> HIDE DEF f
<1>5. Enumerates(f, DOMAIN s)
  <2>1. Sorted(f, Less)
    BY <1>1, <1>2, <1>3 DEF Sorted, Less
  <2>2. \A x : Occurs(f, x) <=> x \in DOMAIN s
    BY <1>1, <1>2, <1>3 DEF Occurs
  <2> QED
    BY <1>2, <2>1, <2>2 DEF Enumerates
<1>6. Keep(s, DOMAIN s) = Along(s, f)
  BY <1>5, KeepIs
<1>7. Along(s, f) = [j \in 1..Len(s) |-> s[j]]
  BY <1>3, <1>4 DEF Along
<1>8. s = [j \in 1..Len(s) |-> s[j]]
  BY <1>1
<1> QED
  BY <1>6, <1>7, <1>8

LEMMA WithoutIs ==
  ASSUME NEW S, NEW s \in Seq(S), NEW c
  PROVE  /\ Without(s, c) \in Seq(S)
         /\ (\A j \in 1..Len(s) : s[j] # c) => Without(s, c) = s
<1> DEFINE P == {i \in DOMAIN s : s[i] # c}
<1>1. Without(s, c) = Keep(s, P) /\ P \subseteq DOMAIN s /\ DOMAIN s = 1..Len(s)
  BY LenProperties DEF Without
<1>2. (\A j \in 1..Len(s) : s[j] # c) => P = DOMAIN s
  BY <1>1
<1> HIDE DEF P
<1>3. Keep(s, P) \in Seq(S)
  BY <1>1, KeptElements
<1> QED
  BY <1>1, <1>2, <1>3, KeptAll

(* A text is cleared character by character, once the zero-width ones are gone. *)
LEMMA ClearedIs ==
  ASSUME NEW d \in Seq(Chars), NEW table \in Tables
  PROVE  /\ Cleared(d, table) \in Seq(Chars)
         /\ stripZeroWidth(d) \in Seq(Chars)
         /\ Len(Cleared(d, table)) = Len(stripZeroWidth(d))
         /\ \A j \in 1..Len(stripZeroWidth(d)) :
              /\ stripZeroWidth(d)[j] \in Chars
              /\ Cleared(d, table)[j] = Plain(stripZeroWidth(d)[j], table)
<1> DEFINE r == Translate(d, table)
           P == {i \in DOMAIN d : d[i] # "zw"}
           PR == {i \in DOMAIN r : r[i] # "zw"}
           w == stripZeroWidth(r)
           v == stripZeroWidth(d)
<1>1. /\ r \in Seq(Chars) /\ Len(r) = Len(d) /\ DOMAIN r = 1..Len(d) /\ DOMAIN d = 1..Len(d)
      /\ \A j \in 1..Len(d) : r[j] = Sub(d[j], table) /\ d[j] \in Chars
  BY TranslateIs, TranslatedChars, ElementOfSeq
<1> HIDE DEF r
<1>2. P = PR
  <2>1. \A i \in 1..Len(d) : d[i] = "zw" <=> r[i] = "zw"
    <3> TAKE i \in 1..Len(d)
    <3>1. d[i] \in Chars /\ r[i] = Sub(d[i], table)
      BY <1>1
    <3>2. Sub(d[i], table) = "zw" <=> d[i] = "zw"
      BY <3>1, SubIs
    <3> QED
      BY <3>1, <3>2
  <2> QED
    BY <1>1, <2>1
<1>3. v = Keep(d, P) /\ w = Keep(r, PR) /\ P \subseteq DOMAIN d /\ PR \subseteq DOMAIN r
  BY DEF stripZeroWidth, Without
<1> HIDE DEF P, PR
<1>4. v \in Seq(Chars) /\ w \in Seq(Chars)
  BY <1>1, WithoutIs DEF stripZeroWidth
<1>5. PICK f : Enumerates(f, P) /\ Keep(d, P) = Along(d, f)
  BY <1>3, KeepAlong
<1>6. IsAlong(Along(d, f), Chars, d, P, f)
  BY <1>3, <1>5, AlongIs
<1>7. IsAlong(Along(r, f), Chars, r, P, f) /\ Keep(r, PR) = Along(r, f)
  BY <1>1, <1>2, <1>3, <1>5, AlongIs, KeepIs
<1> HIDE DEF v, w
<1>8. /\ Len(v) = Len(f) /\ Len(w) = Len(f)
      /\ \A j \in 1..Len(f) : v[j] = d[f[j]] /\ w[j] = r[f[j]] /\ f[j] \in P
  BY <1>3, <1>5, <1>6, <1>7 DEF IsAlong
<1>9. \A j \in 1..Len(v) : v[j] \in Chars /\ w[j] = Sub(v[j], table)
  BY <1>1, <1>3, <1>8
<1> DEFINE h == Translate(w, Homoglyph)
           l == Translate(h, L33t)
<1>10. h \in Seq(Chars) /\ Len(h) = Len(v) /\ \A j \in 1..Len(v) : h[j] = Sub(w[j], Homoglyph)
  BY <1>4, <1>8, TranslateIs, TranslatedChars
<1> HIDE DEF h
<1>11. l \in Seq(Chars) /\ Len(l) = Len(v) /\ \A j \in 1..Len(v) : l[j] = Sub(h[j], L33t)
  BY <1>10, TranslateIs, TranslatedChars
<1>12. l = Cleared(d, table)
  BY DEF Cleared, l, h, w, r
<1> HIDE DEF l
<1>13. \A j \in 1..Len(v) : l[j] = Plain(v[j], table)
  BY <1>9, <1>10, <1>11 DEF Plain
<1> QED
  BY <1>4, <1>9, <1>11, <1>12, <1>13 DEF v

(* Every separator beside a letter: all of them go. *)
LEMMA SeparatorsGo ==
  ASSUME NEW t \in Seq(Chars), DotsBeside(t)
  PROVE  removeInterCharacterInsertions(t) = Without(t, ".")
<1>1. Len(t) \in Nat /\ DOMAIN t = 1..Len(t)
  BY LenProperties
<1>2. CASE Len(t) < 3
  <2>1. \A j \in 1..Len(t) : t[j] # "."
    BY <1>1, <1>2 DEF DotsBeside, Beside
  <2>2. Without(t, ".") = t
    BY <2>1, WithoutIs
  <2> QED
    BY <1>2, <2>2 DEF removeInterCharacterInsertions
<1>3. CASE ~(Len(t) < 3)
  <2> DEFINE P == {i \in DOMAIN t : ~(/\ t[i] = "."
                                      /\ \/ i > 1 /\ IsLetter(t[i - 1])
                                         \/ i < Len(t) /\ IsLetter(t[i + 1]))}
             Q == {i \in DOMAIN t : t[i] # "."}
  <2>1. P = Q
    BY <1>1 DEF DotsBeside, Beside
  <2>2. removeInterCharacterInsertions(t) = Keep(t, P) /\ Without(t, ".") = Keep(t, Q)
    BY <1>3 DEF removeInterCharacterInsertions, Without
  <2> HIDE DEF P, Q
  <2> QED
    BY <2>1, <2>2
<1> QED
  BY <1>2, <1>3

Words(s) == {i \in DOMAIN s : s[i] # Blank}
Spaced(s, i) == \E j \in Words(s) : j > i
Collapsed(s) == {i \in DOMAIN s : i \in Words(s) \/ (i - 1 \in Words(s) /\ Spaced(s, i))}

LEMMA CollapseIs ==
  ASSUME NEW s
  PROVE  collapseWhitespace(s) = Keep(s, Collapsed(s)) /\ Collapsed(s) \subseteq DOMAIN s
BY DEF collapseWhitespace, Collapsed, Words, Spaced, Blank

(* One more space after a space changes nothing. *)
LEMMA CollapseInserted ==
  ASSUME NEW S, NEW s \in Seq(S), NEW t \in Seq(S), NEW k \in 1..Len(s), s[k] = Blank,
         NEW n, n = k + 1, IsInserted(t, s, n, Blank)
  PROVE  collapseWhitespace(t) = collapseWhitespace(s)
<1>1. Len(s) \in Nat /\ k \in Nat /\ n \in Nat /\ n = k + 1 /\ k <= Len(s) /\ 1 <= k
  BY LenProperties
<1>2. /\ DOMAIN s = 1..Len(s) /\ DOMAIN t = 1..Len(t) /\ Len(t) = Len(s) + 1
      /\ \A j \in 1..Len(s) : t[Shift(n, j)] = s[j]
      /\ t[n] = Blank
  BY LenProperties DEF IsInserted
<1>3. ASSUME NEW j \in 1..Len(s)
      PROVE  j \in Nat /\ (j <= k => Shift(n, j) = j) /\ (j > k => Shift(n, j) = j + 1)
             /\ Shift(n, j) \in 1..Len(t) /\ Shift(n, j) # n
             /\ (Shift(n, j) \in Words(t) <=> j \in Words(s))
  <2>1. j \in Nat /\ (j <= k => Shift(n, j) = j) /\ (j > k => Shift(n, j) = j + 1)
    BY <1>1 DEF Shift
  <2>2. j <= k \/ j > k
    BY <1>1, <2>1
  <2>3. Shift(n, j) \in 1..Len(t) /\ Shift(n, j) # n
    BY <1>1, <1>2, <2>1, <2>2
  <2>4. Shift(n, j) \in Words(t) <=> j \in Words(s)
    BY <1>2, <2>3 DEF Words
  <2> QED
    BY <2>1, <2>3, <2>4
<1>4. ASSUME NEW m \in 1..Len(t), m # n PROVE \E j \in 1..Len(s) : m = Shift(n, j)
  <2>1. \A q \in DOMAIN t : q = n \/ \E j \in DOMAIN s : q = Shift(n, j)
    BY InsertedPlaces
  <2> QED
    BY <1>2, <1>4, <2>1
<1>5. n \notin Words(t) /\ k \notin Words(t) /\ k \notin Words(s)
  <2>1. k \in 1..Len(s) /\ Shift(n, k) = k
    BY <1>1, <1>3
  <2>2. t[k] = Blank
    BY <1>2, <2>1
  <2> QED
    BY <1>2, <2>2 DEF Words
<1>6. ASSUME NEW i \in 1..Len(s), NEW j \in 1..Len(s) PROVE Shift(n, i) > Shift(n, j) <=> i > j
  <2>1. /\ i \in Nat /\ (i <= k => Shift(n, i) = i) /\ (i > k => Shift(n, i) = i + 1)
        /\ j \in Nat /\ (j <= k => Shift(n, j) = j) /\ (j > k => Shift(n, j) = j + 1)
    BY <1>3
  <2> DEFINE a == Shift(n, i)
             b == Shift(n, j)
  <2> HIDE DEF a, b
  <2>2. /\ i \in Nat /\ (i <= k => a = i) /\ (i > k => a = i + 1)
        /\ j \in Nat /\ (j <= k => b = j) /\ (j > k => b = j + 1)
    BY <2>1 DEF a, b
  <2>3. a > b <=> i > j
    BY <1>1, <2>2
  <2> QED
    BY <2>3 DEF a, b
<1>7. ASSUME NEW j \in 1..Len(s) PROVE Spaced(t, Shift(n, j)) <=> Spaced(s, j)
  <2>1. ASSUME Spaced(s, j) PROVE Spaced(t, Shift(n, j))
    <3>1. PICK i \in Words(s) : i > j
      BY <2>1 DEF Spaced
    <3>2. i \in 1..Len(s)
      BY <1>2 DEF Words
    <3>3. Shift(n, i) > Shift(n, j)
      BY <1>6, <3>1, <3>2
    <3>4. Shift(n, i) \in Words(t)
      BY <1>3, <3>1, <3>2
    <3> QED
      BY <3>3, <3>4 DEF Spaced
  <2>2. ASSUME Spaced(t, Shift(n, j)) PROVE Spaced(s, j)
    <3>1. PICK m \in Words(t) : m > Shift(n, j)
      BY <2>2 DEF Spaced
    <3>2. m \in 1..Len(t) /\ m # n
      BY <1>2, <1>5 DEF Words
    <3>3. PICK i \in 1..Len(s) : m = Shift(n, i)
      BY <1>4, <3>2
    <3>4. i > j
      BY <1>6, <3>1, <3>3
    <3>5. i \in Words(s)
      BY <1>3, <3>1, <3>3
    <3> QED
      BY <3>4, <3>5 DEF Spaced
  <2> QED
    BY <2>1, <2>2
<1>8. ASSUME NEW j \in 1..Len(s) PROVE Shift(n, j) - 1 \in Words(t) <=> j - 1 \in Words(s)
  <2> DEFINE h == j - 1
  <2>1. j \in Nat /\ (j <= k => Shift(n, j) = j) /\ (j > k => Shift(n, j) = j + 1)
    BY <1>3
  <2>2. h = 0 \/ h \in 1..Len(s)
    BY <1>1
  <2>3. h \in Int /\ j = h + 1
    BY <2>1
  <2> HIDE DEF h
  <2>4. 0 \notin Words(t) /\ 0 \notin Words(s)
    BY <1>2 DEF Words
  <2>5. CASE h = 0
    <3>1. Shift(n, j) - 1 = h
      BY <1>1, <2>1, <2>3, <2>5
    <3> QED
      BY <2>4, <2>5, <3>1 DEF h
  <2>6. CASE h \in 1..Len(s) /\ j <= k
    <3>1. Shift(n, j) - 1 = h /\ h <= k
      BY <1>1, <2>1, <2>3, <2>6
    <3>2. Shift(n, h) = h
      BY <1>3, <2>6, <3>1
    <3> QED
      BY <1>3, <2>6, <3>1, <3>2 DEF h
  <2>7. CASE h = k
    <3>1. Shift(n, j) - 1 = n
      BY <1>1, <2>1, <2>3, <2>7
    <3> QED
      BY <1>5, <2>7, <3>1 DEF h
  <2>8. CASE h \in 1..Len(s) /\ h > k
    <3>1. Shift(n, h) = h + 1
      BY <1>3, <2>8
    <3>2. Shift(n, j) - 1 = Shift(n, h)
      BY <1>1, <2>1, <2>3, <2>8, <3>1
    <3> QED
      BY <1>3, <2>8, <3>2 DEF h
  <2> QED
    BY <1>1, <2>1, <2>2, <2>3, <2>5, <2>6, <2>7, <2>8
<1>9. ASSUME NEW j \in 1..Len(s) PROVE Shift(n, j) \in Collapsed(t) <=> j \in Collapsed(s)
  <2>1. /\ Shift(n, j) \in DOMAIN t /\ j \in DOMAIN s
        /\ Shift(n, j) \in Words(t) <=> j \in Words(s)
    BY <1>2, <1>3
  <2>2. /\ Shift(n, j) - 1 \in Words(t) <=> j - 1 \in Words(s)
        /\ Spaced(t, Shift(n, j)) <=> Spaced(s, j)
    BY <1>7, <1>8
  <2> QED
    BY <2>1, <2>2 DEF Collapsed
<1>10. n \notin Collapsed(t)
  <2>1. n - 1 = k
    BY <1>1
  <2> QED
    BY <1>5, <2>1 DEF Collapsed
<1>11. Collapsed(t) = {Shift(n, j) : j \in Collapsed(s)}
  <2>1. ASSUME NEW m \in Collapsed(t) PROVE \E j \in Collapsed(s) : m = Shift(n, j)
    <3>1. m \in 1..Len(t) /\ m # n
      BY <1>2, <1>10, CollapseIs
    <3>2. PICK j \in 1..Len(s) : m = Shift(n, j)
      BY <1>4, <3>1
    <3> QED
      BY <1>9, <3>2
  <2>2. ASSUME NEW j \in Collapsed(s) PROVE Shift(n, j) \in Collapsed(t)
    <3>1. j \in 1..Len(s)
      BY <1>2, CollapseIs
    <3> QED
      BY <1>9, <3>1
  <2> QED
    BY <2>1, <2>2
<1>12. Keep(t, Collapsed(t)) = Keep(s, Collapsed(s))
  BY <1>11, CollapseIs, ShiftedKeep
<1> QED
  BY <1>12, CollapseIs

(* A space that is put in before a space might as well come after it. *)
LEMMA InsertedAfter ==
  ASSUME NEW S, NEW s \in Seq(S), NEW t \in Seq(S), NEW k \in 1..Len(s), NEW x, s[k] = x,
         IsInserted(t, s, k, x)
  PROVE  IsInserted(t, s, k + 1, x)
<1>1. /\ Len(s) \in Nat /\ Len(t) = Len(s) + 1 /\ k \in Nat /\ t[k] = x
      /\ \A j \in 1..Len(s) : t[Shift(k, j)] = s[j]
  BY LenProperties DEF IsInserted
<1>2. t[k + 1] = x
  <2>1. Shift(k, k) = k + 1
    BY <1>1 DEF Shift
  <2> QED
    BY <1>1, <2>1
<1>3. ASSUME NEW j \in 1..Len(s) PROVE t[Shift(k + 1, j)] = s[j]
  <2>1. CASE j = k
    <3>1. Shift(k + 1, j) = k
      BY <1>1, <2>1 DEF Shift
    <3> QED
      BY <1>1, <2>1, <3>1
  <2>2. CASE j # k
    <3>1. Shift(k + 1, j) = Shift(k, j)
      BY <1>1, <2>2 DEF Shift
    <3> QED
      BY <1>1, <3>1
  <2> QED
    BY <2>1, <2>2
<1>4. k + 1 \in 1..Len(t)
  BY <1>1
<1> QED
  BY <1>1, <1>2, <1>3, <1>4 DEF IsInserted

-----------------------------------------------------------------------------
(* What a disguised text says, to NormalizeText. *)

Says(d, table, p) ==
  /\ DotsBeside(Cleared(d, table))
  /\ collapseWhitespace(Without(Cleared(d, table), ".")) = p

LEMMA NormalizeTextReads ==
  ASSUME NEW d \in Seq(Chars), NEW table \in Tables, NEW p, Says(d, table, p)
  PROVE  NormalizeText(Translate(d, table)) = p
<1>1. removeInterCharacterInsertions(Cleared(d, table)) = Without(Cleared(d, table), ".")
  BY ClearedIs, SeparatorsGo DEF Says
<1>2. NormalizeText(Translate(d, table)) =
        collapseWhitespace(removeInterCharacterInsertions(Cleared(d, table)))
  BY DEF NormalizeText, Cleared
<1> QED
  BY <1>1, <1>2 DEF Says

LEMMA ClearedSame ==
  ASSUME NEW d \in Seq(Chars), NEW t \in Seq(Chars), NEW table \in Tables,
         stripZeroWidth(t) = stripZeroWidth(d)
  PROVE  Cleared(t, table) = Cleared(d, table)
<1>1. /\ Cleared(d, table) \in Seq(Chars) /\ Cleared(t, table) \in Seq(Chars)
      /\ Len(Cleared(d, table)) = Len(stripZeroWidth(d))
      /\ Len(Cleared(t, table)) = Len(stripZeroWidth(d))
      /\ \A j \in 1..Len(stripZeroWidth(d)) : Cleared(d, table)[j] = Cleared(t, table)[j]
  BY ClearedIs
<1> QED
  BY <1>1, SeqEqual

(* Characters that are seen as the same. *)
LEMMA ClearedAlike ==
  ASSUME NEW d \in Seq(Chars), NEW t \in Seq(Chars), NEW table \in Tables, Len(t) = Len(d),
         \A k \in 1..Len(d) : /\ t[k] = "zw" <=> d[k] = "zw"
                              /\ Plain(t[k], table) = Plain(d[k], table)
  PROVE  Cleared(t, table) = Cleared(d, table)
<1> DEFINE P == {i \in DOMAIN d : d[i] # "zw"}
           Q == {i \in DOMAIN t : t[i] # "zw"}
           v == stripZeroWidth(d)
           w == stripZeroWidth(t)
<1>1. DOMAIN d = 1..Len(d) /\ DOMAIN t = 1..Len(d)
  BY LenProperties
<1>2. P = Q /\ P \subseteq DOMAIN d /\ P \subseteq DOMAIN t
  BY <1>1
<1>3. v = Keep(d, P) /\ w = Keep(t, P)
  BY <1>2 DEF stripZeroWidth, Without
<1> HIDE DEF P, Q, v, w
<1>4. PICK f : Enumerates(f, P) /\ Keep(d, P) = Along(d, f)
  BY <1>2, KeepAlong
<1>5. /\ IsAlong(Along(d, f), Chars, d, P, f) /\ IsAlong(Along(t, f), Chars, t, P, f)
      /\ Keep(t, P) = Along(t, f)
  BY <1>2, <1>4, AlongIs, KeepIs
<1>6. /\ Len(v) = Len(f) /\ Len(w) = Len(f)
      /\ \A j \in 1..Len(f) : v[j] = d[f[j]] /\ w[j] = t[f[j]] /\ f[j] \in P
  BY <1>3, <1>4, <1>5 DEF IsAlong
<1>7. \A j \in 1..Len(f) : Plain(w[j], table) = Plain(v[j], table)
  BY <1>1, <1>2, <1>6
<1>8. /\ Cleared(d, table) \in Seq(Chars) /\ Len(Cleared(d, table)) = Len(f)
      /\ Cleared(t, table) \in Seq(Chars) /\ Len(Cleared(t, table)) = Len(f)
      /\ \A j \in 1..Len(f) : /\ Cleared(d, table)[j] = Plain(v[j], table)
                              /\ Cleared(t, table)[j] = Plain(w[j], table)
  BY <1>6, ClearedIs DEF v, w
<1> QED
  BY <1>7, <1>8, SeqEqual

LEMMA ClearedInserted ==
  ASSUME NEW d \in Seq(Chars), NEW t \in Seq(Chars), NEW table \in Tables,
         NEW k, NEW x \in Chars, IsInserted(t, d, k, x), x # "zw"
  PROVE  \E m : /\ IsInserted(Cleared(t, table), Cleared(d, table), m, Plain(x, table))
                /\ IsInserted(stripZeroWidth(t), stripZeroWidth(d), m, x)
                /\ k \in 1..Len(d) /\ d[k] = x =>
                     m \in 1..Len(Cleared(d, table)) /\ Cleared(d, table)[m] = Plain(x, table)
<1> DEFINE v == stripZeroWidth(d)
           w == stripZeroWidth(t)
<1>1. PICK m : /\ IsInserted(w, v, m, x)
               /\ k \in 1..Len(d) /\ d[k] = x => m \in 1..Len(v) /\ v[m] = x
  BY WithoutOther DEF stripZeroWidth
<1>2. /\ v \in Seq(Chars) /\ w \in Seq(Chars)
      /\ Len(Cleared(d, table)) = Len(v) /\ Len(Cleared(t, table)) = Len(w)
      /\ \A j \in 1..Len(v) : Cleared(d, table)[j] = Plain(v[j], table)
      /\ \A j \in 1..Len(w) : Cleared(t, table)[j] = Plain(w[j], table)
  BY ClearedIs
<1> HIDE DEF v, w
<1>3. /\ DOMAIN v = 1..Len(v) /\ DOMAIN w = 1..Len(w)
  BY <1>2, LenProperties
<1>4. /\ m \in 1..Len(w) /\ Len(w) = Len(v) + 1 /\ w[m] = x
      /\ \A j \in 1..Len(v) : Shift(m, j) \in 1..Len(w) /\ w[Shift(m, j)] = v[j]
  BY <1>1, <1>2, <1>3, InsertedPlaces DEF IsInserted
<1>5. IsInserted(Cleared(t, table), Cleared(d, table), m, Plain(x, table))
  BY <1>2, <1>4 DEF IsInserted
<1> QED
  BY <1>1, <1>2, <1>5 DEF v, w

LEMMA InvisibleSays ==
  ASSUME NEW d \in Seq(Chars), NEW t \in Seq(Chars), NEW table \in Tables, NEW p,
         NEW k, IsInserted(t, d, k, "zw"), Says(d, table, p)
  PROVE  Says(t, table, p)
<1>1. stripZeroWidth(t) = stripZeroWidth(d)
  BY WithoutInserted DEF stripZeroWidth
<1> QED
  BY <1>1, ClearedSame DEF Says

LEMMA SeparatorSays ==
  ASSUME NEW d \in Seq(Chars), NEW t \in Seq(Chars), NEW table \in Tables, NEW p,
         NEW k, IsInserted(t, d, k, "."), Says(d, table, p),
         NEW v, v = stripZeroWidth(t), Len(v) >= 3,
         \A j \in DOMAIN v : v[j] = "." =>
           \/ j - 1 \in DOMAIN v /\ (IsLetter(v[j - 1]) \/ v[j - 1] = "4")
           \/ j + 1 \in DOMAIN v /\ (IsLetter(v[j + 1]) \/ v[j + 1] = "4")
  PROVE  Says(t, table, p)
<1>1. /\ v \in Seq(Chars) /\ Cleared(t, table) \in Seq(Chars) /\ Cleared(d, table) \in Seq(Chars)
      /\ Len(Cleared(t, table)) = Len(v)
      /\ \A j \in 1..Len(v) : v[j] \in Chars /\ Cleared(t, table)[j] = Plain(v[j], table)
  BY ClearedIs
<1>2. DOMAIN v = 1..Len(v) /\ Len(v) \in Nat
  BY <1>1, LenProperties
<1>3. \A j \in 1..Len(v) : /\ Cleared(t, table)[j] = "." => v[j] = "."
                           /\ IsLetter(v[j]) \/ v[j] = "4" => IsLetter(Cleared(t, table)[j])
  <2> TAKE j \in 1..Len(v)
  <2>1. v[j] \in Chars /\ Cleared(t, table)[j] = Plain(v[j], table)
    BY <1>1
  <2> QED
    BY <2>1, PlainIs
<1>4. ASSUME NEW j \in 1..Len(v), Cleared(t, table)[j] = "." PROVE Beside(Cleared(t, table), j)
  <2>1. \/ j - 1 \in 1..Len(v) /\ (IsLetter(v[j - 1]) \/ v[j - 1] = "4")
        \/ j + 1 \in 1..Len(v) /\ (IsLetter(v[j + 1]) \/ v[j + 1] = "4")
    BY <1>2, <1>3, <1>4
  <2>2. \/ j - 1 \in 1..Len(v) /\ IsLetter(Cleared(t, table)[j - 1])
        \/ j + 1 \in 1..Len(v) /\ IsLetter(Cleared(t, table)[j + 1])
    BY <1>3, <2>1
  <2>3. j - 1 \in 1..Len(v) => j > 1
    BY <1>2
  <2>4. j + 1 \in 1..Len(v) => j < Len(v)
    BY <1>2
  <2> QED
    BY <1>1, <2>2, <2>3, <2>4 DEF Beside
<1>5. DotsBeside(Cleared(t, table))
  BY <1>1, <1>4 DEF DotsBeside
<1>6. PICK m : IsInserted(Cleared(t, table), Cleared(d, table), m, Plain(".", table))
  <2>1. "." \in Chars /\ "." # "zw"
    BY DEF Chars
  <2> QED
    BY <2>1, ClearedInserted
<1>7. Plain(".", table) = "."
  BY PlainIs DEF Chars
<1>8. Without(Cleared(t, table), ".") = Without(Cleared(d, table), ".")
  BY <1>1, <1>6, <1>7, WithoutInserted
<1> QED
  BY <1>5, <1>8 DEF Says

(* A space put in before a space is beside no separator that was beside a letter. *)
LEMMA DotsStayBeside ==
  ASSUME NEW s \in Seq(Chars), NEW t \in Seq(Chars), NEW m \in 1..Len(s), s[m] = Blank,
         IsInserted(t, s, m, Blank), DotsBeside(s)
  PROVE  DotsBeside(t)
<1>1. /\ Len(s) \in Nat /\ m \in Nat /\ DOMAIN s = 1..Len(s) /\ DOMAIN t = 1..Len(t)
      /\ Len(t) = Len(s) + 1 /\ t[m] = Blank
      /\ \A j \in 1..Len(s) : t[Shift(m, j)] = s[j]
  BY LenProperties DEF IsInserted
<1>2. \A j \in 1..Len(s) : (j < m => t[j] = s[j]) /\ (j >= m => t[j + 1] = s[j])
  <2> TAKE j \in 1..Len(s)
  <2>1. t[Shift(m, j)] = s[j] /\ (j < m \/ j >= m) /\ (j >= m => ~(j < m))
    BY <1>1
  <2> QED
    BY <2>1 DEF Shift
<1>3. ~IsLetter(Blank) /\ Blank # "."
  BY SignsApart DEF IsLetter
<1> SUFFICES ASSUME NEW n \in 1..Len(t), t[n] = "." PROVE Beside(t, n)
  BY DEF DotsBeside
<1>4. n # m
  BY <1>1, <1>3
<1>5. CASE n < m
  <2>1. n \in 1..Len(s) /\ s[n] = "."
    BY <1>1, <1>2, <1>5
  <2>2. Beside(s, n)
    BY <2>1 DEF DotsBeside
  <2>3. CASE n > 1 /\ IsLetter(s[n - 1])
    <3>1. n - 1 \in 1..Len(s) /\ n - 1 < m
      BY <1>1, <1>5, <2>3
    <3>2. t[n - 1] = s[n - 1]
      BY <1>2, <3>1
    <3> QED
      BY <1>1, <2>2, <2>3, <3>2 DEF Beside
  <2>4. CASE n < Len(s) /\ IsLetter(s[n + 1])
    <3>1. n + 1 \in 1..Len(s) /\ n + 1 # m
      BY <1>1, <1>3, <2>4
    <3>2. n + 1 < m
      BY <1>1, <1>5, <3>1
    <3>3. t[n + 1] = s[n + 1] /\ n < Len(t)
      BY <1>1, <1>2, <2>4, <3>1, <3>2
    <3> QED
      BY <1>1, <2>2, <2>4, <3>3 DEF Beside
  <2> QED
    BY <2>2, <2>3, <2>4 DEF Beside
<1>6. CASE n > m
  <2> DEFINE q == n - 1
  <2>1. q \in 1..Len(s) /\ q >= m /\ n = q + 1
    BY <1>1, <1>6
  <2> HIDE DEF q
  <2>2. s[q] = "."
    BY <1>2, <2>1
  <2>3. Beside(s, q) /\ q # m
    BY <1>3, <2>1, <2>2 DEF DotsBeside
  <2>4. CASE q > 1 /\ IsLetter(s[q - 1])
    <3> DEFINE o == q - 1
    <3>1. o \in 1..Len(s) /\ o >= m /\ o + 1 = q /\ n - 1 = q /\ n > 1
      BY <1>1, <2>1, <2>3, <2>4
    <3> HIDE DEF o
    <3>2. t[q] = s[o]
      BY <1>2, <3>1
    <3>3. IsLetter(t[n - 1])
      BY <2>4, <3>1, <3>2 DEF o
    <3> QED
      BY <1>1, <2>3, <3>1, <3>3 DEF Beside
  <2>5. CASE q < Len(s) /\ IsLetter(s[q + 1])
    <3>1. q + 1 \in 1..Len(s) /\ q + 1 >= m /\ q + 1 = n /\ n < Len(t)
      BY <1>1, <2>1, <2>5
    <3>2. t[n + 1] = s[q + 1]
      BY <1>2, <3>1
    <3> QED
      BY <1>1, <2>3, <2>5, <3>1, <3>2 DEF Beside
  <2> QED
    BY <2>3, <2>4, <2>5 DEF Beside
<1> QED
  BY <1>1, <1>4, <1>5, <1>6

LEMMA SpaceSays ==
  ASSUME NEW d \in Seq(Chars), NEW t \in Seq(Chars), NEW table \in Tables, NEW p,
         NEW k \in 1..Len(d), d[k] = Blank, IsInserted(t, d, k, Blank), Says(d, table, p)
  PROVE  Says(t, table, p)
<1> DEFINE v == Cleared(d, table)
           w == Cleared(t, table)
<1>1. Blank \in Chars /\ Blank # "zw" /\ Blank # "." /\ Plain(Blank, table) = Blank
  <2>1. Blank \in Chars
    BY DEF Chars
  <2> QED
    BY <2>1, PlainIs, SignsApart
<1>2. PICK m : /\ IsInserted(w, v, m, Blank)
               /\ m \in 1..Len(v) /\ v[m] = Blank
  BY <1>1, ClearedInserted
<1>3. v \in Seq(Chars) /\ w \in Seq(Chars) /\ DotsBeside(v)
      /\ collapseWhitespace(Without(v, ".")) = p
  BY ClearedIs DEF Says
<1> HIDE DEF v, w
<1>4. DotsBeside(w)
  BY <1>2, <1>3, DotsStayBeside
<1> DEFINE x == Without(v, ".")
           y == Without(w, ".")
<1>5. PICK q : /\ IsInserted(y, x, q, Blank)
               /\ q \in 1..Len(x) /\ x[q] = Blank
  BY <1>1, <1>2, <1>3, WithoutOther
<1>6. x \in Seq(Chars) /\ y \in Seq(Chars)
  BY <1>3, WithoutIs
<1> HIDE DEF x, y
<1>7. IsInserted(y, x, q + 1, Blank)
  BY <1>5, <1>6, InsertedAfter
<1>8. collapseWhitespace(y) = collapseWhitespace(x)
  BY <1>5, <1>6, <1>7, CollapseInserted
<1> QED
  BY <1>3, <1>4, <1>8 DEF Says, v, w, x, y

LEMMA PhraseIs ==
  ASSUME NEW p \in Phrases
  PROVE  /\ p \in Seq({"a", "n", Blank}) /\ p \in Seq(Chars)
         /\ Len(p) \in Nat /\ Len(p) >= 1 /\ DOMAIN p = 1..Len(p)
         /\ \A j \in 1..Len(p) : p[j] \in {"a", "n", Blank}
         /\ p[1] # Blank /\ p[Len(p)] # Blank
         /\ \A i \in 2..Len(p) : ~(p[i] = Blank /\ p[i - 1] = Blank)
<1>1. PICK n \in 1..MaxPhrase : p \in [1..n -> {"a", "n", Blank}]
  BY Zenon DEF Phrases, Blank
<1>2. n \in Nat /\ n >= 1
  BY NormalizeAssumption
<1>3. p \in Seq({"a", "n", Blank}) /\ Len(p) = n /\ DOMAIN p = 1..n
  BY <1>1, <1>2, FunctionIsSeq
<1>4. p[1] # Blank /\ p[Len(p)] # Blank /\ \A i \in 2..Len(p) : ~(p[i] = Blank /\ p[i - 1] = Blank)
  BY Zenon DEF Phrases, Last, Blank
<1>5. \A j \in 1..Len(p) : p[j] \in {"a", "n", Blank}
  BY <1>1, <1>3
<1>6. p \in Seq(Chars)
  <2>1. \A j \in 1..n : p[j] \in Chars
    BY <1>3, <1>5 DEF Chars
  <2>2. p \in [1..n -> Chars]
    BY <1>1, <2>1
  <2> QED
    BY <1>2, <2>2, FunctionIsSeq
<1> QED
  BY <1>2, <1>3, <1>4, <1>5, <1>6

(* In a phrase there is nothing to collapse. *)
LEMMA PhraseCollapsed ==
  ASSUME NEW p \in Phrases
  PROVE  collapseWhitespace(p) = p
<1>1. /\ p \in Seq(Chars) /\ Len(p) \in Nat /\ Len(p) >= 1 /\ DOMAIN p = 1..Len(p)
      /\ p[1] # Blank /\ p[Len(p)] # Blank
      /\ \A i \in 2..Len(p) : ~(p[i] = Blank /\ p[i - 1] = Blank)
  BY PhraseIs
<1>2. Words(p) = {i \in 1..Len(p) : p[i] # Blank}
  BY <1>1 DEF Words
<1>3. ASSUME NEW i \in 1..Len(p), i \notin Words(p)
      PROVE  i - 1 \in Words(p) /\ Spaced(p, i)
  <2>1. p[i] = Blank /\ i # 1 /\ i # Len(p)
    BY <1>1, <1>2, <1>3
  <2>2. i \in 2..Len(p) /\ i - 1 \in 1..Len(p) /\ Len(p) > i /\ Len(p) \in 1..Len(p)
    <3>1. Len(p) \in Nat /\ i \in 1..Len(p) /\ i # 1 /\ i # Len(p)
      BY <1>1, <2>1
    <3> QED
      BY <3>1
  <2>3. i - 1 \in Words(p)
    BY <1>1, <1>2, <2>1, <2>2
  <2>4. Spaced(p, i)
    BY <1>1, <1>2, <2>2 DEF Spaced
  <2> QED
    BY <2>3, <2>4
<1>4. Collapsed(p) = DOMAIN p
  BY <1>1, <1>3 DEF Collapsed
<1> QED
  BY <1>1, <1>4, CollapseIs, KeptAll

(* A text that only has to be decoded. *)
LEMMA DecodedSays ==
  ASSUME NEW p \in Phrases, NEW d \in Seq(Chars), NEW table \in Tables, Len(d) = Len(p),
         \A j \in 1..Len(p) : d[j] # "zw" /\ Plain(d[j], table) = p[j]
  PROVE  Says(d, table, p)
<1>1. stripZeroWidth(d) = d
  BY WithoutIs DEF stripZeroWidth
<1>2. Cleared(d, table) = p
  <2>1. /\ Cleared(d, table) \in Seq(Chars) /\ Len(Cleared(d, table)) = Len(p)
        /\ \A j \in 1..Len(p) : Cleared(d, table)[j] = p[j]
    BY <1>1, ClearedIs
  <2> QED
    BY <2>1, PhraseIs, SeqEqual
<1>3. \A j \in 1..Len(p) : p[j] # "."
  BY PhraseIs, SignsApart
<1>4. Without(p, ".") = p
  BY <1>3, PhraseIs, WithoutIs
<1> QED
  BY <1>2, <1>3, <1>4, PhraseCollapsed DEF Says, DotsBeside

-----------------------------------------------------------------------------
(* Words decoded on their own. *)

InTime(s, r) == Cardinality({q \in LetterRuns(s) : q[1] < r[1]}) < maxSliding

LEMMA RunIs ==
  ASSUME NEW s \in Seq(Chars), NEW r \in LetterRuns(s)
  PROVE  /\ r[1] \in 1..Len(s) /\ r[2] \in 1..Len(s) /\ r[1] <= r[2] /\ r = <<r[1], r[2]>>
         /\ \A i \in r[1]..r[2] : IsLetter(s[i])
         /\ r[2] < Len(s) => ~IsLetter(s[r[2] + 1])
<1>1. r \in (1..Len(s)) \X (1..Len(s)) /\ r[2] - r[1] + 1 >= minRun
  BY DEF LetterRuns
<1>2. minRun \in Nat \ {0} /\ Len(s) \in Nat
  BY NormalizeAssumption, LenProperties
<1>3. r[1] \in 1..Len(s) /\ r[2] \in 1..Len(s) /\ r = <<r[1], r[2]>>
  BY <1>1
<1>4. r[1] <= r[2]
  BY <1>1, <1>2, <1>3
<1> QED
  BY <1>3, <1>4 DEF LetterRuns

LEMMA RunOfStart ==
  ASSUME NEW s \in Seq(Chars), NEW r \in LetterRuns(s), NEW q \in LetterRuns(s), r[1] = q[1]
  PROVE  r = q
<1>1. ASSUME NEW a \in LetterRuns(s), NEW b \in LetterRuns(s), a[1] = b[1]
      PROVE  ~(a[2] < b[2])
  <2> SUFFICES ASSUME a[2] < b[2] PROVE FALSE
    OBVIOUS
  <2>1. /\ a[1] \in 1..Len(s) /\ a[2] \in 1..Len(s) /\ a[1] <= a[2]
        /\ b[1] \in 1..Len(s) /\ b[2] \in 1..Len(s) /\ Len(s) \in Nat
    BY RunIs, LenProperties
  <2>2. a[2] + 1 \in b[1]..b[2] /\ a[2] < Len(s)
    BY <1>1, <2>1
  <2> QED
    BY <2>2, RunIs
<1>2. r[2] \in Nat /\ q[2] \in Nat /\ r = <<r[1], r[2]>> /\ q = <<q[1], q[2]>>
  BY RunIs, LenProperties
<1>3. r[2] = q[2]
  BY <1>1, <1>2
<1> QED
  BY <1>2, <1>3

LEMMA RunsFinite ==
  ASSUME NEW s \in Seq(Chars)
  PROVE  IsFiniteSet(LetterRuns(s))
<1>1. Len(s) \in Nat
  BY LenProperties
<1>2. IsFiniteSet(1..Len(s))
  BY <1>1, FS_Interval
<1>3. IsFiniteSet((1..Len(s)) \X (1..Len(s)))
  BY <1>2, FS_Product
<1>4. LetterRuns(s) \in SUBSET ((1..Len(s)) \X (1..Len(s)))
  BY DEF LetterRuns
<1> QED
  BY <1>3, <1>4, FS_Subset

LEMMA DecodedIs ==
  ASSUME NEW s \in Seq(Chars), NEW r
  PROVE  /\ Decoded(s, r) \in Seq(Chars) /\ Len(Decoded(s, r)) = Len(s) /\ Len(s) \in Nat
         /\ \A i \in 1..Len(s) : /\ s[i] \in Chars
                                 /\ i \in r[1]..r[2] => Decoded(s, r)[i] = Sub(s[i], ROT13)
                                 /\ i \notin r[1]..r[2] => Decoded(s, r)[i] = s[i]
<1> DEFINE d == Decoded(s, r)
<1>1. DOMAIN s = 1..Len(s) /\ Len(s) \in Nat /\ \A i \in 1..Len(s) : s[i] \in Chars
  BY LenProperties, ElementOfSeq
<1>2. d = [i \in 1..Len(s) |-> IF i \in r[1]..r[2] THEN Sub(s[i], ROT13) ELSE s[i]]
  BY <1>1 DEF Decoded, Sub
<1> HIDE DEF d
<1>3. \A i \in 1..Len(s) : /\ i \in r[1]..r[2] => d[i] = Sub(s[i], ROT13)
                           /\ i \notin r[1]..r[2] => d[i] = s[i]
  BY <1>2
<1>4. ASSUME NEW i \in 1..Len(s) PROVE d[i] \in Chars
  <2>1. s[i] \in Chars /\ ROT13 \in Tables \cup {Homoglyph, L33t}
    BY <1>1 DEF Tables
  <2>2. Sub(s[i], ROT13) \in Chars
    BY <2>1, SubIs
  <2> QED
    BY <1>3, <2>1, <2>2
<1>5. d \in [1..Len(s) -> Chars]
  BY <1>2, <1>4
<1>6. d \in Seq(Chars) /\ Len(d) = Len(s)
  BY <1>1, <1>5, FunctionIsSeq
<1> QED
  BY <1>1, <1>3, <1>6 DEF d

(* A run begins no later than as many runs before it allow. *)
LEMMA RunInTime ==
  ASSUME NEW s \in Seq(Chars), NEW r \in LetterRuns(s), InTime(s, r),
         NEW f, Enumerates(f, {q[1] : q \in LetterRuns(s)}), NEW m \in 1..Len(f), f[m] = r[1]
  PROVE  m <= maxSliding
<1> DEFINE E == {q \in LetterRuns(s) : q[1] < r[1]}
<1>1. Cardinality(E) < maxSliding
  BY DEF InTime
<1>2. IsFiniteSet(E) /\ Cardinality(E) \in Nat
  <2>1. E \in SUBSET LetterRuns(s)
    OBVIOUS
  <2> HIDE DEF E
  <2> QED
    BY <2>1, RunsFinite, FS_Subset, FS_CardinalityType
<1>3. maxSliding \in Nat /\ Len(f) \in Nat /\ m \in Nat
  <2>1. f \in Seq(Nat)
    BY DEF Enumerates
  <2> QED
    BY <2>1, LenProperties, NormalizeAssumption
<1> SUFFICES ASSUME m > maxSliding PROVE FALSE
  BY <1>3
<1> DEFINE n == m - 1
           g == [i \in 1..n |-> CHOOSE q \in LetterRuns(s) : q[1] = f[i]]
<1>4. n \in Nat /\ n >= maxSliding /\ \A i \in 1..n : i \in 1..Len(f) /\ i < m
  BY <1>3
<1> HIDE DEF n
<1>5. ASSUME NEW i \in 1..n PROVE g[i] \in E /\ g[i][1] = f[i]
  <2>1. Occurs(f, f[i])
    BY <1>4 DEF Occurs
  <2>2. \E q \in LetterRuns(s) : q[1] = f[i]
    BY <2>1 DEF Enumerates
  <2>3. g[i] \in LetterRuns(s) /\ g[i][1] = f[i]
    BY <2>2
  <2>4. f[i] < r[1]
    BY <1>4, InOrderOf
  <2> QED
    BY <2>3, <2>4
<1>6. g \in [1..n -> E]
  BY <1>5
<1>7. IsFiniteSet(1..n) /\ Cardinality(1..n) = n
  <2>1. Cardinality(1..n) = IF 1 > n THEN 0 ELSE n - 1 + 1
    BY <1>4, FS_Interval
  <2> QED
    BY <1>4, <2>1, FS_Interval
<1>8. Cardinality(E) < Cardinality(1..n)
  BY <1>1, <1>2, <1>3, <1>4, <1>7
<1> HIDE DEF E, g
<1>9. PICK i, j \in 1..n : i # j /\ g[i] = g[j]
  <2> DEFINE N == 1..n
  <2>1. IsFiniteSet(N) /\ Cardinality(E) < Cardinality(N) /\ g \in [N -> E]
    BY <1>6, <1>7, <1>8
  <2> HIDE DEF N
  <2>2. \E i, j \in N : i # j /\ g[i] = g[j]
    BY <1>2, <2>1, FS_PigeonHole
  <2> QED
    BY <2>2 DEF N
<1>10. f[i] = f[j] /\ i \in 1..Len(f) /\ j \in 1..Len(f)
  BY <1>4, <1>5, <1>9
<1> QED
  BY <1>9, <1>10, InOrderOf

LEMMA SlidingIs ==
  ASSUME NEW s \in Seq(Chars)
  PROVE  /\ NormalizeSlidingROT13(s) \in Seq(Seq(Chars))
         /\ \A r \in LetterRuns(s) : InTime(s, r) /\ Decoded(s, r) # s =>
              \E j \in 1..Len(NormalizeSlidingROT13(s)) :
                 NormalizeSlidingROT13(s)[j] = Decoded(s, r)
<1> DEFINE A == {r[1] : r \in LetterRuns(s)}
           f == Select([i \in DOMAIN s |-> i], A)
           list == [n \in DOMAIN f |->
                      Decoded(s, CHOOSE r \in LetterRuns(s) : r[1] = f[n])]
           rest == AllBut(list, s)
           all == Once(rest)
           M == IF Len(all) < maxSliding THEN Len(all) ELSE maxSliding
<1>1. NormalizeSlidingROT13(s) = SubSeq(all, 1, M)
  BY DEF NormalizeSlidingROT13
<1>2. Enumerates(f, A)
  <2>1. A \subseteq DOMAIN s
    <3>1. \A r \in LetterRuns(s) : r[1] \in 1..Len(s)
      BY RunIs
    <3> QED
      BY <3>1, LenProperties
  <2> HIDE DEF A
  <2> QED
    BY <2>1, PlacesEnumerated
<1>3. \A n \in DOMAIN f : list[n] = Decoded(s, CHOOSE r \in LetterRuns(s) : r[1] = f[n])
  OBVIOUS
<1> HIDE DEF f
<1>4. DOMAIN f = 1..Len(f) /\ Len(f) \in Nat
  <2>1. f \in Seq(Nat)
    BY <1>2 DEF Enumerates
  <2> QED
    BY <2>1, LenProperties
<1>5. list \in Seq(Seq(Chars)) /\ Len(list) = Len(f)
  <2>1. list \in [1..Len(f) -> Seq(Chars)]
    BY <1>4, DecodedIs
  <2> HIDE DEF list
  <2> QED
    BY <1>4, <2>1, FunctionIsSeq
<1> HIDE DEF list
<1>6. /\ rest \in Seq(Seq(Chars)) /\ Len(rest) \in Nat
      /\ \A i \in 1..Len(list) : list[i] # s => \E j \in 1..Len(rest) : rest[j] = list[i] /\ j <= i
  <2> DEFINE T == Seq(Chars)
  <2>1. list \in Seq(T)
    BY <1>5
  <2> HIDE DEF T
  <2>2. rest \in Seq(T) /\ Len(rest) \in Nat
    BY <2>1, AllButIs
  <2>3. \A i \in 1..Len(list) : list[i] # s => \E j \in 1..Len(rest) : rest[j] = list[i] /\ j <= i
    BY <2>1, AllButIs
  <2> QED
    BY <2>2, <2>3 DEF T
<1> HIDE DEF rest
<1>7. /\ all \in Seq(Seq(Chars)) /\ Len(all) \in Nat
      /\ \A i \in 1..Len(rest) : \E j \in 1..Len(all) : all[j] = rest[i] /\ j <= i
  BY <1>6, OnceIs
<1> HIDE DEF all
<1>8. maxSliding \in Nat /\ M \in Nat /\ M <= Len(all) /\ M <= maxSliding
      /\ (M = Len(all) \/ M = maxSliding)
  BY <1>7, NormalizeAssumption
<1> HIDE DEF M
<1>9. /\ SubSeq(all, 1, M) \in Seq(Seq(Chars)) /\ Len(SubSeq(all, 1, M)) = M
      /\ \A i \in 1..M : SubSeq(all, 1, M)[i] = all[i]
  <2>1. \A i \in 1..M : all[i] \in Seq(Chars) /\ 1 + i - 1 = i
    <3> TAKE i \in 1..M
    <3>1. i \in 1..Len(all) /\ 1 + i - 1 = i
      BY <1>7, <1>8
    <3> QED
      BY <1>7, <3>1, ElementOfSeq
  <2>2. /\ SubSeq(all, 1, M) \in Seq(Seq(Chars))
        /\ Len(SubSeq(all, 1, M)) = IF 1 <= M THEN M - 1 + 1 ELSE 0
        /\ \A i \in 1..M - 1 + 1 : SubSeq(all, 1, M)[i] = all[1 + i - 1]
    BY <1>8, <2>1, SubSeqProperties
  <2>3. M - 1 + 1 = M /\ (~(1 <= M) => M = 0)
    BY <1>8
  <2> QED
    BY <2>1, <2>2, <2>3
<1>10. ASSUME NEW r \in LetterRuns(s), InTime(s, r), Decoded(s, r) # s
       PROVE  \E j \in 1..M : SubSeq(all, 1, M)[j] = Decoded(s, r)
  <2>1. Occurs(f, r[1])
    BY <1>2 DEF Enumerates
  <2>2. PICK m \in 1..Len(f) : f[m] = r[1]
    BY <2>1 DEF Occurs
  <2>3. m <= maxSliding
    BY <1>2, <1>10, <2>2, RunInTime
  <2>4. list[m] = Decoded(s, r)
    <3> DEFINE q == CHOOSE q \in LetterRuns(s) : q[1] = f[m]
    <3>1. q \in LetterRuns(s) /\ q[1] = r[1]
      BY <2>2
    <3>2. list[m] = Decoded(s, q)
      BY <1>3, <1>4
    <3> HIDE DEF q
    <3>3. q = r
      BY <3>1, RunOfStart
    <3> QED
      BY <3>2, <3>3
  <2>5. PICK h \in 1..Len(rest) : rest[h] = list[m] /\ h <= m
    BY <1>5, <1>6, <1>10, <2>4
  <2>6. PICK j \in 1..Len(all) : all[j] = rest[h] /\ j <= h
    BY <1>7
  <2>7. j \in 1..M
    <3>1. /\ j \in Nat /\ h \in Nat /\ m \in Nat /\ 1 <= j /\ j <= h /\ h <= m
          /\ j <= Len(all)
      BY <1>4, <1>6, <1>7, <2>5, <2>6
    <3>2. m \in Nat /\ Len(all) \in Nat /\ M \in Nat /\ maxSliding \in Nat /\ m <= maxSliding
          /\ (M = Len(all) \/ M = maxSliding)
      BY <1>7, <1>8, <2>3, <3>1
    <3> QED
      BY <3>1, <3>2
  <2> QED
    BY <1>9, <2>4, <2>5, <2>6, <2>7
<1> QED
  BY <1>1, <1>9, <1>10

-----------------------------------------------------------------------------
(* The variants of a text. *)

LEMMA NormalizeTextType ==
  ASSUME NEW s \in Seq(Chars)
  PROVE  NormalizeText(s) \in Seq(Chars)
<1> DEFINE t == Translate(Translate(stripZeroWidth(s), Homoglyph), L33t)
           u == removeInterCharacterInsertions(t)
<1>1. t \in Seq(Chars)
  <2>1. stripZeroWidth(s) \in Seq(Chars)
    BY WithoutIs DEF stripZeroWidth
  <2>2. Translate(stripZeroWidth(s), Homoglyph) \in Seq(Chars)
    BY <2>1, TranslatedChars
  <2> QED
    BY <2>2, TranslatedChars
<1> HIDE DEF t
<1>2. u \in Seq(Chars)
  <2> DEFINE P == {i \in DOMAIN t : ~(/\ t[i] = "."
                                      /\ \/ i > 1 /\ IsLetter(t[i - 1])
                                         \/ i < Len(t) /\ IsLetter(t[i + 1]))}
  <2>1. P \subseteq DOMAIN t
    OBVIOUS
  <2>2. u = IF Len(t) < 3 THEN t ELSE Keep(t, P)
    BY DEF removeInterCharacterInsertions
  <2> HIDE DEF P, u
  <2> QED
    BY <1>1, <2>1, <2>2, KeptElements
<1> HIDE DEF u
<1>3. collapseWhitespace(u) \in Seq(Chars)
  BY <1>2, CollapseIs, KeptElements
<1> QED
  BY <1>3 DEF NormalizeText, t, u

LEMMA RepeatedType ==
  ASSUME NEW s \in Seq(Chars)
  PROVE  NormalizeRepeatingChars(s) \in Seq(Chars)
<1> DEFINE P == {i \in DOMAIN s : ~(i > 2 /\ s[i] = s[i - 1] /\ s[i - 1] = s[i - 2])}
<1>1. NormalizeRepeatingChars(s) = Keep(s, P) /\ P \subseteq DOMAIN s
  BY DEF NormalizeRepeatingChars
<1> HIDE DEF P
<1> QED
  BY <1>1, KeptElements

(* The derived texts, before the empty ones and the repeated ones go. *)
Derived(s) ==
  << s, NormalizeText(s), Translate(s, KeyWalkReverse), Translate(s, ROT13),
     NormalizeText(Translate(s, KeyWalkReverse)), NormalizeText(Translate(s, ROT13)),
     NormalizeRepeatingChars(s), Without(s, Slash), Translate(s, Homoglyph),
     NormalizeText(Translate(s, Homoglyph)) >>

LEMMA DerivedIs ==
  ASSUME NEW s \in Seq(Chars)
  PROVE  /\ Derived(s) \in Seq(Seq(Chars)) /\ Len(Derived(s)) = 10
         /\ Derived(s)[1] = s
         /\ Derived(s)[2] = NormalizeText(s)
         /\ Derived(s)[5] = NormalizeText(Translate(s, KeyWalkReverse))
         /\ Derived(s)[6] = NormalizeText(Translate(s, ROT13))
         /\ Derived(s)[8] = Without(s, Slash)
<1> DEFINE a1 == NormalizeText(s)
           a2 == Translate(s, KeyWalkReverse)
           a3 == Translate(s, ROT13)
           a4 == NormalizeText(a2)
           a5 == NormalizeText(a3)
           a6 == NormalizeRepeatingChars(s)
           a7 == Without(s, Slash)
           a8 == Translate(s, Homoglyph)
           a9 == NormalizeText(a8)
<1>1. a2 \in Seq(Chars) /\ a3 \in Seq(Chars) /\ a8 \in Seq(Chars)
  BY TranslatedChars DEF Tables
<1>2. a1 \in Seq(Chars) /\ a6 \in Seq(Chars) /\ a7 \in Seq(Chars)
  BY NormalizeTextType, RepeatedType, WithoutIs
<1>3. a4 \in Seq(Chars) /\ a5 \in Seq(Chars) /\ a9 \in Seq(Chars)
  <2> HIDE DEF a2, a3, a8
  <2> QED
    BY <1>1, NormalizeTextType
<1>4. Derived(s) = <<s, a1, a2, a3, a4, a5, a6, a7, a8, a9>>
  BY DEF Derived
<1>5. Derived(s)[5] = a4 /\ Derived(s)[6] = a5
  <2> HIDE DEF a1, a2, a3, a4, a5, a6, a7, a8, a9
  <2> QED
    BY <1>4
<1>6. /\ Derived(s) \in Seq(Seq(Chars)) /\ Len(Derived(s)) = 10
      /\ Derived(s)[1] = s /\ Derived(s)[2] = a1 /\ Derived(s)[8] = a7
  <2> HIDE DEF a1, a2, a3, a4, a5, a6, a7, a8, a9
  <2> QED
    BY <1>1, <1>2, <1>3, <1>4
<1> QED
  BY <1>5, <1>6

AreVariants(v, s) ==
  /\ v \in Seq(Seq(Chars))
  /\ 1 \in 1..Len(v) /\ v[1] = s
  /\ \A i, j \in 1..Len(v) : v[i] = v[j] => i = j
  /\ \A i \in 1..10 : Derived(s)[i] # <<>> => Occurs(v, Derived(s)[i])
  /\ \A i \in 1..Len(NormalizeSlidingROT13(s)) :
       NormalizeSlidingROT13(s)[i] # <<>> => Occurs(v, NormalizeSlidingROT13(s)[i])

LEMMA VariantsAre ==
  ASSUME NEW s \in Seq(Chars), s # <<>>, NEW v, v = NormalizeAllVariants(s)
  PROVE  AreVariants(v, s)
<1> DEFINE b == Derived(s)
           c == NormalizeSlidingROT13(s)
           list == b \o c
           none == <<>>
           rest == AllBut(list, none)
<1>1. v = Once(rest)
  BY Zenon DEF NormalizeAllVariants, Derived, Normalized, Slash
<1>2. /\ b \in Seq(Seq(Chars)) /\ Len(b) = 10 /\ b[1] = s
      /\ c \in Seq(Seq(Chars)) /\ Len(c) \in Nat
  BY DerivedIs, SlidingIs, LenProperties
<1> HIDE DEF b, c
<1>3. /\ list \in Seq(Seq(Chars)) /\ Len(list) = 10 + Len(c)
      /\ \A i \in 1..10 : i \in 1..Len(list) /\ list[i] = b[i]
      /\ \A i \in 1..Len(c) : i + 10 \in 1..Len(list) /\ list[i + 10] = c[i]
  <2>0. /\ list \in Seq(Seq(Chars)) /\ Len(list) = Len(b) + Len(c)
        /\ \A i \in 1..Len(b) + Len(c) :
             list[i] = IF i <= Len(b) THEN b[i] ELSE c[i - Len(b)]
    BY <1>2, ConcatProperties
  <2>1. /\ list \in Seq(Seq(Chars)) /\ Len(list) = 10 + Len(c)
        /\ \A i \in 1..10 + Len(c) : list[i] = IF i <= 10 THEN b[i] ELSE c[i - 10]
    <3> HIDE DEF list
    <3> QED
      BY <1>2, <2>0
  <2> HIDE DEF list
  <2>2. \A i \in 1..10 : i \in 1..10 + Len(c) /\ i <= 10
    BY <1>2
  <2>3. \A i \in 1..Len(c) : i + 10 \in 1..10 + Len(c) /\ ~(i + 10 <= 10) /\ (i + 10) - 10 = i
    BY <1>2
  <2>4. \A i \in 1..10 : i \in 1..Len(list) /\ list[i] = b[i]
    BY <2>1, <2>2
  <2>5. ASSUME NEW i \in 1..Len(c) PROVE i + 10 \in 1..Len(list) /\ list[i + 10] = c[i]
    BY <2>1, <2>3
  <2> QED
    BY <2>1, <2>4, <2>5
<1> HIDE DEF list
<1>4. /\ rest \in Seq(Seq(Chars)) /\ Len(rest) \in Nat
      /\ \A i \in 1..Len(list) : list[i] # <<>> =>
           \E j \in 1..Len(rest) : rest[j] = list[i] /\ j <= i
  <2> DEFINE T == Seq(Chars)
  <2>0. list \in Seq(T)
    BY <1>3
  <2> HIDE DEF none, T
  <2>1. /\ rest \in Seq(T) /\ Len(rest) \in Nat
        /\ \A i \in 1..Len(list) : list[i] # none =>
             \E j \in 1..Len(rest) : rest[j] = list[i] /\ j <= i
    BY <2>0, AllButIs
  <2> HIDE DEF rest
  <2> QED
    BY <2>1 DEF none, T
<1> HIDE DEF rest, none
<1>5. /\ v \in Seq(Seq(Chars)) /\ Len(v) \in Nat
      /\ \A i \in 1..Len(rest) : \E j \in 1..Len(v) : v[j] = rest[i] /\ j <= i
      /\ \A j, k \in 1..Len(v) : j # k => v[j] # v[k]
  <2> DEFINE T == Seq(Chars)
  <2>1. rest \in Seq(T)
    BY <1>4
  <2> HIDE DEF T
  <2>2. v \in Seq(T)
    BY <1>1, <2>1, OnceIs
  <2>3. \A i \in 1..Len(rest) : \E j \in 1..Len(v) : v[j] = rest[i] /\ j <= i
    BY <1>1, <2>1, OnceIs
  <2>4. \A j, k \in 1..Len(v) : j # k => v[j] # v[k]
    BY <1>1, <2>1, OnceIs
  <2> QED
    BY <2>2, <2>3, <2>4, LenProperties DEF T
<1>6. ASSUME NEW i \in 1..Len(list), list[i] # <<>>
      PROVE  \E j \in 1..Len(v) : v[j] = list[i] /\ j <= i
  <2>1. PICK h \in 1..Len(rest) : rest[h] = list[i] /\ h <= i
    BY <1>4, <1>6
  <2>2. PICK j \in 1..Len(v) : v[j] = rest[h] /\ j <= h
    BY <1>5
  <2>3. j <= i
    BY <1>3, <1>4, <1>5, <2>1, <2>2
  <2> QED
    BY <2>1, <2>2, <2>3
<1>7. 1 \in 1..Len(v) /\ v[1] = s
  <2>1. 1 \in 1..Len(list) /\ list[1] = s
    BY <1>2, <1>3
  <2>2. PICK j \in 1..Len(v) : v[j] = s /\ j <= 1
    BY <1>6, <2>1
  <2>3. j = 1
    BY <1>5, <2>2
  <2> QED
    BY <2>2, <2>3
<1>8. \A i \in 1..10 : b[i] # <<>> => Occurs(v, b[i])
  BY <1>3, <1>6 DEF Occurs
<1>9. \A i \in 1..Len(c) : c[i] # <<>> => Occurs(v, c[i])
  BY <1>3, <1>6 DEF Occurs
<1> QED
  BY <1>5, <1>7, <1>8, <1>9 DEF AreVariants, b, c

-----------------------------------------------------------------------------
(* The invariant: a disguise can be undone, in the way of its kind. *)

TableOf(kind) ==
  CASE kind = "rot13" -> ROT13
    [] kind = "keyboard walk" -> KeyWalkReverse
    [] OTHER -> NoTable

Undisguised == disguise.kind = "none" => disguised = phrase
StillSays == disguise.kind \in Normalizable => Says(disguised, TableOf(disguise.kind), phrase)
WordRotated ==
  disguise.kind = "word" =>
    \E r \in LetterRuns(disguised) : Decoded(disguised, r) = phrase /\ InTime(disguised, r)
OnlySlashes == disguise.kind = "backslash" => Without(disguised, Slash) = phrase

DisguiseInv ==
  /\ phrase \in Phrases
  /\ disguised \in Seq(Chars) /\ Len(disguised) >= 1
  /\ disguise.kind \in Kinds
  /\ Undisguised
  /\ StillSays
  /\ WordRotated
  /\ OnlySlashes

LEMMA TableOfIs ==
  ASSUME NEW kind
  PROVE  /\ TableOf(kind) \in Tables
         /\ kind \in {"none", "text", "word", "backslash"} => TableOf(kind) = NoTable
         /\ kind = "rot13" => TableOf(kind) = ROT13
         /\ kind = "keyboard walk" => TableOf(kind) = KeyWalkReverse
BY DEF TableOf, Tables

LEMMA NoTableIs ==
  ASSUME NEW s \in Seq(Chars)
  PROVE  Translate(s, NoTable) = s
<1>1. s = [i \in DOMAIN s |-> s[i]]
  BY LenProperties
<1> QED
  BY <1>1 DEF Translate, NoTable

LEMMA PhraseCharacters ==
  ASSUME NEW c \in {"a", "n", Blank}
  PROVE  /\ c \in Chars /\ c # "zw" /\ c # Slash /\ Plain(c, NoTable) = c
         /\ Sub(c, ROT13) \in Chars /\ Sub(c, ROT13) # "zw" /\ Plain(Sub(c, ROT13), ROT13) = c
         /\ Sub(Sub(c, ROT13), ROT13) = c
         /\ IsLetter(c) <=> IsLetter(Sub(c, ROT13))
         /\ Sub(c, KeyWalk) \in Chars /\ Sub(c, KeyWalk) # "zw"
         /\ Plain(Sub(c, KeyWalk), KeyWalkReverse) = c
<1>1. /\ c \in Chars /\ c # "zw" /\ c # Slash /\ ~IsLetter(Blank)
      /\ IsLetter("a") /\ IsLetter("n") /\ IsLetter("s") /\ IsLetter("m")
      /\ {"a", "n", "s", "m", Blank} \subseteq Chars /\ "zw" \notin {"a", "n", "s", "m", Blank}
  BY SignsApart DEF Chars, IsLetter
<1>2. /\ Sub("a", ROT13) = "n" /\ Sub("n", ROT13) = "a" /\ Sub(Blank, ROT13) = Blank
  BY SignsApart DEF Sub, ROT13
<1>3. /\ Sub("a", KeyWalk) = "s" /\ Sub("n", KeyWalk) = "m" /\ Sub(Blank, KeyWalk) = Blank
  BY SignsApart DEF Sub, KeyWalk
<1>4. /\ Sub("s", KeyWalkReverse) = "a" /\ Sub("m", KeyWalkReverse) = "n"
      /\ Sub(Blank, KeyWalkReverse) = Blank
  BY SignsApart DEF Sub, KeyWalkReverse
<1>5. /\ Sub("a", Homoglyph) = "a" /\ Sub("n", Homoglyph) = "n" /\ Sub(Blank, Homoglyph) = Blank
      /\ Sub("a", L33t) = "a" /\ Sub("n", L33t) = "n" /\ Sub(Blank, L33t) = Blank
  BY SignsApart DEF Sub, Homoglyph, L33t
<1>6. Sub(c, NoTable) = c
  BY DEF Sub, NoTable
<1>7. CASE c = "a"
  BY <1>1, <1>2, <1>3, <1>4, <1>5, <1>6, <1>7 DEF Plain
<1>8. CASE c = "n"
  BY <1>1, <1>2, <1>3, <1>4, <1>5, <1>6, <1>8 DEF Plain
<1>9. CASE c = Blank
  BY <1>1, <1>2, <1>3, <1>4, <1>5, <1>6, <1>9 DEF Plain
<1> QED
  BY <1>7, <1>8, <1>9

LEMMA DisguiseInvInit == NormalizeInit => DisguiseInv /\ PhraseRecovered
<1> SUFFICES ASSUME NormalizeInit PROVE DisguiseInv /\ PhraseRecovered
  OBVIOUS
<1>1. phrase \in Phrases /\ disguise.kind = "none" /\ disguised = phrase /\ variants = <<>>
  BY DEF NormalizeInit
<1>2. phrase \in Seq(Chars) /\ Len(phrase) >= 1
      /\ \A j \in 1..Len(phrase) : phrase[j] \in {"a", "n", Blank}
  BY <1>1, PhraseIs
<1>3. Says(phrase, NoTable, phrase)
  <2>1. \A j \in 1..Len(phrase) : phrase[j] # "zw" /\ Plain(phrase[j], NoTable) = phrase[j]
    BY <1>2, PhraseCharacters
  <2> QED
    BY <1>1, <1>2, <2>1, DecodedSays DEF Tables
<1>4. StillSays
  BY <1>1, <1>3, TableOfIs DEF StillSays
<1>5. Undisguised /\ WordRotated /\ OnlySlashes /\ disguise.kind \in Kinds
  BY <1>1 DEF Undisguised, WordRotated, OnlySlashes, Kinds
<1> QED
  BY <1>1, <1>2, <1>4, <1>5 DEF DisguiseInv, PhraseRecovered

(* What a step of a disguise has to show. *)
LEMMA DisguiseStep ==
  ASSUME DisguiseInv, NEW kinds, NEW kind \in {"text", "rot13", "keyboard walk", "word", "backslash"},
         Disguise(kinds, kind),
         disguised' \in Seq(Chars), Len(disguised') >= 1,
         kind \in Normalizable => Says(disguised', TableOf(kind), phrase),
         kind = "word" =>
           \E r \in LetterRuns(disguised') : /\ Decoded(disguised', r) = phrase
                                             /\ InTime(disguised', r),
         kind = "backslash" => Without(disguised', Slash) = phrase
  PROVE  DisguiseInv' /\ PhraseRecovered'
<1>1. disguise'.kind = kind /\ phrase' = phrase /\ variants' = <<>>
  BY DEF Disguise
<1>2. kind \in Kinds /\ kind # "none"
  BY DEF Kinds
<1>3. StillSays'
  BY <1>1 DEF StillSays
<1>4. WordRotated'
  BY <1>1 DEF WordRotated
<1>5. OnlySlashes'
  BY <1>1 DEF OnlySlashes
<1>6. Undisguised'
  BY <1>1, <1>2 DEF Undisguised
<1>7. PhraseRecovered'
  BY <1>1 DEF PhraseRecovered
<1>8. phrase' \in Phrases
  BY <1>1 DEF DisguiseInv
<1> QED
  BY <1>1, <1>2, <1>3, <1>4, <1>5, <1>6, <1>7, <1>8 DEF DisguiseInv

(* A character put in: the text stays one, and grows. *)
LEMMA PutIn ==
  ASSUME NEW s \in Seq(Chars), NEW x \in Chars, NEW i \in 1..Len(s) + 1
  PROVE  /\ InsertAt(s, i, x) \in Seq(Chars) /\ IsInserted(InsertAt(s, i, x), s, i, x)
         /\ Len(InsertAt(s, i, x)) >= 1
<1>1. InsertAt(s, i, x) \in Seq(Chars) /\ IsInserted(InsertAt(s, i, x), s, i, x)
  BY InsertIs
<1>2. Len(InsertAt(s, i, x)) = Len(s) + 1 /\ Len(s) \in Nat
  BY <1>1, LenProperties DEF IsInserted
<1> QED
  BY <1>1, <1>2

LEMMA HiddenIs ==
  ASSUME DisguiseInv, NEW kind, kind = Hidden, Disguise(Normalizable, kind)
  PROVE  /\ kind \in {"text", "rot13", "keyboard walk"}
         /\ TableOf(kind) \in Tables
         /\ Says(disguised, TableOf(kind), phrase)
<1>1. disguise.kind \in Normalizable
  BY DEF Disguise
<1>2. Says(disguised, TableOf(disguise.kind), phrase)
  BY <1>1 DEF DisguiseInv, StillSays
<1>3. disguise.kind = "none" => kind = "text"
  BY DEF Hidden
<1>4. disguise.kind # "none" => kind = disguise.kind
  BY DEF Hidden
<1>5. kind \in {"text", "rot13", "keyboard walk"}
  BY <1>1, <1>3, <1>4 DEF Normalizable
<1>6. TableOf(kind) = TableOf(disguise.kind)
  BY <1>3, <1>4, TableOfIs
<1> QED
  BY <1>2, <1>5, <1>6, TableOfIs

LEMMA PhraseNow ==
  ASSUME DisguiseInv, NEW kind, Disguise({"none"}, kind)
  PROVE  disguised = phrase /\ phrase \in Phrases
BY DEF DisguiseInv, Undisguised, Disguise

LEMMA TranslatedPhrase ==
  ASSUME NEW p \in Phrases, NEW table, NEW back \in Tables,
         \A c \in {"a", "n", Blank} : /\ Sub(c, table) \in Chars /\ Sub(c, table) # "zw"
                                      /\ Plain(Sub(c, table), back) = c
  PROVE  /\ Translate(p, table) \in Seq(Chars) /\ Len(Translate(p, table)) >= 1
         /\ Says(Translate(p, table), back, p)
<1> DEFINE t == Translate(p, table)
<1>1. p \in Seq(Chars) /\ Len(p) >= 1 /\ \A j \in 1..Len(p) : p[j] \in {"a", "n", Blank}
  BY PhraseIs
<1>2. Len(t) = Len(p) /\ \A j \in 1..Len(p) : t[j] = Sub(p[j], table)
  BY <1>1, TranslateIs
<1>3. t \in Seq(Chars)
  <2>1. \A j \in 1..Len(p) : Sub(p[j], table) \in Chars
    BY <1>1
  <2> QED
    BY <1>1, <2>1, TranslateIs
<1> HIDE DEF t
<1>4. \A j \in 1..Len(p) : t[j] # "zw" /\ Plain(t[j], back) = p[j]
  BY <1>1, <1>2
<1> QED
  BY <1>1, <1>2, <1>3, <1>4, DecodedSays DEF t

LEMMA RotateKeeps == DisguiseInv /\ Rotate => DisguiseInv' /\ PhraseRecovered'
<1> SUFFICES ASSUME DisguiseInv, Rotate PROVE DisguiseInv' /\ PhraseRecovered'
  OBVIOUS
<1>1. Disguise({"none"}, "rot13") /\ disguised' = Translate(disguised, ROT13)
  BY DEF Rotate
<1>2. disguised = phrase /\ phrase \in Phrases
  BY <1>1, PhraseNow
<1>3. /\ disguised' \in Seq(Chars) /\ Len(disguised') >= 1
      /\ Says(disguised', TableOf("rot13"), phrase)
  <2>1. ROT13 \in Tables /\ TableOf("rot13") = ROT13
    BY TableOfIs DEF Tables
  <2> QED
    BY <1>1, <1>2, <2>1, PhraseCharacters, TranslatedPhrase
<1> QED
  BY <1>1, <1>3, DisguiseStep

LEMMA WalkKeeps == DisguiseInv /\ Walk => DisguiseInv' /\ PhraseRecovered'
<1> SUFFICES ASSUME DisguiseInv, Walk PROVE DisguiseInv' /\ PhraseRecovered'
  OBVIOUS
<1>1. Disguise({"none"}, "keyboard walk") /\ disguised' = Translate(disguised, KeyWalk)
  BY DEF Walk
<1>2. disguised = phrase /\ phrase \in Phrases
  BY <1>1, PhraseNow
<1>3. /\ disguised' \in Seq(Chars) /\ Len(disguised') >= 1
      /\ Says(disguised', TableOf("keyboard walk"), phrase)
  <2>1. KeyWalkReverse \in Tables /\ TableOf("keyboard walk") = KeyWalkReverse
    BY TableOfIs DEF Tables
  <2> QED
    BY <1>1, <1>2, <2>1, PhraseCharacters, TranslatedPhrase
<1> QED
  BY <1>1, <1>3, DisguiseStep

(* Decoding a word of the phrase moves no word, and doing it again gives the phrase. *)
LEMMA DecodedWord ==
  ASSUME NEW p \in Phrases, NEW r
  PROVE  /\ LetterRuns(Decoded(p, r)) = LetterRuns(p)
         /\ Decoded(Decoded(p, r), r) = p
<1> DEFINE d == Decoded(p, r)
<1>1. /\ p \in Seq(Chars) /\ Len(p) \in Nat
      /\ \A j \in 1..Len(p) : p[j] \in {"a", "n", Blank}
  BY PhraseIs
<1>2. /\ d \in Seq(Chars) /\ Len(d) = Len(p)
      /\ \A i \in 1..Len(p) : /\ i \in r[1]..r[2] => d[i] = Sub(p[i], ROT13)
                              /\ i \notin r[1]..r[2] => d[i] = p[i]
  BY <1>1, DecodedIs
<1> HIDE DEF d
<1>3. \A i \in 1..Len(p) : IsLetter(d[i]) <=> IsLetter(p[i])
  BY <1>1, <1>2, PhraseCharacters
<1>4. LetterRuns(d) = LetterRuns(p)
  <2>1. ASSUME NEW a \in 1..Len(p), NEW b \in 1..Len(p)
        PROVE  /\ (\A i \in a..b : IsLetter(d[i])) <=> (\A i \in a..b : IsLetter(p[i]))
               /\ (a > 1 => ~IsLetter(d[a - 1])) <=> (a > 1 => ~IsLetter(p[a - 1]))
               /\ (b < Len(p) => ~IsLetter(d[b + 1])) <=> (b < Len(p) => ~IsLetter(p[b + 1]))
    <3>1. \A i \in a..b : i \in 1..Len(p)
      BY <1>1
    <3>2. a > 1 => a - 1 \in 1..Len(p)
      BY <1>1
    <3>3. b < Len(p) => b + 1 \in 1..Len(p)
      BY <1>1
    <3> QED
      BY <1>3, <3>1, <3>2, <3>3
  <2>2. ASSUME NEW q \in (1..Len(p)) \X (1..Len(p))
        PROVE  q \in LetterRuns(d) <=> q \in LetterRuns(p)
    <3>1. q[1] \in 1..Len(p) /\ q[2] \in 1..Len(p)
      OBVIOUS
    <3> QED
      BY <1>2, <2>1, <3>1 DEF LetterRuns
  <2>3. /\ LetterRuns(d) \subseteq (1..Len(p)) \X (1..Len(p))
        /\ LetterRuns(p) \subseteq (1..Len(p)) \X (1..Len(p))
    BY <1>2 DEF LetterRuns
  <2> QED
    BY <2>2, <2>3
<1>5. Decoded(d, r) = p
  <2>1. /\ Decoded(d, r) \in Seq(Chars) /\ Len(Decoded(d, r)) = Len(p)
        /\ \A i \in 1..Len(p) : /\ i \in r[1]..r[2] => Decoded(d, r)[i] = Sub(d[i], ROT13)
                                /\ i \notin r[1]..r[2] => Decoded(d, r)[i] = d[i]
    <3>1. d \in Seq(Chars) /\ Len(d) = Len(p)
      BY <1>2
    <3>2. /\ Decoded(d, r) \in Seq(Chars) /\ Len(Decoded(d, r)) = Len(d)
          /\ \A i \in 1..Len(d) : /\ i \in r[1]..r[2] => Decoded(d, r)[i] = Sub(d[i], ROT13)
                                  /\ i \notin r[1]..r[2] => Decoded(d, r)[i] = d[i]
      BY <3>1, DecodedIs
    <3> QED
      BY <3>1, <3>2
  <2>2. \A i \in 1..Len(p) : Decoded(d, r)[i] = p[i]
    BY <1>1, <1>2, <2>1, PhraseCharacters
  <2> QED
    BY <1>1, <2>1, <2>2, SeqEqual
<1> QED
  BY <1>4, <1>5 DEF d

LEMMA RotateWordKeeps == DisguiseInv /\ RotateWord => DisguiseInv' /\ PhraseRecovered'
<1> SUFFICES ASSUME DisguiseInv, RotateWord PROVE DisguiseInv' /\ PhraseRecovered'
  OBVIOUS
<1>1. Disguise({"none"}, "word")
  BY DEF RotateWord
<1>2. PICK r \in LetterRuns(disguised) : InTime(disguised, r) /\ disguised' = Decoded(disguised, r)
  BY DEF RotateWord, InTime
<1>3. disguised = phrase /\ phrase \in Phrases /\ phrase \in Seq(Chars) /\ Len(phrase) >= 1
  BY <1>1, PhraseNow, PhraseIs
<1>4. disguised' \in Seq(Chars) /\ Len(disguised') >= 1
  BY <1>2, <1>3, DecodedIs
<1>5. LetterRuns(disguised') = LetterRuns(phrase) /\ Decoded(disguised', r) = phrase
  BY <1>2, <1>3, DecodedWord
<1>6. r \in LetterRuns(disguised') /\ InTime(disguised', r)
  BY <1>2, <1>3, <1>5 DEF InTime
<1> QED
  BY <1>1, <1>4, <1>5, <1>6, DisguiseStep DEF Normalizable

LEMMA InsertBackslashKeeps == DisguiseInv /\ InsertBackslash => DisguiseInv' /\ PhraseRecovered'
<1> SUFFICES ASSUME DisguiseInv, InsertBackslash PROVE DisguiseInv' /\ PhraseRecovered'
  OBVIOUS
<1>1. Disguise({"none", "backslash"}, "backslash")
  BY DEF InsertBackslash
<1>2. PICK i \in 1..Len(disguised) + 1 : disguised' = InsertAt(disguised, i, Slash)
  BY Zenon DEF InsertBackslash, Slash
<1>3. disguised \in Seq(Chars) /\ Slash \in Chars
  BY DEF DisguiseInv, Chars
<1>4. /\ disguised' \in Seq(Chars) /\ Len(disguised') >= 1
      /\ IsInserted(disguised', disguised, i, Slash)
  BY <1>2, <1>3, PutIn
<1>5. Without(disguised', Slash) = Without(disguised, Slash)
  BY <1>3, <1>4, WithoutInserted
<1>6. Without(disguised, Slash) = phrase
  <2>1. CASE disguise.kind = "none"
    <3>1. disguised = phrase /\ phrase \in Phrases
      BY <2>1 DEF DisguiseInv, Undisguised
    <3>2. phrase \in Seq(Chars) /\ \A j \in 1..Len(phrase) : phrase[j] # Slash
      BY <3>1, PhraseIs, PhraseCharacters
    <3> QED
      BY <3>1, <3>2, WithoutIs
  <2>2. CASE disguise.kind = "backslash"
    BY <2>2 DEF DisguiseInv, OnlySlashes
  <2> QED
    BY <1>1, <2>1, <2>2 DEF Disguise
<1> QED
  BY <1>1, <1>4, <1>5, <1>6, DisguiseStep DEF Normalizable

LEMMA SubstituteKeeps == DisguiseInv /\ Substitute => DisguiseInv' /\ PhraseRecovered'
<1> SUFFICES ASSUME DisguiseInv, Substitute PROVE DisguiseInv' /\ PhraseRecovered'
  OBVIOUS
<1>1. Disguise({"none", "text"}, "text")
  BY DEF Substitute
<1>2. PICK i \in DOMAIN disguised, c \in {"ha", "4"} :
          disguised[i] = "a" /\ disguised' = [disguised EXCEPT ![i] = c]
  BY DEF Substitute, ReplaceAt
<1>3. /\ disguised \in Seq(Chars) /\ Len(disguised) >= 1 /\ Len(disguised) \in Nat
      /\ DOMAIN disguised = 1..Len(disguised)
      /\ \A j \in 1..Len(disguised) : disguised[j] \in Chars
  BY LenProperties, ElementOfSeq DEF DisguiseInv
<1>4. c \in Chars
  BY DEF Chars
<1>5. disguised' \in Seq(Chars) /\ Len(disguised') = Len(disguised)
  <2>1. disguised' \in [1..Len(disguised) -> Chars]
    BY <1>2, <1>3, <1>4
  <2> QED
    BY <1>3, <2>1, FunctionIsSeq
<1>6. Says(disguised, NoTable, phrase)
  <2>1. disguise.kind \in {"none", "text"} /\ disguise.kind \in Normalizable
    BY <1>1 DEF Disguise, Normalizable
  <2>2. TableOf(disguise.kind) = NoTable
    BY <2>1, TableOfIs
  <2> QED
    BY <2>1, <2>2 DEF DisguiseInv, StillSays
<1>7. Plain(c, NoTable) = Plain("a", NoTable)
  <2>1. Sub("a", NoTable) = "a" /\ Sub(c, NoTable) = c
    BY DEF Sub, NoTable
  <2>2. /\ Sub("a", Homoglyph) = "a" /\ Sub("ha", Homoglyph) = "a" /\ Sub("4", Homoglyph) = "4"
        /\ Sub("a", L33t) = "a" /\ Sub("4", L33t) = "a"
    BY DEF Sub, Homoglyph, L33t
  <2> QED
    BY <2>1, <2>2 DEF Plain
<1>8. Cleared(disguised', NoTable) = Cleared(disguised, NoTable)
  <2>1. \A k \in 1..Len(disguised) : /\ disguised'[k] = "zw" <=> disguised[k] = "zw"
                                     /\ Plain(disguised'[k], NoTable) = Plain(disguised[k], NoTable)
    <3> TAKE k \in 1..Len(disguised)
    <3>1. CASE k = i
      BY <1>2, <1>3, <1>7, <3>1
    <3>2. CASE k # i
      BY <1>2, <1>3, <3>2
    <3> QED
      BY <3>1, <3>2
  <2> QED
    BY <1>3, <1>5, <2>1, ClearedAlike DEF Tables
<1>9. Says(disguised', TableOf("text"), phrase)
  <2>1. TableOf("text") = NoTable
    BY TableOfIs
  <2> QED
    BY <1>6, <1>8, <2>1 DEF Says
<1> QED
  BY <1>1, <1>3, <1>5, <1>9, DisguiseStep

LEMMA InsertInvisibleKeeps == DisguiseInv /\ InsertInvisible => DisguiseInv' /\ PhraseRecovered'
<1> SUFFICES ASSUME DisguiseInv, InsertInvisible PROVE DisguiseInv' /\ PhraseRecovered'
  OBVIOUS
<1> DEFINE kind == Hidden
<1>1. Disguise(Normalizable, kind)
  BY DEF InsertInvisible
<1>2. kind = Hidden
  OBVIOUS
<1> HIDE DEF kind
<1>3. PICK i \in 1..Len(disguised) + 1 : disguised' = InsertAt(disguised, i, "zw")
  BY DEF InsertInvisible
<1>4. disguised \in Seq(Chars) /\ "zw" \in Chars
  BY DEF DisguiseInv, Chars
<1>5. /\ disguised' \in Seq(Chars) /\ Len(disguised') >= 1
      /\ IsInserted(disguised', disguised, i, "zw")
  BY <1>3, <1>4, PutIn
<1>6. /\ kind \in {"text", "rot13", "keyboard walk"} /\ TableOf(kind) \in Tables
      /\ Says(disguised, TableOf(kind), phrase)
  BY <1>1, <1>2, HiddenIs
<1>7. Says(disguised', TableOf(kind), phrase)
  BY <1>4, <1>5, <1>6, InvisibleSays
<1> QED
  BY <1>1, <1>5, <1>6, <1>7, DisguiseStep

LEMMA InsertSeparatorKeeps == DisguiseInv /\ InsertSeparator => DisguiseInv' /\ PhraseRecovered'
<1> SUFFICES ASSUME DisguiseInv, InsertSeparator PROVE DisguiseInv' /\ PhraseRecovered'
  OBVIOUS
<1> DEFINE kind == Hidden
           v == stripZeroWidth(disguised')
<1>1. Disguise(Normalizable, kind)
  BY DEF InsertSeparator
<1>2. kind = Hidden /\ v = stripZeroWidth(disguised')
  OBVIOUS
<1>3. PICK i \in 1..Len(disguised) + 1 :
          /\ disguised' = InsertAt(disguised, i, ".")
          /\ Len(v) >= 3
          /\ \A j \in DOMAIN v : v[j] = "." =>
               \/ j - 1 \in DOMAIN v /\ (IsLetter(v[j - 1]) \/ v[j - 1] = "4")
               \/ j + 1 \in DOMAIN v /\ (IsLetter(v[j + 1]) \/ v[j + 1] = "4")
  BY DEF InsertSeparator
<1> HIDE DEF kind, v
<1>4. disguised \in Seq(Chars) /\ "." \in Chars
  BY DEF DisguiseInv, Chars
<1>5. /\ disguised' \in Seq(Chars) /\ Len(disguised') >= 1
      /\ IsInserted(disguised', disguised, i, ".")
  BY <1>3, <1>4, PutIn
<1>6. /\ kind \in {"text", "rot13", "keyboard walk"} /\ TableOf(kind) \in Tables
      /\ Says(disguised, TableOf(kind), phrase)
  BY <1>1, <1>2, HiddenIs
<1>7. Says(disguised', TableOf(kind), phrase)
  BY <1>2, <1>3, <1>4, <1>5, <1>6, SeparatorSays
<1> QED
  BY <1>1, <1>5, <1>6, <1>7, DisguiseStep

LEMMA WidenSpaceKeeps == DisguiseInv /\ WidenSpace => DisguiseInv' /\ PhraseRecovered'
<1> SUFFICES ASSUME DisguiseInv, WidenSpace PROVE DisguiseInv' /\ PhraseRecovered'
  OBVIOUS
<1> DEFINE kind == Hidden
<1>1. Disguise(Normalizable, kind)
  BY Zenon DEF WidenSpace
<1>2. kind = Hidden
  OBVIOUS
<1> HIDE DEF kind
<1>3. PICK i \in DOMAIN disguised :
          disguised[i] = Blank /\ disguised' = InsertAt(disguised, i, Blank)
  BY Zenon DEF WidenSpace, Blank
<1>4. /\ disguised \in Seq(Chars) /\ Blank \in Chars
      /\ i \in 1..Len(disguised) /\ i \in 1..Len(disguised) + 1
  <2>1. disguised \in Seq(Chars) /\ Blank \in Chars
    BY DEF DisguiseInv, Chars
  <2>2. DOMAIN disguised = 1..Len(disguised) /\ Len(disguised) \in Nat
    BY <2>1, LenProperties
  <2> QED
    BY <1>3, <2>1, <2>2
<1>5. /\ disguised' \in Seq(Chars) /\ Len(disguised') >= 1
      /\ IsInserted(disguised', disguised, i, Blank)
  BY <1>3, <1>4, PutIn
<1>6. /\ kind \in {"text", "rot13", "keyboard walk"} /\ TableOf(kind) \in Tables
      /\ Says(disguised, TableOf(kind), phrase)
  BY <1>1, <1>2, HiddenIs
<1>7. Says(disguised', TableOf(kind), phrase)
  BY <1>3, <1>4, <1>5, <1>6, SpaceSays
<1> QED
  BY <1>1, <1>5, <1>6, <1>7, DisguiseStep

(* The variant that undoes the disguise, for each kind. *)
LEMMA PhraseDerived ==
  ASSUME DisguiseInv
  PROVE  \/ disguised = phrase
         \/ \E i \in 1..10 : Derived(disguised)[i] = phrase
         \/ \E i \in 1..Len(NormalizeSlidingROT13(disguised)) :
              NormalizeSlidingROT13(disguised)[i] = phrase
<1>1. disguised \in Seq(Chars) /\ disguise.kind \in Kinds
  BY DEF DisguiseInv
<1> DEFINE undone == Translate(disguised, TableOf(disguise.kind))
<1>2. disguise.kind \in Normalizable => NormalizeText(undone) = phrase
  BY <1>1, TableOfIs, NormalizeTextReads DEF DisguiseInv, StillSays
<1>3. CASE disguise.kind \in {"none", "text"}
  <2>1. disguise.kind \in Normalizable /\ TableOf(disguise.kind) = NoTable
    BY <1>3, TableOfIs DEF Normalizable
  <2>2. NormalizeText(disguised) = phrase
    BY <1>1, <1>2, <2>1, NoTableIs
  <2> QED
    BY <1>1, <2>2, DerivedIs
<1>4. CASE disguise.kind = "rot13"
  <2>1. disguise.kind \in Normalizable /\ TableOf(disguise.kind) = ROT13
    BY <1>4, TableOfIs DEF Normalizable
  <2>2. NormalizeText(Translate(disguised, ROT13)) = phrase
    BY <1>2, <2>1
  <2> QED
    BY <1>1, <2>2, DerivedIs
<1>5. CASE disguise.kind = "keyboard walk"
  <2>1. disguise.kind \in Normalizable /\ TableOf(disguise.kind) = KeyWalkReverse
    BY <1>5, TableOfIs DEF Normalizable
  <2>2. NormalizeText(Translate(disguised, KeyWalkReverse)) = phrase
    BY <1>2, <2>1
  <2> QED
    BY <1>1, <2>2, DerivedIs
<1>6. CASE disguise.kind = "word"
  <2>1. PICK r \in LetterRuns(disguised) : Decoded(disguised, r) = phrase /\ InTime(disguised, r)
    BY <1>6 DEF DisguiseInv, WordRotated
  <2> QED
    BY <1>1, <2>1, SlidingIs
<1>7. CASE disguise.kind = "backslash"
  <2>1. Without(disguised, Slash) = phrase
    BY <1>7 DEF DisguiseInv, OnlySlashes
  <2> QED
    BY <1>1, <2>1, DerivedIs
<1> QED
  BY <1>1, <1>3, <1>4, <1>5, <1>6, <1>7 DEF Kinds

LEMMA DeriveKeeps == DisguiseInv /\ Derive => DisguiseInv' /\ PhraseRecovered'
<1> SUFFICES ASSUME DisguiseInv, Derive PROVE DisguiseInv' /\ PhraseRecovered'
  OBVIOUS
<1>1. /\ variants' = NormalizeAllVariants(disguised)
      /\ phrase' = phrase /\ disguise' = disguise /\ disguised' = disguised
  BY DEF Derive
<1>2. DisguiseInv'
  BY <1>1 DEF DisguiseInv, Undisguised, StillSays, WordRotated, OnlySlashes
<1>3. disguised \in Seq(Chars) /\ disguised # <<>> /\ phrase # <<>>
  <2>1. Len(disguised) >= 1 /\ Len(phrase) >= 1 /\ disguised \in Seq(Chars)
    BY PhraseIs DEF DisguiseInv
  <2> QED
    BY <2>1
<1> DEFINE v == variants'
<1> HIDE DEF v
<1>4. /\ v \in Seq(Seq(Chars))
      /\ 1 \in 1..Len(v) /\ v[1] = disguised
      /\ \A i, j \in 1..Len(v) : v[i] = v[j] => i = j
      /\ \A i \in 1..10 : Derived(disguised)[i] # <<>> => Occurs(v, Derived(disguised)[i])
      /\ \A i \in 1..Len(NormalizeSlidingROT13(disguised)) :
           NormalizeSlidingROT13(disguised)[i] # <<>> =>
             Occurs(v, NormalizeSlidingROT13(disguised)[i])
  <2>1. v = NormalizeAllVariants(disguised)
    BY <1>1 DEF v
  <2>2. AreVariants(v, disguised)
    BY <1>3, <2>1, VariantsAre
  <2> QED
    BY <2>2 DEF AreVariants
<1>5. Occurs(v, phrase)
  <2>1. Occurs(v, disguised)
    BY <1>4 DEF Occurs
  <2> QED
    BY <1>3, <1>4, <2>1, PhraseDerived
<1>6. DOMAIN v = 1..Len(v)
  BY <1>4, LenProperties
<1>7. phrase \in ToSet(v) /\ IsInjective(v)
  BY <1>4, <1>5, <1>6 DEF Occurs, ToSet, IsInjective
<1> QED
  BY <1>1, <1>2, <1>4, <1>7 DEF PhraseRecovered, v

LEMMA DisguiseKeeps ==
  DisguiseInv /\ PhraseRecovered /\ [NormalizeNext]_normalizeVars
    => DisguiseInv' /\ PhraseRecovered'
<1> SUFFICES ASSUME DisguiseInv, PhraseRecovered, [NormalizeNext]_normalizeVars
             PROVE  DisguiseInv' /\ PhraseRecovered'
  OBVIOUS
<1>1. CASE UNCHANGED normalizeVars
  <2>1. phrase' = phrase /\ disguise' = disguise /\ disguised' = disguised
        /\ variants' = variants
    BY <1>1 DEF normalizeVars
  <2> QED
    BY <2>1 DEF DisguiseInv, Undisguised, StillSays, WordRotated, OnlySlashes, PhraseRecovered
<1>2. CASE Rotate
  BY <1>2, RotateKeeps
<1>3. CASE Walk
  BY <1>3, WalkKeeps
<1>4. CASE RotateWord
  BY <1>4, RotateWordKeeps
<1>5. CASE InsertBackslash
  BY <1>5, InsertBackslashKeeps
<1>6. CASE Substitute
  BY <1>6, SubstituteKeeps
<1>7. CASE InsertInvisible
  BY <1>7, InsertInvisibleKeeps
<1>8. CASE InsertSeparator
  BY <1>8, InsertSeparatorKeeps
<1>9. CASE WidenSpace
  BY <1>9, WidenSpaceKeeps
<1>10. CASE Derive
  BY <1>10, DeriveKeeps
<1> QED
  BY <1>1, <1>2, <1>3, <1>4, <1>5, <1>6, <1>7, <1>8, <1>9, <1>10 DEF NormalizeNext

LEMMA DisguiseInvHolds == NormalizeSpec => [](DisguiseInv /\ PhraseRecovered)
<1>1. NormalizeInit => DisguiseInv /\ PhraseRecovered
  BY DisguiseInvInit
<1> QED
  BY <1>1, DisguiseKeeps, PTL DEF NormalizeSpec

(* PhraseRecovered, for phrases of any length, any number of disguises and any of the
   bounds: one of the variants says the phrase itself, however it was hidden.  It is
   about NormalizeAllVariants deriving, in normalize.go, a variant for each kind of
   disguise from the passes in the right order. *)
THEOREM PhraseAlwaysRecovered == NormalizeSpec => []PhraseRecovered
BY DisguiseInvHolds, PTL
=============================================================================
