------------------------------ MODULE Normalize ------------------------------
(***************************************************************************)
(* The text variants that internal/detectors/normalize.go derives for the  *)
(* detectors, against texts disguised step by step.  A text is a sequence  *)
(* of characters; the tables keep the entries of a few of them: the phrase *)
(* is made of "a", "n" and single spaces, and "ha" stands for a homoglyph  *)
(* of "a", "4" for its l33t form, "zw" for any zero-width character and    *)
(* "." for the three that are inserted between letters.                    *)
(***************************************************************************)
EXTENDS Integers, Sequences, FiniteSets, FiniteSetsExt, SequencesExt, Selection

CONSTANTS
  MaxPhrase,    \* Bound: length of a phrase.
  MaxDisguises, \* Bound: steps of a disguise.
  minRun,       \* 4: letters in a row that NormalizeSlidingROT13 decodes on their own.
  maxSliding    \* 5: how many such variants there may be.

ASSUME NormalizeAssumption == {MaxPhrase, MaxDisguises, minRun, maxSliding} \subseteq Nat \ {0}

VARIABLES
  phrase,    \* What the text says.
  disguise,  \* How it is hidden: the kind, and how many steps it took.
  disguised, \* The text.
  variants   \* Result of NormalizeAllVariants, <<>> before.

normalizeVars == <<phrase, disguise, disguised, variants>>

Homoglyph == [c \in {"ha"} |-> "a"]
L33t == [c \in {"4"} |-> "a"]
ROT13 == [c \in {"a", "n", "s", "m"} |->
  CASE c = "a" -> "n" [] c = "n" -> "a" [] c = "s" -> "f" [] c = "m" -> "z"]
KeyWalkReverse == [c \in {"s", "m", "n"} |->
  CASE c = "s" -> "a" [] c = "m" -> "n" [] c = "n" -> "b"]
KeyWalk == [c \in {"a", "n"} |-> IF c = "a" THEN "s" ELSE "m"]
IsLetter(c) == c \in {"a", "n", "s", "m", "f", "z", "b", "ha"}

Phrases == {p \in UNION {[1..n -> {"a", "n", " "}] : n \in 1..MaxPhrase} :
  /\ p[1] # " " /\ Last(p) # " "
  /\ \A i \in 2..Len(p) : ~(p[i] = " " /\ p[i - 1] = " ")}
Kinds == {"none", "text", "rot13", "keyboard walk", "word", "backslash"}

(* What texts are made of, whatever was done to hide them and to normalize them. *)
Characters == {"a", "n", " ", "s", "m", "f", "z", "b", "ha", "4", "zw", ".", "\\"}

NormalizeTypeOK ==
  /\ phrase \in Phrases
  /\ disguise.kind \in Kinds /\ disguise.steps \in 0..MaxDisguises
  /\ disguised \in Seq(Characters)
  /\ variants \in Seq(Seq(Characters))

NormalizeInit ==
  /\ phrase \in Phrases
  /\ disguise = [kind |-> "none", steps |-> 0]
  /\ disguised = phrase
  /\ variants = <<>>

-----------------------------------------------------------------------------
(* The passes *)

Translate(s, table) == [i \in DOMAIN s |-> IF s[i] \in DOMAIN table THEN table[s[i]] ELSE s[i]]

(* The elements of s at the positions that are kept. *)
Keep(s, positions) ==
  LET kept == Select([i \in DOMAIN s |-> i], positions)
  IN [j \in DOMAIN kept |-> s[kept[j]]]

Without(s, c) == Keep(s, {i \in DOMAIN s : s[i] # c})
stripZeroWidth(s) == Without(s, "zw")

(* A separator goes when there is a letter on either side of it. *)
removeInterCharacterInsertions(s) ==
  IF Len(s) < 3 THEN s
  ELSE Keep(s, {i \in DOMAIN s : ~(/\ s[i] = "."
                                   /\ \/ i > 1 /\ IsLetter(s[i - 1])
                                      \/ i < Len(s) /\ IsLetter(s[i + 1]))})

(* Runs of spaces become one, those at the ends go. *)
collapseWhitespace(s) ==
  LET words == {i \in DOMAIN s : s[i] # " "}
  IN Keep(s, {i \in DOMAIN s : \/ i \in words
                               \/ i - 1 \in words /\ \E j \in words : j > i})

NormalizeText(s) ==
  collapseWhitespace(removeInterCharacterInsertions(
    Translate(Translate(stripZeroWidth(s), Homoglyph), L33t)))

(* Faulty variant: separators are removed before there are letters beside them. *)
NormalizeSeparatorsFirst(s) ==
  collapseWhitespace(Translate(Translate(
    removeInterCharacterInsertions(stripZeroWidth(s)), Homoglyph), L33t))

Normalized(s) == NormalizeText(s)

NormalizeRepeatingChars(s) ==
  Keep(s, {i \in DOMAIN s : ~(i > 2 /\ s[i] = s[i - 1] /\ s[i - 1] = s[i - 2])})

LetterRuns(s) ==
  {r \in (1..Len(s)) \X (1..Len(s)) :
     /\ r[2] - r[1] + 1 >= minRun
     /\ \A i \in r[1]..r[2] : IsLetter(s[i])
     /\ r[1] > 1 => ~IsLetter(s[r[1] - 1])
     /\ r[2] < Len(s) => ~IsLetter(s[r[2] + 1])}
Decoded(s, r) ==
  [i \in DOMAIN s |-> IF i \in r[1]..r[2] /\ s[i] \in DOMAIN ROT13 THEN ROT13[s[i]] ELSE s[i]]

(* Each of a sequence of texts once. *)
Once(seq) == Keep(seq, {i \in DOMAIN seq : \A j \in 1..i - 1 : seq[j] # seq[i]})
AllBut(seq, text) == Keep(seq, {i \in DOMAIN seq : seq[i] # text})

(* One variant per run of letters, the first ones of them. *)
NormalizeSlidingROT13(s) ==
  LET starts == Select([i \in DOMAIN s |-> i], {r[1] : r \in LetterRuns(s)})
      decoded == Once(AllBut([n \in DOMAIN starts |->
                   Decoded(s, CHOOSE r \in LetterRuns(s) : r[1] = starts[n])], s))
  IN SubSeq(decoded, 1, IF Len(decoded) < maxSliding THEN Len(decoded) ELSE maxSliding)

NormalizeAllVariants(s) ==
  LET walked == Translate(s, KeyWalkReverse)
      rotated == Translate(s, ROT13)
      latin == Translate(s, Homoglyph)
  IN Once(AllBut(<<s, Normalized(s), walked, rotated, Normalized(walked), Normalized(rotated),
                   NormalizeRepeatingChars(s), Without(s, "\\"), latin, Normalized(latin)>>
                 \o NormalizeSlidingROT13(s), <<>>))

-----------------------------------------------------------------------------
(* Disguises *)

Disguise(kinds, kind) ==
  /\ variants = <<>>
  /\ disguise.kind \in kinds
  /\ disguise.steps < MaxDisguises
  /\ disguise' = [kind |-> kind, steps |-> disguise.steps + 1]
  /\ UNCHANGED <<phrase, variants>>

Rotate == Disguise({"none"}, "rot13") /\ disguised' = Translate(disguised, ROT13)
Walk == Disguise({"none"}, "keyboard walk") /\ disguised' = Translate(disguised, KeyWalk)

(* One of the first words: NormalizeSlidingROT13 decodes no more than these. *)
RotateWord ==
  /\ Disguise({"none"}, "word")
  /\ \E r \in LetterRuns(disguised) :
       /\ Cardinality({q \in LetterRuns(disguised) : q[1] < r[1]}) < maxSliding
       /\ disguised' = Decoded(disguised, r)
InsertBackslash ==
  /\ Disguise({"none", "backslash"}, "backslash")
  /\ \E i \in 1..Len(disguised) + 1 : disguised' = InsertAt(disguised, i, "\\")

Substitute ==
  /\ Disguise({"none", "text"}, "text")
  /\ \E i \in DOMAIN disguised :
       /\ disguised[i] = "a"
       /\ \E c \in {"ha", "4"} : disguised' = ReplaceAt(disguised, i, c)

(* Kinds that NormalizeText is applied to. *)
Normalizable == {"none", "text", "rot13", "keyboard walk"}
Hidden == IF disguise.kind = "none" THEN "text" ELSE disguise.kind

InsertInvisible ==
  /\ Disguise(Normalizable, Hidden)
  /\ \E i \in 1..Len(disguised) + 1 : disguised' = InsertAt(disguised, i, "zw")

(* Every separator beside a letter, once the zero-width characters are gone: no more
   than two in a row. *)
InsertSeparator ==
  /\ Disguise(Normalizable, Hidden)
  /\ \E i \in 1..Len(disguised) + 1 :
       LET text == InsertAt(disguised, i, ".")
           seen == stripZeroWidth(text)
           letter(j) == j \in DOMAIN seen /\ (IsLetter(seen[j]) \/ seen[j] = "4")
       IN /\ \A j \in DOMAIN seen : seen[j] = "." => letter(j - 1) \/ letter(j + 1)
          /\ Len(seen) >= 3
          /\ disguised' = text

WidenSpace ==
  /\ Disguise(Normalizable, Hidden)
  /\ \E i \in DOMAIN disguised : disguised[i] = " " /\ disguised' = InsertAt(disguised, i, " ")

Derive ==
  /\ variants = <<>>
  /\ variants' = NormalizeAllVariants(disguised)
  /\ UNCHANGED <<phrase, disguise, disguised>>

NormalizeNext ==
  \/ Rotate \/ Walk \/ RotateWord \/ InsertBackslash \/ Substitute \/ InsertInvisible
  \/ InsertSeparator \/ WidenSpace \/ Derive

NormalizeSpec == NormalizeInit /\ [][NormalizeNext]_normalizeVars

-----------------------------------------------------------------------------
(* Properties *)

(* One of the variants says the phrase itself, however it was hidden by the above,
   and the first of them is the text as it came; none is scanned twice
   (detector.go:230, "returns the original text as variants[0]"). *)
PhraseRecovered ==
  variants # <<>> =>
    /\ phrase \in ToSet(variants)
    /\ variants[1] = disguised
    /\ IsInjective(variants)
=============================================================================
