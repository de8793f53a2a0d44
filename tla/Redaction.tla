------------------------------ MODULE Redaction ------------------------------
(***************************************************************************)
(* The three ways of internal/response to take what was found out of a     *)
(* text: PIIScanner.RedactPII and MaskSecrets cut it out by the positions  *)
(* of the matches, the Redactor replaces their values, wherever these are. *)
(* A text is a sequence of cells, in which the cell 0 belongs to a mask; a *)
(* match is a range of cells.  Patterns of two categories may match        *)
(* overlapping, even equal ranges, those of one never do.  A mask, which   *)
(* is never empty, has no part in what ReplaceAll finds: no value holds    *)
(* the brackets or asterisks of one.                                       *)
(***************************************************************************)
EXTENDS Integers, Sequences, FiniteSets, FiniteSetsExt, SequencesExt, Selection

CONSTANTS
  TextLength,
  Letters,      \* What the cells of the text may hold.
  Categories,   \* Of sensitive data, each with a pattern and a flag of the configuration.
  MaskLengths,  \* What masks may be long: getRedaction and maskSecret keep a part.
  MaxMatches    \* Bound.

ASSUME RedactionAssumption ==
  /\ {TextLength, MaxMatches} \subseteq Nat \ {0}
  /\ MaskLengths \subseteq Nat \ {0}

VARIABLES
  redaction,   \* The call: how it works, the matches in the order found, the
               \* categories to redact, and where it is.
  pending,     \* Matches still to be replaced, in this order.
  redacted,    \* The text so far.
  characters   \* What is in the cells of the text; only ReplaceAll looks at it,
               \* and it is left open (<<>>) where nothing does.

redactionVars == <<redaction, pending, redacted, characters>>

Original == [i \in 1..TextLength |-> i]
Mask(length) == [i \in 1..length |-> 0]

(* A match of the cells from + 1 .. to. *)
Matches == {m \in [from : 0..TextLength - 1, to : 1..TextLength, category : Categories,
                   mask : MaskLengths] : m.from < m.to}
Cells(m) == m.from + 1 .. m.to
Overlap(m, n) == Cells(m) \cap Cells(n) # {}

(* FindPII and FindSecrets: the categories in any order, as a map has none. *)
Findable == {seq \in UNION {[1..n -> Matches] : n \in 0..MaxMatches} :
  \A i, j \in DOMAIN seq :
    i < j => ~(seq[i].category = seq[j].category /\ Overlap(seq[i], seq[j]))}

RedactionTypeOK ==
  /\ redaction.how \in {"none", "RedactPII", "MaskSecrets", "Redact PII", "Redact secrets"}
  /\ redaction.enabled \subseteq Categories
  /\ redaction.pc \in {"idle", "replacing", "done", "panic"}
  /\ redaction.found \in Seq(Matches)
  /\ pending \in Seq(Matches)
  /\ redacted \in Seq(0..TextLength)
  /\ characters \in [1..TextLength -> Letters] \union {<<>>}

RedactionInit ==
  /\ redaction = [how |-> "none", found |-> <<>>, enabled |-> {}, pc |-> "idle"]
  /\ pending = <<>>
  /\ redacted = Original
  /\ characters = <<>>

-----------------------------------------------------------------------------
(* Last first, so that the positions of those still to come stay right.  The
   exchange sort is not stable. *)
LastFirst(seq) == \A i, j \in DOMAIN seq : i < j => seq[i].from >= seq[j].from

(* Faulty variant: in the order of the text. *)
FirstFirst(seq) == \A i, j \in DOMAIN seq : i < j => seq[i].from <= seq[j].from

InOrder(seq) == LastFirst(seq)

Reorderings(seq) ==
  {[i \in DOMAIN seq |-> seq[p[i]]] :
     p \in {q \in [DOMAIN seq -> DOMAIN seq] : \A i, j \in DOMAIN seq : q[i] = q[j] => i = j}}

(* RedactPII asks the first match found at this very range whether to redact. *)
ShouldRedact(found, enabled, m) ==
  LET same == Select(found, {n \in Matches : n.from = m.from /\ n.to = m.to})
  IN same[1].category \in enabled

BeginByPosition(how) ==
  /\ redaction.pc = "idle"
  /\ \E found \in Findable, enabled \in SUBSET Categories :
       /\ how = "MaskSecrets" => enabled = Categories
       /\ redaction' = [how |-> how, found |-> found, enabled |-> enabled, pc |-> "replacing"]
       /\ \E seq \in Reorderings(found) :
            /\ InOrder(seq)
            /\ pending' = IF how = "MaskSecrets" THEN seq
                          ELSE Select(seq, {m \in Matches : ShouldRedact(found, enabled, m)})
  /\ UNCHANGED <<redacted, characters>>

(* The text before the match, its mask and the text behind it; the slice panics
   when the text has become too short for it. *)
Cut ==
  /\ redaction.pc = "replacing"
  /\ redaction.how \in {"RedactPII", "MaskSecrets"}
  /\ pending # <<>>
  /\ LET m == Head(pending)
     IN IF m.to > Len(redacted)
        THEN /\ redaction' = [redaction EXCEPT !.pc = "panic"]
             /\ UNCHANGED redacted
        ELSE /\ redacted' = SubSeq(redacted, 1, m.from) \o Mask(m.mask)
                              \o SubSeq(redacted, m.to + 1, Len(redacted))
             /\ UNCHANGED redaction
  /\ pending' = Tail(pending)
  /\ UNCHANGED characters

-----------------------------------------------------------------------------
(* Redactor.Redact: redactPII, and redactSecrets of what that found. *)

BeginByValue(how) ==
  /\ redaction.pc = "idle"
  /\ \E found \in Findable, enabled \in SUBSET Categories :
       /\ redaction' = [how |-> how, found |-> found, enabled |-> enabled, pc |-> "replacing"]
       /\ pending' = Select(found, {m \in Matches : m.category \in enabled})
  /\ IF how = "Redact PII" THEN characters' \in [1..TextLength -> Letters]
     ELSE UNCHANGED characters
  /\ UNCHANGED redacted

(* After its first i cells the text holds the value of m, as it was matched. *)
HoldsValue(text, i, m) ==
  /\ i + m.to - m.from <= Len(text)
  /\ \A k \in 1..m.to - m.from :
       text[i + k] # 0 /\ characters[text[i + k]] = characters[m.from + k]

(* ReplaceAll: from the left, going on behind what was replaced; rest[n] is made of
   the last n cells. *)
AllReplaced(text, m) ==
  LET rest[n \in 0..Len(text)] ==
        IF n = 0 THEN <<>>
        ELSE IF HoldsValue(text, Len(text) - n, m) THEN Mask(m.mask) \o rest[n - (m.to - m.from)]
        ELSE <<text[Len(text) - n + 1]>> \o rest[n - 1]
  IN rest[Len(text)]

(* Faulty variant: a value that was replaced once is not looked for again. *)
FirstReplaced(text, m) ==
  LET at == {i \in 0..Len(text) : HoldsValue(text, i, m)}
  IN IF at = {} THEN text
     ELSE SubSeq(text, 1, Min(at)) \o Mask(m.mask)
            \o SubSeq(text, Min(at) + m.to - m.from + 1, Len(text))

ReplaceIn(text, m) == AllReplaced(text, m)

(* The Value of a secret is masked, which the text does not hold: nothing is
   replaced. *)
ReplaceValue ==
  /\ redaction.pc = "replacing"
  /\ redaction.how \in {"Redact PII", "Redact secrets"}
  /\ pending # <<>>
  /\ redacted' = IF redaction.how = "Redact PII" THEN ReplaceIn(redacted, Head(pending))
                 ELSE redacted
  /\ pending' = Tail(pending)
  /\ UNCHANGED <<redaction, characters>>

Return ==
  /\ redaction.pc = "replacing"
  /\ pending = <<>>
  /\ redaction' = [redaction EXCEPT !.pc = "done"]
  /\ UNCHANGED <<pending, redacted, characters>>

RedactionNext ==
  \/ \E how \in {"RedactPII", "MaskSecrets"} : BeginByPosition(how)
  \/ \E how \in {"Redact PII", "Redact secrets"} : BeginByValue(how)
  \/ Cut \/ ReplaceValue \/ Return

RedactionSpec == RedactionInit /\ [][RedactionNext]_redactionVars

-----------------------------------------------------------------------------
(* Properties *)

DisjointMatches(seq) == \A i, j \in DOMAIN seq : i # j => ~Overlap(seq[i], seq[j])

(* The text up to cell n in which each of the matches ms is replaced by its mask. *)
Piece(ms, i) ==
  LET begun == {m \in ms : m.from + 1 = i}
  IN (IF begun # {} THEN Mask((CHOOSE m \in begun : TRUE).mask) ELSE <<>>)
       \o (IF \E m \in ms : i \in Cells(m) THEN <<>> ELSE <<i>>)
ReplacedTo(ms, n) ==
  LET upTo[i \in 0..n] == IF i = 0 THEN <<>> ELSE upTo[i - 1] \o Piece(ms, i)
  IN upTo[n]
Replaced(ms) == ReplacedTo(ms, TextLength)

(* By position, matches that do not overlap are replaced, all of them and nothing
   else, whatever the length of their masks and in whatever order they were found
   (pii_scanner.go:426, "to preserve indices"). *)
DisjointExact ==
  redaction.pc \in {"done", "panic"} /\ redaction.how \in {"RedactPII", "MaskSecrets"}
      /\ DisjointMatches(redaction.found)
    => /\ redaction.pc = "done"
       /\ redacted = Replaced({m \in ToSet(redaction.found) : m.category \in redaction.enabled})

(* By value, no value that was to be redacted is left, wherever it was, also where
   values overlap or hold one another; of the rest nothing is lost, doubled or
   moved, except for what one of these values covered ("xa@b.com" becomes
   "x[REDACTED]m" once a@b.co was found elsewhere). *)
ValuesGone ==
  redaction.pc = "done" /\ redaction.how = "Redact PII" =>
    LET values == {m \in ToSet(redaction.found) : m.category \in redaction.enabled}
        covered == {c \in 1..TextLength : \E m \in values, i \in 0..TextLength :
                      c \in i + 1..i + m.to - m.from /\ HoldsValue(Original, i, m)}
    IN /\ \A m \in values : \A i \in 0..Len(redacted) : ~HoldsValue(redacted, i, m)
       /\ 1..TextLength \subseteq covered \union ToSet(redacted)
       /\ \A p, q \in DOMAIN redacted : p < q /\ redacted[q] # 0 => redacted[p] < redacted[q]

(* Redacting takes out what it was to take out, and only that. *)
RedactedExactly == DisjointExact /\ ValuesGone

(* MaskSecrets masks all secrets in the text (secret_detector.go:442), also where one
   holds another, as "Bearer" and the JWT behind it. *)
MasksAllSecrets ==
  redaction.how = "MaskSecrets" =>
    /\ redaction.pc # "panic"
    /\ redaction.pc = "done" =>
         \A i \in DOMAIN redacted :
           \A m \in ToSet(redaction.found) : redacted[i] \notin Cells(m)
=============================================================================
