-------------------------- MODULE SelectionProofs --------------------------
(***************************************************************************)
(* Induction over numbers and over sequences, stated for sets instead of   *)
(* predicates and proved from the fact that < is well-founded on Nat, and  *)
(* what Select returns.                                                    *)
(***************************************************************************)
EXTENDS Selection, SequenceTheorems, WellFoundedInduction, TLAPS

LEMMA Least ==
  ASSUME NEW T, T \subseteq Nat, T # {}
  PROVE  \E n \in T : \A m \in T : n <= m
<1> DEFINE R == OpToRel(<, Nat)
<1>1. IsWellFoundedOn(R, Nat)
  BY NatLessThanWellFounded, Zenon
<1>2. \A x, y \in Nat : <<x, y>> \in R <=> x < y
  BY DEF OpToRel
<1> HIDE DEF R
<1>3. PICK n \in T : \A m \in T : ~ (<<m, n>> \in R)
  BY <1>1, WFMin
<1>4. \A m \in T : n <= m
  <2> TAKE m \in T
  <2>1. m \in Nat /\ n \in Nat /\ ~(m < n)
    BY <1>2, <1>3
  <2> QED
    BY <2>1
<1> QED
  BY <1>4

LEMMA Induction ==
  ASSUME NEW S, 0 \in S, \A n \in Nat : n \in S => n + 1 \in S
  PROVE  Nat \subseteq S
<1> DEFINE T == Nat \ S
<1>1. SUFFICES ASSUME T # {} PROVE FALSE
  OBVIOUS
<1>2. PICK n \in T : \A m \in T : n <= m
  BY <1>1, Least
<1>3. n # 0 /\ n \in Nat
  BY <1>2
<1>4. n - 1 \in Nat /\ n - 1 \notin T
  BY <1>2, <1>3
<1> QED
  BY <1>2, <1>4

LEMMA FunctionIsSeq ==
  ASSUME NEW S, NEW n \in Nat, NEW f \in [1..n -> S]
  PROVE  f \in Seq(S) /\ Len(f) = n
  OBVIOUS

LEMMA SequenceInduction ==
  ASSUME NEW S, NEW P, <<>> \in P, \A s \in Seq(S), e \in S : s \in P => Append(s, e) \in P
  PROVE  Seq(S) \subseteq P
<1> DEFINE N == {n \in Nat : \A s \in Seq(S) : Len(s) = n => s \in P}
<1>1. 0 \in N
  <2>1. \A s \in Seq(S) : Len(s) = 0 => s = <<>>
    BY EmptySeq
  <2> QED
    BY <2>1
<1>2. ASSUME NEW n \in Nat, n \in N PROVE n + 1 \in N
  <2> SUFFICES ASSUME NEW s \in Seq(S), Len(s) = n + 1 PROVE s \in P
    OBVIOUS
  <2>1. s # <<>>
    BY EmptySeq
  <2>2. PICK t \in Seq(S), e \in S : s = Append(t, e)
    BY <2>1, SequenceEmptyOrAppend
  <2>3. Len(t) = n
    BY <2>2, AppendProperties, LenProperties
  <2>4. t \in P
    BY <1>2, <2>3
  <2> QED
    BY <2>2, <2>4
<1> HIDE DEF N
<1>3. Nat \subseteq N
  BY <1>1, <1>2, Induction
<1>4. \A s \in Seq(S) : Len(s) \in N
  BY <1>3, LenProperties
<1> QED
  BY <1>4 DEF N

-----------------------------------------------------------------------------
(* Select *)

Steps(seq, kept, n, g) ==
  g = [i \in 0..n |-> IF i = 0 THEN <<>>
                      ELSE IF seq[i] \in kept THEN Append(g[i - 1], seq[i])
                      ELSE g[i - 1]]

LEMMA StepsExist == \A seq, kept : \A n \in Nat : \E g : Steps(seq, kept, n, g)
<1> SUFFICES ASSUME NEW seq, NEW kept PROVE \A n \in Nat : \E g : Steps(seq, kept, n, g)
  OBVIOUS
<1> DEFINE N == {n \in Nat : \E g : Steps(seq, kept, n, g)}
<1>1. 0 \in N
  <2>1. Steps(seq, kept, 0, [i \in 0..0 |-> <<>>])
    BY DEF Steps
  <2> QED
    BY <2>1
<1>2. ASSUME NEW n \in Nat, n \in N PROVE n + 1 \in N
  <2>1. PICK g : Steps(seq, kept, n, g)
    BY <1>2
  <2> DEFINE h == [i \in 0..(n + 1) |->
                     IF i = n + 1 THEN IF seq[n + 1] \in kept THEN Append(g[n], seq[n + 1]) ELSE g[n]
                     ELSE g[i]]
  <2>2. \A i \in 0..n : h[i] = g[i]
    OBVIOUS
  <2>3. h[n + 1] = IF seq[n + 1] \in kept THEN Append(g[n], seq[n + 1]) ELSE g[n]
    OBVIOUS
  <2>4. g = [i \in 0..n |-> IF i = 0 THEN <<>>
                            ELSE IF seq[i] \in kept THEN Append(g[i - 1], seq[i])
                            ELSE g[i - 1]]
    BY <2>1 DEF Steps
  <2>5. h = [i \in 0..(n + 1) |-> h[i]]
    OBVIOUS
  <2> HIDE DEF h
  <2>6. ASSUME NEW i \in 0..(n + 1)
        PROVE  h[i] = IF i = 0 THEN <<>>
                      ELSE IF seq[i] \in kept THEN Append(h[i - 1], seq[i])
                      ELSE h[i - 1]
    <3>1. CASE i = n + 1
      <4>1. h[i - 1] = g[n] /\ i # 0
        BY <2>2, <3>1
      <4> QED
        BY <2>3, <3>1, <4>1
    <3>2. CASE i = 0
      BY <2>2, <2>4, <3>2
    <3>3. CASE i \in 1..n
      <4>1. h[i] = g[i] /\ h[i - 1] = g[i - 1] /\ i # 0 /\ i \in 0..n
        BY <2>2, <3>3
      <4> QED
        BY <2>4, <4>1
    <3> QED
      BY <3>1, <3>2, <3>3
  <2>7. Steps(seq, kept, n + 1, h)
    BY <2>5, <2>6 DEF Steps
  <2> QED
    BY <2>7
<1> HIDE DEF N
<1>3. Nat \subseteq N
  BY <1>1, <1>2, Induction
<1> QED
  BY <1>3 DEF N

LEMMA SelectIsLastStep ==
  ASSUME NEW S, NEW seq \in Seq(S), NEW kept
  PROVE  \E g : Steps(seq, kept, Len(seq), g) /\ Select(seq, kept) = g[Len(seq)]
<1> DEFINE g == CHOOSE g : Steps(seq, kept, Len(seq), g)
<1>1. Steps(seq, kept, Len(seq), g)
  BY StepsExist, LenProperties
<1>2. Select(seq, kept) = g[Len(seq)]
  BY DEF Select, Steps
<1> QED
  BY <1>1, <1>2

LEMMA SelectEmpty == \A kept : Select(<<>>, kept) = <<>>
<1> TAKE kept
<1>1. PICK g : Steps(<<>>, kept, Len(<<>>), g) /\ Select(<<>>, kept) = g[Len(<<>>)]
  <2>1. <<>> \in Seq({})
    BY EmptySeq
  <2> QED
    BY <2>1, SelectIsLastStep
<1> QED
  BY <1>1 DEF Steps

(* A loop that goes one element further keeps it or not. *)
LEMMA SelectAppend ==
  ASSUME NEW S, NEW seq \in Seq(S), NEW e \in S, NEW kept
  PROVE  Select(Append(seq, e), kept) =
           IF e \in kept THEN Append(Select(seq, kept), e) ELSE Select(seq, kept)
<1> DEFINE longer == Append(seq, e)
<1>1. /\ longer \in Seq(S) /\ Len(longer) = Len(seq) + 1 /\ Len(seq) \in Nat
      /\ \A i \in 1..Len(seq) : longer[i] = seq[i]
      /\ longer[Len(seq) + 1] = e
  BY AppendProperties, LenProperties
<1> HIDE DEF longer
<1>2. PICK g : Steps(seq, kept, Len(seq), g) /\ Select(seq, kept) = g[Len(seq)]
  BY SelectIsLastStep
<1>3. PICK h : Steps(longer, kept, Len(seq) + 1, h) /\ Select(longer, kept) = h[Len(seq) + 1]
  BY <1>1, SelectIsLastStep
<1>4. \A i \in 0..Len(seq) :
         g[i] = IF i = 0 THEN <<>>
                ELSE IF seq[i] \in kept THEN Append(g[i - 1], seq[i])
                ELSE g[i - 1]
  BY <1>2 DEF Steps
<1>5. \A i \in 0..(Len(seq) + 1) :
         h[i] = IF i = 0 THEN <<>>
                ELSE IF longer[i] \in kept THEN Append(h[i - 1], longer[i])
                ELSE h[i - 1]
  BY <1>3 DEF Steps
<1> DEFINE N == {i \in Nat : i <= Len(seq) => g[i] = h[i]}
<1>6. 0 \in N
  BY <1>1, <1>4, <1>5
<1>7. ASSUME NEW i \in Nat, i \in N PROVE i + 1 \in N
  <2> SUFFICES ASSUME i + 1 <= Len(seq) PROVE g[i + 1] = h[i + 1]
    OBVIOUS
  <2>1. /\ i + 1 \in 0..Len(seq) /\ i + 1 \in 0..(Len(seq) + 1) /\ i + 1 \in 1..Len(seq)
        /\ i + 1 # 0 /\ (i + 1) - 1 = i
    BY <1>1
  <2>2. g[i] = h[i] /\ longer[i + 1] = seq[i + 1]
    BY <1>1, <1>7, <2>1
  <2>3. g[i + 1] = IF seq[i + 1] \in kept THEN Append(g[i], seq[i + 1]) ELSE g[i]
    BY <1>4, <2>1
  <2>4. h[i + 1] = IF longer[i + 1] \in kept THEN Append(h[i], longer[i + 1]) ELSE h[i]
    BY <1>5, <2>1
  <2> QED
    BY <2>2, <2>3, <2>4
<1>8. g[Len(seq)] = h[Len(seq)]
  <2> HIDE DEF N
  <2>1. Nat \subseteq N
    BY <1>6, <1>7, Induction
  <2> QED
    BY <1>1, <2>1 DEF N
<1>9. h[Len(seq) + 1] = IF e \in kept THEN Append(h[Len(seq)], e) ELSE h[Len(seq)]
  <2>1. Len(seq) + 1 \in 0..(Len(seq) + 1) /\ Len(seq) + 1 # 0 /\ (Len(seq) + 1) - 1 = Len(seq)
    BY <1>1
  <2> QED
    BY <1>1, <1>5, <2>1
<1> QED
  BY <1>2, <1>3, <1>8, <1>9 DEF longer

LEMMA SelectType ==
  ASSUME NEW S, NEW seq \in Seq(S), NEW kept
  PROVE  /\ Select(seq, kept) \in Seq(S)
         /\ \A i \in 1..Len(Select(seq, kept)) : Select(seq, kept)[i] \in kept
         /\ Len(Select(seq, kept)) <= Len(seq)
<1> DEFINE Good(s) == /\ Select(s, kept) \in Seq(S)
                      /\ \A i \in 1..Len(Select(s, kept)) : Select(s, kept)[i] \in kept
                      /\ Len(Select(s, kept)) <= Len(s)
           P == {s \in Seq(S) : Good(s)}
<1>1. <<>> \in P
  <2>1. Select(<<>>, kept) = <<>> /\ <<>> \in Seq(S) /\ Len(<<>>) = 0
    BY SelectEmpty, EmptySeq
  <2>2. Len(Select(<<>>, kept)) <= Len(<<>>) /\ 1..Len(Select(<<>>, kept)) = {}
    BY <2>1
  <2>3. Good(<<>>)
    BY <2>1, <2>2
  <2> QED
    BY <2>1, <2>3
<1>2. ASSUME NEW s \in Seq(S), NEW e \in S, s \in P PROVE Append(s, e) \in P
  <2> DEFINE t == Select(s, kept)
  <2>1. t \in Seq(S) /\ (\A i \in 1..Len(t) : t[i] \in kept) /\ Len(t) <= Len(s)
    BY <1>2
  <2>2. Append(s, e) \in Seq(S) /\ Len(Append(s, e)) = Len(s) + 1 /\ Len(s) \in Nat /\ Len(t) \in Nat
    BY <2>1, AppendProperties, LenProperties
  <2>3. Select(Append(s, e), kept) = IF e \in kept THEN Append(t, e) ELSE t
    BY SelectAppend
  <2> HIDE DEF t
  <2>4. CASE e \in kept
    <3>1. /\ Append(t, e) \in Seq(S) /\ Len(Append(t, e)) = Len(t) + 1
          /\ \A i \in 1..Len(t) : Append(t, e)[i] = t[i]
          /\ Append(t, e)[Len(t) + 1] = e
      BY <2>1, AppendProperties
    <3>2. \A i \in 1..Len(Append(t, e)) : Append(t, e)[i] \in kept
      BY <2>1, <2>2, <2>4, <3>1
    <3>3. Select(Append(s, e), kept) = Append(t, e) /\ Len(Append(t, e)) <= Len(s) + 1
      BY <2>1, <2>2, <2>3, <2>4, <3>1
    <3> QED
      BY <2>2, <3>1, <3>2, <3>3
  <2>5. CASE e \notin kept
    BY <2>1, <2>2, <2>3, <2>5
  <2> QED
    BY <2>4, <2>5
<1> HIDE DEF P
<1>3. Seq(S) \subseteq P
  BY <1>1, <1>2, SequenceInduction
<1> QED
  BY <1>3 DEF P

(* An element that is kept is at least as near to the end as it was. *)
LEMMA SelectFromEnd ==
  ASSUME NEW S, NEW seq \in Seq(S), NEW kept, NEW i \in 1..Len(seq), seq[i] \in kept
  PROVE  \E m \in 1..Len(Select(seq, kept)) :
            /\ Select(seq, kept)[m] = seq[i]
            /\ Len(Select(seq, kept)) - m <= Len(seq) - i
<1> DEFINE Good(s) == \A k \in 1..Len(s) : s[k] \in kept =>
                        \E m \in 1..Len(Select(s, kept)) :
                          /\ Select(s, kept)[m] = s[k]
                          /\ Len(Select(s, kept)) - m <= Len(s) - k
           P == {s \in Seq(S) : Good(s)}
<1>1. <<>> \in P
  BY EmptySeq
<1>2. ASSUME NEW s \in Seq(S), NEW e \in S, s \in P PROVE Append(s, e) \in P
  <2> DEFINE l == Append(s, e)
             t == Select(s, kept)
             u == Select(l, kept)
  <2>1. t \in Seq(S) /\ Len(t) \in Nat /\ Len(s) \in Nat
    BY SelectType, LenProperties
  <2>2. /\ l \in Seq(S) /\ Len(l) = Len(s) + 1
        /\ \A k \in 1..Len(s) : l[k] = s[k]
        /\ l[Len(s) + 1] = e
    BY AppendProperties
  <2>3. u = IF e \in kept THEN Append(t, e) ELSE t
    BY SelectAppend
  <2>4. \A k \in 1..Len(s) : s[k] \in kept =>
          \E m \in 1..Len(t) : t[m] = s[k] /\ Len(t) - m <= Len(s) - k
    BY <1>2
  <2>5. e \in kept => /\ Len(Append(t, e)) = Len(t) + 1
                      /\ \A m \in 1..Len(t) : Append(t, e)[m] = t[m]
                      /\ Append(t, e)[Len(t) + 1] = e
    BY <2>1, AppendProperties
  <2>6. /\ Len(u) = IF e \in kept THEN Len(t) + 1 ELSE Len(t)
        /\ \A m \in 1..Len(t) : u[m] = t[m]
        /\ e \in kept => u[Len(t) + 1] = e
    BY <2>3, <2>5
  <2> HIDE DEF t, u, l
  <2> SUFFICES ASSUME NEW k \in 1..(Len(s) + 1), l[k] \in kept
               PROVE  \E m \in 1..Len(u) : u[m] = l[k] /\ Len(u) - m <= Len(s) + 1 - k
    <3>1. Good(l)
      BY <2>2 DEF u
    <3> QED
      BY <2>2, <3>1 DEF l
  <2>7. CASE k = Len(s) + 1
    <3>1. e \in kept /\ Len(u) = Len(t) + 1 /\ Len(t) + 1 \in 1..Len(u)
      BY <2>1, <2>2, <2>6, <2>7
    <3> QED
      BY <2>1, <2>2, <2>6, <2>7, <3>1
  <2>8. CASE k \in 1..Len(s)
    <3>1. PICK m \in 1..Len(t) : t[m] = s[k] /\ Len(t) - m <= Len(s) - k
      BY <2>2, <2>4, <2>8
    <3>2. m \in 1..Len(u) /\ u[m] = l[k] /\ Len(u) - m <= Len(s) + 1 - k
      BY <2>1, <2>2, <2>6, <2>8, <3>1
    <3> QED
      BY <3>2
  <2> QED
    BY <2>1, <2>7, <2>8
<1> HIDE DEF P
<1>3. Seq(S) \subseteq P
  BY <1>1, <1>2, SequenceInduction
<1> QED
  BY <1>3 DEF P

(* What is selected from the first n elements is selected first. *)
LEMMA SelectPrefix ==
  ASSUME NEW S, NEW seq \in Seq(S), NEW kept, NEW n \in 0..Len(seq)
  PROVE  /\ Len(Select(SubSeq(seq, 1, n), kept)) <= Len(Select(seq, kept))
         /\ \A i \in 1..Len(Select(SubSeq(seq, 1, n), kept)) :
               Select(SubSeq(seq, 1, n), kept)[i] = Select(seq, kept)[i]
<1> DEFINE Prefix(t, u) == Len(t) <= Len(u) /\ \A i \in 1..Len(t) : t[i] = u[i]
           Good(s) == \A k \in 0..Len(s) : Prefix(Select(SubSeq(s, 1, k), kept), Select(s, kept))
           P == {s \in Seq(S) : Good(s)}
<1>1. <<>> \in P
  <2>1. <<>> \in Seq(S) /\ Len(<<>>) = 0 /\ \A k \in 0..0 : SubSeq(<<>>, 1, k) = <<>>
    BY EmptySeq, SubSeqEmpty
  <2>2. Select(<<>>, kept) = <<>>
    BY SelectEmpty
  <2>3. Prefix(<<>>, <<>>)
    BY <2>1
  <2>4. \A k \in 0..Len(<<>>) : Prefix(Select(SubSeq(<<>>, 1, k), kept), Select(<<>>, kept))
    BY <2>1, <2>2, <2>3
  <2> QED
    BY <2>1, <2>4
<1>2. ASSUME NEW s \in Seq(S), NEW e \in S, s \in P PROVE Append(s, e) \in P
  <2> DEFINE t == Append(s, e)
  <2>1. /\ t \in Seq(S) /\ Len(t) = Len(s) + 1 /\ Len(s) \in Nat
        /\ \A k \in 1..Len(s) : t[k] = s[k]
    BY AppendProperties, LenProperties
  <2>2. Prefix(Select(s, kept), Select(t, kept))
    <3>1. Select(s, kept) \in Seq(S) /\ Len(Select(s, kept)) \in Nat
      BY SelectType, LenProperties
    <3>2. Select(t, kept) = IF e \in kept THEN Append(Select(s, kept), e) ELSE Select(s, kept)
      BY SelectAppend
    <3>3. /\ Len(Append(Select(s, kept), e)) = Len(Select(s, kept)) + 1
          /\ \A i \in 1..Len(Select(s, kept)) : Append(Select(s, kept), e)[i] = Select(s, kept)[i]
      BY <3>1, AppendProperties
    <3> HIDE DEF t
    <3> QED
      BY <3>1, <3>2, <3>3
  <2> HIDE DEF t
  <2> SUFFICES ASSUME NEW k \in 0..(Len(s) + 1)
               PROVE  Prefix(Select(SubSeq(t, 1, k), kept), Select(t, kept))
    BY <2>1 DEF t
  <2>3. CASE k = Len(s) + 1
    <3>1. SubSeq(t, 1, k) = t
      BY <2>1, <2>3, SubSeqFull
    <3>2. Len(Select(t, kept)) \in Nat
      BY <2>1, SelectType, LenProperties
    <3>3. Prefix(Select(t, kept), Select(t, kept))
      BY <3>2
    <3> HIDE DEF Prefix
    <3> QED
      BY <3>1, <3>3
  <2>4. CASE k \in 0..Len(s)
    <3>1. SubSeq(t, 1, k) = SubSeq(s, 1, k)
      <4>1. k \in Int /\ (\A j \in 1..k : t[j] = s[j] /\ s[j] \in S)
        BY <2>1, <2>4, ElementOfSeq
      <4>2. /\ SubSeq(t, 1, k) \in Seq(S) /\ SubSeq(s, 1, k) \in Seq(S)
            /\ Len(SubSeq(t, 1, k)) = Len(SubSeq(s, 1, k))
            /\ Len(SubSeq(t, 1, k)) = IF 1 <= k THEN k - 1 + 1 ELSE 0
            /\ \A j \in 1..(k - 1 + 1) : SubSeq(t, 1, k)[j] = t[1 + j - 1]
            /\ \A j \in 1..(k - 1 + 1) : SubSeq(s, 1, k)[j] = s[1 + j - 1]
        BY <4>1, SubSeqProperties
      <4>3. \A j \in 1..Len(SubSeq(t, 1, k)) : SubSeq(t, 1, k)[j] = SubSeq(s, 1, k)[j]
        BY <2>4, <4>1, <4>2
      <4> QED
        BY <4>2, <4>3, SeqEqual
    <3>2. Prefix(Select(SubSeq(s, 1, k), kept), Select(s, kept))
      BY <1>2, <2>4
    <3>3. /\ Len(Select(SubSeq(s, 1, k), kept)) \in Nat
          /\ Len(Select(s, kept)) \in Nat /\ Len(Select(t, kept)) \in Nat
      <4>1. SubSeq(s, 1, k) \in Seq(S)
        BY <2>1, <2>4, SubSeqProperties, ElementOfSeq
      <4> QED
        BY <2>1, <4>1, SelectType, LenProperties
    <3> DEFINE x == Select(SubSeq(s, 1, k), kept)
               y == Select(s, kept)
               z == Select(t, kept)
    <3>4. Prefix(x, y) /\ Prefix(y, z) /\ Len(x) \in Nat /\ Len(y) \in Nat /\ Len(z) \in Nat
      BY <2>2, <3>2, <3>3
    <3> HIDE DEF x, y, z
    <3>5. Prefix(x, z)
      BY <3>4
    <3> HIDE DEF Prefix
    <3> QED
      BY <3>1, <3>5 DEF x, z
  <2> QED
    BY <2>1, <2>3, <2>4
<1> HIDE DEF P
<1>3. Seq(S) \subseteq P
  BY <1>1, <1>2, SequenceInduction
<1> QED
  BY <1>3 DEF P

(* Selecting from what was selected. *)
LEMMA SelectTwice ==
  ASSUME NEW S, NEW seq \in Seq(S), NEW A, NEW B
  PROVE  Select(Select(seq, A), B) = Select(seq, A \intersect B)
<1> DEFINE P == {s \in Seq(S) : Select(Select(s, A), B) = Select(s, A \intersect B)}
<1>1. <<>> \in P
  BY SelectEmpty, EmptySeq
<1>2. ASSUME NEW s \in Seq(S), NEW e \in S, s \in P PROVE Append(s, e) \in P
  <2>1. Append(s, e) \in Seq(S) /\ Select(s, A) \in Seq(S)
    BY AppendProperties, SelectType
  <2>2. Select(Append(s, e), A) = IF e \in A THEN Append(Select(s, A), e) ELSE Select(s, A)
    BY SelectAppend
  <2>3. Select(Append(s, e), A \intersect B) =
          IF e \in A \intersect B THEN Append(Select(s, A \intersect B), e)
          ELSE Select(s, A \intersect B)
    BY SelectAppend
  <2>4. Select(Append(Select(s, A), e), B) =
          IF e \in B THEN Append(Select(Select(s, A), B), e) ELSE Select(Select(s, A), B)
    BY <2>1, SelectAppend
  <2>5. Select(Select(s, A), B) = Select(s, A \intersect B)
    BY <1>2
  <2>6. Select(Select(Append(s, e), A), B) = Select(Append(s, e), A \intersect B)
    <3>1. CASE e \in A
      <4>1. Select(Append(s, e), A) = Append(Select(s, A), e)
        BY <2>2, <3>1
      <4>2. e \in A \intersect B <=> e \in B
        BY <3>1
      <4> QED
        BY <2>3, <2>4, <2>5, <4>1, <4>2, Zenon
    <3>2. CASE e \notin A
      BY <2>2, <2>3, <2>5, <3>2
    <3> QED
      BY <3>1, <3>2
  <2> QED
    BY <2>1, <2>6
<1> HIDE DEF P
<1>3. Seq(S) \subseteq P
  BY <1>1, <1>2, SequenceInduction
<1> QED
  BY <1>3 DEF P

(* Two sets select the same if they agree on the elements. *)
LEMMA SelectSame ==
  ASSUME NEW S, NEW seq \in Seq(S), NEW A, NEW B, S \intersect A = S \intersect B
  PROVE  Select(seq, A) = Select(seq, B)
<1> DEFINE P == {s \in Seq(S) : Select(s, A) = Select(s, B)}
<1>1. <<>> \in P
  BY SelectEmpty, EmptySeq
<1>2. ASSUME NEW s \in Seq(S), NEW e \in S, s \in P PROVE Append(s, e) \in P
  <2>1. Append(s, e) \in Seq(S)
    BY AppendProperties
  <2>2. Select(Append(s, e), A) = IF e \in A THEN Append(Select(s, A), e) ELSE Select(s, A)
    BY SelectAppend
  <2>3. Select(Append(s, e), B) = IF e \in B THEN Append(Select(s, B), e) ELSE Select(s, B)
    BY SelectAppend
  <2> QED
    BY <1>2, <2>1, <2>2, <2>3
<1> HIDE DEF P
<1>3. Seq(S) \subseteq P
  BY <1>1, <1>2, SequenceInduction
<1> QED
  BY <1>3 DEF P

(* What is selected is what is there and kept. *)
Occurs(seq, x) == \E i \in 1..Len(seq) : seq[i] = x

LEMMA OccursAppend ==
  ASSUME NEW S, NEW seq \in Seq(S), NEW e \in S
  PROVE  \A x : Occurs(Append(seq, e), x) <=> Occurs(seq, x) \/ x = e
<1>1. /\ Len(Append(seq, e)) = Len(seq) + 1 /\ Len(seq) \in Nat
      /\ \A i \in 1..Len(seq) : Append(seq, e)[i] = seq[i]
      /\ Append(seq, e)[Len(seq) + 1] = e
  BY AppendProperties, LenProperties
<1>2. \A i \in 1..(Len(seq) + 1) : i = Len(seq) + 1 \/ i \in 1..Len(seq)
  BY <1>1
<1>3. Len(seq) + 1 \in 1..(Len(seq) + 1) /\ \A i \in 1..Len(seq) : i \in 1..(Len(seq) + 1)
  BY <1>1
<1> QED
  BY <1>1, <1>2, <1>3 DEF Occurs

LEMMA SelectElements ==
  ASSUME NEW S, NEW seq \in Seq(S), NEW kept
  PROVE  \A x : Occurs(Select(seq, kept), x) <=> Occurs(seq, x) /\ x \in kept
<1> DEFINE Good(s) == \A x : Occurs(Select(s, kept), x) <=> Occurs(s, x) /\ x \in kept
           P == {s \in Seq(S) : Good(s)}
<1>1. <<>> \in P
  BY SelectEmpty, EmptySeq DEF Occurs
<1>2. ASSUME NEW s \in Seq(S), NEW e \in S, s \in P PROVE Append(s, e) \in P
  <2> DEFINE t == Select(s, kept)
  <2>1. t \in Seq(S) /\ Append(s, e) \in Seq(S)
    BY SelectType, AppendProperties
  <2>2. Select(Append(s, e), kept) = IF e \in kept THEN Append(t, e) ELSE t
    BY SelectAppend
  <2>3. \A x : Occurs(t, x) <=> Occurs(s, x) /\ x \in kept
    BY <1>2
  <2> HIDE DEF t
  <2>4. \A x : Occurs(Append(t, e), x) <=> Occurs(t, x) \/ x = e
    BY <2>1, OccursAppend
  <2>5. \A x : Occurs(Append(s, e), x) <=> Occurs(s, x) \/ x = e
    BY OccursAppend
  <2>6. Good(Append(s, e))
    <3>1. CASE e \in kept
      <4>1. Select(Append(s, e), kept) = Append(t, e)
        BY <2>2, <3>1
      <4> QED
        BY <2>3, <2>4, <2>5, <3>1, <4>1, Zenon
    <3>2. CASE e \notin kept
      <4>1. Select(Append(s, e), kept) = t
        BY <2>2, <3>2
      <4> QED
        BY <2>3, <2>5, <3>2, <4>1, Zenon
    <3> QED
      BY <3>1, <3>2
  <2> QED
    BY <2>1, <2>6
<1> HIDE DEF P
<1>3. Seq(S) \subseteq P
  BY <1>1, <1>2, SequenceInduction
<1> QED
  BY <1>3 DEF P

(* Selection keeps the order. *)
Sorted(seq, R) == \A i, j \in 1..Len(seq) : i < j => <<seq[i], seq[j]>> \in R

LEMMA SortedAppend ==
  ASSUME NEW S, NEW seq \in Seq(S), NEW e \in S, NEW R
  PROVE  Sorted(Append(seq, e), R) <=>
           Sorted(seq, R) /\ \A x : Occurs(seq, x) => <<x, e>> \in R
<1> DEFINE t == Append(seq, e)
<1>1. /\ Len(t) = Len(seq) + 1 /\ Len(seq) \in Nat
      /\ \A i \in 1..Len(seq) : t[i] = seq[i]
      /\ t[Len(seq) + 1] = e
  BY AppendProperties, LenProperties
<1> HIDE DEF t
<1>2. ASSUME Sorted(t, R) PROVE Sorted(seq, R) /\ \A x : Occurs(seq, x) => <<x, e>> \in R
  <2>1. \A i, j \in 1..Len(seq) : i < j => <<seq[i], seq[j]>> \in R
    BY <1>1, <1>2 DEF Sorted
  <2>2. \A i \in 1..Len(seq) : <<t[i], t[Len(seq) + 1]>> \in R
    BY <1>1, <1>2 DEF Sorted
  <2> QED
    BY <1>1, <2>1, <2>2 DEF Sorted, Occurs
<1>3. ASSUME Sorted(seq, R), \A x : Occurs(seq, x) => <<x, e>> \in R PROVE Sorted(t, R)
  <2> SUFFICES ASSUME NEW i \in 1..(Len(seq) + 1), NEW j \in 1..(Len(seq) + 1), i < j
               PROVE  <<t[i], t[j]>> \in R
    BY <1>1 DEF Sorted
  <2>1. i \in 1..Len(seq) /\ t[i] = seq[i]
    BY <1>1
  <2>2. CASE j \in 1..Len(seq)
    BY <1>1, <1>3, <2>1, <2>2 DEF Sorted
  <2>3. CASE j = Len(seq) + 1
    BY <1>1, <1>3, <2>1, <2>3 DEF Occurs
  <2> QED
    BY <1>1, <2>2, <2>3
<1> QED
  BY <1>2, <1>3 DEF t

LEMMA SelectSorted ==
  ASSUME NEW S, NEW seq \in Seq(S), NEW kept, NEW R, Sorted(seq, R)
  PROVE  Sorted(Select(seq, kept), R)
<1> DEFINE P == {s \in Seq(S) : Sorted(s, R) => Sorted(Select(s, kept), R)}
<1>1. <<>> \in P
  BY SelectEmpty, EmptySeq
<1>2. ASSUME NEW s \in Seq(S), NEW e \in S, s \in P PROVE Append(s, e) \in P
  <2> DEFINE t == Select(s, kept)
  <2>1. t \in Seq(S) /\ Append(s, e) \in Seq(S)
    BY SelectType, AppendProperties
  <2>2. Select(Append(s, e), kept) = IF e \in kept THEN Append(t, e) ELSE t
    BY SelectAppend
  <2>3. \A x : Occurs(t, x) => Occurs(s, x)
    BY SelectElements
  <2>4. Sorted(s, R) => Sorted(t, R)
    BY <1>2
  <2> HIDE DEF t
  <2>5. Sorted(Append(s, e), R) => Sorted(s, R) /\ \A x : Occurs(s, x) => <<x, e>> \in R
    BY SortedAppend
  <2>6. Sorted(t, R) /\ (\A x : Occurs(t, x) => <<x, e>> \in R) => Sorted(Append(t, e), R)
    BY <2>1, SortedAppend
  <2>7. Sorted(Append(s, e), R) => Sorted(Select(Append(s, e), kept), R)
    BY <2>2, <2>3, <2>4, <2>5, <2>6
  <2> QED
    BY <2>1, <2>7
<1> HIDE DEF P
<1>3. Seq(S) \subseteq P
  BY <1>1, <1>2, SequenceInduction
<1> QED
  BY <1>3 DEF P

(* Leaving out one of elements that are all different. *)
Distinct(seq) == \A i, j \in 1..Len(seq) : i < j => seq[i] # seq[j]

LEMMA DistinctAppend ==
  ASSUME NEW S, NEW seq \in Seq(S), NEW e \in S, Distinct(Append(seq, e))
  PROVE  Distinct(seq) /\ ~Occurs(seq, e)
<1> DEFINE t == Append(seq, e)
<1>1. /\ Len(t) = Len(seq) + 1 /\ Len(seq) \in Nat
      /\ \A i \in 1..Len(seq) : t[i] = seq[i]
      /\ t[Len(seq) + 1] = e
  BY AppendProperties, LenProperties
<1>2. Distinct(t)
  OBVIOUS
<1> HIDE DEF t
<1> QED
  BY <1>1, <1>2 DEF Distinct, Occurs

LEMMA SelectAllBut ==
  ASSUME NEW S, NEW seq \in Seq(S), NEW k, Distinct(seq)
  PROVE  Len(Select(seq, S \ {k})) = IF Occurs(seq, k) THEN Len(seq) - 1 ELSE Len(seq)
<1> DEFINE Good(s) == Len(Select(s, S \ {k})) = IF Occurs(s, k) THEN Len(s) - 1 ELSE Len(s)
           P == {s \in Seq(S) : Distinct(s) => Good(s)}
<1>1. <<>> \in P
  BY SelectEmpty, EmptySeq DEF Occurs
<1>2. ASSUME NEW s \in Seq(S), NEW e \in S, s \in P PROVE Append(s, e) \in P
  <2> DEFINE t == Select(s, S \ {k})
  <2>1. /\ t \in Seq(S) /\ Append(s, e) \in Seq(S)
        /\ Len(s) \in Nat /\ Len(t) \in Nat /\ Len(Append(s, e)) = Len(s) + 1
    BY SelectType, AppendProperties, LenProperties
  <2>2. Select(Append(s, e), S \ {k}) = IF e \in S \ {k} THEN Append(t, e) ELSE t
    BY SelectAppend
  <2>3. Distinct(s) => Len(t) = IF Occurs(s, k) THEN Len(s) - 1 ELSE Len(s)
    BY <1>2
  <2> HIDE DEF t
  <2>4. Len(Append(t, e)) = Len(t) + 1
    BY <2>1, AppendProperties
  <2>5. Occurs(Append(s, e), k) <=> Occurs(s, k) \/ k = e
    BY OccursAppend
  <2>6. ASSUME Distinct(Append(s, e)) PROVE Good(Append(s, e))
    <3>1. Distinct(s) /\ ~Occurs(s, e)
      BY <2>6, DistinctAppend
    <3>2. CASE e = k
      <4>1. Select(Append(s, e), S \ {k}) = t
        BY <2>2, <3>2
      <4> QED
        BY <2>1, <2>3, <2>5, <3>1, <3>2, <4>1
    <3>3. CASE e # k
      <4>1. Select(Append(s, e), S \ {k}) = Append(t, e)
        BY <2>2, <3>3
      <4> QED
        BY <2>1, <2>3, <2>4, <2>5, <3>1, <3>3, <4>1
    <3> QED
      BY <3>2, <3>3
  <2> QED
    BY <2>1, <2>6
<1> HIDE DEF P
<1>3. Seq(S) \subseteq P
  BY <1>1, <1>2, SequenceInduction
<1> QED
  BY <1>3 DEF P
=============================================================================
