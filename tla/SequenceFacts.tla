--------------------------- MODULE SequenceFacts ---------------------------
(***************************************************************************)
(* Facts about sequences that the proofs of the pipeline rest on: what is  *)
(* still to come of a sequence after its first n elements, and how queues  *)
(* in a row behave as one queue.                                           *)
(***************************************************************************)
EXTENDS Naturals, Sequences, SequenceTheorems, TLAPS

After(s, n) == SubSeq(s, n + 1, Len(s))

LEMMA AfterIsSeq ==
  ASSUME NEW s \in Seq(Nat), NEW n \in 0..Len(s)
  PROVE /\ After(s, n) \in Seq(Nat)
        /\ Len(After(s, n)) = Len(s) - n
        /\ \A i \in 1..(Len(s) - n) : After(s, n)[i] = s[n + i]
  <1>1. Len(s) \in Nat /\ n \in Nat
    BY LenProperties
  <1>2. \A i \in n + 1 .. Len(s) : s[i] \in Nat
    BY <1>1, ElementOfSeq
  <1>3. /\ After(s, n) \in Seq(Nat)
        /\ Len(After(s, n)) = IF n + 1 <= Len(s) THEN Len(s) - (n + 1) + 1 ELSE 0
        /\ \A i \in 1..(Len(s) - (n + 1) + 1) : After(s, n)[i] = s[(n + 1) + i - 1]
    BY <1>1, <1>2, SubSeqProperties DEF After
  <1>4. QED
    BY <1>1, <1>3

LEMMA AfterAppend ==
  ASSUME NEW s \in Seq(Nat), NEW n \in 0..Len(s), NEW x \in Nat
  PROVE After(Append(s, x), n) = Append(After(s, n), x)
  <1> DEFINE t == Append(s, x)
  <1>1. t \in Seq(Nat) /\ Len(t) = Len(s) + 1 /\ Len(s) \in Nat /\ n \in 0..Len(t)
    BY LenProperties
  <1>2. \A i \in 1..Len(t) : t[i] = IF i <= Len(s) THEN s[i] ELSE x
    BY <1>1
  <1> HIDE DEF t
  <1>3. /\ After(t, n) \in Seq(Nat) /\ Len(After(t, n)) = Len(t) - n
        /\ \A i \in 1..(Len(t) - n) : After(t, n)[i] = t[n + i]
    BY <1>1, AfterIsSeq
  <1>4. /\ After(s, n) \in Seq(Nat) /\ Len(After(s, n)) = Len(s) - n
        /\ \A i \in 1..(Len(s) - n) : After(s, n)[i] = s[n + i]
    BY AfterIsSeq
  <1> DEFINE u == Append(After(s, n), x)
  <1>5. /\ u \in Seq(Nat) /\ Len(u) = Len(s) - n + 1
        /\ \A i \in 1..Len(u) : u[i] = IF i <= Len(s) - n THEN After(s, n)[i] ELSE x
    BY <1>4
  <1> HIDE DEF u
  <1>6. Len(After(t, n)) = Len(u)
    BY <1>1, <1>3, <1>5
  <1>7. ASSUME NEW i \in 1..Len(u)
        PROVE After(t, n)[i] = u[i]
    <2>1. n + i \in 1..Len(t) /\ i \in 1..(Len(t) - n) /\ i \in Nat
      BY <1>1, <1>5
    <2>2. After(t, n)[i] = IF n + i <= Len(s) THEN s[n + i] ELSE x
      BY <1>2, <1>3, <2>1
    <2>3. QED
      BY <1>1, <1>4, <1>5, <2>1, <2>2
  <1>8. After(t, n) = u
    BY <1>3, <1>5, <1>6, <1>7, SeqEqual
  <1>9. QED
    BY <1>8 DEF t, u

LEMMA AfterNext ==
  ASSUME NEW s \in Seq(Nat), NEW n \in 0..Len(s), n # Len(s)
  PROVE /\ After(s, n) # <<>>
        /\ Head(After(s, n)) = s[n + 1]
        /\ After(s, n + 1) = Tail(After(s, n))
  <1>1. Len(s) \in Nat /\ n \in Nat /\ n < Len(s) /\ n + 1 \in 0..Len(s)
    BY LenProperties
  <1>2. /\ After(s, n) \in Seq(Nat) /\ Len(After(s, n)) = Len(s) - n
        /\ \A i \in 1..(Len(s) - n) : After(s, n)[i] = s[n + i]
    BY AfterIsSeq
  <1>3. /\ After(s, n + 1) \in Seq(Nat) /\ Len(After(s, n + 1)) = Len(s) - (n + 1)
        /\ \A i \in 1..(Len(s) - (n + 1)) : After(s, n + 1)[i] = s[(n + 1) + i]
    BY <1>1, AfterIsSeq
  <1>4. After(s, n) # <<>> /\ Head(After(s, n)) = s[n + 1]
    BY <1>1, <1>2, HeadTailProperties, EmptySeq
  <1> DEFINE t == Tail(After(s, n))
  <1> DEFINE a == After(s, n + 1)
  <1>5. /\ t \in Seq(Nat)
        /\ Len(t) = Len(s) - n - 1
        /\ \A i \in 1..Len(t) : t[i] = After(s, n)[i + 1]
    BY <1>1, <1>2, <1>4, HeadTailProperties
  <1> HIDE DEF t, a
  <1>6. a \in Seq(Nat) /\ Len(a) = Len(t)
    BY <1>1, <1>3, <1>5 DEF a
  <1>7. ASSUME NEW i \in 1..Len(a)
        PROVE a[i] = t[i]
    <2>1. /\ i \in 1..(Len(s) - (n + 1)) /\ i + 1 \in 1..(Len(s) - n)
          /\ (n + 1) + i = n + (i + 1) /\ i \in 1..Len(t)
      BY <1>1, <1>5, <1>6
    <2>2. a[i] = s[n + (i + 1)] /\ After(s, n)[i + 1] = s[n + (i + 1)]
      BY <1>2, <1>3, <2>1 DEF a
    <2>3. QED
      BY <1>5, <2>1, <2>2
  <1>8. a = t
    BY <1>5, <1>6, <1>7, SeqEqual
  <1>9. QED
    BY <1>4, <1>8 DEF a, t

(* A sequence is its head followed by its tail. *)
LEMMA HeadTailDecompose ==
  ASSUME NEW s \in Seq(Nat), s # <<>>
  PROVE s = <<Head(s)>> \o Tail(s)
  <1> DEFINE h == <<Head(s)>>
  <1> DEFINE t == Tail(s)
  <1>1. Len(s) \in Nat \ {0}
    BY EmptySeq
  <1>2. /\ h \in Seq(Nat) /\ Len(h) = 1 /\ h[1] = s[1]
    BY HeadTailProperties
  <1>3. /\ t \in Seq(Nat) /\ Len(t) = Len(s) - 1
        /\ \A i \in 1..Len(t) : t[i] = s[i + 1]
    BY HeadTailProperties
  <1> HIDE DEF h, t
  <1> DEFINE u == h \o t
  <1>4. /\ u \in Seq(Nat) /\ Len(u) = Len(h) + Len(t)
        /\ \A i \in 1..Len(h) + Len(t) :
             u[i] = IF i <= Len(h) THEN h[i] ELSE t[i - Len(h)]
    <2>1. h \in Seq(Nat) /\ t \in Seq(Nat)
      BY <1>2, <1>3
    <2>2. QED
      BY <2>1, ConcatProperties, Zenon
  <1> HIDE DEF u
  <1>5. /\ u \in Seq(Nat) /\ Len(u) = Len(s)
        /\ \A i \in 1..Len(s) : u[i] = IF i <= 1 THEN h[i] ELSE t[i - 1]
    BY <1>1, <1>2, <1>3, <1>4
  <1>6. ASSUME NEW i \in 1..Len(s)
        PROVE s[i] = u[i]
    <2>1. CASE i = 1
      BY <1>2, <1>5, <2>1
    <2>2. CASE i # 1
      <3>1. i - 1 \in 1..Len(t) /\ (i - 1) + 1 = i /\ ~(i <= 1)
        BY <1>1, <1>3, <2>2
      <3>2. QED
        BY <1>3, <1>5, <3>1
    <2>3. QED
      BY <2>1, <2>2
  <1>7. s = u
    BY <1>5, <1>6, SeqEqual
  <1>8. QED
    BY <1>7 DEF u, h, t

(* The beginning of a concatenation. *)
LEMMA SubSeqPrefixOfConcat ==
  ASSUME NEW a \in Seq(Nat), NEW b \in Seq(Nat)
  PROVE a = SubSeq(a \o b, 1, Len(a \o b) - Len(b))
  <1> DEFINE u == a \o b
  <1>1. /\ u \in Seq(Nat) /\ Len(u) = Len(a) + Len(b)
        /\ Len(a) \in Nat /\ Len(b) \in Nat
        /\ \A i \in 1..Len(a) : u[i] = a[i]
    BY ConcatProperties, LenProperties
  <1> HIDE DEF u
  <1>2. Len(u) - Len(b) = Len(a) /\ \A i \in 1..Len(a) : u[i] \in Nat
    BY <1>1, ElementOfSeq
  <1> DEFINE v == SubSeq(u, 1, Len(a))
  <1>3. /\ v \in Seq(Nat)
        /\ Len(v) = IF 1 <= Len(a) THEN Len(a) - 1 + 1 ELSE 0
        /\ \A i \in 1 .. Len(a) - 1 + 1 : v[i] = u[1 + i - 1]
    BY <1>1, <1>2, SubSeqProperties
  <1> HIDE DEF v
  <1>4. Len(v) = Len(a) /\ \A i \in 1..Len(a) : v[i] = a[i]
    BY <1>1, <1>3
  <1>5. a = v
    BY <1>3, <1>4, SeqEqual
  <1>6. QED
    BY <1>2, <1>5 DEF u, v

(* A queue in two parts is one queue: of elements appended to the second   *)
(* part, taken from the first, moved from the second to the first, or      *)
(* removed with the second.                                                *)
LEMMA TwoQueues ==
  ASSUME NEW a \in Seq(Nat), NEW b \in Seq(Nat), NEW x \in Nat
  PROVE /\ a \o b \in Seq(Nat)
        /\ a \o Append(b, x) = Append(a \o b, x)
        /\ a # <<>> => /\ a \o b # <<>>
                      /\ Head(a \o b) = Head(a)
                      /\ Tail(a \o b) = Tail(a) \o b
        /\ b # <<>> => Append(a, Head(b)) \o Tail(b) = a \o b
        /\ Len(a \o b) = Len(a) + Len(b)
        /\ a \o <<>> = a
        /\ a = SubSeq(a \o b, 1, Len(a \o b) - Len(b))
  <1>1. /\ a \o b \in Seq(Nat)
        /\ Len(a \o b) = Len(a) + Len(b) /\ Len(a) \in Nat /\ Len(b) \in Nat
        /\ \A i \in 1..Len(a) : (a \o b)[i] = a[i]
    BY ConcatProperties, LenProperties
  <1>2. a \o Append(b, x) = Append(a \o b, x)
    <2>1. Append(b, x) = b \o <<x>> /\ <<x>> \in Seq(Nat)
      BY AppendIsConcat
    <2>2. Append(a \o b, x) = (a \o b) \o <<x>>
      BY <1>1, AppendIsConcat
    <2>3. (a \o b) \o <<x>> = a \o (b \o <<x>>)
      BY <2>1, ConcatAssociative
    <2>4. QED
      BY <2>1, <2>2, <2>3
  <1>3. ASSUME a # <<>>
        PROVE a \o b # <<>> /\ Head(a \o b) = Head(a) /\ Tail(a \o b) = Tail(a) \o b
    <2>1. Len(a) > 0
      BY <1>1, <1>3, EmptySeq
    <2>2. a \o b # <<>>
      BY <1>1, <2>1, EmptySeq
    <2>3. Head(a) = a[1] /\ Head(a \o b) = (a \o b)[1]
      BY <1>1, <1>3, <2>2
    <2>4. Head(a \o b) = Head(a)
      BY <1>1, <2>1, <2>3
    <2>5. Head(a) \in Nat /\ Tail(a) \in Seq(Nat) /\ <<Head(a)>> \in Seq(Nat)
          /\ Tail(a) \o b \in Seq(Nat)
      BY <1>3, HeadTailProperties, ConcatProperties
    <2>6. a = <<Head(a)>> \o Tail(a)
      <3>1. QED
        BY <1>3, HeadTailDecompose
    <2>7. a \o b = <<Head(a)>> \o (Tail(a) \o b)
      BY <2>5, <2>6, ConcatAssociative
    <2>8. a \o b = <<Head(a \o b)>> \o Tail(a \o b) /\ Tail(a \o b) \in Seq(Nat)
      BY <1>1, <2>2, HeadTailDecompose, HeadTailProperties
    <2>9. Tail(a \o b) = Tail(a) \o b
      BY <2>4, <2>5, <2>7, <2>8, ConcatSimplifications
    <2>10. QED
      BY <2>2, <2>4, <2>9
  <1>4. ASSUME b # <<>>
        PROVE Append(a, Head(b)) \o Tail(b) = a \o b
    <2>1. Head(b) \in Nat /\ Tail(b) \in Seq(Nat) /\ <<Head(b)>> \in Seq(Nat)
      BY <1>4, HeadTailProperties
    <2>2. Append(a, Head(b)) = a \o <<Head(b)>>
      BY <2>1, AppendIsConcat
    <2>3. b = <<Head(b)>> \o Tail(b)
      BY <1>4, HeadTailDecompose
    <2>4. (a \o <<Head(b)>>) \o Tail(b) = a \o (<<Head(b)>> \o Tail(b))
      BY <2>1, ConcatAssociative
    <2>5. QED
      BY <2>2, <2>3, <2>4, Zenon
  <1>5. a \o <<>> = a
    BY ConcatEmptySeq
  <1>6. a = SubSeq(a \o b, 1, Len(a \o b) - Len(b))
    BY SubSeqPrefixOfConcat
  <1>7. QED
    BY <1>1, <1>2, <1>3, <1>4, <1>5, <1>6

(* What comes after the first part of a concatenation. *)
LEMMA AfterConcat ==
  ASSUME NEW a \in Seq(Nat), NEW b \in Seq(Nat)
  PROVE /\ a \o b \in Seq(Nat)
        /\ Len(a) \in 0..Len(a \o b)
        /\ \A i \in 1..Len(a) : (a \o b)[i] = a[i]
        /\ After(a \o b, Len(a)) = b
  <1> DEFINE u == a \o b
  <1>1. /\ u \in Seq(Nat) /\ Len(u) = Len(a) + Len(b)
        /\ \A i \in 1..Len(a) + Len(b) : u[i] = IF i <= Len(a) THEN a[i] ELSE b[i - Len(a)]
        /\ Len(a) \in Nat /\ Len(b) \in Nat
    BY ConcatProperties, LenProperties
  <1> HIDE DEF u
  <1>2. Len(a) \in 0..Len(u) /\ \A i \in 1..Len(a) : u[i] = a[i]
    BY <1>1
  <1> DEFINE v == After(u, Len(a))
  <1>3. /\ v \in Seq(Nat) /\ Len(v) = Len(u) - Len(a)
        /\ \A i \in 1..(Len(u) - Len(a)) : v[i] = u[Len(a) + i]
    BY <1>1, <1>2, AfterIsSeq
  <1> HIDE DEF v
  <1>4. Len(v) = Len(b)
    BY <1>1, <1>3
  <1>5. ASSUME NEW i \in 1..Len(v)
        PROVE v[i] = b[i]
    <2>1. /\ i \in 1..(Len(u) - Len(a)) /\ Len(a) + i \in 1..Len(a) + Len(b)
          /\ ~(Len(a) + i <= Len(a)) /\ (Len(a) + i) - Len(a) = i
      BY <1>1, <1>4
    <2>2. QED
      BY <1>1, <1>3, <2>1
  <1>6. v = b
    BY <1>3, <1>4, <1>5, SeqEqual
  <1>7. QED
    BY <1>1, <1>2, <1>6 DEF u, v

-----------------------------------------------------------------------------
(* The elements of a sequence, and sequences without repetition.           *)
Elems(s) == {s[i] : i \in DOMAIN s}

Distinct(s) == \A i, j \in DOMAIN s : s[i] = s[j] => i = j

LEMMA ElemsAppend ==
  ASSUME NEW S, NEW s \in Seq(S), NEW e \in S
  PROVE /\ Elems(Append(s, e)) = Elems(s) \cup {e}
        /\ Distinct(s) /\ e \notin Elems(s) => Distinct(Append(s, e))
  <1> DEFINE t == Append(s, e)
  <1>1. /\ DOMAIN s = 1..Len(s) /\ DOMAIN t = 1..Len(s) + 1 /\ Len(s) \in Nat
        /\ \A i \in 1..Len(s) : t[i] = s[i]
        /\ t[Len(s) + 1] = e
    BY LenProperties, AppendProperties
  <1> HIDE DEF t
  <1>2. Elems(t) = Elems(s) \cup {e}
    BY <1>1 DEF Elems
  <1>3. ASSUME Distinct(s), e \notin Elems(s) PROVE Distinct(t)
    <2>1. \A i \in 1..Len(s) : s[i] # e
      BY <1>1, <1>3 DEF Elems
    <2>2. \A i \in 1..Len(s) + 1 : i \in 1..Len(s) \/ i = Len(s) + 1
      BY <1>1
    <2>3. QED
      BY <1>1, <1>3, <2>1, <2>2 DEF Distinct
  <1>4. QED
    BY <1>2, <1>3 DEF t

LEMMA ElemsTail ==
  ASSUME NEW S, NEW s \in Seq(S), s # <<>>
  PROVE /\ Head(s) \in Elems(s)
        /\ Elems(s) = Elems(Tail(s)) \cup {Head(s)}
        /\ Distinct(s) => Distinct(Tail(s)) /\ Head(s) \notin Elems(Tail(s))
  <1> DEFINE t == Tail(s)
  <1>1. /\ Len(s) \in Nat \ {0} /\ DOMAIN s = 1..Len(s)
        /\ Head(s) = s[1]
        /\ DOMAIN t = 1..Len(s) - 1
        /\ \A i \in 1..Len(s) - 1 : t[i] = s[i + 1]
    BY EmptySeq, LenProperties, HeadTailProperties
  <1> HIDE DEF t
  <1>2. Head(s) \in Elems(s)
    BY <1>1 DEF Elems
  <1>3. Elems(s) = Elems(t) \cup {Head(s)}
    <2>1. \A x \in Elems(t) : x \in Elems(s)
      BY <1>1 DEF Elems
    <2>2. ASSUME NEW x \in Elems(s), x # Head(s) PROVE x \in Elems(t)
      <3>1. PICK i \in 1..Len(s) : x = s[i]
        BY <1>1 DEF Elems
      <3>2. i - 1 \in 1..Len(s) - 1 /\ (i - 1) + 1 = i
        BY <1>1, <2>2, <3>1
      <3>3. x = t[i - 1]
        BY <1>1, <3>1, <3>2
      <3>4. QED
        BY <1>1, <3>2, <3>3 DEF Elems
    <2>3. QED
      BY <1>2, <2>1, <2>2
  <1>4. ASSUME Distinct(s) PROVE Distinct(t) /\ Head(s) \notin Elems(t)
    <2>1. Distinct(t)
      <3>1. ASSUME NEW i \in 1..Len(s) - 1, NEW j \in 1..Len(s) - 1, t[i] = t[j]
            PROVE i = j
        <4>1. s[i + 1] = s[j + 1] /\ i + 1 \in 1..Len(s) /\ j + 1 \in 1..Len(s)
          BY <1>1, <3>1
        <4>2. i + 1 = j + 1
          BY <1>1, <1>4, <4>1 DEF Distinct
        <4>3. QED
          BY <4>2
      <3>2. QED
        BY <1>1, <3>1 DEF Distinct
    <2>2. ASSUME NEW i \in 1..Len(s) - 1 PROVE t[i] # s[1]
      <3>1. t[i] = s[i + 1] /\ i + 1 \in 1..Len(s) /\ 1 \in 1..Len(s) /\ i + 1 # 1
        BY <1>1
      <3>2. QED
        BY <1>1, <1>4, <3>1 DEF Distinct
    <2>3. QED
      BY <1>1, <2>1, <2>2 DEF Elems
  <1>5. QED
    BY <1>2, <1>3, <1>4 DEF t

(* RemoveAt of SequencesExt. *)
LEMMA ElemsRemoveAt ==
  ASSUME NEW S, NEW s \in Seq(S), NEW k \in 1..Len(s), Distinct(s)
  PROVE LET t == SubSeq(s, 1, k - 1) \o SubSeq(s, k + 1, Len(s))
        IN  /\ t \in Seq(S)
            /\ Elems(t) = Elems(s) \ {s[k]}
            /\ Distinct(t)
  <1> DEFINE n == Len(s)
  <1> DEFINE a == SubSeq(s, 1, k - 1)
  <1> DEFINE b == SubSeq(s, k + 1, n)
  <1> DEFINE t == a \o b
  <1>1. n \in Nat /\ k \in 1..n /\ DOMAIN s = 1..n /\ \A i \in 1..n : s[i] \in S
    BY LenProperties, ElementOfSeq
  <1>2. /\ a \in Seq(S) /\ Len(a) = k - 1
        /\ \A i \in 1..k - 1 : a[i] = s[i]
    <2>1. \A i \in 1..k - 1 : s[i] \in S
      BY <1>1
    <2>2. k - 1 \in Int /\ 1 \in Int
      BY <1>1
    <2>3. /\ a \in Seq(S) /\ Len(a) = IF 1 <= k - 1 THEN k - 1 - 1 + 1 ELSE 0
          /\ \A i \in 1..k - 1 - 1 + 1 : a[i] = s[1 + i - 1]
      BY <2>1, <2>2, SubSeqProperties
    <2> HIDE DEF a, n
    <2>4. QED
      BY <1>1, <2>3
  <1>3. /\ b \in Seq(S) /\ Len(b) = n - k
        /\ \A i \in 1..n - k : b[i] = s[k + i]
    <2>1. \A i \in k + 1..n : s[i] \in S
      BY <1>1
    <2>2. k + 1 \in Int /\ n \in Int
      BY <1>1
    <2>3. /\ b \in Seq(S) /\ Len(b) = IF k + 1 <= n THEN n - (k + 1) + 1 ELSE 0
          /\ \A i \in 1..n - (k + 1) + 1 : b[i] = s[k + 1 + i - 1]
      BY <2>1, <2>2, SubSeqProperties
    <2> HIDE DEF b, n
    <2>4. QED
      BY <1>1, <2>3
  <1> HIDE DEF a, b
  <1>4. /\ t \in Seq(S) /\ Len(t) = n - 1 /\ DOMAIN t = 1..n - 1
        /\ \A i \in 1..n - 1 : t[i] = IF i < k THEN s[i] ELSE s[i + 1]
    <2>1. /\ t \in Seq(S) /\ Len(t) = Len(a) + Len(b)
          /\ \A i \in 1..Len(a) + Len(b) :
               t[i] = IF i <= Len(a) THEN a[i] ELSE b[i - Len(a)]
      BY <1>2, <1>3, ConcatProperties
    <2> HIDE DEF t, n
    <2>2. t \in Seq(S) /\ Len(t) = n - 1 /\ DOMAIN t = 1..n - 1
      BY <1>1, <1>2, <1>3, <2>1, LenProperties
    <2>3. ASSUME NEW i \in 1..n - 1
          PROVE t[i] = IF i < k THEN s[i] ELSE s[i + 1]
      <3>1. i < k => i \in 1..k - 1
        BY <1>1
      <3>2. ~(i < k) => i - (k - 1) \in 1..n - k /\ k + (i - (k - 1)) = i + 1
        BY <1>1
      <3>3. QED
        BY <1>1, <1>2, <1>3, <2>1, <3>1, <3>2
    <2>4. QED
      BY <2>2, <2>3
  <1> HIDE DEF t, n
  <1> DEFINE Old(i) == IF i < k THEN i ELSE i + 1
  <1>5. /\ \A i \in 1..n - 1 : t[i] = s[Old(i)] /\ Old(i) \in 1..n \ {k}
        /\ \A i, j \in 1..n - 1 : Old(i) = Old(j) => i = j
        /\ \A i \in 1..n \ {k} : \E j \in 1..n - 1 : Old(j) = i
    <2>1. \A i \in 1..n - 1 : t[i] = s[Old(i)] /\ Old(i) \in 1..n \ {k}
      BY <1>1, <1>4
    <2>2. \A i, j \in 1..n - 1 : Old(i) = Old(j) => i = j
      BY <1>1
    <2>3. ASSUME NEW i \in 1..n \ {k} PROVE \E j \in 1..n - 1 : Old(j) = i
      <3>1. CASE i < k
        <4>1. i \in 1..n - 1 /\ Old(i) = i
          BY <1>1, <3>1
        <4>2. QED
          BY <4>1
      <3>2. CASE ~(i < k)
        <4>1. i - 1 \in 1..n - 1 /\ Old(i - 1) = i
          BY <1>1, <3>2
        <4>2. QED
          BY <4>1
      <3>3. QED
        BY <3>1, <3>2
    <2>4. QED
      BY <2>1, <2>2, <2>3
  <1> HIDE DEF Old
  <1>6. Distinct(t)
    BY <1>1, <1>4, <1>5 DEF Distinct
  <1>7. ASSUME NEW x PROVE x \in Elems(t) <=> x \in Elems(s) \ {s[k]}
    <2>1. ASSUME x \in Elems(t) PROVE x \in Elems(s) \ {s[k]}
      <3>1. PICK i \in 1..n - 1 : x = t[i]
        BY <1>4, <2>1 DEF Elems
      <3>2. x = s[Old(i)] /\ Old(i) \in 1..n /\ Old(i) # k
        BY <1>5, <3>1
      <3>3. x # s[k]
        BY <1>1, <3>2 DEF Distinct
      <3>4. QED
        BY <1>1, <3>2, <3>3 DEF Elems
    <2>2. ASSUME x \in Elems(s) \ {s[k]} PROVE x \in Elems(t)
      <3>1. PICK i \in 1..n : x = s[i]
        BY <1>1, <2>2 DEF Elems
      <3>2. i \in 1..n \ {k}
        BY <2>2, <3>1
      <3>3. PICK j \in 1..n - 1 : Old(j) = i
        BY <1>5, <3>2
      <3>4. x = t[j]
        BY <1>5, <3>1, <3>3
      <3>5. QED
        BY <1>4, <3>4 DEF Elems
    <2>3. QED
      BY <2>1, <2>2
  <1>8. QED
    BY <1>4, <1>6, <1>7 DEF t, a, b, n

=============================================================================
