---------------------------- MODULE SequenceLemmas ----------------------------
(***************************************************************************)
(* Sequences, in the most part without repetition, from which an element   *)
(* is taken out and into which one is put: the list of the scheduler, the  *)
(* transfers in flight of a read thread, the events of a window.           *)
(***************************************************************************)
EXTENDS Integers, SequencesExt, SequenceTheorems, WellFoundedInduction, TLAPS

\* v comes somewhere after u.
Before(s, u, v) == \E p, q \in DOMAIN s : p < q /\ s[p] = u /\ s[q] = v

\* What is left when the k-th element is taken out.
LEMMA RemoveAtProperties ==
    ASSUME NEW S, NEW s \in Seq(S), NEW k \in 1 .. Len(s)
    PROVE  /\ RemoveAt(s, k) \in Seq(S)
           /\ Len(RemoveAt(s, k)) = Len(s) - 1
           /\ \A i \in 1 .. Len(s) - 1 :
                 RemoveAt(s, k)[i] = s[IF i < k THEN i ELSE i + 1]
<1> DEFINE front == SubSeq(s, 1, k - 1)
           back  == SubSeq(s, k + 1, Len(s))
<1>1. Len(s) \in Nat /\ \A i \in 1 .. Len(s) : s[i] \in S
  BY LenProperties, ElementOfSeq
<1>2. /\ front \in Seq(S)
      /\ Len(front) = k - 1
      /\ \A i \in 1 .. k - 1 : front[i] = s[i]
  <2>1. \A i \in 1 .. k - 1 : s[i] \in S
    BY <1>1
  <2>2. /\ front \in Seq(S)
        /\ Len(front) = IF 1 <= k - 1 THEN (k - 1) - 1 + 1 ELSE 0
        /\ \A i \in 1 .. (k - 1) - 1 + 1 : front[i] = s[1 + i - 1]
    BY <1>1, <2>1, SubSeqProperties
  <2> QED  BY <1>1, <2>2
<1>3. /\ back \in Seq(S)
      /\ Len(back) = Len(s) - k
      /\ \A i \in 1 .. Len(s) - k : back[i] = s[i + k]
  <2>1. \A i \in k + 1 .. Len(s) : s[i] \in S
    BY <1>1
  <2>2. /\ back \in Seq(S)
        /\ Len(back) = IF k + 1 <= Len(s) THEN Len(s) - (k + 1) + 1 ELSE 0
        /\ \A i \in 1 .. Len(s) - (k + 1) + 1 : back[i] = s[k + 1 + i - 1]
    BY <1>1, <2>1, SubSeqProperties
  <2> QED  BY <1>1, <2>2
<1>4. /\ front \o back \in Seq(S)
      /\ Len(front \o back) = Len(front) + Len(back)
      /\ \A i \in 1 .. Len(front) + Len(back) :
            (front \o back)[i] =
                IF i <= Len(front) THEN front[i] ELSE back[i - Len(front)]
  BY <1>2, <1>3, ConcatProperties
<1>5. RemoveAt(s, k) = front \o back
  BY DEF RemoveAt
<1> HIDE DEF front, back
<1>6. \A i \in 1 .. Len(s) - 1 :
          RemoveAt(s, k)[i] = s[IF i < k THEN i ELSE i + 1]
  <2> TAKE i \in 1 .. Len(s) - 1
  <2>1. i \in Int /\ k \in Int /\ Len(s) \in Int
    BY <1>1
  <2>2. (front \o back)[i] = IF i <= k - 1 THEN front[i] ELSE back[i - (k - 1)]
    BY <1>1, <1>2, <1>3, <1>4
  <2>3. CASE i < k
    BY <2>1, <2>2, <2>3, <1>2, <1>5
  <2>4. CASE ~(i < k)
    <3>1. i - (k - 1) \in 1 .. Len(s) - k /\ i - (k - 1) + k = i + 1
      BY <2>1, <2>4
    <3>2. back[i - (k - 1)] = s[i - (k - 1) + k]
      BY <3>1, <1>3
    <3>3. ~(i <= k - 1)
      BY <2>1, <2>4
    <3>4. (front \o back)[i] = s[i + 1]
      BY <2>2, <3>1, <3>2, <3>3
    <3> QED  BY <2>4, <3>4, <1>5
  <2> QED  BY <2>3, <2>4
<1>7. Len(RemoveAt(s, k)) = Len(s) - 1
  <2>1. Len(RemoveAt(s, k)) = k - 1 + (Len(s) - k)
    BY <1>2, <1>3, <1>4, <1>5
  <2> QED  BY <1>1, <2>1
<1> QED  BY <1>4, <1>5, <1>6, <1>7

\* Taking an element out of a sequence without repetition takes it out of the
\* set of its elements, and nothing else.
LEMMA RemoveAtSet ==
    ASSUME NEW S, NEW s \in Seq(S), NEW k \in 1 .. Len(s), IsInjective(s)
    PROVE  /\ IsInjective(RemoveAt(s, k))
           /\ ToSet(RemoveAt(s, k)) = ToSet(s) \ {s[k]}
<1> DEFINE r == RemoveAt(s, k)
           at(i) == IF i < k THEN i ELSE i + 1
<1>1. Len(s) \in Nat /\ DOMAIN s = 1 .. Len(s)
  BY LenProperties
<1>2. /\ r \in Seq(S)
      /\ Len(r) = Len(s) - 1
      /\ \A i \in 1 .. Len(s) - 1 : r[i] = s[at(i)]
  BY RemoveAtProperties
<1>3. DOMAIN r = 1 .. Len(s) - 1
  BY <1>2, LenProperties
<1>4. \A i \in 1 .. Len(s) - 1 : at(i) \in 1 .. Len(s) /\ at(i) # k
  BY <1>1
<1>5. \A i, j \in 1 .. Len(s) - 1 : at(i) = at(j) => i = j
  BY <1>1
<1>6. \A j \in 1 .. Len(s) : j # k => \E i \in 1 .. Len(s) - 1 : at(i) = j
  <2> TAKE j \in 1 .. Len(s)
  <2> HAVE j # k
  <2>1. CASE j < k
    BY <1>1, <2>1
  <2>2. CASE j > k
    <3>1. j - 1 \in 1 .. Len(s) - 1 /\ at(j - 1) = j
      BY <1>1, <2>2
    <3> QED  BY <3>1
  <2> QED  BY <1>1, <2>1, <2>2
<1> HIDE DEF r, at
<1>7. IsInjective(r)
  BY <1>1, <1>2, <1>3, <1>4, <1>5 DEF IsInjective
<1>8. ToSet(r) \subseteq ToSet(s) \ {s[k]}
  <2> SUFFICES ASSUME NEW i \in 1 .. Len(s) - 1
               PROVE  r[i] \in ToSet(s) /\ r[i] # s[k]
    BY <1>3 DEF ToSet
  <2>1. r[i] = s[at(i)] /\ at(i) \in DOMAIN s /\ k \in DOMAIN s /\ at(i) # k
    BY <1>1, <1>2, <1>4
  <2> QED  BY <2>1 DEF IsInjective, ToSet
<1>9. ToSet(s) \ {s[k]} \subseteq ToSet(r)
  <2> SUFFICES ASSUME NEW j \in 1 .. Len(s), j # k
               PROVE  s[j] \in ToSet(r)
    BY <1>1 DEF ToSet
  <2>1. PICK i \in 1 .. Len(s) - 1 : at(i) = j
    BY <1>6
  <2> QED  BY <1>2, <1>3, <2>1 DEF ToSet
<1> QED  BY <1>7, <1>8, <1>9 DEF r

\* The same for its head.
LEMMA TailSet ==
    ASSUME NEW S, NEW s \in Seq(S), s # << >>, IsInjective(s)
    PROVE  /\ Tail(s) \in Seq(S)
           /\ IsInjective(Tail(s))
           /\ ToSet(Tail(s)) = ToSet(s) \ {Head(s)}
<1>1. Len(s) \in Nat \ {0} /\ DOMAIN s = 1 .. Len(s)
  BY LenProperties, EmptySeq
<1>2. /\ Tail(s) \in Seq(S)
      /\ Len(Tail(s)) = Len(s) - 1
      /\ \A i \in 1 .. Len(s) - 1 : Tail(s)[i] = s[i + 1]
  BY HeadTailProperties
<1>3. DOMAIN Tail(s) = 1 .. Len(s) - 1
  BY <1>2, LenProperties
<1>4. Head(s) = s[1]
  OBVIOUS
<1>5. \A i \in 1 .. Len(s) - 1 : i + 1 \in 1 .. Len(s) /\ i + 1 # 1
  BY <1>1
<1>6. \A i, j \in 1 .. Len(s) - 1 : i + 1 = j + 1 => i = j
  OBVIOUS
<1>7. \A j \in 1 .. Len(s) : j # 1 => j - 1 \in 1 .. Len(s) - 1 /\ (j - 1) + 1 = j
  BY <1>1
<1>8. IsInjective(Tail(s))
  BY <1>1, <1>2, <1>3, <1>5, <1>6 DEF IsInjective
<1>9. ToSet(Tail(s)) \subseteq ToSet(s) \ {Head(s)}
  <2> SUFFICES ASSUME NEW i \in 1 .. Len(s) - 1
               PROVE  Tail(s)[i] \in ToSet(s) /\ Tail(s)[i] # s[1]
    BY <1>3, <1>4 DEF ToSet
  <2>1. i + 1 \in DOMAIN s /\ 1 \in DOMAIN s /\ i + 1 # 1
    BY <1>1, <1>5
  <2> QED  BY <1>2, <2>1 DEF IsInjective, ToSet
<1>10. ToSet(s) \ {Head(s)} \subseteq ToSet(Tail(s))
  <2> SUFFICES ASSUME NEW j \in 1 .. Len(s), j # 1
               PROVE  s[j] \in ToSet(Tail(s))
    BY <1>1, <1>4 DEF ToSet
  <2>1. j - 1 \in DOMAIN Tail(s) /\ Tail(s)[j - 1] = s[j]
    BY <1>2, <1>3, <1>7
  <2> QED  BY <2>1 DEF ToSet
<1> QED  BY <1>2, <1>8, <1>9, <1>10

\* A sequence that is not empty has its head and its tail.
LEMMA HeadAndTail ==
    ASSUME NEW S, NEW s \in Seq(S), s # << >>
    PROVE  /\ Head(s) \in S /\ Tail(s) \in Seq(S)
           /\ Len(Tail(s)) = Len(s) - 1
           /\ ToSet(s) = {Head(s)} \cup ToSet(Tail(s))
<1>1. Len(s) \in Nat \ {0} /\ DOMAIN s = 1 .. Len(s)
  BY LenProperties, EmptySeq
<1>2. /\ Tail(s) \in Seq(S) /\ Head(s) \in S
      /\ Len(Tail(s)) = Len(s) - 1
      /\ \A i \in 1 .. Len(s) - 1 : Tail(s)[i] = s[i + 1]
  BY HeadTailProperties
<1>3. DOMAIN Tail(s) = 1 .. Len(s) - 1 /\ Head(s) = s[1]
  BY <1>2, LenProperties
<1>4. \A j \in 1 .. Len(s) : j = 1 \/ (j - 1 \in 1 .. Len(s) - 1 /\ (j - 1) + 1 = j)
  BY <1>1
<1>5. \A i \in 1 .. Len(s) - 1 : i + 1 \in 1 .. Len(s)
  BY <1>1
<1>6. ToSet(s) \subseteq {Head(s)} \cup ToSet(Tail(s))
  <2> SUFFICES ASSUME NEW j \in 1 .. Len(s), j # 1 PROVE s[j] \in ToSet(Tail(s))
    BY <1>1, <1>3 DEF ToSet
  <2>1. j - 1 \in DOMAIN Tail(s) /\ Tail(s)[j - 1] = s[j]
    BY <1>2, <1>3, <1>4
  <2> QED  BY <2>1 DEF ToSet
<1>7. {Head(s)} \cup ToSet(Tail(s)) \subseteq ToSet(s)
  <2>1. Head(s) \in ToSet(s)
    BY <1>1, <1>3 DEF ToSet
  <2>2. \A i \in 1 .. Len(s) - 1 : Tail(s)[i] = s[i + 1] /\ i + 1 \in DOMAIN s
    BY <1>1, <1>2, <1>5
  <2>3. ToSet(Tail(s)) \subseteq ToSet(s)
    BY <1>3, <2>2 DEF ToSet
  <2> QED  BY <2>1, <2>3
<1> QED  BY <1>2, <1>6, <1>7

\* The elements of two sequences, one after the other.
LEMMA ConcatSet ==
    ASSUME NEW S, NEW s \in Seq(S), NEW t \in Seq(S)
    PROVE  /\ s \o t \in Seq(S)
           /\ Len(s \o t) = Len(s) + Len(t)
           /\ ToSet(s \o t) = ToSet(s) \cup ToSet(t)
<1> DEFINE r == s \o t
<1>1. /\ Len(s) \in Nat /\ DOMAIN s = 1 .. Len(s)
      /\ Len(t) \in Nat /\ DOMAIN t = 1 .. Len(t)
  BY LenProperties
<1>2. /\ r \in Seq(S) /\ Len(r) = Len(s) + Len(t)
      /\ \A i \in 1 .. Len(s) + Len(t) :
            r[i] = IF i <= Len(s) THEN s[i] ELSE t[i - Len(s)]
  BY ConcatProperties
<1>3. DOMAIN r = 1 .. Len(s) + Len(t)
  BY <1>2, LenProperties
<1>4. \A i \in 1 .. Len(s) + Len(t) : i <= Len(s) \/ i - Len(s) \in 1 .. Len(t)
  BY <1>1
<1>5. \A i \in 1 .. Len(s) : i \in 1 .. Len(s) + Len(t) /\ i <= Len(s)
  BY <1>1
<1>6. \A i \in 1 .. Len(t) : /\ Len(s) + i \in 1 .. Len(s) + Len(t)
                             /\ ~(Len(s) + i <= Len(s))
                             /\ (Len(s) + i) - Len(s) = i
  BY <1>1
<1> HIDE DEF r
<1>7. ToSet(r) \subseteq ToSet(s) \cup ToSet(t)
  <2> SUFFICES ASSUME NEW i \in 1 .. Len(s) + Len(t) PROVE r[i] \in ToSet(s) \cup ToSet(t)
    BY <1>3 DEF ToSet
  <2>1. CASE i <= Len(s)
    <3>1. i \in 1 .. Len(s)
      BY <1>1, <2>1
    <3> QED  BY <1>1, <1>2, <2>1, <3>1 DEF ToSet
  <2>2. CASE ~(i <= Len(s))
    BY <1>1, <1>2, <1>4, <2>2 DEF ToSet
  <2> QED  BY <2>1, <2>2
<1>8. ToSet(s) \cup ToSet(t) \subseteq ToSet(r)
  <2>1. ASSUME NEW i \in 1 .. Len(s) PROVE s[i] \in ToSet(r)
    <3>1. i \in DOMAIN r /\ r[i] = s[i]
      BY <1>2, <1>3, <1>5
    <3> QED  BY <3>1 DEF ToSet
  <2>2. ASSUME NEW i \in 1 .. Len(t) PROVE t[i] \in ToSet(r)
    <3>1. Len(s) + i \in DOMAIN r /\ r[Len(s) + i] = t[i]
      BY <1>2, <1>3, <1>6
    <3> QED  BY <3>1 DEF ToSet
  <2>3. ToSet(s) \subseteq ToSet(r)
    BY <1>1, <2>1 DEF ToSet
  <2>4. ToSet(t) \subseteq ToSet(r)
    BY <1>1, <2>2 DEF ToSet
  <2> QED  BY <2>3, <2>4
<1>9. r \in Seq(S) /\ Len(r) = Len(s) + Len(t) /\ ToSet(r) = ToSet(s) \cup ToSet(t)
  BY <1>2, <1>7, <1>8
<1> QED  BY <1>9 DEF r

\* Putting an element in at the end.
LEMMA AppendSet ==
    ASSUME NEW S, NEW s \in Seq(S), NEW e \in S, IsInjective(s), e \notin ToSet(s)
    PROVE  /\ Append(s, e) \in Seq(S)
           /\ IsInjective(Append(s, e))
           /\ ToSet(Append(s, e)) = ToSet(s) \cup {e}
<1>1. Len(s) \in Nat /\ DOMAIN s = 1 .. Len(s)
  BY LenProperties
<1>2. /\ Append(s, e) \in Seq(S)
      /\ Len(Append(s, e)) = Len(s) + 1
      /\ \A i \in 1 .. Len(s) : Append(s, e)[i] = s[i]
      /\ Append(s, e)[Len(s) + 1] = e
  BY AppendProperties
<1>3. DOMAIN Append(s, e) = 1 .. Len(s) + 1
  BY <1>2, LenProperties
<1>4. \A i \in 1 .. Len(s) + 1 : i \in 1 .. Len(s) \/ i = Len(s) + 1
  BY <1>1
<1>5. Len(s) + 1 \in 1 .. Len(s) + 1 /\ 1 .. Len(s) \subseteq 1 .. Len(s) + 1
  BY <1>1
<1>6. \A i \in 1 .. Len(s) : s[i] # e
  BY <1>1 DEF ToSet
<1>7. IsInjective(Append(s, e))
  BY <1>1, <1>2, <1>3, <1>4, <1>6 DEF IsInjective
<1>8. ToSet(Append(s, e)) = ToSet(s) \cup {e}
  BY <1>1, <1>2, <1>3, <1>4, <1>5 DEF ToSet
<1> QED  BY <1>2, <1>7, <1>8

\* Putting an element in at a place.
LEMMA InsertAtProperties ==
    ASSUME NEW S, NEW s \in Seq(S), NEW e \in S, NEW k \in 1 .. Len(s) + 1
    PROVE  /\ InsertAt(s, k, e) \in Seq(S)
           /\ Len(InsertAt(s, k, e)) = Len(s) + 1
           /\ \A i \in 1 .. Len(s) + 1 :
                 InsertAt(s, k, e)[i] =
                     IF i < k THEN s[i] ELSE IF i = k THEN e ELSE s[i - 1]
<1> DEFINE front == SubSeq(s, 1, k - 1)
           back  == SubSeq(s, k, Len(s))
           upto  == front \o <<e>>
<1>1. Len(s) \in Nat /\ k \in Int /\ \A i \in 1 .. Len(s) : s[i] \in S
  BY LenProperties, ElementOfSeq
<1>2. /\ front \in Seq(S)
      /\ Len(front) = k - 1
      /\ \A i \in 1 .. k - 1 : front[i] = s[i]
  <2>1. \A i \in 1 .. k - 1 : s[i] \in S
    BY <1>1
  <2>2. /\ front \in Seq(S)
        /\ Len(front) = IF 1 <= k - 1 THEN (k - 1) - 1 + 1 ELSE 0
        /\ \A i \in 1 .. (k - 1) - 1 + 1 : front[i] = s[1 + i - 1]
    BY <1>1, <2>1, SubSeqProperties
  <2> QED  BY <1>1, <2>2
<1>3. /\ back \in Seq(S)
      /\ Len(back) = Len(s) - k + 1
      /\ \A i \in 1 .. Len(s) - k + 1 : back[i] = s[i + k - 1]
  <2>1. \A i \in k .. Len(s) : s[i] \in S
    BY <1>1
  <2>2. /\ back \in Seq(S)
        /\ Len(back) = IF k <= Len(s) THEN Len(s) - k + 1 ELSE 0
        /\ \A i \in 1 .. Len(s) - k + 1 : back[i] = s[k + i - 1]
    BY <1>1, <2>1, SubSeqProperties
  <2> QED  BY <1>1, <2>2
<1>4. <<e>> \in Seq(S) /\ Len(<<e>>) = 1 /\ <<e>>[1] = e
  OBVIOUS
<1> HIDE DEF front, back
<1>5. /\ upto \in Seq(S)
      /\ Len(upto) = k
      /\ \A i \in 1 .. k : upto[i] = IF i < k THEN s[i] ELSE e
  <2>1. /\ upto \in Seq(S)
        /\ Len(upto) = Len(front) + Len(<<e>>)
        /\ \A i \in 1 .. Len(front) + Len(<<e>>) :
              upto[i] = IF i <= Len(front) THEN front[i] ELSE <<e>>[i - Len(front)]
    BY <1>2, <1>4, ConcatProperties
  <2>2. \A i \in 1 .. k : (i <= k - 1 <=> i < k) /\ (~(i < k) => i - (k - 1) = 1)
    BY <1>1
  <2>3. Len(front) + Len(<<e>>) = k
    BY <1>1, <1>2, <1>4
  <2> HIDE DEF upto
  <2>4. \A i \in 1 .. k : upto[i] = IF i < k THEN s[i] ELSE e
    <3> TAKE i \in 1 .. k
    <3>1. upto[i] = IF i <= k - 1 THEN front[i] ELSE <<e>>[i - (k - 1)]
      BY <1>2, <2>1, <2>3
    <3>2. CASE i < k
      BY <1>2, <2>2, <3>1, <3>2
    <3>3. CASE ~(i < k)
      BY <1>4, <2>2, <3>1, <3>3
    <3> QED  BY <3>2, <3>3
  <2> QED  BY <2>1, <2>3, <2>4
<1>6. InsertAt(s, k, e) = upto \o back
  BY DEF InsertAt, front, back
<1> HIDE DEF upto
<1>7. /\ upto \o back \in Seq(S)
      /\ Len(upto \o back) = Len(upto) + Len(back)
      /\ \A i \in 1 .. Len(upto) + Len(back) :
            (upto \o back)[i] = IF i <= Len(upto) THEN upto[i] ELSE back[i - Len(upto)]
  BY <1>3, <1>5, ConcatProperties
<1>8. Len(upto) + Len(back) = Len(s) + 1
  BY <1>1, <1>3, <1>5
<1>9. \A i \in 1 .. Len(s) + 1 :
          InsertAt(s, k, e)[i] =
              IF i < k THEN s[i] ELSE IF i = k THEN e ELSE s[i - 1]
  <2> TAKE i \in 1 .. Len(s) + 1
  <2>1. (upto \o back)[i] = IF i <= k THEN upto[i] ELSE back[i - k]
    BY <1>5, <1>7, <1>8
  <2>2. CASE i <= k
    <3>1. i \in 1 .. k /\ (~(i < k) => i = k)
      BY <1>1, <2>2
    <3> QED  BY <1>5, <1>6, <2>1, <2>2, <3>1
  <2>3. CASE ~(i <= k)
    <3>1. /\ i - k \in 1 .. Len(s) - k + 1 /\ (i - k) + k - 1 = i - 1
          /\ ~(i < k) /\ i # k
      BY <1>1, <2>3
    <3>2. back[i - k] = s[(i - k) + k - 1]
      BY <1>3, <3>1
    <3> QED  BY <1>6, <2>1, <2>3, <3>1, <3>2
  <2> QED  BY <2>2, <2>3
<1> QED  BY <1>6, <1>7, <1>8, <1>9

LEMMA InsertAtSet ==
    ASSUME NEW S, NEW s \in Seq(S), NEW e \in S, NEW k \in 1 .. Len(s) + 1,
           IsInjective(s), e \notin ToSet(s)
    PROVE  /\ InsertAt(s, k, e) \in Seq(S)
           /\ IsInjective(InsertAt(s, k, e))
           /\ ToSet(InsertAt(s, k, e)) = ToSet(s) \cup {e}
<1>0. /\ InsertAt(s, k, e) \in Seq(S)
      /\ Len(InsertAt(s, k, e)) = Len(s) + 1
      /\ \A i \in 1 .. Len(s) + 1 :
            InsertAt(s, k, e)[i] =
                IF i < k THEN s[i] ELSE IF i = k THEN e ELSE s[i - 1]
  BY InsertAtProperties
<1> DEFINE r == InsertAt(s, k, e)
           at(i) == IF i < k THEN i ELSE i - 1
<1>1. Len(s) \in Nat /\ k \in Int /\ DOMAIN s = 1 .. Len(s)
  BY LenProperties
<1>2. /\ r \in Seq(S)
      /\ Len(r) = Len(s) + 1
      /\ \A i \in 1 .. Len(s) + 1 : i # k => r[i] = s[at(i)]
      /\ r[k] = e
  <2> HIDE DEF r
  <2>1. /\ r \in Seq(S)
        /\ Len(r) = Len(s) + 1
        /\ \A i \in 1 .. Len(s) + 1 :
              r[i] = IF i < k THEN s[i] ELSE IF i = k THEN e ELSE s[i - 1]
    BY <1>0 DEF r
  <2> QED  BY <1>1, <2>1
<1>3. DOMAIN r = 1 .. Len(s) + 1
  BY <1>2, LenProperties
<1>4. \A i \in 1 .. Len(s) + 1 : i # k => at(i) \in 1 .. Len(s)
  BY <1>1
<1>5. \A i, j \in 1 .. Len(s) + 1 : i # k /\ j # k /\ at(i) = at(j) => i = j
  BY <1>1
<1>6. \A j \in 1 .. Len(s) : \E i \in 1 .. Len(s) + 1 : i # k /\ at(i) = j
  <2> TAKE j \in 1 .. Len(s)
  <2>1. CASE j < k
    BY <1>1, <2>1
  <2>2. CASE j >= k
    <3>1. j + 1 \in 1 .. Len(s) + 1 /\ j + 1 # k /\ at(j + 1) = j
      BY <1>1, <2>2
    <3> QED  BY <3>1
  <2> QED  BY <1>1, <2>1, <2>2
<1>7. \A i \in 1 .. Len(s) : s[i] # e
  BY <1>1 DEF ToSet
<1> HIDE DEF r, at
<1>8. IsInjective(r)
  <2> SUFFICES ASSUME NEW i \in 1 .. Len(s) + 1, NEW j \in 1 .. Len(s) + 1, r[i] = r[j]
               PROVE  i = j
    BY <1>3 DEF IsInjective
  <2>1. CASE i = k \/ j = k
    BY <1>2, <1>4, <1>7, <2>1
  <2>2. CASE i # k /\ j # k
    BY <1>1, <1>2, <1>4, <1>5, <2>2 DEF IsInjective
  <2> QED  BY <2>1, <2>2
<1>9. ToSet(r) \subseteq ToSet(s) \cup {e}
  BY <1>1, <1>2, <1>3, <1>4 DEF ToSet
<1>10. ToSet(s) \subseteq ToSet(r)
  <2> SUFFICES ASSUME NEW j \in 1 .. Len(s) PROVE s[j] \in ToSet(r)
    BY <1>1 DEF ToSet
  <2>1. PICK i \in 1 .. Len(s) + 1 : i # k /\ at(i) = j
    BY <1>6
  <2> QED  BY <1>2, <1>3, <2>1 DEF ToSet
<1>11. e \in ToSet(r)
  BY <1>2, <1>3 DEF ToSet
<1> QED  BY <1>2, <1>8, <1>9, <1>10, <1>11 DEF r

\* Taking an element out keeps the order of the others.
LEMMA RemoveAtOrder ==
    ASSUME NEW S, NEW s \in Seq(S), NEW k \in 1 .. Len(s), NEW u, NEW v,
           Before(RemoveAt(s, k), u, v)
    PROVE  Before(s, u, v)
<1> DEFINE r == RemoveAt(s, k)
           at(i) == IF i < k THEN i ELSE i + 1
<1>1. Len(s) \in Nat /\ DOMAIN s = 1 .. Len(s) /\ k \in Nat
  BY LenProperties
<1>2. /\ r \in Seq(S) /\ Len(r) = Len(s) - 1
      /\ \A i \in 1 .. Len(s) - 1 : r[i] = s[at(i)]
  BY RemoveAtProperties
<1>3. DOMAIN r = 1 .. Len(s) - 1
  BY <1>2, LenProperties
<1> HIDE DEF r
<1>4. PICK p, q \in 1 .. Len(s) - 1 : p < q /\ r[p] = u /\ r[q] = v
  BY <1>3 DEF Before, r
<1>5. \A n \in Nat : \A i, j \in 1 .. n - 1 : i < j => /\ at(i) \in 1 .. n /\ at(j) \in 1 .. n
                                                      /\ at(i) < at(j)
  BY <1>1
<1>6. at(p) \in 1 .. Len(s) /\ at(q) \in 1 .. Len(s) /\ at(p) < at(q)
  BY <1>1, <1>4, <1>5
<1>7. s[at(p)] = u /\ s[at(q)] = v
  BY <1>2, <1>4
<1> HIDE DEF at
<1> QED  BY <1>1, <1>6, <1>7 DEF Before

LEMMA TailOrder ==
    ASSUME NEW S, NEW s \in Seq(S), s # << >>, NEW u, NEW v, Before(Tail(s), u, v)
    PROVE  Before(s, u, v)
<1>1. Len(s) \in Nat /\ DOMAIN s = 1 .. Len(s)
  BY LenProperties
<1>2. /\ Tail(s) \in Seq(S) /\ Len(Tail(s)) = Len(s) - 1
      /\ \A i \in 1 .. Len(s) - 1 : Tail(s)[i] = s[i + 1]
  BY HeadTailProperties
<1>3. DOMAIN Tail(s) = 1 .. Len(s) - 1
  BY <1>2, LenProperties
<1>4. PICK p, q \in 1 .. Len(s) - 1 : p < q /\ Tail(s)[p] = u /\ Tail(s)[q] = v
  BY <1>3 DEF Before
<1>5. \A n \in Nat : \A i, j \in 1 .. n - 1 : i < j => /\ i + 1 \in 1 .. n /\ j + 1 \in 1 .. n
                                                      /\ i + 1 < j + 1
  OBVIOUS
<1>6. p + 1 \in DOMAIN s /\ q + 1 \in DOMAIN s /\ p + 1 < q + 1
  BY <1>1, <1>4, <1>5
<1>7. s[p + 1] = u /\ s[q + 1] = v
  BY <1>2, <1>4
<1> QED  BY <1>6, <1>7 DEF Before

\* Putting one in keeps it as well; what comes after the new element was at its
\* place or behind.
LEMMA InsertAtOrder ==
    ASSUME NEW S, NEW s \in Seq(S), NEW e \in S, NEW k \in 1 .. Len(s) + 1,
           NEW u, NEW v, Before(InsertAt(s, k, e), u, v)
    PROVE  Before(s, u, v) \/ v = e \/ (u = e /\ \E q \in k .. Len(s) : s[q] = v)
<1> DEFINE r == InsertAt(s, k, e)
           from(i) == IF i < k THEN i ELSE i - 1
<1>1. Len(s) \in Nat /\ DOMAIN s = 1 .. Len(s) /\ k \in Nat /\ 1 =< k
  BY LenProperties
<1>2. /\ r \in Seq(S) /\ Len(r) = Len(s) + 1
      /\ \A i \in 1 .. Len(s) + 1 :
            r[i] = IF i < k THEN s[i] ELSE IF i = k THEN e ELSE s[i - 1]
  BY InsertAtProperties
<1>3. DOMAIN r = 1 .. Len(s) + 1
  BY <1>2, LenProperties
<1> HIDE DEF r
<1>4. PICK p, q \in 1 .. Len(s) + 1 : p < q /\ r[p] = u /\ r[q] = v
  BY <1>3 DEF Before, r
<1>5. \A n \in Nat : \A i \in 1 .. n + 1 : k \in 1 .. n + 1 /\ i # k => from(i) \in 1 .. n
  BY <1>1
<1>6. \A i, j \in Nat : i < j /\ i # k /\ j # k => from(i) < from(j)
  BY <1>1
<1>7. \A n \in Nat : \A j \in 1 .. n + 1 : k < j => j - 1 \in k .. n /\ ~(j < k) /\ j # k
  BY <1>1
<1>8. \A i \in 1 .. Len(s) + 1 : i # k => r[i] = s[from(i)]
  BY <1>2
<1>9. p \in Nat /\ q \in Nat /\ p < q
  BY <1>4
<1>10. CASE p # k /\ q # k
  <2>1. from(p) \in 1 .. Len(s) /\ from(q) \in 1 .. Len(s) /\ from(p) < from(q)
    BY <1>1, <1>4, <1>5, <1>6, <1>9, <1>10
  <2>2. s[from(p)] = u /\ s[from(q)] = v
    BY <1>4, <1>8, <1>10
  <2> HIDE DEF from
  <2> QED  BY <1>1, <2>1, <2>2 DEF Before
<1>11. CASE q = k
  <2>1. ~(k < k)
    BY <1>1
  <2>2. r[q] = e
    BY <1>2, <1>11, <2>1
  <2> QED  BY <1>4, <2>2
<1>12. CASE p = k
  <2>1. ~(k < k)
    BY <1>1
  <2>2. r[p] = e
    BY <1>2, <1>12, <2>1
  <2>3. q - 1 \in k .. Len(s) /\ ~(q < k) /\ q # k
    BY <1>1, <1>4, <1>7, <1>12
  <2>4. r[q] = s[q - 1]
    BY <1>2, <2>3
  <2> QED  BY <1>4, <2>2, <2>3, <2>4
<1> QED  BY <1>10, <1>11, <1>12

\* A set of natural numbers that is not empty has a least element.
LEMMA HasLeast ==
    ASSUME NEW T, T \subseteq Nat, T # {}
    PROVE  \E m \in T : \A n \in T : m =< n
<1>1. \E m \in T : \A n \in T : ~(<<n, m>> \in OpToRel(<, Nat))
  BY NatLessThanWellFounded, WFMin
<1>2. \A n, m \in T : n < m => <<n, m>> \in OpToRel(<, Nat)
  BY DEF OpToRel
<1>3. PICK m \in T : \A n \in T : ~(<<n, m>> \in OpToRel(<, Nat))
  BY <1>1
<1>4. \A n \in T : ~(n < m)
  BY <1>2, <1>3
<1> QED  BY <1>4
=============================================================================
