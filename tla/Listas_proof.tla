----------------------------- MODULE Listas_proof -----------------------------
(***************************************************************************)
(* What the commons list operations do to a t_list, as facts about         *)
(* InsertAt (list_add, list_add_sorted) and RemoveFirst                    *)
(* (list_remove_element).                                                  *)
(***************************************************************************)
EXTENDS SequencesExt, SequenceTheorems, WellFoundedInduction,
        TLAPS

(* InsertAt keeps every element, adds one and lengthens the list by one.   *)
LEMMA InsertAtProps ==
  ASSUME NEW S, NEW s \in Seq(S), NEW i \in 1 .. Len(s) + 1, NEW e \in S
  PROVE  /\ InsertAt(s, i, e) \in Seq(S)
         /\ Len(InsertAt(s, i, e)) = Len(s) + 1
         /\ \A j \in 1 .. Len(s) + 1 :
              InsertAt(s, i, e)[j] = IF j < i THEN s[j]
                                     ELSE IF j = i THEN e ELSE s[j - 1]
<1> DEFINE a == SubSeq(s, 1, i - 1)
           b == SubSeq(s, i, Len(s))
<1>0. Len(s) \in Nat
  BY LenProperties
<1>1. /\ a \in Seq(S) /\ Len(a) = i - 1
      /\ \A j \in 1 .. i - 1 : a[j] = s[j]
  <2>1. Len(s) \in Nat /\ \A j \in 1 .. i - 1 : s[j] \in S
    BY ElementOfSeq, LenProperties
  <2>2. /\ SubSeq(s, 1, i - 1) \in Seq(S)
        /\ Len(SubSeq(s, 1, i - 1)) = IF 1 <= i - 1 THEN (i - 1) - 1 + 1 ELSE 0
        /\ \A j \in 1 .. (i - 1) - 1 + 1 : SubSeq(s, 1, i - 1)[j] = s[1 + j - 1]
    BY <2>1, SubSeqProperties
  <2> QED BY <2>1, <2>2
<1>2. /\ b \in Seq(S) /\ Len(b) = Len(s) - i + 1
      /\ \A j \in 1 .. Len(s) - i + 1 : b[j] = s[i + j - 1]
  <2>1. Len(s) \in Nat /\ \A j \in i .. Len(s) : s[j] \in S
    BY ElementOfSeq, LenProperties
  <2>2. /\ SubSeq(s, i, Len(s)) \in Seq(S)
        /\ Len(SubSeq(s, i, Len(s))) = IF i <= Len(s) THEN Len(s) - i + 1 ELSE 0
        /\ \A j \in 1 .. Len(s) - i + 1 : SubSeq(s, i, Len(s))[j] = s[i + j - 1]
    BY <2>1, SubSeqProperties
  <2> QED BY <2>1, <2>2
<1> DEFINE u == <<e>>
<1>3. u \in Seq(S) /\ Len(u) = 1 /\ u[1] = e
  OBVIOUS
<1> HIDE DEF a, b, u
<1>4. /\ a \o u \in Seq(S) /\ Len(a \o u) = i
      /\ \A j \in 1 .. i : (a \o u)[j] = IF j < i THEN s[j] ELSE e
  <2>1. /\ a \o u \in Seq(S)
        /\ Len(a \o u) = Len(a) + Len(u)
        /\ \A j \in 1 .. Len(a) + Len(u) : (a \o u)[j] =
              IF j <= Len(a) THEN a[j] ELSE u[j - Len(a)]
    BY <1>1, <1>3, ConcatProperties
  <2> QED BY <1>0, <1>1, <1>3, <2>1
<1>5. /\ (a \o u) \o b \in Seq(S)
      /\ Len((a \o u) \o b) = i + Len(b)
      /\ \A j \in 1 .. i + Len(b) : ((a \o u) \o b)[j] =
              IF j <= i THEN (a \o u)[j] ELSE b[j - i]
  <2> DEFINE au == a \o u
  <2> HIDE DEF au
  <2>1. au \in Seq(S) /\ Len(au) = i
    BY <1>4 DEF au
  <2>2. /\ au \o b \in Seq(S)
        /\ Len(au \o b) = i + Len(b)
        /\ \A j \in 1 .. i + Len(b) : (au \o b)[j] =
              IF j <= i THEN au[j] ELSE b[j - i]
    BY <1>2, <2>1, ConcatProperties
  <2> QED BY <2>2 DEF au
<1>6. InsertAt(s, i, e) = (a \o u) \o b
  BY DEF InsertAt, a, b, u
<1> QED BY <1>0, <1>2, <1>4, <1>5, <1>6

(* RemoveAt drops the element at i and closes the gap.                     *)
LEMMA RemoveAtProps ==
  ASSUME NEW S, NEW s \in Seq(S), NEW i \in 1 .. Len(s)
  PROVE  /\ RemoveAt(s, i) \in Seq(S)
         /\ Len(RemoveAt(s, i)) = Len(s) - 1
         /\ \A j \in 1 .. Len(s) - 1 :
              RemoveAt(s, i)[j] = IF j < i THEN s[j] ELSE s[j + 1]
<1> DEFINE a == SubSeq(s, 1, i - 1)
           b == SubSeq(s, i + 1, Len(s))
<1>0. Len(s) \in Nat
  BY LenProperties
<1>1. /\ a \in Seq(S) /\ Len(a) = i - 1
      /\ \A j \in 1 .. i - 1 : a[j] = s[j]
  <2>1. \A j \in 1 .. i - 1 : s[j] \in S
    BY <1>0, ElementOfSeq
  <2>2. /\ SubSeq(s, 1, i - 1) \in Seq(S)
        /\ Len(SubSeq(s, 1, i - 1)) = IF 1 <= i - 1 THEN (i - 1) - 1 + 1 ELSE 0
        /\ \A j \in 1 .. (i - 1) - 1 + 1 : SubSeq(s, 1, i - 1)[j] = s[1 + j - 1]
    BY <2>1, SubSeqProperties
  <2> QED BY <2>2
<1>2. /\ b \in Seq(S) /\ Len(b) = Len(s) - i
      /\ \A j \in 1 .. Len(s) - i : b[j] = s[i + j]
  <2>1. \A j \in i + 1 .. Len(s) : s[j] \in S
    BY <1>0, ElementOfSeq
  <2>2. /\ SubSeq(s, i + 1, Len(s)) \in Seq(S)
        /\ Len(SubSeq(s, i + 1, Len(s))) =
             IF i + 1 <= Len(s) THEN Len(s) - (i + 1) + 1 ELSE 0
        /\ \A j \in 1 .. Len(s) - (i + 1) + 1 :
             SubSeq(s, i + 1, Len(s))[j] = s[(i + 1) + j - 1]
    BY <1>0, <2>1, SubSeqProperties
  <2> QED BY <1>0, <2>2
<1> HIDE DEF a, b
<1>3. /\ a \o b \in Seq(S)
      /\ Len(a \o b) = Len(a) + Len(b)
      /\ \A j \in 1 .. Len(a) + Len(b) :
           (a \o b)[j] = IF j <= Len(a) THEN a[j] ELSE b[j - Len(a)]
  BY <1>1, <1>2, ConcatProperties
<1>4. RemoveAt(s, i) = a \o b
  BY DEF RemoveAt, a, b
<1>5. \A j \in 1 .. Len(s) - 1 :
        RemoveAt(s, i)[j] = IF j < i THEN s[j] ELSE s[j + 1]
  <2> SUFFICES ASSUME NEW j \in 1 .. Len(s) - 1
               PROVE  RemoveAt(s, i)[j] = IF j < i THEN s[j] ELSE s[j + 1]
    OBVIOUS
  <2>1. CASE j < i
    BY <1>0, <1>1, <1>2, <1>3, <1>4, <2>1
  <2>2. CASE ~(j < i)
    <3>1. j - (i - 1) \in 1 .. Len(s) - i /\ i + (j - (i - 1)) = j + 1
      BY <1>0, <2>2
    <3>2. b[j - (i - 1)] = s[j + 1]
      BY <1>2, <3>1
    <3> QED BY <1>0, <1>1, <1>2, <1>3, <1>4, <2>2, <3>2
  <2> QED BY <2>1, <2>2
<1>6. RemoveAt(s, i) \in Seq(S) /\ Len(RemoveAt(s, i)) = Len(s) - 1
  <2>1. (i - 1) + (Len(s) - i) = Len(s) - 1
    BY <1>0
  <2>2. Len(a \o b) = (i - 1) + (Len(s) - i)
    BY <1>1, <1>2, <1>3
  <2> QED BY <1>3, <1>4, <2>1, <2>2
<1> QED BY <1>5, <1>6

(* Removing an element that is there removes one occurrence, at a position *)
(* that holds it.                                                          *)
LEMMA RemoveFirstEsta ==
  ASSUME NEW S, NEW s \in Seq(S), NEW e \in S, Contains(s, e)
  PROVE  \E k \in 1 .. Len(s) : s[k] = e /\ RemoveFirst(s, e) = RemoveAt(s, k)
<1> DEFINE I == {i \in 1 .. Len(s) : s[i] = e}
<1>1. \E i \in 1 .. Len(s) : s[i] = e
  BY DEF Contains
<1>2. I # {} /\ I \subseteq Nat
  BY <1>1, LenProperties
<1>3. \E m \in I : \A j \in I : m <= j
  <2> DEFINE R == {ss \in Nat \X Nat : ss[1] < ss[2]}
  <2>1. IsWellFoundedOn(R, Nat)
    BY NatLessThanWellFounded, Zenon DEF OpToRel
  <2> HIDE DEF I, R
  <2>2. PICK m \in I : \A j \in I : ~(<<j, m>> \in R)
    BY <1>2, <2>1, WFMin
  <2>3. \A j \in I : ~(j < m)
    BY <1>2, <2>2 DEF R
  <2> QED BY <1>2, <2>3
<1>4. Min(I) \in I
  BY <1>3 DEF Min
<1>5. RemoveFirst(s, e) = RemoveAt(s, Min(I))
  BY <1>1, <1>2 DEF RemoveFirst, SelectInSeq
<1> QED BY <1>4, <1>5

(* The list holds no PCB twice.                                            *)
SinRepetidos(s) == \A i, j \in 1 .. Len(s) : s[i] = s[j] => i = j

(* What list_add and list_add_sorted guarantee whatever the position.      *)
LEMMA PonerProps ==
  ASSUME NEW S, NEW s \in Seq(S), NEW i \in 1 .. Len(s) + 1, NEW e \in S
  PROVE  /\ InsertAt(s, i, e) \in Seq(S)
         /\ Len(InsertAt(s, i, e)) = Len(s) + 1
         /\ \A x : Contains(InsertAt(s, i, e), x) <=> x = e \/ Contains(s, x)
         /\ SinRepetidos(s) /\ ~Contains(s, e) => SinRepetidos(InsertAt(s, i, e))
<1> DEFINE t == InsertAt(s, i, e)
<1>1. /\ t \in Seq(S) /\ Len(t) = Len(s) + 1
      /\ \A j \in 1 .. Len(s) + 1 :
           t[j] = IF j < i THEN s[j] ELSE IF j = i THEN e ELSE s[j - 1]
  BY InsertAtProps
<1>2. Len(s) \in Nat
  BY LenProperties
<1> HIDE DEF t
<1>3. ASSUME NEW x PROVE Contains(t, x) <=> x = e \/ Contains(s, x)
  <2>1. ASSUME NEW j \in 1 .. Len(t), t[j] = x
        PROVE  x = e \/ \E k \in 1 .. Len(s) : s[k] = x
    <3>1. CASE j < i
      <4>1. j \in 1 .. Len(s) /\ s[j] = x
        BY <1>1, <1>2, <2>1, <3>1
      <4> QED BY <4>1
    <3>2. CASE j = i
      BY <1>1, <1>2, <2>1, <3>2
    <3>3. CASE j > i
      <4>1. j - 1 \in 1 .. Len(s) /\ s[j - 1] = x
        BY <1>1, <1>2, <2>1, <3>3
      <4> QED BY <4>1
    <3> QED BY <1>1, <1>2, <3>1, <3>2, <3>3
  <2>2. ASSUME x = e PROVE \E j \in 1 .. Len(t) : t[j] = x
    BY <1>1, <1>2, <2>2
  <2>3. ASSUME NEW k \in 1 .. Len(s), s[k] = x
        PROVE  \E j \in 1 .. Len(t) : t[j] = x
    <3>1. CASE k < i
      <4>1. k \in 1 .. Len(t) /\ t[k] = x
        BY <1>1, <1>2, <2>3, <3>1
      <4> QED BY <4>1
    <3>2. CASE ~(k < i)
      <4>1. k + 1 \in 1 .. Len(t) /\ t[k + 1] = x
        BY <1>1, <1>2, <2>3, <3>2
      <4> QED BY <4>1
    <3> QED BY <3>1, <3>2
  <2> QED BY <2>1, <2>2, <2>3 DEF Contains
<1>4. ASSUME SinRepetidos(s), ~Contains(s, e),
             NEW j \in 1 .. Len(t), NEW k \in 1 .. Len(t), t[j] = t[k], j < k
      PROVE  FALSE
  <2>1. CASE k < i
    <3>1. k \in 1 .. Len(s) /\ j \in 1 .. Len(s) /\ s[k] = s[j]
      BY <1>1, <1>2, <1>4, <2>1
    <3> QED BY <1>2, <1>4, <3>1 DEF SinRepetidos
  <2>2. CASE k = i
    <3>1. j \in 1 .. Len(s) /\ s[j] = e
      BY <1>1, <1>2, <1>4, <2>2
    <3> QED BY <1>4, <3>1 DEF Contains
  <2>3. CASE k > i /\ j = i
    <3>1. k - 1 \in 1 .. Len(s) /\ s[k - 1] = e
      BY <1>1, <1>2, <1>4, <2>3
    <3> QED BY <1>4, <3>1 DEF Contains
  <2>4. CASE k > i /\ j < i
    <3>1. k - 1 \in 1 .. Len(s) /\ j \in 1 .. Len(s) /\ s[k - 1] = s[j]
      BY <1>1, <1>2, <1>4, <2>4
    <3> QED BY <1>2, <1>4, <2>4, <3>1 DEF SinRepetidos
  <2>5. CASE k > i /\ j > i
    <3>1. k - 1 \in 1 .. Len(s) /\ j - 1 \in 1 .. Len(s) /\ s[k - 1] = s[j - 1]
      BY <1>1, <1>2, <1>4, <2>5
    <3>2. k - 1 = j - 1
      BY <1>4, <3>1 DEF SinRepetidos
    <3> QED BY <1>1, <1>2, <1>4, <3>2
  <2> QED BY <1>1, <1>2, <2>1, <2>2, <2>3, <2>4, <2>5
<1>5. ASSUME SinRepetidos(s), ~Contains(s, e) PROVE SinRepetidos(t)
  <2> SUFFICES ASSUME NEW j \in 1 .. Len(t), NEW k \in 1 .. Len(t), t[j] = t[k]
               PROVE  j = k
    BY DEF SinRepetidos
  <2>1. ~(j < k) /\ ~(k < j)
    BY <1>4, <1>5
  <2> QED BY <1>1, <1>2, <2>1
<1> QED BY <1>1, <1>3, <1>5 DEF t

(* What list_remove_element guarantees: nothing else leaves the list, and  *)
(* the element does if the list held it once.                              *)
LEMMA SacarProps ==
  ASSUME NEW S, NEW s \in Seq(S), NEW e \in S
  PROVE  /\ RemoveFirst(s, e) \in Seq(S)
         /\ Contains(s, e) => Len(RemoveFirst(s, e)) = Len(s) - 1
         /\ ~Contains(s, e) => RemoveFirst(s, e) = s
         /\ \A x : x # e => (Contains(RemoveFirst(s, e), x) <=> Contains(s, x))
         /\ SinRepetidos(s) => /\ SinRepetidos(RemoveFirst(s, e))
                               /\ ~Contains(RemoveFirst(s, e), e)
<1>0. Len(s) \in Nat
  BY LenProperties
<1>1. CASE ~Contains(s, e)
  <2>1. RemoveFirst(s, e) = s
    BY <1>1 DEF RemoveFirst, Contains
  <2> QED BY <1>1, <2>1
<1>2. CASE Contains(s, e)
  <2>1. PICK i \in 1 .. Len(s) : s[i] = e /\ RemoveFirst(s, e) = RemoveAt(s, i)
    BY <1>2, RemoveFirstEsta
  <2> DEFINE t == RemoveFirst(s, e)
  <2>2. /\ t \in Seq(S) /\ Len(t) = Len(s) - 1
        /\ \A j \in 1 .. Len(s) - 1 : t[j] = IF j < i THEN s[j] ELSE s[j + 1]
    BY <2>1, RemoveAtProps
  <2> HIDE DEF t
  <2>3. ASSUME NEW x, x # e PROVE Contains(t, x) <=> Contains(s, x)
    <3>1. ASSUME NEW j \in 1 .. Len(t), t[j] = x
          PROVE  \E k \in 1 .. Len(s) : s[k] = x
      <4>1. CASE j < i
        <5>1. j \in 1 .. Len(s) /\ s[j] = x
          BY <1>0, <2>2, <3>1, <4>1
        <5> QED BY <5>1
      <4>2. CASE ~(j < i)
        <5>1. j + 1 \in 1 .. Len(s) /\ s[j + 1] = x
          BY <1>0, <2>2, <3>1, <4>2
        <5> QED BY <5>1
      <4> QED BY <4>1, <4>2
    <3>2. ASSUME NEW k \in 1 .. Len(s), s[k] = x
          PROVE  \E j \in 1 .. Len(t) : t[j] = x
      <4>1. CASE k < i
        <5>1. k \in 1 .. Len(t) /\ t[k] = x
          BY <1>0, <2>2, <3>2, <4>1
        <5> QED BY <5>1
      <4>2. CASE k > i
        <5>1. k - 1 \in 1 .. Len(t) /\ t[k - 1] = x
          BY <1>0, <2>2, <3>2, <4>2
        <5> QED BY <5>1
      <4>3. k # i
        BY <2>1, <2>3, <3>2
      <4> QED BY <1>0, <4>1, <4>2, <4>3
    <3> QED BY <3>1, <3>2 DEF Contains
  <2>4. ASSUME SinRepetidos(s) PROVE SinRepetidos(t) /\ ~Contains(t, e)
    <3>1. ASSUME NEW j \in 1 .. Len(t) PROVE t[j] # e
      <4>1. CASE j < i
        <5>1. j \in 1 .. Len(s) /\ t[j] = s[j] /\ j # i
          BY <1>0, <2>2, <3>1, <4>1
        <5> QED BY <2>1, <2>4, <5>1 DEF SinRepetidos
      <4>2. CASE ~(j < i)
        <5>1. j + 1 \in 1 .. Len(s) /\ t[j] = s[j + 1] /\ j + 1 # i
          BY <1>0, <2>2, <3>1, <4>2
        <5> QED BY <2>1, <2>4, <5>1 DEF SinRepetidos
      <4> QED BY <4>1, <4>2
    <3>2. ASSUME NEW j \in 1 .. Len(t), NEW k \in 1 .. Len(t), t[j] = t[k]
          PROVE  j = k
      <4> DEFINE n(x) == IF x < i THEN x ELSE x + 1
      <4>1. \A x \in 1 .. Len(t) : n(x) \in 1 .. Len(s) /\ t[x] = s[n(x)]
        BY <1>0, <2>2
      <4>2. n(j) = n(k)
        BY <2>4, <3>2, <4>1 DEF SinRepetidos
      <4> QED BY <1>0, <2>2, <4>2
    <3> QED BY <3>1, <3>2 DEF SinRepetidos, Contains
  <2> QED BY <1>2, <2>2, <2>3, <2>4 DEF t
<1> QED BY <1>1, <1>2

(* Two elements of a list in the order in which the other list has them.   *)
EnOrden(t, j, k, s) ==
  \E m, n \in 1 .. Len(s) : m < n /\ t[j] = s[m] /\ t[k] = s[n]

(* list_remove_element keeps the order of the rest.                        *)
LEMMA SacarOrden ==
  ASSUME NEW S, NEW s \in Seq(S), NEW e \in S
  PROVE  \A j, k \in 1 .. Len(RemoveFirst(s, e)) :
           j < k => EnOrden(RemoveFirst(s, e), j, k, s)
<1>0. Len(s) \in Nat
  BY LenProperties
<1>1. CASE ~Contains(s, e)
  <2>1. RemoveFirst(s, e) = s
    BY <1>1 DEF RemoveFirst, Contains
  <2> QED BY <2>1 DEF EnOrden
<1>2. CASE Contains(s, e)
  <2>1. PICK i \in 1 .. Len(s) : s[i] = e /\ RemoveFirst(s, e) = RemoveAt(s, i)
    BY <1>2, RemoveFirstEsta
  <2> DEFINE t == RemoveFirst(s, e)
             n(x) == IF x < i THEN x ELSE x + 1
  <2>2. /\ Len(t) = Len(s) - 1
        /\ \A j \in 1 .. Len(s) - 1 : t[j] = IF j < i THEN s[j] ELSE s[j + 1]
    BY <2>1, RemoveAtProps
  <2> HIDE DEF t
  <2>3. \A x \in 1 .. Len(t) : n(x) \in 1 .. Len(s) /\ t[x] = s[n(x)]
    BY <1>0, <2>2
  <2>4. \A j, k \in 1 .. Len(t) : j < k => n(j) < n(k)
    BY <1>0, <2>2
  <2> HIDE DEF n
  <2>5. \A j, k \in 1 .. Len(t) : j < k => EnOrden(t, j, k, s)
    BY <2>3, <2>4 DEF EnOrden
  <2> QED BY <2>5 DEF t
<1> QED BY <1>1, <1>2

(* list_add and list_add_sorted keep the order of the rest around the new  *)
(* element.                                                                *)
LEMMA PonerOrden ==
  ASSUME NEW S, NEW s \in Seq(S), NEW i \in 1 .. Len(s) + 1, NEW e \in S
  PROVE  \A j, k \in 1 .. Len(InsertAt(s, i, e)) : j < k =>
           \/ EnOrden(InsertAt(s, i, e), j, k, s)
           \/ /\ InsertAt(s, i, e)[j] = e
              /\ \E n \in 1 .. Len(s) : n >= i /\ InsertAt(s, i, e)[k] = s[n]
           \/ /\ InsertAt(s, i, e)[k] = e
              /\ \E m \in 1 .. Len(s) : m < i /\ InsertAt(s, i, e)[j] = s[m]
<1>0. Len(s) \in Nat
  BY LenProperties
<1> DEFINE t == InsertAt(s, i, e)
           n(x) == IF x < i THEN x ELSE x - 1
<1>1. /\ Len(t) = Len(s) + 1
      /\ \A j \in 1 .. Len(s) + 1 : t[j] = IF j < i THEN s[j] ELSE IF j = i THEN e ELSE s[j - 1]
  BY InsertAtProps
<1> HIDE DEF t
<1>2. \A x \in 1 .. Len(t) : x # i => n(x) \in 1 .. Len(s) /\ t[x] = s[n(x)]
  BY <1>0, <1>1
<1>3. \A j, k \in 1 .. Len(t) : j < k /\ j # i /\ k # i => n(j) < n(k)
  BY <1>0, <1>1
<1>4. /\ i \in 1 .. Len(t) /\ t[i] = e
      /\ \A k \in 1 .. Len(t) : i < k => n(k) >= i
      /\ \A j \in 1 .. Len(t) : j < i => n(j) < i
  BY <1>0, <1>1
<1> HIDE DEF n
<1>5. ASSUME NEW j \in 1 .. Len(t), NEW k \in 1 .. Len(t), j < k
      PROVE  \/ EnOrden(t, j, k, s)
             \/ t[j] = e /\ \E x \in 1 .. Len(s) : x >= i /\ t[k] = s[x]
             \/ t[k] = e /\ \E x \in 1 .. Len(s) : x < i /\ t[j] = s[x]
  <2>1. CASE j # i /\ k # i
    BY <1>2, <1>3, <1>5, <2>1 DEF EnOrden
  <2>2. CASE j = i
    <3>1. k # i /\ n(k) >= i
      BY <1>0, <1>1, <1>4, <1>5, <2>2
    <3> QED BY <1>2, <1>4, <2>2, <3>1
  <2>3. CASE k = i
    <3>1. j # i /\ n(j) < i
      BY <1>0, <1>1, <1>4, <1>5, <2>3
    <3> QED BY <1>2, <1>4, <2>3, <3>1
  <2> QED BY <2>1, <2>2, <2>3
<1> QED BY <1>5 DEF t

==============================================================================
