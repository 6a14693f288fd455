------------------------------ MODULE SeqFacts ------------------------------
(***************************************************************************)
(* Facts about the sequence operators that queues and lists of the models  *)
(* are built from: what Append, Tail, RemoveAt and RemoveFirst do to the   *)
(* elements of a sequence (ToSet) and to the absence of repetitions        *)
(* (IsInjective).                                                          *)
(***************************************************************************)
EXTENDS SequencesExt, SequenceTheorems, WellFoundedInduction, Integers, TLAPS

\* ToSet is the set of elements.
LEMMA InSet ==
    ASSUME NEW S, NEW s \in Seq(S)
    PROVE  \A y : y \in ToSet(s) <=> \E i \in 1..Len(s) : s[i] = y
BY DEF ToSet

\* push_back adds one element, and no repetition if the element is new.
LEMMA AppendSet ==
    ASSUME NEW s \in Seq(Nat), NEW x \in Nat
    PROVE  /\ Append(s, x) \in Seq(Nat)
           /\ ToSet(Append(s, x)) = ToSet(s) \cup {x}
           /\ IsInjective(s) /\ x \notin ToSet(s) => IsInjective(Append(s, x))
           /\ Append(s, x) # <<>>
<1>1. /\ Append(s, x) \in Seq(Nat)
      /\ Len(Append(s, x)) = Len(s) + 1
      /\ \A i \in 1..Len(s) : Append(s, x)[i] = s[i]
      /\ Append(s, x)[Len(s) + 1] = x
  BY AppendProperties
<1>2. DOMAIN s = 1..Len(s) /\ DOMAIN Append(s, x) = 1..(Len(s) + 1) /\ Len(s) \in Nat
  BY <1>1
<1>3. ToSet(Append(s, x)) = ToSet(s) \cup {x}
  BY <1>1, <1>2 DEF ToSet
<1>4. IsInjective(s) /\ x \notin ToSet(s) => IsInjective(Append(s, x))
  BY <1>1, <1>2 DEF ToSet, IsInjective
<1>5. QED BY <1>1, <1>3, <1>4

\* Vec::remove shifts the rest of the sequence down by one place.
LEMMA RemoveAtProperties ==
    ASSUME NEW S, NEW s \in Seq(S), NEW k \in 1..Len(s)
    PROVE  /\ RemoveAt(s, k) \in Seq(S)
           /\ Len(RemoveAt(s, k)) = Len(s) - 1
           /\ \A j \in 1..(Len(s) - 1) :
                RemoveAt(s, k)[j] = IF j < k THEN s[j] ELSE s[j + 1]
<1>. DEFINE u == SubSeq(s, 1, k - 1)
            v == SubSeq(s, k + 1, Len(s))
<1>1. Len(s) \in Nat /\ \A i \in 1..Len(s) : s[i] \in S
  BY ElementOfSeq
<1>2. /\ u \in Seq(S)
      /\ Len(u) = k - 1
      /\ \A i \in 1..(k - 1) : u[i] = s[i]
  <2>1. k - 1 \in Int /\ \A i \in 1..(k - 1) : s[i] \in S
    BY <1>1
  <2>2. /\ u \in Seq(S)
        /\ Len(u) = IF 1 <= k - 1 THEN (k - 1) - 1 + 1 ELSE 0
        /\ \A i \in 1..((k - 1) - 1 + 1) : u[i] = s[1 + i - 1]
    BY <2>1, SubSeqProperties
  <2>. HIDE DEF u
  <2>3. (k - 1) - 1 + 1 = k - 1 /\ (~(1 <= k - 1) => k - 1 = 0)
    BY <1>1
  <2>4. \A i \in 1..(k - 1) : 1 + i - 1 = i
    BY <1>1
  <2>5. QED BY <2>2, <2>3, <2>4
<1>3. /\ v \in Seq(S)
      /\ Len(v) = Len(s) - k
      /\ \A i \in 1..(Len(s) - k) : v[i] = s[k + i]
  <2>1. k + 1 \in Int /\ Len(s) \in Int /\ \A i \in (k + 1)..Len(s) : s[i] \in S
    BY <1>1
  <2>2. /\ v \in Seq(S)
        /\ Len(v) = IF k + 1 <= Len(s) THEN Len(s) - (k + 1) + 1 ELSE 0
        /\ \A i \in 1..(Len(s) - (k + 1) + 1) : v[i] = s[(k + 1) + i - 1]
    BY <2>1, SubSeqProperties
  <2>. HIDE DEF v
  <2>3. /\ Len(s) - (k + 1) + 1 = Len(s) - k
        /\ ~(k + 1 <= Len(s)) => Len(s) - k = 0
    BY <1>1
  <2>4. \A i \in 1..(Len(s) - k) : (k + 1) + i - 1 = k + i
    BY <1>1
  <2>5. QED BY <2>2, <2>3, <2>4
<1>4. RemoveAt(s, k) = u \o v
  BY DEF RemoveAt
<1>. HIDE DEF u, v
<1>5. /\ u \o v \in Seq(S)
      /\ Len(u \o v) = Len(u) + Len(v)
      /\ \A i \in 1..(Len(u) + Len(v)) :
           (u \o v)[i] = IF i <= Len(u) THEN u[i] ELSE v[i - Len(u)]
  BY <1>2, <1>3, ConcatProperties
<1>6. ASSUME NEW j \in 1..(Len(s) - 1)
      PROVE  (u \o v)[j] = IF j < k THEN s[j] ELSE s[j + 1]
  <2>1. (u \o v)[j] = IF j <= k - 1 THEN u[j] ELSE v[j - (k - 1)]
    BY <1>1, <1>2, <1>3, <1>5
  <2>2. CASE j < k
    BY <1>1, <1>2, <2>1, <2>2
  <2>3. CASE ~(j < k)
    <3>1. j - (k - 1) \in 1..(Len(s) - k)
      BY <1>1, <2>3
    <3>2. v[j - (k - 1)] = s[k + (j - (k - 1))]
      BY <1>3, <3>1
    <3>3. k + (j - (k - 1)) = j + 1
      BY <1>1
    <3>4. QED BY <1>1, <2>1, <2>3, <3>2, <3>3
  <2>4. QED BY <2>2, <2>3
<1>7. QED BY <1>1, <1>2, <1>3, <1>4, <1>5, <1>6

\* Removing an element of a sequence without repetitions removes it.
LEMMA RemoveFirstSet ==
    ASSUME NEW s \in Seq(Nat), IsInjective(s), NEW x \in ToSet(s)
    PROVE  /\ RemoveFirst(s, x) \in Seq(Nat)
           /\ ToSet(RemoveFirst(s, x)) = ToSet(s) \ {x}
           /\ IsInjective(RemoveFirst(s, x))
<1>1. DOMAIN s = 1..Len(s) /\ Len(s) \in Nat
  OBVIOUS
<1>2. PICK k \in 1..Len(s) : s[k] = x
  BY <1>1 DEF ToSet
<1>3. \A i, j \in 1..Len(s) : s[i] = s[j] => i = j
  BY <1>1 DEF IsInjective
<1>4. SelectInSeq(s, LAMBDA v : v = x) = k
  <2>1. {i \in 1..Len(s) : s[i] = x} = {k}
    BY <1>2, <1>3
  <2>2. QED BY <2>1 DEF SelectInSeq, Min
<1>5. RemoveFirst(s, x) = RemoveAt(s, k)
  BY <1>2, <1>4 DEF RemoveFirst
<1>. DEFINE r == RemoveAt(s, k)
<1>6. /\ r \in Seq(Nat)
      /\ Len(r) = Len(s) - 1
      /\ \A j \in 1..(Len(s) - 1) : r[j] = IF j < k THEN s[j] ELSE s[j + 1]
  BY RemoveAtProperties
<1>7. DOMAIN r = 1..(Len(s) - 1)
  BY <1>6
<1>. HIDE DEF r
<1>8. \A j \in 1..(Len(s) - 1) : \E i \in 1..Len(s) \ {k} : r[j] = s[i]
  <2>1. TAKE j \in 1..(Len(s) - 1)
  <2>2. CASE j < k
    <3>1. j \in 1..Len(s) \ {k} /\ r[j] = s[j]
      BY <1>1, <1>6, <2>2
    <3>2. QED BY <3>1
  <2>3. CASE ~(j < k)
    <3>1. j + 1 \in 1..Len(s) \ {k} /\ r[j] = s[j + 1]
      BY <1>1, <1>6, <2>3
    <3>2. QED BY <3>1
  <2>4. QED BY <2>2, <2>3
<1>9. \A i \in 1..Len(s) \ {k} : \E j \in 1..(Len(s) - 1) : r[j] = s[i]
  <2>1. TAKE i \in 1..Len(s) \ {k}
  <2>2. CASE i < k
    <3>1. i \in 1..(Len(s) - 1) /\ r[i] = s[i]
      BY <1>1, <1>6, <2>2
    <3>2. QED BY <3>1
  <2>3. CASE i > k
    <3>1. i - 1 \in 1..(Len(s) - 1) /\ r[i - 1] = s[i]
      BY <1>1, <1>6, <2>3
    <3>2. QED BY <3>1
  <2>4. i \in Nat /\ k \in Nat /\ i # k
    BY <1>1
  <2>5. QED BY <2>2, <2>3, <2>4
<1>10. ToSet(r) = ToSet(s) \ {x}
  <2>1. \A y : y \in ToSet(r) <=> \E j \in 1..(Len(s) - 1) : r[j] = y
    BY <1>6, InSet
  <2>2. \A y : y \in ToSet(s) <=> \E i \in 1..Len(s) : s[i] = y
    BY InSet
  <2>3. ASSUME NEW y \in ToSet(r) PROVE y \in ToSet(s) /\ y # x
    <3>1. PICK i \in 1..Len(s) \ {k} : y = s[i]
      BY <1>8, <2>1
    <3>2. QED BY <1>2, <1>3, <2>2, <3>1
  <2>4. ASSUME NEW y \in ToSet(s), y # x PROVE y \in ToSet(r)
    <3>1. PICK i \in 1..Len(s) : y = s[i]
      BY <2>2
    <3>2. i \in 1..Len(s) \ {k}
      BY <1>2, <2>4, <3>1
    <3>3. QED BY <1>9, <2>1, <3>1, <3>2
  <2>5. QED BY <2>3, <2>4
<1>11. IsInjective(r)
  <2>1. SUFFICES ASSUME NEW a \in 1..(Len(s) - 1), NEW b \in 1..(Len(s) - 1),
                        r[a] = r[b]
                 PROVE  a = b
    BY <1>7 DEF IsInjective
  <2>2. /\ r[a] = IF a < k THEN s[a] ELSE s[a + 1]
        /\ r[b] = IF b < k THEN s[b] ELSE s[b + 1]
    BY <1>6
  <2>3. a \in 1..Len(s) /\ a + 1 \in 1..Len(s) /\ b \in 1..Len(s) /\ b + 1 \in 1..Len(s)
    BY <1>1
  <2>4. CASE a < k /\ b < k
    BY <1>3, <2>1, <2>2, <2>3, <2>4
  <2>5. CASE a < k /\ ~(b < k)
    <3>1. s[a] = s[b + 1]
      BY <2>1, <2>2, <2>5
    <3>2. a = b + 1
      BY <1>3, <2>3, <3>1
    <3>3. QED BY <2>5, <3>2
  <2>6. CASE ~(a < k) /\ b < k
    <3>1. s[a + 1] = s[b]
      BY <2>1, <2>2, <2>6
    <3>2. a + 1 = b
      BY <1>3, <2>3, <3>1
    <3>3. QED BY <2>6, <3>2
  <2>7. CASE ~(a < k) /\ ~(b < k)
    <3>1. s[a + 1] = s[b + 1]
      BY <2>1, <2>2, <2>7
    <3>2. a + 1 = b + 1
      BY <1>3, <2>3, <3>1
    <3>3. QED BY <3>2
  <2>8. QED BY <2>4, <2>5, <2>6, <2>7
<1>12. QED BY <1>5, <1>6, <1>10, <1>11 DEF r

\* pop_front takes one element away from a sequence without repetitions.
LEMMA TailSet ==
    ASSUME NEW s \in Seq(Nat), s # <<>>
    PROVE  /\ Head(s) \in ToSet(s) /\ Head(s) \in Nat
           /\ Tail(s) \in Seq(Nat)
           /\ ToSet(Tail(s)) \subseteq ToSet(s)
           /\ IsInjective(s) => /\ ToSet(Tail(s)) = ToSet(s) \ {Head(s)}
                               /\ IsInjective(Tail(s))
<1>1. /\ Len(s) \in Nat \ {0} /\ DOMAIN s = 1..Len(s)
      /\ Head(s) = s[1] /\ Head(s) \in Nat
  BY EmptySeq
<1>2. /\ Tail(s) \in Seq(Nat)
      /\ Len(Tail(s)) = Len(s) - 1
      /\ \A i \in 1..(Len(s) - 1) : Tail(s)[i] = s[i + 1]
  BY HeadTailProperties
<1>. DEFINE t == Tail(s)
<1>. HIDE DEF t
<1>3. /\ t \in Seq(Nat) /\ Len(t) = Len(s) - 1 /\ DOMAIN t = 1..(Len(s) - 1)
      /\ \A i \in 1..(Len(s) - 1) : t[i] = s[i + 1]
  BY <1>2 DEF t
<1>4. \A y : y \in ToSet(t) <=> \E j \in 1..(Len(s) - 1) : t[j] = y
  BY <1>3, InSet
<1>5. \A y : y \in ToSet(s) <=> \E i \in 1..Len(s) : s[i] = y
  BY InSet
<1>6. \A j \in 1..(Len(s) - 1) : j + 1 \in 1..Len(s)
  BY <1>1
<1>7. ToSet(t) \subseteq ToSet(s)
  BY <1>3, <1>4, <1>5, <1>6
<1>8. Head(s) \in ToSet(s)
  BY <1>1, <1>5
<1>9. ASSUME IsInjective(s)
      PROVE  ToSet(t) = ToSet(s) \ {Head(s)} /\ IsInjective(t)
  <2>1. \A i, j \in 1..Len(s) : s[i] = s[j] => i = j
    BY <1>1, <1>9 DEF IsInjective
  <2>2. Head(s) \notin ToSet(t)
    <3>1. SUFFICES ASSUME NEW j \in 1..(Len(s) - 1), t[j] = s[1] PROVE FALSE
      BY <1>1, <1>4
    <3>2. s[j + 1] = s[1] /\ j + 1 \in 1..Len(s) /\ 1 \in 1..Len(s)
      BY <1>1, <1>3, <1>6, <3>1
    <3>3. j + 1 = 1
      BY <2>1, <3>2
    <3>4. QED BY <3>3
  <2>3. ASSUME NEW y \in ToSet(s), y # Head(s) PROVE y \in ToSet(t)
    <3>1. PICK i \in 1..Len(s) : s[i] = y
      BY <1>5
    <3>2. i - 1 \in 1..(Len(s) - 1) /\ (i - 1) + 1 = i
      BY <1>1, <2>3, <3>1
    <3>3. t[i - 1] = y
      BY <1>3, <3>1, <3>2
    <3>4. QED BY <1>4, <3>2, <3>3
  <2>4. IsInjective(t)
    <3>1. SUFFICES ASSUME NEW a \in 1..(Len(s) - 1), NEW b \in 1..(Len(s) - 1),
                          t[a] = t[b]
                   PROVE  a = b
      BY <1>3 DEF IsInjective
    <3>2. s[a + 1] = s[b + 1]
      BY <1>3, <3>1
    <3>3. a + 1 = b + 1
      BY <1>6, <2>1, <3>2
    <3>4. QED BY <3>3
  <2>5. QED BY <1>7, <2>2, <2>3, <2>4
<1>10. QED BY <1>1, <1>2, <1>7, <1>8, <1>9 DEF t

\* Vec::pop drops the last element.
LEMMA FrontSeq ==
    ASSUME NEW S, NEW s \in Seq(S), s # <<>>
    PROVE  Front(s) \in Seq(S)
<1>1. Len(s) \in Nat \ {0} /\ \A i \in 1..Len(s) : s[i] \in S
  BY EmptySeq, ElementOfSeq
<1>2. Len(s) - 1 \in Int /\ \A i \in 1..(Len(s) - 1) : s[i] \in S
  BY <1>1
<1>3. QED BY <1>2, SubSeqProperties DEF Front

\* Iterator::position finds an index when some element matches.
LEMMA MinIndex ==
    ASSUME NEW I \in SUBSET Nat, I # {}
    PROVE  Min(I) \in I
<1>. DEFINE Less == {p \in Nat \X Nat : p[1] < p[2]}
<1>1. IsWellFoundedOn(Less, Nat)
  BY NatLessThanWellFounded DEF OpToRel
<1>2. PICK x \in I : \A y \in I : ~(<<y, x>> \in Less)
  <2>. HIDE DEF Less
  <2>1. QED BY <1>1, WFMin
<1>3. \A y \in I : x =< y
  <2>1. TAKE y \in I
  <2>2. x \in Nat /\ y \in Nat /\ ~(<<y, x>> \in Less)
    BY <1>2
  <2>3. <<y, x>> \in Less <=> y < x
    BY <2>2
  <2>4. QED BY <2>2, <2>3
<1>4. QED BY <1>3 DEF Min
=============================================================================
