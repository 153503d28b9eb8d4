------------------------- MODULE RecencyListProofs -------------------------
(* What the operators of RecencyList return, for lists of any length, and the
   induction over the naturals that such proofs need. *)
EXTENDS RecencyList, SequenceTheorems, WellFoundedInduction, TLAPS

(* list.Remove shortens the list by one and keeps the order of the rest. *)
LEMMA DropAtIndexed ==
    ASSUME NEW S, NEW s \in Seq(S), NEW i \in 1..Len(s)
    PROVE  /\ DropAt(s, i) \in Seq(S)
           /\ Len(DropAt(s, i)) = Len(s) - 1
           /\ \A j \in 1..(Len(s) - 1) :
                DropAt(s, i)[j] = IF j < i THEN s[j] ELSE s[j + 1]
<1> DEFINE a == SubSeq(s, 1, i - 1)
           b == SubSeq(s, i + 1, Len(s))
<1>1. Len(s) \in Nat
  BY LenProperties
<1>2. /\ a \in Seq(S)
      /\ Len(a) = i - 1
      /\ \A j \in 1..(i - 1) : a[j] = s[j]
  BY <1>1
<1>3. /\ b \in Seq(S)
      /\ Len(b) = Len(s) - i
      /\ \A j \in 1..(Len(s) - i) : b[j] = s[i + j]
  BY <1>1
<1>4. /\ a \o b \in Seq(S)
      /\ Len(a \o b) = Len(a) + Len(b)
      /\ \A j \in 1..(Len(a) + Len(b)) :
           (a \o b)[j] = IF j <= Len(a) THEN a[j] ELSE b[j - Len(a)]
  BY <1>2, <1>3, ConcatProperties
<1> HIDE DEF a, b
<1>5. ASSUME NEW j \in 1..(Len(s) - 1)
      PROVE  (a \o b)[j] = IF j < i THEN s[j] ELSE s[j + 1]
  <2>1. CASE j < i
    BY <1>1, <1>2, <1>3, <1>4, <2>1
  <2>2. CASE ~(j < i)
    <3>1. /\ (a \o b)[j] = b[j - (i - 1)]
          /\ j - (i - 1) \in 1..(Len(s) - i)
      BY <1>1, <1>2, <1>3, <1>4, <2>2
    <3>2. b[j - (i - 1)] = s[i + (j - (i - 1))]
      BY <1>3, <3>1
    <3>3. i + (j - (i - 1)) = j + 1
      BY <1>1
    <3> QED  BY <2>2, <3>1, <3>2, <3>3
  <2> QED  BY <2>1, <2>2
<1>6. DropAt(s, i) = a \o b
  BY DEF DropAt, a, b
<1>7. Len(a) + Len(b) = Len(s) - 1
  BY <1>1, <1>2, <1>3
<1>8. a \o b \in Seq(S) /\ Len(a \o b) = Len(s) - 1
  BY <1>4, <1>7
<1> QED  BY <1>5, <1>6, <1>8

(* list.PushFront puts one element before all others. *)
LEMMA PushFrontIndexed ==
    ASSUME NEW S, NEW s \in Seq(S), NEW x \in S
    PROVE  /\ PushFront(s, x) \in Seq(S)
           /\ Len(PushFront(s, x)) = Len(s) + 1
           /\ \A j \in 1..(Len(s) + 1) :
                PushFront(s, x)[j] = IF j = 1 THEN x ELSE s[j - 1]
<1>1. <<x>> \in Seq(S) /\ Len(<<x>>) = 1 /\ <<x>>[1] = x
  OBVIOUS
<1>2. Len(s) \in Nat
  BY LenProperties
<1> QED  BY <1>1, <1>2, ConcatProperties DEF PushFront

(* The part of it that speaks of no other place. *)
LEMMA PushFrontFirst ==
    ASSUME NEW S, NEW s \in Seq(S), NEW x \in S
    PROVE  /\ PushFront(s, x) \in Seq(S)
           /\ Len(PushFront(s, x)) = Len(s) + 1
           /\ PushFront(s, x)[1] = x
<1>1. <<x>> \in Seq(S) /\ Len(<<x>>) = 1 /\ <<x>>[1] = x
  OBVIOUS
<1>2. Len(s) \in Nat
  BY LenProperties
<1> QED  BY <1>1, <1>2, ConcatProperties DEF PushFront

(* Removing an element of a list without repetitions takes exactly that one
   out of its elements and repeats none. *)
LEMMA DropAtElements ==
    ASSUME NEW S, NEW s \in Seq(S), NEW i \in 1..Len(s), Distinct(s)
    PROVE  /\ Elements(DropAt(s, i)) = Elements(s) \ {s[i]}
           /\ Distinct(DropAt(s, i))
<1> DEFINE d == DropAt(s, i)
<1>1. Len(s) \in Nat
  BY LenProperties
<1>2. /\ Len(d) = Len(s) - 1
      /\ \A j \in 1..(Len(s) - 1) : d[j] = IF j < i THEN s[j] ELSE s[j + 1]
  BY DropAtIndexed
<1> HIDE DEF d
<1>3. ASSUME NEW x \in Elements(d)  PROVE x \in Elements(s) \ {s[i]}
  <2>1. PICK j \in 1..(Len(s) - 1) : d[j] = x
    BY <1>2 DEF Elements
  <2>2. CASE j < i
    <3>1. j \in 1..Len(s) /\ j # i /\ s[j] = x
      BY <1>1, <1>2, <2>1, <2>2
    <3> QED  BY <3>1 DEF Elements, Distinct
  <2>3. CASE ~(j < i)
    <3>1. j + 1 \in 1..Len(s) /\ j + 1 # i /\ s[j + 1] = x
      BY <1>1, <1>2, <2>1, <2>3
    <3> QED  BY <3>1 DEF Elements, Distinct
  <2> QED  BY <2>2, <2>3
<1>4. ASSUME NEW x \in Elements(s) \ {s[i]}  PROVE x \in Elements(d)
  <2>1. PICK k \in 1..Len(s) : s[k] = x /\ k # i
    BY DEF Elements
  <2>2. CASE k < i
    <3>1. k \in 1..(Len(s) - 1) /\ d[k] = x
      BY <1>1, <1>2, <2>1, <2>2
    <3> QED  BY <1>2, <3>1 DEF Elements
  <2>3. CASE ~(k < i)
    <3>1. k - 1 \in 1..(Len(s) - 1) /\ ~(k - 1 < i) /\ (k - 1) + 1 = k
      BY <1>1, <2>1, <2>3
    <3>2. d[k - 1] = s[(k - 1) + 1]
      BY <1>2, <3>1
    <3>3. d[k - 1] = x
      BY <2>1, <3>1, <3>2
    <3> QED  BY <1>2, <3>1, <3>3 DEF Elements
  <2> QED  BY <2>2, <2>3
<1>5. ASSUME NEW j \in 1..Len(d), NEW k \in 1..Len(d), d[j] = d[k]
      PROVE  j = k
  <2> DEFINE at(n) == IF n < i THEN n ELSE n + 1
  <2>1. \A n \in 1..Len(d) : at(n) \in 1..Len(s) /\ d[n] = s[at(n)]
    BY <1>1, <1>2
  <2>2. at(j) = at(k)
    BY <1>5, <2>1 DEF Distinct
  <2> QED  BY <1>1, <1>2, <2>2
<1> QED  BY <1>3, <1>4, <1>5 DEF d, Distinct

(* Pushing a new element adds exactly that one and repeats none. *)
LEMMA PushFrontElements ==
    ASSUME NEW S, NEW s \in Seq(S), NEW x \in S
    PROVE  /\ Elements(PushFront(s, x)) = Elements(s) \cup {x}
           /\ Distinct(s) /\ x \notin Elements(s) => Distinct(PushFront(s, x))
<1> DEFINE d == PushFront(s, x)
<1>1. Len(s) \in Nat
  BY LenProperties
<1>2. /\ Len(d) = Len(s) + 1
      /\ \A j \in 1..(Len(s) + 1) : d[j] = IF j = 1 THEN x ELSE s[j - 1]
  BY PushFrontIndexed
<1> HIDE DEF d
<1>3. ASSUME NEW y \in Elements(d)  PROVE y \in Elements(s) \cup {x}
  <2>1. PICK j \in 1..(Len(s) + 1) : d[j] = y
    BY <1>2 DEF Elements
  <2>2. CASE j = 1
    BY <1>1, <1>2, <2>1, <2>2
  <2>3. CASE j # 1
    <3>1. j - 1 \in 1..Len(s) /\ s[j - 1] = y
      BY <1>1, <1>2, <2>1, <2>3
    <3> QED  BY <3>1 DEF Elements
  <2> QED  BY <2>2, <2>3
<1>4. x \in Elements(d)
  <2>1. 1 \in 1..Len(d) /\ d[1] = x
    BY <1>1, <1>2
  <2> QED  BY <2>1 DEF Elements
<1>5. ASSUME NEW y \in Elements(s)  PROVE y \in Elements(d)
  <2>1. PICK k \in 1..Len(s) : s[k] = y
    BY DEF Elements
  <2>2. k + 1 \in 1..Len(d) /\ k + 1 # 1 /\ (k + 1) - 1 = k
    BY <1>1, <1>2
  <2>3. d[k + 1] = s[(k + 1) - 1]
    BY <1>2, <2>2
  <2> QED  BY <2>1, <2>2, <2>3 DEF Elements
<1>6. ASSUME Distinct(s), x \notin Elements(s),
             NEW j \in 1..Len(d), NEW k \in 1..Len(d), d[j] = d[k]
      PROVE  j = k
  <2>1. \A n \in 1..Len(d) :
          n # 1 => n - 1 \in 1..Len(s) /\ d[n] = s[n - 1] /\ d[n] # x
    BY <1>1, <1>2, <1>6 DEF Elements
  <2>2. d[1] = x
    BY <1>1, <1>2
  <2>3. CASE j = 1 \/ k = 1
    BY <1>6, <2>1, <2>2, <2>3
  <2>4. CASE j # 1 /\ k # 1
    <3>1. j - 1 = k - 1
      BY <1>6, <2>1, <2>4 DEF Distinct
    <3> QED  BY <1>1, <1>2, <3>1
  <2> QED  BY <2>3, <2>4
<1> QED  BY <1>3, <1>4, <1>5, <1>6 DEF d, Distinct

(* Moving an element to the front changes neither the elements of a list
   without repetitions nor its length. *)
LEMMA ToFrontElements ==
    ASSUME NEW S, NEW s \in Seq(S), NEW i \in 1..Len(s), Distinct(s)
    PROVE  /\ ToFront(s, i) \in Seq(S)
           /\ Len(ToFront(s, i)) = Len(s)
           /\ Elements(ToFront(s, i)) = Elements(s)
           /\ Distinct(ToFront(s, i))
<1>1. s[i] \in S /\ s[i] \in Elements(s) /\ Len(s) \in Nat
  BY LenProperties DEF Elements
<1>2. /\ DropAt(s, i) \in Seq(S)
      /\ Len(DropAt(s, i)) = Len(s) - 1
      /\ Elements(DropAt(s, i)) = Elements(s) \ {s[i]}
      /\ Distinct(DropAt(s, i))
  BY DropAtIndexed, DropAtElements
<1> DEFINE d == DropAt(s, i)
<1>3. /\ ToFront(s, i) \in Seq(S)
      /\ Len(ToFront(s, i)) = Len(s)
  <2>1. d \in Seq(S) /\ Len(d) = Len(s) - 1
    BY <1>2
  <2> HIDE DEF d
  <2>2. PushFront(d, s[i]) \in Seq(S) /\ Len(PushFront(d, s[i])) = Len(d) + 1
    BY <1>1, <2>1, PushFrontFirst
  <2>3. Len(PushFront(d, s[i])) = Len(s)
    BY <1>1, <2>1, <2>2
  <2>4. ToFront(s, i) = PushFront(d, s[i])
    BY DEF ToFront, d
  <2> QED  BY <2>2, <2>3, <2>4
<1>4. /\ Elements(ToFront(s, i)) = Elements(DropAt(s, i)) \cup {s[i]}
      /\ Distinct(ToFront(s, i))
  BY <1>1, <1>2, PushFrontElements DEF ToFront
<1> QED  BY <1>1, <1>2, <1>3, <1>4

-----------------------------------------------------------------------------
(* Touch, and a list that is rebuilt from its copy. *)

(* A set of naturals that is not empty has a least element. *)
LEMMA LeastNatural ==
    ASSUME NEW T, T \subseteq Nat, T # {}
    PROVE  \E x \in T : \A y \in T : ~(y < x)
<1> DEFINE R == OpToRel(<, Nat)
<1>1. IsWellFoundedOn(R, Nat)
  BY NatLessThanWellFounded, Zenon
<1>2. \A i, j \in Nat : i < j => <<i, j>> \in R
  BY DEF OpToRel
<1> HIDE DEF R
<1>3. PICK x \in T : \A y \in T : ~(<<y, x>> \in R)
  BY <1>1, WFMin
<1> QED  BY <1>2, <1>3

(* Induction over the naturals, on a set: it has no least natural outside. *)
LEMMA SetInduction ==
    ASSUME NEW T, 0 \in T, \A n \in T : n \in Nat => n + 1 \in T
    PROVE  Nat \subseteq T
<1> SUFFICES ASSUME Nat \ T # {} PROVE FALSE
  OBVIOUS
<1>1. PICK x \in Nat \ T : \A y \in Nat \ T : ~(y < x)
  <2>1. Nat \ T \subseteq Nat
    OBVIOUS
  <2> QED  BY <2>1, LeastNatural
<1>2. x # 0 /\ x - 1 \in Nat /\ (x - 1) + 1 = x /\ x - 1 < x
  BY <1>1
<1>3. x - 1 \in Nat \ T
  BY <1>2
<1> QED  BY <1>1, <1>2, <1>3

(* Lists of at most cap elements, as unions of function sets. *)
LEMMA BoundedLists ==
    ASSUME NEW S, NEW cap \in Nat
    PROVE  \A s : s \in UNION {[1..n -> S] : n \in 0..cap}
                    <=> s \in Seq(S) /\ Len(s) <= cap
<1>1. ASSUME NEW s, s \in UNION {[1..n -> S] : n \in 0..cap}
      PROVE  s \in Seq(S) /\ Len(s) <= cap
  <2>1. PICK n \in 0..cap : s \in [1..n -> S]
    BY <1>1
  <2> QED  BY <2>1
<1>2. ASSUME NEW s, s \in Seq(S), Len(s) <= cap
      PROVE  s \in UNION {[1..n -> S] : n \in 0..cap}
  <2>1. s \in [1..Len(s) -> S] /\ Len(s) \in 0..cap
    BY <1>2, LenProperties
  <2> QED  BY <2>1
<1> QED  BY <1>1, <1>2

(* PosOf finds an element of the list. *)
LEMMA PosOfElement ==
    ASSUME NEW s, NEW x \in Elements(s)
    PROVE  PosOf(s, x) \in 1..Len(s) /\ s[PosOf(s, x)] = x
<1>1. \E i \in 1..Len(s) : s[i] = x
  BY DEF Elements
<1> QED  BY <1>1 DEF PosOf

(* Touch keeps a list without repetitions within its capacity, and puts the
   element in. *)
LEMMA TouchBounded ==
    ASSUME NEW S, NEW cap \in Nat \ {0}, NEW s \in Seq(S), NEW x \in S,
           Distinct(s), Len(s) <= cap
    PROVE  /\ Touch(s, x, cap) \in Seq(S)
           /\ Len(Touch(s, x, cap)) <= cap
           /\ Distinct(Touch(s, x, cap))
           /\ x \in Elements(Touch(s, x, cap))
<1>1. Len(s) \in Nat
  BY LenProperties
<1>2. CASE x \in Elements(s)
  <2>1. PosOf(s, x) \in 1..Len(s)
    BY <1>2, PosOfElement
  <2>2. Touch(s, x, cap) = ToFront(s, PosOf(s, x))
    BY <1>2 DEF Touch
  <2> QED  BY <1>2, <2>1, <2>2, ToFrontElements
<1>3. CASE x \notin Elements(s)
  <2> DEFINE r == IF Len(s) = cap THEN DropAt(s, Len(s)) ELSE s
  <2>1. /\ r \in Seq(S) /\ Len(r) < cap /\ Len(r) \in Nat
        /\ Distinct(r) /\ x \notin Elements(r)
    <3>1. CASE Len(s) = cap
      <4>1. Len(s) \in 1..Len(s)
        BY <1>1, <3>1
      <4>2. /\ DropAt(s, Len(s)) \in Seq(S)
            /\ Len(DropAt(s, Len(s))) = Len(s) - 1
        BY <4>1, DropAtIndexed
      <4>3. /\ Elements(DropAt(s, Len(s))) = Elements(s) \ {s[Len(s)]}
            /\ Distinct(DropAt(s, Len(s)))
        BY <4>1, DropAtElements
      <4> QED  BY <1>1, <1>3, <3>1, <4>2, <4>3
    <3>2. CASE Len(s) # cap
      BY <1>1, <1>3, <3>2
    <3> QED  BY <3>1, <3>2
  <2>2. Touch(s, x, cap) = PushFront(r, x)
    BY <1>3 DEF Touch
  <2> HIDE DEF r
  <2>3. /\ PushFront(r, x) \in Seq(S)
        /\ Len(PushFront(r, x)) = Len(r) + 1
    BY <2>1, PushFrontIndexed
  <2>4. /\ Elements(PushFront(r, x)) = Elements(r) \cup {x}
        /\ Distinct(PushFront(r, x))
    BY <2>1, PushFrontElements
  <2> QED  BY <2>1, <2>2, <2>3, <2>4
<1> QED  BY <1>2, <1>3

(* Touch lets nothing go but from a full list, which stays full. *)
LEMMA TouchKeeps ==
    ASSUME NEW S, NEW cap \in Nat \ {0}, NEW s \in Seq(S), NEW x \in S,
           Distinct(s), Len(s) <= cap
    PROVE  /\ Len(s) < cap => Elements(s) \subseteq Elements(Touch(s, x, cap))
           /\ Len(s) = cap => Len(Touch(s, x, cap)) = cap
<1>1. Len(s) \in Nat
  BY LenProperties
<1>2. CASE x \in Elements(s)
  <2>1. PosOf(s, x) \in 1..Len(s)
    BY <1>2, PosOfElement
  <2>2. Touch(s, x, cap) = ToFront(s, PosOf(s, x))
    BY <1>2 DEF Touch
  <2>3. /\ Len(ToFront(s, PosOf(s, x))) = Len(s)
        /\ Elements(ToFront(s, PosOf(s, x))) = Elements(s)
    BY <2>1, ToFrontElements
  <2> QED  BY <2>2, <2>3
<1>3. CASE x \notin Elements(s) /\ Len(s) = cap
  <2>1. Len(s) \in 1..Len(s)
    BY <1>1, <1>3
  <2>2. DropAt(s, Len(s)) \in Seq(S) /\ Len(DropAt(s, Len(s))) = Len(s) - 1
    BY <2>1, DropAtIndexed
  <2>3. Len(PushFront(DropAt(s, Len(s)), x)) = Len(DropAt(s, Len(s))) + 1
    BY <2>2, PushFrontIndexed
  <2>4. Touch(s, x, cap) = PushFront(DropAt(s, Len(s)), x)
    BY <1>3 DEF Touch
  <2> QED  BY <1>1, <1>3, <2>2, <2>3, <2>4
<1>4. CASE x \notin Elements(s) /\ Len(s) # cap
  <2>1. Touch(s, x, cap) = PushFront(s, x)
    BY <1>4 DEF Touch
  <2>2. Elements(PushFront(s, x)) = Elements(s) \cup {x}
    BY <1>4, PushFrontElements
  <2> QED  BY <1>4, <2>1, <2>2
<1> QED  BY <1>2, <1>3, <1>4

(* The element is at the front, where a second Touch leaves it. *)
LEMMA TouchFront ==
    ASSUME NEW S, NEW cap \in Nat \ {0}, NEW s \in Seq(S), NEW x \in S,
           Distinct(s), Len(s) <= cap
    PROVE  Touch(s, x, cap)[1] = x
<1>1. Len(s) \in Nat
  BY LenProperties
<1>2. ASSUME NEW r \in Seq(S)  PROVE PushFront(r, x)[1] = x
  BY PushFrontFirst
<1>3. CASE x \in Elements(s)
  <2>1. PosOf(s, x) \in 1..Len(s) /\ s[PosOf(s, x)] = x
    BY <1>3, PosOfElement
  <2>2. DropAt(s, PosOf(s, x)) \in Seq(S)
    BY <2>1, DropAtIndexed
  <2>3. Touch(s, x, cap) = PushFront(DropAt(s, PosOf(s, x)), x)
    BY <1>3, <2>1 DEF Touch, ToFront
  <2> QED  BY <1>2, <2>2, <2>3
<1>4. CASE x \notin Elements(s) /\ Len(s) = cap
  <2>1. Len(s) \in 1..Len(s)
    BY <1>1, <1>4
  <2>2. DropAt(s, Len(s)) \in Seq(S)
    BY <2>1, DropAtIndexed
  <2>3. Touch(s, x, cap) = PushFront(DropAt(s, Len(s)), x)
    BY <1>4 DEF Touch
  <2> QED  BY <1>2, <2>2, <2>3
<1>5. CASE x \notin Elements(s) /\ Len(s) # cap
  BY <1>2, <1>5 DEF Touch
<1> QED  BY <1>3, <1>4, <1>5

LEMMA TouchTwice ==
    ASSUME NEW S, NEW cap \in Nat \ {0}, NEW s \in Seq(S), NEW x \in S,
           Distinct(s), Len(s) <= cap
    PROVE  Touch(Touch(s, x, cap), x, cap) = Touch(s, x, cap)
<1> DEFINE t == Touch(s, x, cap)
<1>1. t \in Seq(S) /\ Distinct(t) /\ x \in Elements(t) /\ t[1] = x
  BY TouchBounded, TouchFront
<1> HIDE DEF t
<1>2. Len(t) \in Nat
  BY <1>1, LenProperties
<1>3. PosOf(t, x) \in 1..Len(t) /\ t[PosOf(t, x)] = x
  BY <1>1, PosOfElement
<1>4. 1 \in 1..Len(t) /\ PosOf(t, x) = 1
  BY <1>1, <1>2, <1>3 DEF Distinct
<1> DEFINE d == DropAt(t, 1)
           p == PushFront(d, x)
<1>5. /\ d \in Seq(S) /\ Len(d) = Len(t) - 1
      /\ \A j \in 1..(Len(t) - 1) : d[j] = IF j < 1 THEN t[j] ELSE t[j + 1]
  BY <1>1, <1>4, DropAtIndexed
<1> HIDE DEF d
<1>6. /\ p \in Seq(S) /\ Len(p) = Len(d) + 1
      /\ \A j \in 1..(Len(d) + 1) : p[j] = IF j = 1 THEN x ELSE d[j - 1]
  <2>1. d \in Seq(S)
    BY <1>5
  <2>2. p \in Seq(S) /\ Len(p) = Len(d) + 1
    BY <2>1, PushFrontFirst
  <2>3. ASSUME NEW j \in 1..(Len(d) + 1)
        PROVE  p[j] = IF j = 1 THEN x ELSE d[j - 1]
    BY <2>1, PushFrontIndexed
  <2> QED  BY <2>2, <2>3
<1> HIDE DEF p
<1>7. Len(p) = Len(t)
  BY <1>2, <1>5, <1>6
<1>8. ASSUME NEW j \in 1..Len(p)  PROVE p[j] = t[j]
  <2>1. CASE j = 1
    BY <1>1, <1>2, <1>5, <1>6, <2>1
  <2>2. CASE j # 1
    <3>1. j - 1 \in 1..(Len(t) - 1) /\ ~(j - 1 < 1) /\ (j - 1) + 1 = j
      BY <1>2, <1>7, <2>2
    <3>2. d[j - 1] = t[j]
      BY <1>5, <3>1
    <3>3. p[j] = d[j - 1]
      BY <1>2, <1>5, <1>6, <1>7, <2>2
    <3> QED  BY <3>2, <3>3
  <2> QED  BY <2>1, <2>2
<1>9. p = t
  BY <1>1, <1>6, <1>7, <1>8, SeqEqual
<1>10. Touch(t, x, cap) = p
  BY <1>1, <1>4 DEF Touch, ToFront, d, p
<1> QED  BY <1>9, <1>10 DEF t

(* The lists without repetitions of at most cap elements, and that adding
   elements to an empty one makes no others. *)
RecencyLists(S, cap) == {s \in UNION {[1..n -> S] : n \in 0..cap} : Distinct(s)}

LEMMA RecencyListsAre ==
    ASSUME NEW S, NEW cap \in Nat
    PROVE  \A s : s \in RecencyLists(S, cap)
                    <=> s \in Seq(S) /\ Len(s) <= cap /\ Distinct(s)
BY BoundedLists DEF RecencyLists

LEMMA RecencyListsClosed ==
    ASSUME NEW S, NEW cap \in Nat \ {0}
    PROVE  /\ <<>> \in RecencyLists(S, cap)
           /\ \A s \in RecencyLists(S, cap), x \in S :
                Touch(s, x, cap) \in RecencyLists(S, cap)
<1>1. <<>> \in Seq(S) /\ Len(<<>>) = 0 /\ Len(<<>>) <= cap
  BY EmptySeq
<1>2. Distinct(<<>>)
  BY <1>1 DEF Distinct
<1>3. <<>> \in RecencyLists(S, cap)
  BY <1>1, <1>2, RecencyListsAre, Zenon
<1>4. ASSUME NEW s \in RecencyLists(S, cap), NEW x \in S
      PROVE  Touch(s, x, cap) \in RecencyLists(S, cap)
  <2>1. s \in Seq(S) /\ Len(s) <= cap /\ Distinct(s)
    BY RecencyListsAre
  <2>2. /\ Touch(s, x, cap) \in Seq(S)
        /\ Len(Touch(s, x, cap)) <= cap
        /\ Distinct(Touch(s, x, cap))
    BY <2>1, TouchBounded
  <2> QED  BY <2>2, RecencyListsAre
<1> QED  BY <1>3, <1>4

(* The last n elements of a list, for every n. *)
RebuiltParts(s) == [n \in 0..Len(s) |-> SubSeq(s, Len(s) + 1 - n, Len(s))]

(* Adding the elements of a list without repetitions from the last to the
   first goes through its suffixes. *)
LEMMA PartsRebuild ==
    ASSUME NEW S, NEW cap \in Nat \ {0}, NEW s \in Seq(S),
           Distinct(s), Len(s) <= cap
    PROVE  /\ Len(s) \in Nat
           /\ RebuiltParts(s)[0] = <<>>
           /\ RebuiltParts(s)[Len(s)] = s
           /\ \A n \in 1..Len(s) :
                /\ s[Len(s) + 1 - n] \in S
                /\ RebuiltParts(s)[n]
                    = Touch(RebuiltParts(s)[n - 1], s[Len(s) + 1 - n], cap)
<1>1. Len(s) \in Nat
  BY LenProperties
<1>2. RebuiltParts(s)[0] = <<>>
  <2>1. RebuiltParts(s)[0] = SubSeq(s, Len(s) + 1, Len(s))
    BY <1>1 DEF RebuiltParts
  <2> QED  BY <1>1, <2>1, SubSeqEmpty
<1>3. RebuiltParts(s)[Len(s)] = s
  <2>1. RebuiltParts(s)[Len(s)] = SubSeq(s, 1, Len(s))
    BY <1>1 DEF RebuiltParts
  <2> QED  BY <1>1, <2>1, SubSeqFull
<1>4. ASSUME NEW n \in 1..Len(s)
      PROVE  /\ s[Len(s) + 1 - n] \in S
             /\ RebuiltParts(s)[n]
                 = Touch(RebuiltParts(s)[n - 1], s[Len(s) + 1 - n], cap)
  <2> DEFINE i == Len(s) + 1 - n
             r == SubSeq(s, i + 1, Len(s))
  <2>1. i \in 1..Len(s) /\ i \in Nat
    BY <1>1
  <2>2. RebuiltParts(s)[n] = SubSeq(s, i, Len(s)) /\ RebuiltParts(s)[n - 1] = r
    <3>1. n \in 0..Len(s) /\ n - 1 \in 0..Len(s) /\ Len(s) + 1 - (n - 1) = i + 1
      BY <1>1
    <3> QED  BY <3>1 DEF RebuiltParts
  <2> HIDE DEF i
  <2>3. s[i] \in S
    BY <2>1, ElementOfSeq
  <2>4. SubSeq(s, i, Len(s)) = <<s[i]>> \o r
    BY <1>1, <2>1, SubSeqRecursiveFirst
  <2>5. /\ Len(r) = Len(s) - i
        /\ \A j \in 1..(Len(s) - i) : r[j] = s[i + j]
    BY <1>1, <2>1
  <2> HIDE DEF r
  <2>6. s[i] \notin Elements(r)
    <3> SUFFICES ASSUME NEW j \in 1..(Len(s) - i), s[i] = s[i + j] PROVE FALSE
      BY <2>5 DEF Elements
    <3>1. i + j \in 1..Len(s) /\ i + j # i
      BY <1>1, <2>1
    <3> QED  BY <2>1, <3>1 DEF Distinct
  <2>7. Len(r) # cap
    BY <1>1, <2>1, <2>5
  <2>8. Touch(r, s[i], cap) = <<s[i]>> \o r
    BY <2>6, <2>7 DEF Touch, PushFront
  <2> QED  BY <2>2, <2>3, <2>4, <2>8 DEF i
<1> QED  BY <1>1, <1>2, <1>3, <1>4

(* Two functions that obey the same recursion over 0..k agree. *)
SameSteps(f, g, k) ==
    /\ f[0] = g[0]
    /\ \A n \in 1..k : f[n - 1] = g[n - 1] => f[n] = g[n]

LEMMA SameByInduction ==
    ASSUME NEW k \in Nat, NEW f, NEW g, SameSteps(f, g, k)
    PROVE  \A n \in 0..k : f[n] = g[n]
<1> USE DEF SameSteps
<1> DEFINE T == {n \in Nat : n <= k => f[n] = g[n]}
<1>1. 0 \in T
  OBVIOUS
<1>2. ASSUME NEW n \in T  PROVE n + 1 \in T
  <2>1. n \in Nat /\ n + 1 \in Nat /\ (n + 1) - 1 = n
    OBVIOUS
  <2>2. CASE n + 1 <= k
    <3>1. n + 1 \in 1..k /\ f[(n + 1) - 1] = g[(n + 1) - 1]
      BY <2>1, <2>2
    <3>2. f[n + 1] = g[n + 1]
      BY <3>1
    <3> QED  BY <2>1, <3>2
  <2> QED  BY <2>1, <2>2
<1> HIDE DEF T
<1>3. Nat \subseteq T
  BY <1>1, <1>2, SetInduction
<1> QED  BY <1>3 DEF T

(***************************************************************************)
(* A list without repetitions whose elements are added to an empty one,    *)
(* from the last to the first and leaving out what is not in S, comes out  *)
(* as it was.                                                              *)
(***************************************************************************)
LEMMA RebuildRestores ==
    ASSUME NEW S, NEW cap \in Nat \ {0}, NEW s \in Seq(S),
           Distinct(s), Len(s) <= cap
    PROVE  LET added[n \in 0..Len(s)] ==
                 IF n = 0 THEN <<>>
                 ELSE IF s[Len(s) + 1 - n] \in S
                      THEN Touch(added[n - 1], s[Len(s) + 1 - n], cap)
                      ELSE added[n - 1]
           IN  added[Len(s)] = s
<1> DEFINE x(n) == s[Len(s) + 1 - n]
           Rebuilt(f) ==
             [n \in 0..Len(s) |-> IF n = 0 THEN <<>>
                                  ELSE IF x(n) \in S
                                       THEN Touch(f[n - 1], x(n), cap)
                                       ELSE f[n - 1]]
           added == CHOOSE f : f = Rebuilt(f)
           F == RebuiltParts(s)
<1>1. /\ Len(s) \in Nat
      /\ F[0] = <<>>
      /\ F[Len(s)] = s
      /\ \A n \in 1..Len(s) : x(n) \in S /\ F[n] = Touch(F[n - 1], x(n), cap)
  <2>1. Len(s) \in Nat /\ F[0] = <<>> /\ F[Len(s)] = s
    BY PartsRebuild
  <2>2. ASSUME NEW n \in 1..Len(s)
        PROVE  x(n) \in S /\ F[n] = Touch(F[n - 1], x(n), cap)
    BY PartsRebuild
  <2> QED  BY <2>1, <2>2
<1>2. F = [n \in 0..Len(s) |-> F[n]]
  BY DEF RebuiltParts
<1> HIDE DEF F, x
<1>3. F = Rebuilt(F)
  <2>1. \A n \in 0..Len(s) : F[n] = Rebuilt(F)[n]
    BY <1>1
  <2> QED  BY <1>2, <2>1
<1>4. added = Rebuilt(added)
  <2> HIDE DEF Rebuilt
  <2> QED  BY <1>3
<1> HIDE DEF added
<1>5. /\ added[0] = F[0]
      /\ \A n \in 1..Len(s) : added[n] = Touch(added[n - 1], x(n), cap)
  <2>1. \A n \in 0..Len(s) : added[n] = Rebuilt(added)[n]
    BY <1>4
  <2> QED  BY <1>1, <2>1
<1>6. \A n \in 0..Len(s) : added[n] = F[n]
  <2>1. \A n \in 1..Len(s) : added[n - 1] = F[n - 1] => added[n] = F[n]
    BY <1>1, <1>5
  <2> HIDE DEF Rebuilt
  <2>2. Len(s) \in Nat /\ SameSteps(added, F, Len(s))
    BY <1>1, <1>5, <2>1 DEF SameSteps
  <2> QED  BY <2>2, SameByInduction
<1> QED  BY <1>1, <1>6 DEF added, Rebuilt, x

=============================================================================
