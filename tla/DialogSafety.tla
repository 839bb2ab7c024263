---------------------------- MODULE DialogSafety ----------------------------
(***************************************************************************)
(* What holds of the condition slide-out for every metadata, every stored  *)
(* and typed tree, and every number of acts and failures: the invariant,   *)
(* and the properties of ConditionDialog as theorems of DialogSpec.        *)
(***************************************************************************)
EXTENDS ConditionDialog, FiniteSetTheorems, SequenceTheorems, FunctionTheorems, TLAPS

Place == Seq(Nat \ {0})
-----------------------------------------------------------------------------
(***************************************************************************)
(* Places: the sequences that lead to a node, position by position.        *)
(***************************************************************************)
LEMMA PlaceType ==
    ASSUME NEW p \in Place
    PROVE  /\ Len(p) \in Nat /\ DOMAIN p = 1..Len(p)
           /\ \A i \in 1..Len(p) : p[i] \in Nat \ {0}
           /\ p # <<>> <=> Len(p) > 0
BY LenProperties, ElementOfSeq, EmptySeq DEF Place

LEMMA SamePlace ==
    ASSUME NEW p \in Place, NEW q \in Place,
           Len(p) = Len(q), \A i \in 1..Len(p) : p[i] = q[i]
    PROVE  p = q
BY SeqEqual DEF Place

\* The place of an ancestor, or the place itself.
LEMMA UpTo ==
    ASSUME NEW p \in Place, NEW k \in 0..Len(p)
    PROVE  /\ SubSeq(p, 1, k) \in Place
           /\ Len(SubSeq(p, 1, k)) = k
           /\ \A i \in 1..k : SubSeq(p, 1, k)[i] = p[i]
<1>1. \A i \in 1..k : p[i] \in Nat \ {0}
  BY PlaceType
<1>2. k \in Int /\ k >= 0
  BY PlaceType
<1>3. /\ SubSeq(p, 1, k) \in Seq(Nat \ {0})
      /\ Len(SubSeq(p, 1, k)) = IF 1 <= k THEN k - 1 + 1 ELSE 0
      /\ \A i \in 1..(k - 1 + 1) : SubSeq(p, 1, k)[i] = p[1 + i - 1]
  BY <1>1, <1>2, SubSeqProperties
<1> QED  BY <1>2, <1>3 DEF Place

LEMMA FrontOf ==
    ASSUME NEW p \in Place, p # <<>>
    PROVE  /\ Front(p) \in Place
           /\ Len(Front(p)) = Len(p) - 1
           /\ \A i \in 1..(Len(p) - 1) : Front(p)[i] = p[i]
<1>1. Len(p) \in Nat /\ Len(p) > 0
  BY PlaceType
<1>2. Len(p) - 1 \in 0..Len(p)
  BY <1>1
<1> QED  BY <1>2, UpTo DEF Front

LEMMA AppendTo ==
    ASSUME NEW p \in Place, NEW k \in Nat \ {0}
    PROVE  /\ Append(p, k) \in Place
           /\ Len(Append(p, k)) = Len(p) + 1
           /\ \A i \in 1..Len(p) : Append(p, k)[i] = p[i]
           /\ Append(p, k)[Len(p) + 1] = k
           /\ Append(p, k) # <<>>
           /\ Front(Append(p, k)) = p
           /\ Last(Append(p, k)) = k
<1>1. /\ Append(p, k) \in Place
      /\ Len(Append(p, k)) = Len(p) + 1
      /\ \A i \in 1..Len(p) : Append(p, k)[i] = p[i]
      /\ Append(p, k)[Len(p) + 1] = k
  BY AppendProperties DEF Place
<1>2. Append(p, k) # <<>>
  BY <1>1, PlaceType
<1>3. Front(Append(p, k)) = p
  <2> DEFINE f == Front(Append(p, k))
  <2>1. f \in Place /\ Len(f) = Len(p) + 1 - 1 /\ \A i \in 1..(Len(p) + 1 - 1) : f[i] = Append(p, k)[i]
    <3> DEFINE a == Append(p, k)
    <3>1. a \in Place /\ a # <<>> /\ Len(a) = Len(p) + 1
      BY <1>1, <1>2
    <3> HIDE DEF a
    <3>2. /\ Front(a) \in Place /\ Len(Front(a)) = Len(a) - 1
          /\ \A i \in 1..(Len(a) - 1) : Front(a)[i] = a[i]
      BY <3>1, FrontOf
    <3> QED  BY <3>1, <3>2 DEF a
  <2>2. Len(p) \in Nat
    BY PlaceType
  <2>3. Len(f) = Len(p) /\ \A i \in 1..Len(p) : f[i] = p[i]
    BY <2>1, <2>2, <1>1
  <2> QED  BY <2>1, <2>3, SamePlace
<1> QED  BY <1>1, <1>2, <1>3 DEF Last

LEMMA PrefixPointwise ==
    ASSUME NEW p \in Place, NEW q \in Place
    PROVE  IsPrefix(p, q) <=> Len(p) <= Len(q) /\ \A i \in 1..Len(p) : p[i] = q[i]
<1> SUFFICES ASSUME Len(p) <= Len(q)
             PROVE  SubSeq(p, 1, Len(p)) = SubSeq(q, 1, Len(p)) <=> \A i \in 1..Len(p) : p[i] = q[i]
  BY DEF IsPrefix
<1>1. Len(p) \in 0..Len(p) /\ Len(p) \in 0..Len(q)
  BY PlaceType
<1>2. SubSeq(p, 1, Len(p)) \in Place /\ SubSeq(q, 1, Len(p)) \in Place
  BY <1>1, UpTo
<1>3. Len(SubSeq(p, 1, Len(p))) = Len(p) /\ Len(SubSeq(q, 1, Len(p))) = Len(p)
  BY <1>1, UpTo
<1>4. \A i \in 1..Len(p) : SubSeq(p, 1, Len(p))[i] = p[i] /\ SubSeq(q, 1, Len(p))[i] = q[i]
  BY <1>1, UpTo
<1> QED  BY <1>2, <1>3, <1>4, SamePlace

\* A prefix is the place of an ancestor, or the place itself.
LEMMA PrefixIsUpTo ==
    ASSUME NEW p \in Place, NEW q \in Place, IsPrefix(p, q)
    PROVE  Len(p) \in 0..Len(q) /\ p = SubSeq(q, 1, Len(p))
<1>1. Len(p) \in 0..Len(q) /\ \A i \in 1..Len(p) : p[i] = q[i]
  BY PrefixPointwise, PlaceType
<1> DEFINE u == SubSeq(q, 1, Len(p))
<1>2. u \in Place /\ Len(u) = Len(p) /\ \A i \in 1..Len(p) : u[i] = q[i]
  BY <1>1, UpTo
<1>3. u = p
  BY <1>1, <1>2, SamePlace
<1> QED  BY <1>1, <1>3

LEMMA UpToIsPrefix ==
    ASSUME NEW p \in Place, NEW k \in 0..Len(p)
    PROVE  IsPrefix(SubSeq(p, 1, k), p)
<1>1. Len(p) \in Nat
  BY PlaceType
<1>2. /\ SubSeq(p, 1, k) \in Place
      /\ Len(SubSeq(p, 1, k)) = k
      /\ \A i \in 1..k : SubSeq(p, 1, k)[i] = p[i]
  BY UpTo
<1> DEFINE u == SubSeq(p, 1, k)
<1>3. u \in Place /\ Len(u) <= Len(p) /\ \A i \in 1..Len(u) : u[i] = p[i]
  BY <1>1, <1>2
<1> HIDE DEF u
<1>4. IsPrefix(u, p)
  BY <1>3, PrefixPointwise
<1> QED  BY <1>4 DEF u

LEMMA PrefixOfItself ==
    ASSUME NEW p \in Place
    PROVE  IsPrefix(p, p)
BY PrefixPointwise, PlaceType

\* What is left of the way below an ancestor.
LEMMA TheRest ==
    ASSUME NEW p \in Place, NEW q \in Place, IsPrefix(p, q)
    PROVE  /\ SubSeq(q, Len(p) + 1, Len(q)) \in Place
           /\ Len(SubSeq(q, Len(p) + 1, Len(q))) = Len(q) - Len(p)
           /\ \A i \in 1..(Len(q) - Len(p)) : SubSeq(q, Len(p) + 1, Len(q))[i] = q[Len(p) + i]
           /\ p \o SubSeq(q, Len(p) + 1, Len(q)) = q
<1> DEFINE r == SubSeq(q, Len(p) + 1, Len(q))
<1>1. Len(p) \in Nat /\ Len(q) \in Nat /\ Len(p) <= Len(q) /\ \A i \in 1..Len(p) : p[i] = q[i]
  BY PrefixPointwise, PlaceType
<1>2. \A i \in (Len(p) + 1)..Len(q) : q[i] \in Nat \ {0}
  BY <1>1, PlaceType
<1>3. /\ r \in Place
      /\ Len(r) = IF Len(p) + 1 <= Len(q) THEN Len(q) - (Len(p) + 1) + 1 ELSE 0
      /\ \A i \in 1..(Len(q) - (Len(p) + 1) + 1) : r[i] = q[(Len(p) + 1) + i - 1]
  BY <1>1, <1>2, SubSeqProperties DEF Place
<1>4. Len(r) = Len(q) - Len(p)
  BY <1>1, <1>3
<1>5. \A i \in 1..(Len(q) - Len(p)) : r[i] = q[Len(p) + i]
  BY <1>1, <1>3
<1>6. p \o r \in Place /\ Len(p \o r) = Len(p) + Len(r)
  BY <1>3, ConcatProperties DEF Place
<1>7. \A i \in 1..(Len(p) + Len(r)) : (p \o r)[i] = IF i <= Len(p) THEN p[i] ELSE r[i - Len(p)]
  BY <1>3, ConcatProperties DEF Place
<1>8. \A i \in 1..Len(q) : (p \o r)[i] = q[i]
  <2> TAKE i \in 1..Len(q)
  <2>1. CASE i <= Len(p)
    BY <2>1, <1>1, <1>4, <1>7
  <2>2. CASE i > Len(p)
    <3>1. i - Len(p) \in 1..(Len(q) - Len(p)) /\ Len(p) + (i - Len(p)) = i
      BY <2>2, <1>1
    <3> QED  BY <3>1, <2>2, <1>1, <1>4, <1>5, <1>7
  <2> QED  BY <2>1, <2>2, <1>1
<1>9. p \o r = q
  <2>1. Len(p \o r) = Len(q)
    BY <1>1, <1>4, <1>6
  <2> HIDE DEF r
  <2> QED  BY <1>6, <1>8, <2>1, SamePlace
<1> QED  BY <1>3, <1>4, <1>5, <1>9
-----------------------------------------------------------------------------
(***************************************************************************)
(* The places that move up when place is given up.                         *)
(***************************************************************************)
LEMMA AfterPointwise ==
    ASSUME NEW p \in Place, NEW place \in Place, place # <<>>
    PROVE  IsAfter(p, place) <=> /\ Len(p) >= Len(place)
                                 /\ \A i \in 1..(Len(place) - 1) : p[i] = place[i]
                                 /\ p[Len(place)] > place[Len(place)]
<1>1. /\ Front(place) \in Place /\ Len(Front(place)) = Len(place) - 1
      /\ \A i \in 1..(Len(place) - 1) : Front(place)[i] = place[i]
  BY FrontOf
<1>2. IsPrefix(Front(place), p) <=>
          Len(Front(place)) <= Len(p) /\ \A i \in 1..Len(Front(place)) : Front(place)[i] = p[i]
  BY <1>1, PrefixPointwise
<1>3. Len(p) \in Nat /\ Len(place) \in Nat
  BY PlaceType
<1> QED  BY <1>1, <1>2, <1>3 DEF IsAfter, Last

LEMMA MovedUpPointwise ==
    ASSUME NEW p \in Place, NEW place \in Place, place # <<>>
    PROVE  /\ MovedUp(p, place) \in Place
           /\ Len(MovedUp(p, place)) = Len(p)
           /\ \A i \in 1..Len(p) :
                  MovedUp(p, place)[i] = IF i = Len(place) /\ IsAfter(p, place) THEN p[i] - 1 ELSE p[i]
<1>1. CASE ~IsAfter(p, place)
  BY <1>1 DEF MovedUp
<1>2. CASE IsAfter(p, place)
  <2> DEFINE d == Len(place)
             e == p[d] - 1
  <2>1. Len(p) \in Nat /\ d \in Nat /\ d > 0 /\ d <= Len(p)
    BY <1>2, PlaceType, AfterPointwise
  <2>2. p[d] \in Nat \ {0} /\ place[d] \in Nat \ {0} /\ p[d] > place[d]
    BY <1>2, <2>1, PlaceType, AfterPointwise
  <2>3. e \in Nat \ {0} /\ d \in 1..Len(p) /\ p \in Seq(Nat \ {0})
    BY <2>1, <2>2 DEF Place
  <2>4. MovedUp(p, place) = [p EXCEPT ![d] = e]
    BY <1>2 DEF MovedUp
  <2> HIDE DEF d, e
  <2>5. /\ [p EXCEPT ![d] = e] \in Place
        /\ Len([p EXCEPT ![d] = e]) = Len(p)
        /\ \A j \in 1..Len(p) : [p EXCEPT ![d] = e][j] = IF j = d THEN e ELSE p[j]
    BY <2>3, ExceptSeq DEF Place
  <2> QED  BY <1>2, <2>4, <2>5 DEF d, e
<1> QED  BY <1>1, <1>2

LEMMA MovedUpInjective ==
    ASSUME NEW p \in Place, NEW q \in Place, NEW place \in Place, place # <<>>,
           ~IsPrefix(place, p), ~IsPrefix(place, q),
           MovedUp(p, place) = MovedUp(q, place)
    PROVE  p = q
<1> DEFINE d == Len(place)
<1>1. Len(p) = Len(q) /\ Len(p) \in Nat /\ d \in Nat /\ d > 0
  BY MovedUpPointwise, PlaceType
<1>2. \A i \in 1..Len(p) : (IF i = d /\ IsAfter(p, place) THEN p[i] - 1 ELSE p[i])
                          = (IF i = d /\ IsAfter(q, place) THEN q[i] - 1 ELSE q[i])
  BY <1>1, MovedUpPointwise
<1>3. \A i \in 1..Len(p) : p[i] \in Nat /\ q[i] \in Nat
  BY <1>1, PlaceType
<1>4. CASE IsAfter(p, place) <=> IsAfter(q, place)
  <2>1. \A i \in 1..Len(p) : p[i] = q[i]
    BY <1>2, <1>3, <1>4
  <2> QED  BY <1>1, <2>1, SamePlace
<1>5. ASSUME NEW x \in Place, NEW y \in Place, IsAfter(x, place), ~IsAfter(y, place),
             Len(x) = Len(y), ~IsPrefix(place, y),
             \A i \in 1..Len(x) : (IF i = d THEN x[i] - 1 ELSE x[i]) = y[i]
      PROVE  FALSE
  <2>1. Len(x) \in Nat /\ d <= Len(x)
    BY <1>5, PlaceType, AfterPointwise
  <2>2. \A i \in 1..(d - 1) : x[i] = place[i]
    BY <1>5, AfterPointwise
  <2>3. x[d] > place[d] /\ x[d] \in Nat /\ y[d] \in Nat /\ place[d] \in Nat
    BY <1>1, <1>5, <2>1, AfterPointwise, PlaceType
  <2>4. \A i \in 1..(d - 1) : y[i] = place[i]
    <3> TAKE i \in 1..(d - 1)
    <3>1. i \in 1..Len(x) /\ i # d
      BY <1>1, <2>1
    <3> QED  BY <3>1, <1>5, <2>2
  <2>5. y[d] = x[d] - 1
    BY <1>1, <1>5, <2>1
  <2>6. ~(y[d] > place[d])
    BY <1>5, <2>1, <2>4, AfterPointwise
  <2>7. y[d] = place[d]
    BY <2>3, <2>5, <2>6
  <2>8. \A i \in 1..d : place[i] = y[i]
    BY <1>1, <2>4, <2>7
  <2> QED  BY <1>5, <2>1, <2>8, PrefixPointwise
<1>6. CASE IsAfter(p, place) /\ ~IsAfter(q, place)
  <2>1. \A i \in 1..Len(p) : (IF i = d THEN p[i] - 1 ELSE p[i]) = q[i]
    BY <1>2, <1>6
  <2> QED  BY <1>5, <1>6, <2>1, <1>1
<1>7. CASE IsAfter(q, place) /\ ~IsAfter(p, place)
  <2>1. \A i \in 1..Len(q) : (IF i = d THEN q[i] - 1 ELSE q[i]) = p[i]
    BY <1>1, <1>2, <1>7
  <2> QED  BY <1>5, <1>7, <2>1, <1>1
<1> QED  BY <1>4, <1>6, <1>7

LEMMA MovedUpAncestor ==
    ASSUME NEW p \in Place, NEW k \in 0..Len(p), NEW place \in Place, place # <<>>
    PROVE  SubSeq(MovedUp(p, place), 1, k) = MovedUp(SubSeq(p, 1, k), place)
<1> DEFINE m == MovedUp(p, place)
           a == SubSeq(p, 1, k)
           b == SubSeq(m, 1, k)
           d == Len(place)
<1>1. Len(p) \in Nat /\ d \in Nat /\ d > 0 /\ k \in Nat /\ k <= Len(p)
  BY PlaceType
<1>2. m \in Place /\ Len(m) = Len(p)
  BY MovedUpPointwise
<1>3. a \in Place /\ Len(a) = k /\ \A i \in 1..k : a[i] = p[i]
  BY UpTo
<1>4. b \in Place /\ Len(b) = k /\ \A i \in 1..k : b[i] = m[i]
  <2> HIDE DEF m
  <2> QED  BY <1>2, UpTo
<1>5. CASE k < d
  <2>1. ~IsAfter(a, place)
    <3> HIDE DEF a
    <3> QED  BY <1>1, <1>3, <1>5, AfterPointwise
  <2>2. MovedUp(a, place) = a
    BY <2>1 DEF MovedUp
  <2>3. \A i \in 1..k : m[i] = p[i]
    <3> TAKE i \in 1..k
    <3>1. i \in 1..Len(p) /\ i # d
      BY <1>1, <1>5
    <3> QED  BY <3>1, MovedUpPointwise
  <2>4. \A i \in 1..k : b[i] = a[i]
    BY <1>3, <1>4, <2>3
  <2> HIDE DEF a, b
  <2>5. a = b
    BY <1>3, <1>4, <2>4, SamePlace
  <2> QED  BY <2>2, <2>5 DEF a, b
<1>6. CASE k >= d
  <2>1. IsAfter(a, place) <=> IsAfter(p, place)
    <3>1. \A i \in 1..d : a[i] = p[i]
      BY <1>1, <1>3, <1>6
    <3> HIDE DEF a
    <3>2. (\A i \in 1..(d - 1) : a[i] = place[i]) <=> (\A i \in 1..(d - 1) : p[i] = place[i])
      BY <3>1, <1>1
    <3>3. a[d] = p[d]
      BY <3>1, <1>1
    <3> QED  BY <1>1, <1>3, <1>6, <3>2, <3>3, AfterPointwise
  <2> DEFINE c == MovedUp(a, place)
  <2>2. c \in Place /\ Len(c) = k
        /\ \A i \in 1..k : c[i] = IF i = d /\ IsAfter(a, place) THEN a[i] - 1 ELSE a[i]
    <3> HIDE DEF a
    <3> QED  BY <1>3, MovedUpPointwise
  <2>3. \A i \in 1..k : m[i] = IF i = d /\ IsAfter(p, place) THEN p[i] - 1 ELSE p[i]
    BY <1>1, MovedUpPointwise
  <2>4. \A i \in 1..k : c[i] = b[i]
    <3> HIDE DEF a, b, c, m
    <3> QED  BY <1>3, <1>4, <2>1, <2>2, <2>3
  <2> HIDE DEF a, b, c
  <2>5. c = b
    BY <1>4, <2>2, <2>4, SamePlace
  <2> QED  BY <2>5 DEF a, b, c
<1> QED  BY <1>1, <1>5, <1>6

\* What is below a place that is not above the one given up moves with it.
LEMMA MovedUpBelow ==
    ASSUME NEW p \in Place, NEW q \in Place, NEW place \in Place, place # <<>>,
           IsPrefix(p, q), ~IsPrefix(p, place)
    PROVE  /\ IsPrefix(MovedUp(p, place), MovedUp(q, place))
           /\ SubSeq(MovedUp(q, place), Len(p) + 1, Len(q)) = SubSeq(q, Len(p) + 1, Len(q))
<1> DEFINE d == Len(place)
           m == MovedUp(p, place)
           o == MovedUp(q, place)
<1>1. /\ Len(p) \in Nat /\ Len(q) \in Nat /\ d \in Nat /\ d > 0
      /\ Len(p) <= Len(q) /\ \A i \in 1..Len(p) : p[i] = q[i]
  BY PlaceType, PrefixPointwise
<1>2. IsAfter(q, place) <=> IsAfter(p, place)
  <2>1. CASE Len(p) >= d
    <3>1. \A i \in 1..d : p[i] = q[i]
      BY <1>1, <2>1
    <3>2. (\A i \in 1..(d - 1) : p[i] = place[i]) <=> (\A i \in 1..(d - 1) : q[i] = place[i])
      BY <3>1, <1>1
    <3>3. p[d] = q[d]
      BY <3>1, <1>1
    <3> QED  BY <1>1, <2>1, <3>2, <3>3, AfterPointwise
  <2>2. CASE Len(p) < d
    <3>1. ~IsAfter(p, place)
      BY <1>1, <2>2, AfterPointwise
    <3>2. PICK i \in 1..Len(p) : p[i] # place[i]
      BY <1>1, <2>2, PrefixPointwise
    <3>3. i \in 1..(d - 1) /\ q[i] # place[i]
      BY <1>1, <2>2, <3>2
    <3> QED  BY <3>1, <3>3, AfterPointwise
  <2> QED  BY <1>1, <2>1, <2>2
<1>3. IsAfter(p, place) => d <= Len(p)
  BY AfterPointwise, <1>1
<1>4. m \in Place /\ Len(m) = Len(p) /\ o \in Place /\ Len(o) = Len(q)
  BY MovedUpPointwise
<1>5. \A i \in 1..Len(p) : m[i] = IF i = d /\ IsAfter(p, place) THEN p[i] - 1 ELSE p[i]
  BY MovedUpPointwise
<1>6. \A i \in 1..Len(q) : o[i] = IF i = d /\ IsAfter(q, place) THEN q[i] - 1 ELSE q[i]
  BY MovedUpPointwise
<1> HIDE DEF m, o
<1>7. \A i \in 1..Len(p) : m[i] = o[i]
  BY <1>1, <1>2, <1>5, <1>6
<1>8. IsPrefix(m, o)
  BY <1>1, <1>4, <1>7, PrefixPointwise
<1>9. SubSeq(o, Len(p) + 1, Len(q)) = SubSeq(q, Len(p) + 1, Len(q))
  <2> DEFINE r == SubSeq(q, Len(p) + 1, Len(q))
             t == SubSeq(o, Len(m) + 1, Len(o))
  <2>1. r \in Place /\ Len(r) = Len(q) - Len(p) /\ \A i \in 1..(Len(q) - Len(p)) : r[i] = q[Len(p) + i]
    BY TheRest
  <2>2. t \in Place /\ Len(t) = Len(o) - Len(m) /\ \A i \in 1..(Len(o) - Len(m)) : t[i] = o[Len(m) + i]
    BY <1>4, <1>8, TheRest
  <2>3. \A i \in 1..(Len(q) - Len(p)) : r[i] = t[i]
    <3> TAKE i \in 1..(Len(q) - Len(p))
    <3>1. Len(p) + i \in 1..Len(q) /\ (IsAfter(p, place) => Len(p) + i # d)
      BY <1>1, <1>3
    <3> QED  BY <3>1, <1>2, <1>4, <1>6, <2>1, <2>2
  <2> HIDE DEF r, t
  <2>4. r = t
    BY <1>4, <2>1, <2>2, <2>3, SamePlace
  <2> QED  BY <1>4, <2>4 DEF r, t
<1> QED  BY <1>8, <1>9 DEF m, o
-----------------------------------------------------------------------------
(***************************************************************************)
(* Well-formed trees.  Their ids are pairs of the act that made the node   *)
(* and the place it was made for; n bounds the acts.                       *)
(***************************************************************************)
NodeFields == {"id", "type", "props", "leaf", "width", "made"}

NodeOK(node, n) ==
    /\ DOMAIN node = NodeFields
    /\ node.id \in (1..n) \X Place
    /\ node.type \in Types \cup {NoType}
    /\ node.width \in Nat

TreeOK(tree, n) ==
    /\ tree = [p \in DOMAIN tree |-> tree[p]]
    /\ DOMAIN tree \subseteq Place
    /\ \A p \in DOMAIN tree :
          /\ NodeOK(tree[p], n)
          /\ \A k \in 0..Len(p) : SubSeq(p, 1, k) \in DOMAIN tree
          /\ p # <<>> => Last(p) <= tree[Front(p)].width
    /\ \A p, q \in DOMAIN tree : tree[p].id = tree[q].id => p = q

LEMMA NoTree ==
    ASSUME NEW n \in Nat
    PROVE  TreeOK(<<>>, n) /\ IsSource(<<>>)
<1>1. DOMAIN <<>> = {} /\ <<>> = [p \in DOMAIN <<>> |-> <<>>[p]]
  OBVIOUS
<1> QED  BY <1>1 DEF TreeOK, IsSource

LEMMA LaterTree ==
    ASSUME NEW tree, NEW n \in Nat, NEW m \in Nat, n <= m, TreeOK(tree, n)
    PROVE  TreeOK(tree, m)
<1>1. (1..n) \X Place \subseteq (1..m) \X Place
  OBVIOUS
<1> QED  BY <1>1 DEF TreeOK, NodeOK

LEMMA ParseOK ==
    ASSUME NEW w, IsSource(w), NEW n \in Nat \ {0}
    PROVE  /\ TreeOK(Parse(w, n), n)
           /\ Serialize(Parse(w, n)) = w
           /\ \A p \in DOMAIN Parse(w, n) : Parse(w, n)[p].id[1] = n
<1> DEFINE t == Parse(w, n)
<1>1. t = [p \in DOMAIN w |-> t[p]] /\ DOMAIN t = DOMAIN w
  BY DEF Parse
<1>2. DOMAIN w \subseteq Place
  BY DEF IsSource, Place
<1>3. \A p \in DOMAIN w :
          /\ t[p].id = <<n, p>> /\ t[p].type = w[p].type /\ t[p].width = w[p].width
          /\ t[p].props = w[p].props /\ t[p].leaf = w[p].leaf
          /\ DOMAIN t[p] = NodeFields
  BY DEF Parse, ToNode, NodeFields
<1>4. \A p \in DOMAIN w : p # <<>> => Front(p) \in DOMAIN w
  <2> SUFFICES ASSUME NEW p \in DOMAIN w, p # <<>>
               PROVE  Front(p) \in DOMAIN w
    OBVIOUS
  <2>1. Len(p) - 1 \in 0..Len(p)
    BY <1>2, PlaceType
  <2> QED  BY <2>1 DEF Front, IsSource
<1>5. \A p \in DOMAIN w : NodeOK(t[p], n)
  <2> TAKE p \in DOMAIN w
  <2>1. n \in 1..n /\ p \in Place
    BY <1>2
  <2>2. w[p].type \in Types \cup {NoType} /\ w[p].width \in Nat
    BY DEF IsSource, Types, NoType
  <2>3. /\ t[p].id = <<n, p>> /\ t[p].type = w[p].type /\ t[p].width = w[p].width
        /\ DOMAIN t[p] = NodeFields
    BY <1>3
  <2> HIDE DEF t
  <2> QED  BY <2>1, <2>2, <2>3 DEF NodeOK
<1>6. TreeOK(t, n)
  <2> HIDE DEF t
  <2>1. \A p \in DOMAIN w : \A k \in 0..Len(p) : SubSeq(p, 1, k) \in DOMAIN w
    BY DEF IsSource
  <2>2. \A p \in DOMAIN w : p # <<>> => Last(p) <= t[Front(p)].width
    BY <1>3, <1>4 DEF IsSource
  <2>3. \A p, q \in DOMAIN w : t[p].id = t[q].id => p = q
    BY <1>3
  <2> QED  BY <1>1, <1>2, <1>5, <2>1, <2>2, <2>3 DEF TreeOK
<1>7. Serialize(t) = w
  <2>1. \A p \in DOMAIN w : ToWire(t[p]) = ToWire(w[p])
    BY <1>3 DEF ToWire
  <2>2. \A p \in DOMAIN w : ToWire(t[p]) = w[p]
    BY <2>1 DEF IsSource
  <2>3. Serialize(t) = [p \in DOMAIN w |-> w[p]]
    <3> HIDE DEF t
    <3> QED  BY <1>1, <2>2 DEF Serialize
  <2> QED  BY <2>3 DEF IsSource
<1> QED  BY <1>1, <1>3, <1>6, <1>7

LEMMA SerializeOK ==
    ASSUME NEW t, NEW n \in Nat, TreeOK(t, n)
    PROVE  IsSource(Serialize(t)) /\ IsSource(SerializeTree(t))
<1> DEFINE w == Serialize(t)
<1>1. w = [p \in DOMAIN t |-> w[p]] /\ DOMAIN w = DOMAIN t
  BY DEF Serialize
<1>2. \A p \in DOMAIN t :
          /\ w[p] = ToWire(t[p])
          /\ w[p].type = t[p].type /\ w[p].width = t[p].width
          /\ w[p] = ToWire(w[p])
  BY DEF Serialize, ToWire
<1>3. \A p \in DOMAIN t : p # <<>> => Front(p) \in DOMAIN t
  <2> SUFFICES ASSUME NEW p \in DOMAIN t, p # <<>>
               PROVE  Front(p) \in DOMAIN t
    OBVIOUS
  <2>1. Len(p) - 1 \in 0..Len(p)
    BY PlaceType DEF TreeOK
  <2> QED  BY <2>1 DEF Front, TreeOK
<1>4. DOMAIN t \subseteq Seq(Nat \ {0})
  BY DEF TreeOK, Place
<1>5. \A p \in DOMAIN t :
          /\ t[p].type \in DOMAIN Meta \cup {""} /\ t[p].width \in Nat
          /\ \A k \in 0..Len(p) : SubSeq(p, 1, k) \in DOMAIN t
          /\ p # <<>> => Last(p) <= t[Front(p)].width
  BY DEF TreeOK, NodeOK, Types, NoType
<1>6. IsSource(w)
  <2> HIDE DEF w
  <2> QED  BY <1>1, <1>2, <1>3, <1>4, <1>5 DEF IsSource
<1> QED  BY <1>6, NoTree DEF SerializeTree

LEMMA EmptyTreeOK ==
    ASSUME NEW type \in Types, NEW n \in Nat \ {0}
    PROVE  /\ TreeOK(EmptyTree(type, n), n)
           /\ \A p \in DOMAIN EmptyTree(type, n) : EmptyTree(type, n)[p].id[1] = n
           /\ NodeTypes(EmptyTree(type, n)) \subseteq {type}
<1> DEFINE t == EmptyTree(type, n)
<1>1. DOMAIN t = {<<>>} /\ t = [p \in DOMAIN t |-> t[p]]
  BY DEF EmptyTree
<1>2. /\ t[<<>>].id = <<n, <<>>>> /\ t[<<>>].type = type /\ t[<<>>].width = 0
      /\ DOMAIN t[<<>>] = NodeFields
  BY DEF EmptyTree, NodeFields
<1>3. <<>> \in Place /\ Len(<<>>) = 0
  BY EmptySeq DEF Place
<1>4. SubSeq(<<>>, 1, 0) = <<>>
  BY SubSeqEmpty
<1>5. NodeOK(t[<<>>], n)
  BY <1>2, <1>3 DEF NodeOK
<1>6. TreeOK(t, n)
  <2> HIDE DEF t
  <2>1. \A k \in 0..Len(<<>>) : SubSeq(<<>>, 1, k) \in DOMAIN t
    BY <1>1, <1>3, <1>4
  <2> QED  BY <1>1, <1>3, <1>5, <2>1 DEF TreeOK
<1>7. \A p \in DOMAIN t : t[p].id[1] = n /\ t[p].type = type
  BY <1>1, <1>2
<1>8. NodeTypes(t) \subseteq {type}
  <2> HIDE DEF t
  <2> QED  BY <1>7 DEF NodeTypes
<1> QED  BY <1>6, <1>7, <1>8

LEMMA FindOK ==
    ASSUME NEW t, NEW n, TreeOK(t, n), NEW p \in DOMAIN t
    PROVE  Has(t, t[p].id) /\ FindNode(t, t[p].id) = p
BY DEF TreeOK, Has, FindNode

LEMMA AncestorOK ==
    ASSUME NEW t, NEW n, TreeOK(t, n), NEW p \in DOMAIN t, p # <<>>
    PROVE  Front(p) \in DOMAIN t /\ p \in Place
<1>1. p \in Place
  BY DEF TreeOK
<1>2. Len(p) - 1 \in 0..Len(p)
  BY <1>1, PlaceType
<1> QED  BY <1>1, <1>2 DEF Front, TreeOK

LEMMA UpdateOK ==
    ASSUME NEW t, NEW n, TreeOK(t, n), NEW p \in DOMAIN t,
           NEW node, NodeOK(node, n), node.id = t[p].id, node.width = t[p].width
    PROVE  /\ UpdateNode(t, t[p].id, node) = [t EXCEPT ![p] = node]
           /\ TreeOK([t EXCEPT ![p] = node], n)
<1> DEFINE u == [t EXCEPT ![p] = node]
<1>1. UpdateNode(t, t[p].id, node) = u
  BY FindOK DEF UpdateNode
<1>2. DOMAIN u = DOMAIN t /\ u = [q \in DOMAIN t |-> u[q]]
  OBVIOUS
<1>3. \A q \in DOMAIN t : u[q] = IF q = p THEN node ELSE t[q]
  OBVIOUS
<1> HIDE DEF u
<1>4. \A q \in DOMAIN t : u[q].id = t[q].id /\ u[q].width = t[q].width /\ NodeOK(u[q], n)
  BY <1>3 DEF TreeOK
<1>5. \A q \in DOMAIN t : q # <<>> => Front(q) \in DOMAIN t
  BY AncestorOK
<1>6. TreeOK(u, n)
  BY <1>2, <1>4, <1>5 DEF TreeOK
<1> QED  BY <1>1, <1>6 DEF u

\* u is t with child as the new last child of p, at place.
ChildAdded(t, p, child, place, u) ==
    /\ place \in Place
    /\ \A q \in DOMAIN t : ~IsPrefix(place, q)
    /\ place \notin DOMAIN t
    /\ DOMAIN u = DOMAIN t \cup {place}
    /\ u = [q \in DOMAIN u |-> u[q]]
    /\ u[place] = child
    /\ \A q \in DOMAIN t : q # p => u[q] = t[q]
    /\ \A q \in DOMAIN t :
          /\ DOMAIN u[q] = NodeFields
          /\ u[q].id = t[q].id /\ u[q].type = t[q].type /\ u[q].props = t[q].props
          /\ u[q].width = IF q = p THEN t[q].width + 1 ELSE t[q].width

LEMMA AddShape ==
    ASSUME NEW t, NEW n, TreeOK(t, n), NEW p \in DOMAIN t, NEW child,
           NEW place, place = Append(p, t[p].width + 1)
    PROVE  ChildAdded(t, p, child, place, AddChildNode(t, t[p].id, child))
<1> DEFINE u == AddChildNode(t, t[p].id, child)
<1> DEFINE wider == [t EXCEPT ![p].width = @ + 1, ![p].leaf = FALSE, ![p].made = FALSE]
<1>1. p \in Place /\ t[p].width \in Nat /\ t[p].width + 1 \in Nat \ {0}
  BY DEF TreeOK, NodeOK
<1>2. /\ place \in Place /\ place # <<>>
      /\ Front(place) = p /\ Last(place) = t[p].width + 1
  BY <1>1, AppendTo
<1>3. place \notin DOMAIN t
  <2> SUFFICES ASSUME place \in DOMAIN t
               PROVE  FALSE
    OBVIOUS
  <2>1. Last(place) <= t[Front(place)].width
    BY <1>2 DEF TreeOK
  <2> QED  BY <1>1, <1>2, <2>1
<1>4. \A q \in DOMAIN t : ~IsPrefix(place, q)
  <2> SUFFICES ASSUME NEW q \in DOMAIN t, IsPrefix(place, q)
               PROVE  FALSE
    OBVIOUS
  <2>1. q \in Place /\ Len(place) \in 0..Len(q) /\ place = SubSeq(q, 1, Len(place))
    BY <1>2, PrefixIsUpTo DEF TreeOK
  <2>2. SubSeq(q, 1, Len(place)) \in DOMAIN t
    BY <2>1 DEF TreeOK
  <2> QED  BY <1>3, <2>1, <2>2
<1>5. u = [q \in DOMAIN t \cup {place} |-> IF q = place THEN child ELSE wider[q]]
  BY FindOK DEF AddChildNode
<1>6. \A q \in DOMAIN t :
          wider[q] = IF q = p THEN [t[p] EXCEPT !.width = @ + 1, !.leaf = FALSE, !.made = FALSE]
                     ELSE t[q]
  OBVIOUS
<1>7. \A q \in DOMAIN t : DOMAIN t[q] = NodeFields
  BY DEF TreeOK, NodeOK
<1> HIDE DEF u, wider
<1>8. /\ DOMAIN u = DOMAIN t \cup {place}
      /\ u = [q \in DOMAIN u |-> u[q]]
      /\ u[place] = child
      /\ \A q \in DOMAIN t : u[q] = wider[q]
  BY <1>3, <1>5
<1>9. \A q \in DOMAIN t : q # p => u[q] = t[q]
  BY <1>6, <1>8
<1>10. u[p] = [t[p] EXCEPT !.width = @ + 1, !.leaf = FALSE, !.made = FALSE]
  BY <1>6, <1>8
<1>11. /\ DOMAIN u[p] = NodeFields
       /\ u[p].id = t[p].id /\ u[p].type = t[p].type /\ u[p].props = t[p].props
       /\ u[p].width = t[p].width + 1
  BY <1>7, <1>10 DEF NodeFields
<1>12. \A q \in DOMAIN t :
          /\ DOMAIN u[q] = NodeFields
          /\ u[q].id = t[q].id /\ u[q].type = t[q].type /\ u[q].props = t[q].props
          /\ u[q].width = IF q = p THEN t[q].width + 1 ELSE t[q].width
  BY <1>7, <1>9, <1>11
<1>13. ChildAdded(t, p, child, place, u)
  BY <1>2, <1>3, <1>4, <1>8, <1>9, <1>12 DEF ChildAdded
<1> QED  BY <1>13 DEF u

LEMMA AddOK ==
    ASSUME NEW t, NEW n, TreeOK(t, n), NEW p \in DOMAIN t,
           NEW child, NodeOK(child, n), child.width = 0, \A q \in DOMAIN t : t[q].id # child.id
    PROVE  TreeOK(AddChildNode(t, t[p].id, child), n)
<1> DEFINE place == Append(p, t[p].width + 1)
           u     == AddChildNode(t, t[p].id, child)
<1>1. /\ place \in Place
      /\ place \notin DOMAIN t
      /\ DOMAIN u = DOMAIN t \cup {place}
      /\ u = [q \in DOMAIN u |-> u[q]]
      /\ u[place] = child
      /\ \A q \in DOMAIN t :
             /\ DOMAIN u[q] = NodeFields
             /\ u[q].id = t[q].id /\ u[q].type = t[q].type
             /\ u[q].width = IF q = p THEN t[q].width + 1 ELSE t[q].width
  <2>1. ChildAdded(t, p, child, place, u)
    BY AddShape
  <2> HIDE DEF place, u
  <2> QED  BY <2>1 DEF ChildAdded
<1>2. /\ p \in Place /\ t[p].width \in Nat
      /\ Front(place) = p /\ Last(place) = t[p].width + 1
      /\ Len(place) = Len(p) + 1 /\ Len(p) \in Nat
  <2>1. p \in Place /\ t[p].width \in Nat /\ t[p].width + 1 \in Nat \ {0}
    BY DEF TreeOK, NodeOK
  <2> DEFINE k == t[p].width + 1
  <2>2. Append(p, k) = place
    OBVIOUS
  <2> HIDE DEF k, place
  <2>3. Front(place) = p /\ Last(place) = k /\ Len(place) = Len(p) + 1
    BY <2>1, <2>2, AppendTo DEF k
  <2> QED  BY <2>1, <2>3, PlaceType DEF k
<1>3. \A k \in 0..Len(place) : SubSeq(place, 1, k) \in DOMAIN u
  <2> TAKE k \in 0..Len(place)
  <2> HIDE DEF u
  <2>1. CASE k = Len(place)
    <3> HIDE DEF place
    <3>1. SubSeq(place, 1, k) = place
      BY <1>1, <2>1, SubSeqFull DEF Place
    <3> QED  BY <1>1, <3>1
  <2>2. CASE k # Len(place)
    <3>1. k \in 0..Len(p)
      BY <1>2, <2>2
    <3>2. SubSeq(p, 1, k) \in DOMAIN t
      BY <3>1 DEF TreeOK
    <3>3. SubSeq(place, 1, k) = SubSeq(p, 1, k)
      <4>1. /\ SubSeq(p, 1, k) \in Place /\ Len(SubSeq(p, 1, k)) = k
            /\ \A i \in 1..k : SubSeq(p, 1, k)[i] = p[i]
        BY <1>2, <3>1, UpTo
      <4>2. /\ SubSeq(place, 1, k) \in Place /\ Len(SubSeq(place, 1, k)) = k
            /\ \A i \in 1..k : SubSeq(place, 1, k)[i] = place[i]
        <5> HIDE DEF place
        <5> QED  BY <1>1, UpTo
      <4>3. \A i \in 1..k : place[i] = p[i]
        <5>1. t[p].width + 1 \in Nat \ {0}
          BY <1>2
        <5>2. \A i \in 1..Len(p) : place[i] = p[i]
          BY <1>2, <5>1, AppendTo
        <5> QED  BY <1>2, <3>1, <5>2
      <4> HIDE DEF place
      <4> QED  BY <4>1, <4>2, <4>3, SamePlace
    <3> QED  BY <1>1, <3>2, <3>3
  <2> QED  BY <2>1, <2>2
<1> HIDE DEF u, place
<1>4. \A q \in DOMAIN t : \A k \in 0..Len(q) : SubSeq(q, 1, k) \in DOMAIN u
  BY <1>1 DEF TreeOK
<1>5. \A q \in DOMAIN t : q # <<>> => Last(q) <= u[Front(q)].width
  <2> SUFFICES ASSUME NEW q \in DOMAIN t, q # <<>>
               PROVE  Last(q) <= u[Front(q)].width
    OBVIOUS
  <2>1. Front(q) \in DOMAIN t /\ q \in Place
    BY AncestorOK
  <2>2. Last(q) <= t[Front(q)].width /\ t[Front(q)].width \in Nat
    BY <2>1 DEF TreeOK, NodeOK
  <2>3. Last(q) \in Nat
    BY <2>1, PlaceType DEF Last
  <2> QED  BY <1>1, <2>1, <2>2, <2>3
<1>6. Last(place) <= u[Front(place)].width
  BY <1>1, <1>2
<1>7. \A q \in DOMAIN u : NodeOK(u[q], n)
  <2> SUFFICES ASSUME NEW q \in DOMAIN t
               PROVE  NodeOK(u[q], n)
    BY <1>1
  <2>1. NodeOK(t[q], n)
    BY DEF TreeOK
  <2>2. u[q].width \in Nat
    BY <1>1, <2>1 DEF NodeOK
  <2> QED  BY <1>1, <2>1, <2>2 DEF NodeOK
<1>8. \A q, r \in DOMAIN u : u[q].id = u[r].id => q = r
  <2>1. \A q, r \in DOMAIN t : u[q].id = u[r].id => q = r
    BY <1>1 DEF TreeOK
  <2>2. \A q \in DOMAIN t : u[q].id # u[place].id
    BY <1>1
  <2> QED  BY <1>1, <2>1, <2>2
<1>9. DOMAIN u \subseteq Place
  BY <1>1 DEF TreeOK
<1>10. TreeOK(u, n)
  BY <1>1, <1>3, <1>4, <1>5, <1>6, <1>7, <1>8, <1>9 DEF TreeOK
<1> QED  BY <1>10 DEF u

LEMMA PrefixTransitive ==
    ASSUME NEW p \in Place, NEW q \in Place, NEW r \in Place, IsPrefix(p, q), IsPrefix(q, r)
    PROVE  IsPrefix(p, r)
<1>1. /\ Len(p) \in Nat /\ Len(q) \in Nat /\ Len(p) <= Len(q) /\ Len(q) <= Len(r)
      /\ \A i \in 1..Len(p) : p[i] = q[i]
      /\ \A i \in 1..Len(q) : q[i] = r[i]
  BY PrefixPointwise, PlaceType
<1>2. Len(r) \in Nat
  BY PlaceType
<1>3. Len(p) <= Len(r) /\ \A i \in 1..Len(p) : p[i] = r[i]
  BY <1>1, <1>2
<1> QED  BY <1>3, PrefixPointwise

\* The move hides no ancestor: what is above afterwards was above before.
LEMMA MovedUpReflects ==
    ASSUME NEW p \in Place, NEW x \in Place, NEW place \in Place, place # <<>>,
           ~IsPrefix(place, p), ~IsPrefix(place, x),
           IsPrefix(MovedUp(p, place), MovedUp(x, place))
    PROVE  IsPrefix(p, x)
<1> DEFINE m == MovedUp(p, place)
           o == MovedUp(x, place)
           k == Len(p)
           a == SubSeq(x, 1, k)
<1>1. m \in Place /\ o \in Place /\ Len(m) = Len(p) /\ Len(o) = Len(x)
  BY MovedUpPointwise
<1>2. Len(m) \in 0..Len(o) /\ m = SubSeq(o, 1, Len(m))
  <2> HIDE DEF m, o
  <2> QED  BY <1>1, PrefixIsUpTo DEF m, o
<1>3. k \in 0..Len(x)
  BY <1>1, <1>2
<1> HIDE DEF k
<1>4. SubSeq(o, 1, k) = MovedUp(a, place)
  BY <1>3, MovedUpAncestor
<1>5. MovedUp(a, place) = m
  BY <1>1, <1>2, <1>4 DEF k
<1>6. a \in Place /\ IsPrefix(a, x)
  BY <1>3, UpTo, UpToIsPrefix
<1> HIDE DEF a
<1>7. ~IsPrefix(place, a)
  BY <1>6, PrefixTransitive
<1>8. a = p
  BY <1>5, <1>6, <1>7, MovedUpInjective
<1> QED  BY <1>6, <1>8

Kept(t, place) == {p \in DOMAIN t : ~IsPrefix(place, p)}

\* u is t without place and what is below it.
NodeRemoved(t, place, u) ==
    /\ DOMAIN u = {MovedUp(p, place) : p \in Kept(t, place)}
    /\ u = [q \in DOMAIN u |-> u[q]]
    /\ \A p \in Kept(t, place) : p # Front(place) => u[MovedUp(p, place)] = t[p]
    /\ \A p \in Kept(t, place) :
          /\ DOMAIN u[MovedUp(p, place)] = NodeFields
          /\ u[MovedUp(p, place)].id = t[p].id
          /\ u[MovedUp(p, place)].type = t[p].type
          /\ u[MovedUp(p, place)].props = t[p].props
          /\ u[MovedUp(p, place)].width = IF p = Front(place) THEN t[p].width - 1 ELSE t[p].width

LEMMA RemoveShape ==
    ASSUME NEW t, NEW n, TreeOK(t, n), NEW place \in DOMAIN t, place # <<>>
    PROVE  NodeRemoved(t, place, RemoveNode(t, t[place].id))
<1> DEFINE u == RemoveNode(t, t[place].id)
           kept == {p \in DOMAIN t : ~IsPrefix(place, p)}
           narrower == [t EXCEPT ![Front(place)].width = @ - 1]
           was(q) == CHOOSE p \in kept : MovedUp(p, place) = q
<1>1. u = [q \in {MovedUp(p, place) : p \in kept} |-> narrower[was(q)]]
  BY FindOK DEF RemoveNode
<1>2. kept = Kept(t, place) /\ kept \subseteq DOMAIN t /\ DOMAIN t \subseteq Place
  BY DEF Kept, TreeOK
<1>3. \A p \in kept : was(MovedUp(p, place)) = p
  <2> SUFFICES ASSUME NEW p \in kept, NEW q \in kept, MovedUp(q, place) = MovedUp(p, place)
               PROVE  q = p
    OBVIOUS
  <2> QED  BY <1>2, MovedUpInjective
<1>4. \A p \in DOMAIN t :
          narrower[p] = IF p = Front(place) THEN [t[p] EXCEPT !.width = @ - 1] ELSE t[p]
  BY AncestorOK
<1>5. \A p \in DOMAIN t : DOMAIN t[p] = NodeFields
  BY DEF TreeOK, NodeOK
<1> HIDE DEF was, narrower, u, kept
<1>6. /\ DOMAIN u = {MovedUp(p, place) : p \in kept}
      /\ u = [q \in DOMAIN u |-> u[q]]
      /\ \A p \in kept : u[MovedUp(p, place)] = narrower[p]
  BY <1>1, <1>3
<1>7. \A p \in kept : p # Front(place) => u[MovedUp(p, place)] = t[p]
  BY <1>2, <1>4, <1>6
<1>8. \A p \in kept : p = Front(place) => u[MovedUp(p, place)] = [t[p] EXCEPT !.width = @ - 1]
  BY <1>2, <1>4, <1>6
<1>9. \A p \in kept :
          /\ DOMAIN u[MovedUp(p, place)] = NodeFields
          /\ u[MovedUp(p, place)].id = t[p].id
          /\ u[MovedUp(p, place)].type = t[p].type
          /\ u[MovedUp(p, place)].props = t[p].props
          /\ u[MovedUp(p, place)].width = IF p = Front(place) THEN t[p].width - 1 ELSE t[p].width
  <2> TAKE p \in kept
  <2>1. CASE p # Front(place)
    BY <1>2, <1>5, <1>7, <2>1
  <2>2. CASE p = Front(place)
    <3> DEFINE v == u[MovedUp(p, place)]
    <3>1. v = [t[p] EXCEPT !.width = @ - 1] /\ DOMAIN t[p] = NodeFields
      BY <1>2, <1>5, <1>8, <2>2
    <3> HIDE DEF v
    <3>2. /\ DOMAIN v = NodeFields /\ v.id = t[p].id /\ v.type = t[p].type
          /\ v.props = t[p].props /\ v.width = t[p].width - 1
      BY <3>1 DEF NodeFields
    <3> QED  BY <2>2, <3>2 DEF v
  <2> QED  BY <2>1, <2>2
<1>10. NodeRemoved(t, place, u)
  BY <1>2, <1>6, <1>7, <1>9 DEF NodeRemoved
<1> QED  BY <1>10 DEF u

LEMMA RemoveOK ==
    ASSUME NEW t, NEW n, TreeOK(t, n), NEW place \in DOMAIN t, place # <<>>
    PROVE  TreeOK(RemoveNode(t, t[place].id), n)
<1> DEFINE u == RemoveNode(t, t[place].id)
           kept == Kept(t, place)
           up(p) == MovedUp(p, place)
           d == Len(place)
<1>1. /\ DOMAIN u = {up(p) : p \in kept}
      /\ u = [q \in DOMAIN u |-> u[q]]
      /\ \A p \in kept :
            /\ DOMAIN u[up(p)] = NodeFields
            /\ u[up(p)].id = t[p].id
            /\ u[up(p)].type = t[p].type
            /\ u[up(p)].width = IF p = Front(place) THEN t[p].width - 1 ELSE t[p].width
  <2>1. NodeRemoved(t, place, u)
    BY RemoveShape
  <2> HIDE DEF u
  <2> QED  BY <2>1 DEF NodeRemoved
<1> HIDE DEF u
<1>2. kept \subseteq DOMAIN t /\ DOMAIN t \subseteq Place
  BY DEF Kept, TreeOK
<1>3. d \in Nat /\ d > 0 /\ place[d] \in Nat \ {0}
  BY <1>2, PlaceType
<1>4. \A p \in kept : /\ up(p) \in Place /\ Len(up(p)) = Len(p)
                       /\ \A i \in 1..Len(p) :
                              up(p)[i] = IF i = d /\ IsAfter(p, place) THEN p[i] - 1 ELSE p[i]
  BY <1>2, MovedUpPointwise
<1>5. \A p \in kept : \A k \in 0..Len(p) : SubSeq(p, 1, k) \in kept
  <2> TAKE p \in kept
  <2> TAKE k \in 0..Len(p)
  <2> DEFINE a == SubSeq(p, 1, k)
  <2>1. a \in DOMAIN t /\ p \in Place /\ place \in Place
    BY <1>2 DEF TreeOK
  <2>2. IsPrefix(a, p) /\ a \in Place
    BY <2>1, UpToIsPrefix, UpTo
  <2> HIDE DEF a
  <2>3. ~IsPrefix(place, a)
    BY <2>1, <2>2, PrefixTransitive DEF Kept
  <2> QED  BY <2>1, <2>3 DEF Kept, a
<1>6. \A p \in kept : \A k \in 0..Len(up(p)) : SubSeq(up(p), 1, k) \in DOMAIN u
  <2> TAKE p \in kept
  <2> TAKE k \in 0..Len(up(p))
  <2>1. k \in 0..Len(p)
    BY <1>4
  <2>2. SubSeq(up(p), 1, k) = up(SubSeq(p, 1, k))
    BY <1>2, <2>1, MovedUpAncestor
  <2>3. SubSeq(p, 1, k) \in kept
    BY <1>5, <2>1
  <2> QED  BY <1>1, <2>2, <2>3
<1>7. \A p \in kept : NodeOK(u[up(p)], n)
  <2> TAKE p \in kept
  <2>1. NodeOK(t[p], n) /\ t[p].width \in Nat
    BY <1>2 DEF TreeOK, NodeOK
  <2>2. p = Front(place) => t[p].width - 1 \in Nat
    <3>1. Last(place) <= t[Front(place)].width
      BY DEF TreeOK
    <3> QED  BY <2>1, <3>1, <1>3 DEF Last
  <2>3. u[up(p)].width \in Nat
    BY <1>1, <2>1, <2>2
  <2> QED  BY <1>1, <2>1, <2>3 DEF NodeOK
<1>8. \A p \in kept : up(p) # <<>> => Last(up(p)) <= u[Front(up(p))].width
  <2> SUFFICES ASSUME NEW p \in kept, up(p) # <<>>
               PROVE  Last(up(p)) <= u[Front(up(p))].width
    OBVIOUS
  <2> DEFINE f == Front(p)
             l == Len(p)
  <2>1. p \in Place /\ place \in Place /\ l \in Nat /\ l > 0 /\ p # <<>>
    <3>1. p \in Place /\ place \in Place
      BY <1>2
    <3>2. Len(up(p)) > 0 /\ Len(up(p)) = l
      BY <1>4, PlaceType
    <3> QED  BY <3>1, <3>2, PlaceType
  <2>2. f \in kept /\ Front(up(p)) = up(f)
    <3>1. l - 1 \in 0..l /\ Len(up(p)) = l
      BY <2>1, <1>4
    <3>2. f = SubSeq(p, 1, l - 1) /\ Front(up(p)) = SubSeq(up(p), 1, l - 1)
      BY <3>1 DEF Front
    <3> QED  BY <3>1, <3>2, <1>5, <2>1, MovedUpAncestor
  <2>3. p[l] <= t[f].width /\ t[f].width \in Nat /\ p[l] \in Nat
    <3>1. p \in DOMAIN t /\ f \in DOMAIN t /\ p # <<>>
      BY <1>2, <2>1, <2>2
    <3>2. Last(p) <= t[Front(p)].width
      BY <3>1 DEF TreeOK
    <3>3. t[f].width \in Nat
      BY <3>1 DEF TreeOK, NodeOK
    <3>4. p[l] \in Nat
      BY <2>1, PlaceType
    <3> QED  BY <3>2, <3>3, <3>4 DEF Last
  <2>4. Last(up(p)) = IF l = d /\ IsAfter(p, place) THEN p[l] - 1 ELSE p[l]
    <3>1. Len(up(p)) = l /\ up(p)[l] = IF l = d /\ IsAfter(p, place) THEN p[l] - 1 ELSE p[l]
      BY <1>4, <2>1
    <3> QED  BY <3>1 DEF Last
  <2>5. u[up(f)].width = IF f = Front(place) THEN t[f].width - 1 ELSE t[f].width
    BY <1>1, <2>2
  <2>6. CASE f # Front(place)
    BY <2>2, <2>3, <2>4, <2>5, <2>6
  <2>7. CASE f = Front(place)
    <3>1. l = d /\ \A i \in 1..(d - 1) : p[i] = place[i]
      <4>1. Len(f) = l - 1 /\ \A i \in 1..(l - 1) : f[i] = p[i]
        BY <2>1, FrontOf
      <4>2. Len(f) = d - 1 /\ \A i \in 1..(d - 1) : f[i] = place[i]
        BY <2>1, <2>7, FrontOf
      <4> QED  BY <1>3, <2>1, <4>1, <4>2
    <3>2. p[d] # place[d]
      <4> SUFFICES ASSUME p[d] = place[d]
                   PROVE  FALSE
        OBVIOUS
      <4>1. \A i \in 1..d : place[i] = p[i]
        BY <1>3, <3>1
      <4>2. IsPrefix(place, p)
        BY <1>3, <2>1, <3>1, <4>1, PrefixPointwise
      <4> QED  BY <4>2 DEF Kept
    <3>3. IsAfter(p, place) <=> p[d] > place[d]
      BY <1>3, <2>1, <3>1, AfterPointwise
    <3>4. place[d] <= t[f].width
      BY <2>7 DEF TreeOK, Last
    <3> QED  BY <1>3, <2>2, <2>3, <2>4, <2>5, <2>7, <3>1, <3>2, <3>3, <3>4
  <2> QED  BY <2>6, <2>7
<1>9. \A p, q \in kept : u[up(p)].id = u[up(q)].id => up(p) = up(q)
  BY <1>1, <1>2 DEF TreeOK
<1>10. TreeOK(u, n)
  <2> HIDE DEF up, kept
  <2>1. DOMAIN u \subseteq Place
    BY <1>1, <1>4
  <2>2. \A q \in DOMAIN u : \A k \in 0..Len(q) : SubSeq(q, 1, k) \in DOMAIN u
    BY <1>1, <1>6
  <2>3. \A q \in DOMAIN u : NodeOK(u[q], n)
    BY <1>1, <1>7
  <2>4. \A q \in DOMAIN u : q # <<>> => Last(q) <= u[Front(q)].width
    BY <1>1, <1>8
  <2>5. \A q, r \in DOMAIN u : u[q].id = u[r].id => q = r
    BY <1>1, <1>9
  <2> QED  BY <1>1, <2>1, <2>2, <2>3, <2>4, <2>5 DEF TreeOK
<1> QED  BY <1>10 DEF u
-----------------------------------------------------------------------------
(***************************************************************************)
(* What an edit leaves as it was.                                          *)
(***************************************************************************)
\* Every node of t is where it was in u, with the properties it had.
Steady(t, u) ==
    \A p \in DOMAIN t :
        p \in DOMAIN u /\ u[p].id = t[p].id /\ u[p].type = t[p].type /\ u[p].props = t[p].props

\* What ForeignDataSurvives says of one edit.
Foreign(t, u) ==
    \A p \in DOMAIN t, q \in DOMAIN u :
        t[p].id = u[q].id =>
            /\ u[q].type = t[p].type
            /\ DOMAIN t[p].props \subseteq DOMAIN u[q].props
            /\ t[p].type \in Refused => Subtree(u, q) = Subtree(t, p)

\* No node from the root down to p is of a type the server does not describe.
Reachable(t, p) == \A x \in DOMAIN t : IsPrefix(x, p) => t[x].type \notin Refused

LEMMA Comparable ==
    ASSUME NEW a \in Place, NEW b \in Place, NEW x \in Place, IsPrefix(a, x), IsPrefix(b, x)
    PROVE  IsPrefix(a, b) \/ IsPrefix(b, a)
<1>1. /\ Len(a) \in Nat /\ Len(b) \in Nat
      /\ \A i \in 1..Len(a) : a[i] = x[i]
      /\ \A i \in 1..Len(b) : b[i] = x[i]
  BY PrefixPointwise, PlaceType
<1>2. CASE Len(a) <= Len(b)
  <2>1. \A i \in 1..Len(a) : a[i] = b[i]
    BY <1>1, <1>2
  <2> QED  BY <1>2, <2>1, PrefixPointwise
<1>3. CASE Len(b) <= Len(a)
  <2>1. \A i \in 1..Len(b) : b[i] = a[i]
    BY <1>1, <1>3
  <2> QED  BY <1>3, <2>1, PrefixPointwise
<1> QED  BY <1>1, <1>2, <1>3

Rest(x, p) == SubSeq(x, Len(p) + 1, Len(x))

\* Below q in u is what is below p in t, by the way down.
Alike(t, p, u, q) ==
    /\ \A x \in DOMAIN t : IsPrefix(p, x) =>
           \E y \in DOMAIN u : IsPrefix(q, y) /\ Rest(y, q) = Rest(x, p) /\ u[y] = t[x]
    /\ \A y \in DOMAIN u : IsPrefix(q, y) =>
           \E x \in DOMAIN t : IsPrefix(p, x) /\ Rest(y, q) = Rest(x, p)

LEMMA SubtreesAgree ==
    ASSUME NEW t, NEW u, DOMAIN t \subseteq Place, DOMAIN u \subseteq Place,
           NEW p \in Place, NEW q \in Place, Alike(t, p, u, q)
    PROVE  Subtree(u, q) = Subtree(t, p)
<1> DEFINE below(v, w) == {x \in DOMAIN v : IsPrefix(w, x)}
           D(v, w) == {Rest(x, w) : x \in below(v, w)}
<1>1. Subtree(u, q) = [r \in D(u, q) |-> u[q \o r]] /\ Subtree(t, p) = [r \in D(t, p) |-> t[p \o r]]
  BY DEF Subtree, Rest
<1>2. D(u, q) = D(t, p)
  BY DEF Alike
<1>3. \A x \in DOMAIN t : IsPrefix(p, x) => p \o Rest(x, p) = x
  BY TheRest DEF Rest
<1>4. \A y \in DOMAIN u : IsPrefix(q, y) => q \o Rest(y, q) = y
  BY TheRest DEF Rest
<1>5. \A r \in D(t, p) : u[q \o r] = t[p \o r]
  <2> SUFFICES ASSUME NEW x \in DOMAIN t, IsPrefix(p, x)
               PROVE  u[q \o Rest(x, p)] = t[p \o Rest(x, p)]
    OBVIOUS
  <2>1. PICK y \in DOMAIN u : IsPrefix(q, y) /\ Rest(y, q) = Rest(x, p) /\ u[y] = t[x]
    BY DEF Alike
  <2>2. p \o Rest(x, p) = x /\ q \o Rest(x, p) = y
    BY <1>3, <1>4, <2>1
  <2> QED  BY <2>1, <2>2
<1> HIDE DEF D
<1> QED  BY <1>1, <1>2, <1>5

LEMMA SameSubtree ==
    ASSUME NEW t, NEW u, DOMAIN t \subseteq Place, DOMAIN u \subseteq Place, NEW p \in Place,
           \A x \in Place : IsPrefix(p, x) =>
               (x \in DOMAIN t <=> x \in DOMAIN u) /\ (x \in DOMAIN t => u[x] = t[x])
    PROVE  Subtree(u, p) = Subtree(t, p)
<1>1. Alike(t, p, u, p)
  BY DEF Alike
<1> QED  BY <1>1, SubtreesAgree

LEMMA ForeignSame ==
    ASSUME NEW t, NEW n, TreeOK(t, n)
    PROVE  Foreign(t, t) /\ Steady(t, t)
BY DEF TreeOK, Foreign, Steady

LEMMA ForeignFresh ==
    ASSUME NEW t, NEW u, NEW n \in Nat, TreeOK(t, n), \A q \in DOMAIN u : u[q].id[1] = n + 1
    PROVE  Foreign(t, u)
<1>1. \A p \in DOMAIN t : t[p].id[1] \in 1..n
  BY DEF TreeOK, NodeOK
<1>2. \A p \in DOMAIN t, q \in DOMAIN u : t[p].id # u[q].id
  BY <1>1
<1> QED  BY <1>2 DEF Foreign

LEMMA ForeignUpdate ==
    ASSUME NEW t, NEW n, TreeOK(t, n), NEW p \in DOMAIN t, Reachable(t, p),
           NEW node, node.id = t[p].id, node.type = t[p].type,
           DOMAIN t[p].props \subseteq DOMAIN node.props
    PROVE  Foreign(t, [t EXCEPT ![p] = node])
<1> DEFINE u == [t EXCEPT ![p] = node]
<1>1. DOMAIN u = DOMAIN t /\ \A q \in DOMAIN t : u[q] = IF q = p THEN node ELSE t[q]
  OBVIOUS
<1> HIDE DEF u
<1>2. \A q \in DOMAIN t : u[q].id = t[q].id
  BY <1>1
<1>3. DOMAIN t \subseteq Place
  BY DEF TreeOK
<1>4. SUFFICES ASSUME NEW q \in DOMAIN t
               PROVE  /\ u[q].type = t[q].type
                      /\ DOMAIN t[q].props \subseteq DOMAIN u[q].props
                      /\ t[q].type \in Refused => Subtree(u, q) = Subtree(t, q)
  <2>1. \A r \in DOMAIN t, q \in DOMAIN u : t[r].id = u[q].id => r = q
    BY <1>1, <1>2 DEF TreeOK
  <2>2. Foreign(t, u)
    BY <1>1, <1>4, <2>1 DEF Foreign
  <2> QED  BY <2>2 DEF u
<1>5. u[q].type = t[q].type /\ DOMAIN t[q].props \subseteq DOMAIN u[q].props
  BY <1>1
<1>6. ASSUME t[q].type \in Refused
      PROVE  Subtree(u, q) = Subtree(t, q)
  <2>1. ~IsPrefix(q, p)
    BY <1>6 DEF Reachable
  <2>2. \A x \in Place : IsPrefix(q, x) =>
            (x \in DOMAIN t <=> x \in DOMAIN u) /\ (x \in DOMAIN t => u[x] = t[x])
    BY <1>1, <2>1
  <2> QED  BY <1>1, <1>3, <2>2, SameSubtree
<1> QED  BY <1>5, <1>6

LEMMA ForeignAdd ==
    ASSUME NEW t, NEW n, TreeOK(t, n), NEW p \in DOMAIN t, Reachable(t, p),
           NEW child, \A q \in DOMAIN t : t[q].id # child.id
    PROVE  Foreign(t, AddChildNode(t, t[p].id, child))
<1> DEFINE place == Append(p, t[p].width + 1)
           u     == AddChildNode(t, t[p].id, child)
<1>1. ChildAdded(t, p, child, place, u)
  BY AddShape
<1>2. p \in Place /\ Front(place) = p /\ place # <<>> /\ DOMAIN t \subseteq Place
  <2>1. p \in Place /\ t[p].width + 1 \in Nat \ {0} /\ DOMAIN t \subseteq Place
    BY DEF TreeOK, NodeOK
  <2> QED  BY <2>1, AppendTo
<1> HIDE DEF u, place
<1>3. SUFFICES ASSUME NEW q \in DOMAIN t
               PROVE  /\ u[q].type = t[q].type
                      /\ DOMAIN t[q].props \subseteq DOMAIN u[q].props
                      /\ t[q].type \in Refused => Subtree(u, q) = Subtree(t, q)
  <2>1. \A r \in DOMAIN t, q \in DOMAIN u : t[r].id = u[q].id => r = q
    BY <1>1 DEF TreeOK, ChildAdded
  <2>2. Foreign(t, u)
    BY <1>1, <1>3, <2>1 DEF Foreign
  <2> QED  BY <2>2 DEF u
<1>4. u[q].type = t[q].type /\ u[q].props = t[q].props
  BY <1>1 DEF ChildAdded
<1>5. ASSUME t[q].type \in Refused
      PROVE  Subtree(u, q) = Subtree(t, q)
  <2>1. ~IsPrefix(q, p)
    BY <1>5 DEF Reachable
  <2>2. q \in Place /\ place \in Place /\ DOMAIN u \subseteq Place
    BY <1>1, <1>2 DEF ChildAdded
  <2>3. q # place
    BY <1>1 DEF ChildAdded
  <2>4. ~IsPrefix(q, place)
    <3> SUFFICES ASSUME IsPrefix(q, place)
                 PROVE  FALSE
      OBVIOUS
    <3>1. /\ Len(q) \in Nat /\ Len(q) <= Len(place) /\ Len(place) \in Nat /\ Len(place) > 0
          /\ \A i \in 1..Len(q) : q[i] = place[i]
      BY <1>2, <2>2, PrefixPointwise, PlaceType
    <3>2. Len(q) # Len(place)
      BY <2>2, <2>3, <3>1, SamePlace
    <3>3. Len(p) = Len(place) - 1 /\ \A i \in 1..(Len(place) - 1) : p[i] = place[i]
      BY <1>2, <2>2, FrontOf
    <3>4. Len(q) <= Len(p) /\ \A i \in 1..Len(q) : q[i] = p[i]
      BY <3>1, <3>2, <3>3
    <3> QED  BY <1>2, <2>1, <2>2, <3>4, PrefixPointwise
  <2>5. \A x \in Place : IsPrefix(q, x) =>
            (x \in DOMAIN t <=> x \in DOMAIN u) /\ (x \in DOMAIN t => u[x] = t[x])
    <3>1. \A x \in Place : IsPrefix(q, x) => x # place /\ x # p
      BY <2>1, <2>4
    <3> QED  BY <1>1, <3>1 DEF ChildAdded
  <2> QED  BY <1>2, <2>2, <2>5, SameSubtree
<1> QED  BY <1>4, <1>5

LEMMA ForeignRemove ==
    ASSUME NEW t, NEW n, TreeOK(t, n), NEW place \in DOMAIN t, place # <<>>,
           \A x \in DOMAIN t : IsStrictPrefix(x, place) => t[x].type \notin Refused
    PROVE  Foreign(t, RemoveNode(t, t[place].id))
<1> DEFINE u == RemoveNode(t, t[place].id)
           kept == Kept(t, place)
           up(p) == MovedUp(p, place)
<1>1. NodeRemoved(t, place, u)
  BY RemoveShape
<1> HIDE DEF u
<1>2. kept \subseteq DOMAIN t /\ DOMAIN t \subseteq Place /\ place \in Place
  BY DEF Kept, TreeOK
<1>3. DOMAIN u = {up(p) : p \in kept} /\ DOMAIN u \subseteq Place
  BY <1>1, <1>2, MovedUpPointwise DEF NodeRemoved
<1>4. SUFFICES ASSUME NEW p \in kept
               PROVE  /\ u[up(p)].type = t[p].type
                      /\ u[up(p)].props = t[p].props
                      /\ t[p].type \in Refused => Subtree(u, up(p)) = Subtree(t, p)
  <2>1. \A r \in DOMAIN t, p \in kept : t[r].id = u[up(p)].id => r = p
    BY <1>1, <1>2 DEF TreeOK, NodeRemoved
  <2>2. Foreign(t, u)
    <3> SUFFICES ASSUME NEW r \in DOMAIN t, NEW p \in kept, t[r].id = u[up(p)].id
                 PROVE  /\ u[up(p)].type = t[r].type
                        /\ DOMAIN t[r].props \subseteq DOMAIN u[up(p)].props
                        /\ t[r].type \in Refused => Subtree(u, up(p)) = Subtree(t, r)
      BY <1>3 DEF Foreign
    <3>1. r = p
      BY <2>1
    <3> QED  BY <3>1, <1>4
  <2> QED  BY <2>2 DEF u
<1>5. u[up(p)].type = t[p].type /\ u[up(p)].props = t[p].props
  BY <1>1 DEF NodeRemoved
<1>6. ASSUME t[p].type \in Refused
      PROVE  Subtree(u, up(p)) = Subtree(t, p)
  <2>1. p \in Place /\ up(p) \in Place /\ Len(up(p)) = Len(p)
    BY <1>2, MovedUpPointwise
  <2>2. ~IsPrefix(p, place)
    <3>1. p # place
      BY <1>2, PrefixOfItself DEF Kept
    <3> QED  BY <1>2, <1>6, <3>1 DEF IsStrictPrefix
  <2>3. \A x \in DOMAIN t : IsPrefix(p, x) => x \in kept /\ x # Front(place)
    <3> SUFFICES ASSUME NEW x \in DOMAIN t, IsPrefix(p, x)
                 PROVE  x \in kept /\ x # Front(place)
      OBVIOUS
    <3>1. ~IsPrefix(place, x)
      BY <1>2, <2>1, <2>2, Comparable DEF Kept
    <3>2. x # Front(place)
      <4>1. IsPrefix(Front(place), place) /\ Front(place) \in Place
        <5>1. Len(place) - 1 \in 0..Len(place)
          BY <1>2, PlaceType
        <5> QED  BY <1>2, <5>1, UpToIsPrefix, UpTo DEF Front
      <4> QED  BY <1>2, <2>1, <2>2, <4>1, PrefixTransitive
    <3> QED  BY <3>1, <3>2 DEF Kept
  <2>4. \A x \in DOMAIN t : IsPrefix(p, x) =>
            up(x) \in DOMAIN u /\ IsPrefix(up(p), up(x)) /\ Rest(up(x), up(p)) = Rest(x, p)
            /\ u[up(x)] = t[x]
    <3> SUFFICES ASSUME NEW x \in DOMAIN t, IsPrefix(p, x)
                 PROVE  up(x) \in DOMAIN u /\ IsPrefix(up(p), up(x))
                        /\ Rest(up(x), up(p)) = Rest(x, p) /\ u[up(x)] = t[x]
      OBVIOUS
    <3>1. x \in kept /\ x # Front(place) /\ x \in Place
      BY <1>2, <2>3
    <3>2. IsPrefix(up(p), up(x)) /\ SubSeq(up(x), Len(p) + 1, Len(x)) = SubSeq(x, Len(p) + 1, Len(x))
      BY <1>2, <2>1, <2>2, <3>1, MovedUpBelow
    <3>3. Len(up(x)) = Len(x)
      BY <1>2, <3>1, MovedUpPointwise
    <3> QED  BY <1>1, <1>3, <2>1, <3>1, <3>2, <3>3 DEF Rest, NodeRemoved
  <2>5. \A x \in kept : IsPrefix(up(p), up(x)) => IsPrefix(p, x)
    <3> SUFFICES ASSUME NEW x \in kept, IsPrefix(up(p), up(x))
                 PROVE  IsPrefix(p, x)
      OBVIOUS
    <3>1. x \in Place /\ ~IsPrefix(place, x) /\ ~IsPrefix(place, p)
      BY <1>2 DEF Kept
    <3> QED  BY <1>2, <2>1, <3>1, MovedUpReflects
  <2>6. \A y \in DOMAIN u : IsPrefix(up(p), y) =>
            \E x \in DOMAIN t : IsPrefix(p, x) /\ Rest(y, up(p)) = Rest(x, p)
    BY <1>2, <1>3, <2>4, <2>5
  <2> DEFINE q == up(p)
  <2>7. \A x \in DOMAIN t : IsPrefix(p, x) =>
            \E y \in DOMAIN u : IsPrefix(q, y) /\ Rest(y, q) = Rest(x, p) /\ u[y] = t[x]
    BY <2>4
  <2>8. q \in Place /\ \A y \in DOMAIN u : IsPrefix(q, y) =>
            \E x \in DOMAIN t : IsPrefix(p, x) /\ Rest(y, q) = Rest(x, p)
    BY <2>1, <2>6
  <2>9. DOMAIN t \subseteq Place /\ DOMAIN u \subseteq Place /\ p \in Place
    BY <1>2, <1>3, <2>1
  <2> HIDE DEF q
  <2>10. Alike(t, p, u, q)
    BY <2>7, <2>8 DEF Alike
  <2>11. Subtree(u, q) = Subtree(t, p)
    BY <2>8, <2>9, <2>10, SubtreesAgree
  <2> QED  BY <2>11 DEF q
<1> QED  BY <1>5, <1>6
-----------------------------------------------------------------------------
(***************************************************************************)
(* Nodes that stay keep the way down to them free of undescribed types, so *)
(* a child may be added below them whenever its metadata arrives.          *)
(***************************************************************************)
WayKept(t, u) ==
    \A p \in DOMAIN t, q \in DOMAIN u : t[p].id = u[q].id /\ Reachable(t, p) => Reachable(u, q)

LEMMA WaySame ==
    ASSUME NEW t, NEW n, TreeOK(t, n)
    PROVE  WayKept(t, t)
BY DEF TreeOK, WayKept

LEMMA WayUpdate ==
    ASSUME NEW t, NEW n, TreeOK(t, n), NEW p \in DOMAIN t,
           NEW node, node.id = t[p].id, node.type = t[p].type
    PROVE  WayKept(t, [t EXCEPT ![p] = node])
<1> DEFINE u == [t EXCEPT ![p] = node]
<1>1. DOMAIN u = DOMAIN t /\ \A q \in DOMAIN t : u[q].id = t[q].id /\ u[q].type = t[q].type
  OBVIOUS
<1> HIDE DEF u
<1>2. WayKept(t, u)
  BY <1>1 DEF WayKept, Reachable, TreeOK
<1> QED  BY <1>2 DEF u

LEMMA WayAdd ==
    ASSUME NEW t, NEW n, TreeOK(t, n), NEW p \in DOMAIN t,
           NEW child, \A q \in DOMAIN t : t[q].id # child.id
    PROVE  WayKept(t, AddChildNode(t, t[p].id, child))
<1> DEFINE place == Append(p, t[p].width + 1)
           u     == AddChildNode(t, t[p].id, child)
<1>1. ChildAdded(t, p, child, place, u)
  BY AddShape
<1> HIDE DEF u, place
<1>2. SUFFICES ASSUME NEW r \in DOMAIN t, NEW q \in DOMAIN u, t[r].id = u[q].id, Reachable(t, r)
               PROVE  Reachable(u, q)
  BY DEF WayKept, u
<1>3. q = r
  BY <1>1, <1>2 DEF ChildAdded, TreeOK
<1>4. \A x \in DOMAIN u : IsPrefix(x, q) => x \in DOMAIN t /\ u[x].type = t[x].type
  BY <1>1, <1>3 DEF ChildAdded
<1> QED  BY <1>2, <1>3, <1>4 DEF Reachable

LEMMA WayRemove ==
    ASSUME NEW t, NEW n, TreeOK(t, n), NEW place \in DOMAIN t, place # <<>>
    PROVE  WayKept(t, RemoveNode(t, t[place].id))
<1> DEFINE u == RemoveNode(t, t[place].id)
           kept == Kept(t, place)
           up(p) == MovedUp(p, place)
<1>1. NodeRemoved(t, place, u)
  BY RemoveShape
<1> HIDE DEF u
<1>2. kept \subseteq DOMAIN t /\ DOMAIN t \subseteq Place /\ place \in Place
  BY DEF Kept, TreeOK
<1>3. SUFFICES ASSUME NEW r \in DOMAIN t, NEW q \in DOMAIN u, t[r].id = u[q].id, Reachable(t, r),
                      NEW x \in DOMAIN u, IsPrefix(x, q)
               PROVE  u[x].type \notin Refused
  BY DEF WayKept, Reachable, u
<1>4. PICK p \in kept : q = up(p)
  BY <1>1 DEF NodeRemoved
<1>5. PICK y \in kept : x = up(y)
  BY <1>1 DEF NodeRemoved
<1>6. p = r
  BY <1>1, <1>2, <1>3, <1>4 DEF NodeRemoved, TreeOK
<1>7. IsPrefix(y, p)
  <2>1. p \in Place /\ y \in Place /\ ~IsPrefix(place, p) /\ ~IsPrefix(place, y)
    BY <1>2 DEF Kept
  <2> QED  BY <1>2, <1>3, <1>4, <1>5, <2>1, MovedUpReflects
<1>8. t[y].type \notin Refused
  BY <1>2, <1>3, <1>6, <1>7 DEF Reachable
<1> QED  BY <1>1, <1>5, <1>8 DEF NodeRemoved

\* The ids of u are ids of t, or those of the act after the n-th.
IdsFrom(t, u, n) ==
    \A q \in DOMAIN u : u[q].id[1] = n + 1 \/ \E p \in DOMAIN t : t[p].id = u[q].id

\* What an edit does to the tree t of a dialog after n acts.
Edited(t, u, n) ==
    TreeOK(u, n + 1) /\ Foreign(t, u) /\ WayKept(t, u) /\ IdsFrom(t, u, n)

LEMMA EditedFresh ==
    ASSUME NEW t, NEW u, NEW n \in Nat, TreeOK(t, n), TreeOK(u, n + 1),
           \A q \in DOMAIN u : u[q].id[1] = n + 1
    PROVE  Edited(t, u, n)
<1>1. \A p \in DOMAIN t : t[p].id[1] \in 1..n
  BY DEF TreeOK, NodeOK
<1>2. \A p \in DOMAIN t, q \in DOMAIN u : t[p].id # u[q].id
  BY <1>1
<1>3. WayKept(t, u) /\ IdsFrom(t, u, n)
  BY <1>2 DEF WayKept, IdsFrom
<1> QED  BY <1>3, ForeignFresh DEF Edited

LEMMA EditedSame ==
    ASSUME NEW t, NEW n \in Nat, TreeOK(t, n)
    PROVE  Edited(t, t, n)
<1>1. TreeOK(t, n + 1)
  BY LaterTree
<1>2. Foreign(t, t) /\ WayKept(t, t)
  BY ForeignSame, WaySame
<1> QED  BY <1>1, <1>2 DEF Edited, IdsFrom

LEMMA EditedUpdate ==
    ASSUME NEW t, NEW n \in Nat, TreeOK(t, n), NEW p \in DOMAIN t, Reachable(t, p),
           NEW node, DOMAIN node = NodeFields, node.id = t[p].id, node.type = t[p].type,
           node.width = t[p].width, DOMAIN t[p].props \subseteq DOMAIN node.props
    PROVE  Edited(t, UpdateNode(t, t[p].id, node), n)
<1>1. NodeOK(node, n)
  BY DEF TreeOK, NodeOK
<1> DEFINE u == [t EXCEPT ![p] = node]
<1>2. UpdateNode(t, t[p].id, node) = u /\ TreeOK(u, n)
  BY <1>1, UpdateOK
<1>3. TreeOK(u, n + 1)
  <2> HIDE DEF u
  <2> QED  BY <1>2, LaterTree
<1>4. Foreign(t, u) /\ WayKept(t, u)
  BY ForeignUpdate, WayUpdate
<1>5. IdsFrom(t, u, n)
  BY DEF IdsFrom
<1> QED  BY <1>2, <1>3, <1>4, <1>5 DEF Edited

LEMMA EditedAdd ==
    ASSUME NEW t, NEW n \in Nat, TreeOK(t, n), NEW p \in DOMAIN t, Reachable(t, p),
           NEW child, NodeOK(child, n + 1), child.width = 0, child.id[1] = n + 1
    PROVE  Edited(t, AddChildNode(t, t[p].id, child), n)
<1> DEFINE u     == AddChildNode(t, t[p].id, child)
           place == Append(p, t[p].width + 1)
<1>1. TreeOK(t, n + 1)
  BY LaterTree
<1>2. \A q \in DOMAIN t : t[q].id # child.id
  BY DEF TreeOK, NodeOK
<1>3. TreeOK(u, n + 1) /\ Foreign(t, u) /\ WayKept(t, u)
  BY <1>1, <1>2, AddOK, ForeignAdd, WayAdd
<1>4. ChildAdded(t, p, child, place, u)
  BY AddShape
<1> HIDE DEF u, place
<1>5. IdsFrom(t, u, n)
  BY <1>4 DEF ChildAdded, IdsFrom
<1> QED  BY <1>3, <1>5 DEF Edited, u

LEMMA EditedRemove ==
    ASSUME NEW t, NEW n \in Nat, TreeOK(t, n), NEW place \in DOMAIN t, place # <<>>,
           \A x \in DOMAIN t : IsStrictPrefix(x, place) => t[x].type \notin Refused
    PROVE  Edited(t, RemoveNode(t, t[place].id), n)
<1> DEFINE u == RemoveNode(t, t[place].id)
<1>1. TreeOK(u, n) /\ Foreign(t, u) /\ WayKept(t, u)
  BY RemoveOK, ForeignRemove, WayRemove
<1>2. NodeRemoved(t, place, u)
  BY RemoveShape
<1> HIDE DEF u
<1>3. TreeOK(u, n + 1)
  BY <1>1, LaterTree
<1>4. IdsFrom(t, u, n)
  BY <1>2 DEF NodeRemoved, IdsFrom, Kept
<1> QED  BY <1>1, <1>3, <1>4 DEF Edited, u
-----------------------------------------------------------------------------
(***************************************************************************)
(* What the rows let an operator reach, when nothing refused is known.     *)
(***************************************************************************)
LEMMA RowAbove ==
    ASSUME NEW t, NEW n, TreeOK(t, n), NEW known, known \cap Refused = {}, NEW p \in Rows(t, known)
    PROVE  /\ p \in DOMAIN t
           /\ \A x \in DOMAIN t : IsStrictPrefix(x, p) => t[x].type \notin Refused
BY DEF Rows, ChildrenVisible, Kind

LEMMA RowKnown ==
    ASSUME NEW t, NEW n, TreeOK(t, n), NEW known, known \cap Refused = {}, NEW p \in Rows(t, known),
           t[p].type \in known
    PROVE  Reachable(t, p)
<1>1. \A x \in DOMAIN t : IsPrefix(x, p) => x = p \/ IsStrictPrefix(x, p)
  BY DEF IsStrictPrefix
<1> QED  BY <1>1, RowAbove DEF Reachable

LEMMA SetPropOK ==
    ASSUME NEW node, DOMAIN node = NodeFields, NEW key, NEW value
    PROVE  /\ DOMAIN SetProp(node, key, value) = NodeFields
           /\ SetProp(node, key, value).id = node.id
           /\ SetProp(node, key, value).type = node.type
           /\ SetProp(node, key, value).width = node.width
           /\ DOMAIN node.props \subseteq DOMAIN SetProp(node, key, value).props
<1> DEFINE props == [k \in DOMAIN node.props \cup {key} |-> IF k = key THEN value ELSE node.props[k]]
           v == SetProp(node, key, value)
<1>1. v = [node EXCEPT !.props = props]
  BY DEF SetProp
<1>2. DOMAIN node.props \subseteq DOMAIN props
  OBVIOUS
<1> HIDE DEF v, props
<1> QED  BY <1>1, <1>2 DEF NodeFields, v

LEMMA ApplyAttributeChangeOK ==
    ASSUME NEW node, DOMAIN node = NodeFields, NEW attribute
    PROVE  /\ DOMAIN ApplyAttributeChange(node, attribute) = NodeFields
           /\ ApplyAttributeChange(node, attribute).id = node.id
           /\ ApplyAttributeChange(node, attribute).type = node.type
           /\ ApplyAttributeChange(node, attribute).width = node.width
           /\ DOMAIN node.props \subseteq DOMAIN ApplyAttributeChange(node, attribute).props
<1>1. PICK operator : ApplyAttributeChange(node, attribute)
                        = SetProp(SetProp(SetProp(node, "attribute", attribute), "operator", operator), "value", "")
  BY DEF ApplyAttributeChange
<1> DEFINE a == SetProp(node, "attribute", attribute)
           b == SetProp(a, "operator", operator)
           c == SetProp(b, "value", "")
<1>2. /\ DOMAIN a = NodeFields /\ a.id = node.id /\ a.type = node.type /\ a.width = node.width
      /\ DOMAIN node.props \subseteq DOMAIN a.props
  BY SetPropOK
<1> HIDE DEF a
<1>3. /\ DOMAIN b = NodeFields /\ b.id = a.id /\ b.type = a.type /\ b.width = a.width
      /\ DOMAIN a.props \subseteq DOMAIN b.props
  BY <1>2, SetPropOK
<1> HIDE DEF b
<1>4. /\ DOMAIN c = NodeFields /\ c.id = b.id /\ c.type = b.type /\ c.width = b.width
      /\ DOMAIN b.props \subseteq DOMAIN c.props
  BY <1>3, SetPropOK
<1>5. ApplyAttributeChange(node, attribute) = c
  BY <1>1 DEF a, b
<1> HIDE DEF c
<1> QED  BY <1>2, <1>3, <1>4, <1>5

LEMMA BuildNodeOK ==
    ASSUME NEW spec, spec.type \in Types, NEW known \in BOOLEAN, NEW n \in Nat,
           NEW id \in (1..n) \X Place
    PROVE  /\ NodeOK(BuildNode(spec, known, id), n)
           /\ BuildNode(spec, known, id).id = id
           /\ BuildNode(spec, known, id).type = spec.type
           /\ BuildNode(spec, known, id).width = 0
<1>1. PICK props, leaf : BuildNode(spec, known, id) = NewNode(spec, id, props, leaf)
  <2> DEFINE kind == IF known THEN Meta[spec.type].kind ELSE InferKind(spec)
  <2>1. CASE kind = "combine"
    BY <2>1 DEF BuildNode
  <2>2. CASE kind = "related"
    BY <2>2 DEF BuildNode
  <2>3. CASE kind \notin {"combine", "related"}
    BY <2>3 DEF BuildNode
  <2> QED  BY <2>1, <2>2, <2>3
<1> QED  BY <1>1 DEF NewNode, NodeOK, NodeFields

-----------------------------------------------------------------------------
(***************************************************************************)
(* Lists of what a dialog waits for.                                       *)
(***************************************************************************)
LEMMA SetToSeqRange ==
    ASSUME NEW S, IsFiniteSet(S)
    PROVE  SetToSeq(S) \in Seq(S) /\ \A x \in S : \E i \in DOMAIN SetToSeq(S) : SetToSeq(S)[i] = x
<1> DEFINE c == Cardinality(S)
           f == SetToSeq(S)
<1>1. c \in Nat /\ ExistsBijection(1..c, S)
  BY FS_CardinalityType
<1>2. \E g \in [1..c -> S] : IsInjective(g)
  BY <1>1 DEF ExistsBijection, Bijection, Injection, IsInjective
<1>3. f \in [1..c -> S] /\ IsInjective(f)
  BY <1>2 DEF SetToSeq
<1>4. IsFiniteSet(1..c) /\ Cardinality(1..c) = c
  BY <1>1, FS_Interval
<1> HIDE DEF c, f
<1>5. f \in Injection(1..c, S)
  BY <1>3 DEF Injection, IsInjective
<1>6. f \in Surjection(1..c, S)
  BY <1>4, <1>5, FS_Injection DEF c
<1>7. f \in Seq(S)
  BY <1>1, <1>3, SeqDef
<1> QED  BY <1>3, <1>6, <1>7 DEF Surjection, f

\* Where the k-th of what is left was before the i-th was taken out.
Was(k, i) == IF k < i THEN k ELSE k + 1

LEMMA RemoveAtOK ==
    ASSUME NEW S, NEW w \in Seq(S), NEW i \in 1..Len(w)
    PROVE  /\ RemoveAt(w, i) \in Seq(S)
           /\ Len(RemoveAt(w, i)) = Len(w) - 1
           /\ \A k \in 1..(Len(w) - 1) : Was(k, i) \in DOMAIN w /\ RemoveAt(w, i)[k] = w[Was(k, i)]
<1> DEFINE a == SubSeq(w, 1, i - 1)
           b == SubSeq(w, i + 1, Len(w))
           n == Len(w)
<1>1. n \in Nat /\ i \in 1..n /\ DOMAIN w = 1..n /\ \A j \in 1..n : w[j] \in S
  BY LenProperties, ElementOfSeq
<1>2. a \in Seq(S) /\ Len(a) = i - 1 /\ \A j \in 1..(i - 1) : a[j] = w[j]
  <2>1. \A j \in 1..(i - 1) : w[j] \in S
    BY <1>1
  <2>2. /\ a \in Seq(S)
        /\ Len(a) = IF 1 <= i - 1 THEN (i - 1) - 1 + 1 ELSE 0
        /\ \A j \in 1..((i - 1) - 1 + 1) : a[j] = w[1 + j - 1]
    BY <1>1, <2>1, SubSeqProperties
  <2> QED  BY <1>1, <2>2
<1>3. b \in Seq(S) /\ Len(b) = n - i /\ \A j \in 1..(n - i) : b[j] = w[i + j]
  <2>1. \A j \in (i + 1)..n : w[j] \in S
    BY <1>1
  <2>2. /\ b \in Seq(S)
        /\ Len(b) = IF i + 1 <= n THEN n - (i + 1) + 1 ELSE 0
        /\ \A j \in 1..(n - (i + 1) + 1) : b[j] = w[(i + 1) + j - 1]
    BY <1>1, <2>1, SubSeqProperties
  <2> HIDE DEF b, n
  <2>3. \A j \in 1..(n - i) : j \in 1..(n - (i + 1) + 1) /\ (i + 1) + j - 1 = i + j
    BY <1>1
  <2>4. Len(b) = n - i
    BY <1>1, <2>2
  <2> QED  BY <2>2, <2>3, <2>4
<1> HIDE DEF a, b, n
<1>4. a \o b \in Seq(S) /\ Len(a \o b) = n - 1
  <2>1. a \o b \in Seq(S) /\ Len(a \o b) = Len(a) + Len(b)
    BY <1>2, <1>3, ConcatProperties
  <2> QED  BY <1>1, <1>2, <1>3, <2>1
<1>5. \A k \in 1..(n - 1) : (a \o b)[k] = IF k <= i - 1 THEN a[k] ELSE b[k - (i - 1)]
  <2>1. \A k \in 1..(Len(a) + Len(b)) : (a \o b)[k] = IF k <= Len(a) THEN a[k] ELSE b[k - Len(a)]
    BY <1>2, <1>3, ConcatProperties
  <2>2. Len(a) + Len(b) = n - 1
    BY <1>1, <1>2, <1>3
  <2> QED  BY <1>2, <2>1, <2>2
<1>6. \A k \in 1..(n - 1) : Was(k, i) \in 1..n /\ (a \o b)[k] = w[Was(k, i)]
  <2> TAKE k \in 1..(n - 1)
  <2>1. CASE k < i
    BY <2>1, <1>1, <1>2, <1>5 DEF Was
  <2>2. CASE k >= i
    <3> DEFINE m == k - (i - 1)
    <3>1. m \in 1..(n - i) /\ i + m = k + 1 /\ ~(k <= i - 1) /\ ~(k < i) /\ k + 1 \in 1..n
      BY <2>2, <1>1
    <3>2. (a \o b)[k] = b[m]
      BY <3>1, <1>5
    <3> HIDE DEF m
    <3>3. b[m] = w[k + 1]
      BY <3>1, <1>3
    <3> QED  BY <3>1, <3>2, <3>3 DEF Was
  <2>3. k < i \/ k >= i
    BY <1>1
  <2> QED  BY <2>1, <2>2, <2>3
<1>7. RemoveAt(w, i) = a \o b
  BY DEF RemoveAt, a, b
<1> QED  BY <1>1, <1>4, <1>6, <1>7 DEF n

\* All but the i-th is still there.
LEMMA RemoveAtKeeps ==
    ASSUME NEW S, NEW w \in Seq(S), NEW i \in 1..Len(w), NEW j \in 1..Len(w), j # i
    PROVE  \E k \in DOMAIN RemoveAt(w, i) : RemoveAt(w, i)[k] = w[j]
<1> DEFINE r == RemoveAt(w, i)
           k == IF j < i THEN j ELSE j - 1
<1>1. /\ r \in Seq(S) /\ Len(r) = Len(w) - 1
      /\ \A m \in 1..(Len(w) - 1) : r[m] = w[Was(m, i)]
  BY RemoveAtOK
<1> HIDE DEF r
<1>2. Len(w) \in Nat /\ DOMAIN r = 1..(Len(w) - 1)
  BY <1>1, LenProperties
<1>3. k \in 1..(Len(w) - 1) /\ Was(k, i) = j
  BY <1>2 DEF Was
<1> QED  BY <1>1, <1>2, <1>3 DEF r

Specs == UNION {Meta[t].children : t \in Types}

\* What a dialog may wait for after n acts.
RootWaits == [key : (Entities \ {""}) \X {TheRoot}, for : {"root"}, live : BOOLEAN, retry : BOOLEAN]
TypeWaits == [key : Entities \X Types, for : {"type"}]
ChildWaits(n) ==
    {w \in [key : Entities \X Types, for : {"child"}, spec : Specs,
            parent : (1..n) \X Place, id : (1..n) \X Place] : w.key[2] = w.spec.type}
Waits(n) == RootWaits \cup TypeWaits \cup ChildWaits(n)

LEMMA LaterWaits ==
    ASSUME NEW n \in Nat, NEW m \in Nat, n <= m, NEW w \in Seq(Waits(n))
    PROVE  w \in Seq(Waits(m))
<1>1. (1..n) \X Place \subseteq (1..m) \X Place
  OBVIOUS
<1>2. ChildWaits(n) \subseteq ChildWaits(m)
  BY <1>1 DEF ChildWaits
<1>3. Waits(n) \subseteq Waits(m)
  BY <1>2 DEF Waits
<1> HIDE DEF Waits
<1>4. Len(w) \in Nat /\ w = [i \in 1..Len(w) |-> w[i]] /\ \A i \in 1..Len(w) : w[i] \in Waits(m)
  BY <1>3, LenProperties, ElementOfSeq
<1> QED  BY <1>4, IsASeq

-----------------------------------------------------------------------------
(***************************************************************************)
(* A dialog after n acts, and what it waits for.                           *)
(***************************************************************************)
DialogFields == {"open", "tree", "text", "error", "rootType", "rootError", "meta", "applying"}

TextOK(text) == DOMAIN text = {"ok", "wires", "raw"} /\ text.ok \in BOOLEAN /\ IsSource(text.wires)

\* The text is the tree's, unless it does not parse; what the dialog knows is described.
DlgOK(d, n) ==
    /\ DOMAIN d = DialogFields
    /\ d.open = TRUE
    /\ TreeOK(d.tree, n)
    /\ TextOK(d.text)
    /\ d.error \in BOOLEAN /\ d.error = ~d.text.ok
    /\ ~d.error => d.text.wires = Serialize(d.tree)
    /\ d.rootType \in Types \cup {NoType}
    /\ \A t \in DOMAIN d.meta : d.meta[t] => t \notin Refused

\* A child that waits for its metadata is not in the tree, nor is it another's parent or
\* another child, and its parent can be reached through described types.
WaitsOK(tree, w) ==
    \A i \in DOMAIN w : w[i].for = "child" =>
        /\ \A p \in DOMAIN tree : tree[p].id # w[i].id
        /\ \A p \in DOMAIN tree : tree[p].id = w[i].parent => Reachable(tree, p)
        /\ \A j \in DOMAIN w : w[j].for = "child" =>
              w[j].parent # w[i].id /\ (w[j].id = w[i].id => j = i)

\* What the effect asked for the root is for the entity type e.
RootsFit(w, e) ==
    \A i \in DOMAIN w : w[i].for = "root" /\ w[i].live /\ ~w[i].retry => w[i].key[1] = e

Fit(d, w, n, e) == DlgOK(d, n) /\ w \in Seq(Waits(n)) /\ WaitsOK(d.tree, w) /\ RootsFit(w, e)

LEMMA WaitKinds ==
    ASSUME NEW n \in Nat, NEW x \in Waits(n)
    PROVE  /\ x.for = "root" => x \in RootWaits
           /\ x.for = "type" => x \in TypeWaits
           /\ x.for = "child" => x \in ChildWaits(n)
           /\ x.for \in {"root", "type", "child"}
           /\ x.key \in Keys
BY DEF Waits, RootWaits, TypeWaits, ChildWaits, Keys

LEMMA ChildFields ==
    ASSUME NEW n \in Nat, NEW x \in ChildWaits(n)
    PROVE  /\ x.for = "child" /\ x.key \in Entities \X Types /\ x.key[2] = x.spec.type
           /\ x.parent \in (1..n) \X Place /\ x.id \in (1..n) \X Place
BY DEF ChildWaits

LEMMA LearnOK ==
    ASSUME NEW d, NEW n, DlgOK(d, n), NEW type, NEW known \in BOOLEAN, known => type \notin Refused
    PROVE  /\ DlgOK(Learn(d, type, known), n)
           /\ Learn(d, type, known).tree = d.tree
           /\ Learn(d, type, known).rootType = d.rootType
           /\ DOMAIN Learn(d, type, known).meta = DOMAIN d.meta \cup {type}
<1> DEFINE m == [t \in DOMAIN d.meta \cup {type} |-> IF t = type THEN known ELSE d.meta[t]]
           u == Learn(d, type, known)
<1>1. u = [d EXCEPT !.meta = m]
  BY DEF Learn
<1>2. \A t \in DOMAIN m : m[t] => t \notin Refused
  BY DEF DlgOK
<1>3. DOMAIN m = DOMAIN d.meta \cup {type}
  OBVIOUS
<1> HIDE DEF u, m
<1>4. /\ DOMAIN u = DialogFields /\ u.meta = m /\ u.open = d.open /\ u.tree = d.tree /\ u.text = d.text
      /\ u.error = d.error /\ u.rootType = d.rootType
  BY <1>1 DEF DlgOK, DialogFields
<1>5. DlgOK(u, n)
  BY <1>2, <1>4 DEF DlgOK
<1> QED  BY <1>3, <1>4, <1>5 DEF u

LEMMA WithTreeOK ==
    ASSUME NEW d, NEW n \in Nat, NEW m, DlgOK(d, m), NEW tree, TreeOK(tree, n)
    PROVE  /\ DlgOK(WithTree(d, tree), n)
           /\ WithTree(d, tree).tree = tree
           /\ WithTree(d, tree).rootType = d.rootType
           /\ WithTree(d, tree).meta = d.meta
<1> DEFINE u == WithTree(d, tree)
           text == Json(Serialize(tree))
<1>1. u = [d EXCEPT !.tree = tree, !.text = text, !.error = FALSE]
  BY DEF WithTree
<1>2. TextOK(text) /\ text.ok = TRUE /\ text.wires = Serialize(tree)
  BY SerializeOK DEF Json, TextOK
<1> HIDE DEF u, text
<1>3. /\ DOMAIN u = DialogFields /\ u.tree = tree /\ u.text = text /\ u.error = FALSE /\ u.open = d.open
      /\ u.rootType = d.rootType /\ u.meta = d.meta
  BY <1>1 DEF DlgOK, DialogFields
<1>4. DlgOK(u, n)
  BY <1>2, <1>3 DEF DlgOK
<1> QED  BY <1>3, <1>4 DEF u

\* The root's answer; e is the entity type that was asked for.
LEMMA RootAnsweredOK ==
    ASSUME NEW d, NEW n, DlgOK(d, n), NEW e \in Entities \ {""}, NEW ok \in BOOLEAN
    PROVE  /\ DlgOK(RootAnswered(d, e, ok), n)
           /\ RootAnswered(d, e, ok).tree = d.tree
           /\ RootAnswered(d, e, ok).rootType \in {NoType, RootOf[e]}
           /\ DOMAIN d.meta \subseteq DOMAIN RootAnswered(d, e, ok).meta
<1>1. RootOf[e] \in Types /\ RootOf[e] \notin Refused
  BY DialogAssumption DEF Types
<1>2. CASE ok
  <2> DEFINE u == [d EXCEPT !.rootType = RootOf[e]]
  <2>1. /\ DOMAIN u = DialogFields /\ u.tree = d.tree /\ u.text = d.text /\ u.error = d.error
        /\ u.open = d.open /\ u.rootType = RootOf[e] /\ u.meta = d.meta
    BY DEF DlgOK, DialogFields
  <2> HIDE DEF u
  <2>2. DlgOK(u, n)
    BY <1>1, <2>1 DEF DlgOK
  <2>3. RootAnswered(d, e, ok) = Learn(u, RootOf[e], TRUE)
    BY <1>2 DEF RootAnswered, u
  <2>4. /\ DlgOK(Learn(u, RootOf[e], TRUE), n)
        /\ Learn(u, RootOf[e], TRUE).tree = u.tree
        /\ Learn(u, RootOf[e], TRUE).rootType = u.rootType
        /\ DOMAIN Learn(u, RootOf[e], TRUE).meta = DOMAIN u.meta \cup {RootOf[e]}
    BY <1>1, <2>2, LearnOK
  <2> QED  BY <2>1, <2>3, <2>4
<1>3. CASE ~ok
  <2> DEFINE u == [d EXCEPT !.rootType = NoType, !.rootError = TRUE]
  <2>1. /\ DOMAIN u = DialogFields /\ u.tree = d.tree /\ u.text = d.text /\ u.error = d.error
        /\ u.open = d.open /\ u.rootType = NoType /\ u.meta = d.meta
    BY DEF DlgOK, DialogFields
  <2>2. RootAnswered(d, e, ok) = u
    BY <1>3 DEF RootAnswered
  <2> HIDE DEF u
  <2>3. DlgOK(u, n)
    BY <2>1 DEF DlgOK
  <2> QED  BY <2>1, <2>2, <2>3
<1> QED  BY <1>2, <1>3

\* The ids of a list of waits were given out before the act after the n-th.
LEMMA EditedWaits ==
    ASSUME NEW n \in Nat, NEW w \in Seq(Waits(n)), NEW t, NEW u, WaitsOK(t, w),
           WayKept(t, u), IdsFrom(t, u, n)
    PROVE  WaitsOK(u, w)
<1> SUFFICES ASSUME NEW i \in DOMAIN w, w[i].for = "child"
             PROVE  /\ \A q \in DOMAIN u : u[q].id # w[i].id
                    /\ \A q \in DOMAIN u : u[q].id = w[i].parent => Reachable(u, q)
  BY DEF WaitsOK
<1>1. w[i] \in Waits(n)
  BY ElementOfSeq, LenProperties
<1>2. w[i] \in ChildWaits(n)
  BY <1>1, WaitKinds
<1>3. w[i].id[1] # n + 1 /\ w[i].parent[1] # n + 1
  BY <1>2, ChildFields
<1>4. \A q \in DOMAIN u : u[q].id # w[i].id
  BY <1>3 DEF IdsFrom, WaitsOK
<1>5. \A q \in DOMAIN u : u[q].id = w[i].parent => Reachable(u, q)
  <2> SUFFICES ASSUME NEW q \in DOMAIN u, u[q].id = w[i].parent
               PROVE  Reachable(u, q)
    OBVIOUS
  <2>1. PICK p \in DOMAIN t : t[p].id = u[q].id
    BY <1>3 DEF IdsFrom
  <2>2. Reachable(t, p)
    BY <2>1 DEF WaitsOK
  <2> QED  BY <2>1, <2>2 DEF WayKept
<1> QED  BY <1>4, <1>5

\* One of the waits has been served, and at most the child it was for is new in the tree.
LEMMA ServedWaits ==
    ASSUME NEW n \in Nat, NEW w \in Seq(Waits(n)), NEW i \in 1..Len(w), NEW t, NEW u, WaitsOK(t, w),
           WayKept(t, u),
           \A q \in DOMAIN u : \/ \E p \in DOMAIN t : t[p].id = u[q].id
                               \/ w[i].for = "child" /\ u[q].id = w[i].id
    PROVE  WaitsOK(u, RemoveAt(w, i))
<1> DEFINE r == RemoveAt(w, i)
<1>1. /\ r \in Seq(Waits(n)) /\ Len(r) = Len(w) - 1
      /\ \A k \in 1..(Len(w) - 1) : Was(k, i) \in DOMAIN w /\ r[k] = w[Was(k, i)]
  <2> HIDE DEF Waits
  <2> QED  BY RemoveAtOK
<1> HIDE DEF r
<1>2. /\ DOMAIN r = 1..(Len(w) - 1)
      /\ \A k \in DOMAIN r : Was(k, i) \in DOMAIN w /\ Was(k, i) # i /\ r[k] = w[Was(k, i)]
      /\ \A j, k \in DOMAIN r : Was(j, i) = Was(k, i) => j = k
  BY <1>1, LenProperties DEF Was
<1>3. i \in DOMAIN w
  BY LenProperties
<1>4. SUFFICES ASSUME NEW k \in DOMAIN r, r[k].for = "child"
               PROVE  /\ \A q \in DOMAIN u : u[q].id # r[k].id
                      /\ \A q \in DOMAIN u : u[q].id = r[k].parent => Reachable(u, q)
                      /\ \A j \in DOMAIN r : r[j].for = "child" =>
                            r[j].parent # r[k].id /\ (r[j].id = r[k].id => j = k)
  BY DEF WaitsOK, r
<1>5. w[Was(k, i)].for = "child" /\ Was(k, i) \in DOMAIN w /\ Was(k, i) # i /\ r[k] = w[Was(k, i)]
  BY <1>2, <1>4
<1> DEFINE m == Was(k, i)
<1> HIDE DEF m
<1>6. /\ \A p \in DOMAIN t : t[p].id # r[k].id
      /\ \A p \in DOMAIN t : t[p].id = r[k].parent => Reachable(t, p)
      /\ \A j \in DOMAIN w : w[j].for = "child" =>
            w[j].parent # r[k].id /\ (w[j].id = r[k].id => j = m)
  BY <1>5 DEF WaitsOK, m
<1>7. w[i].for = "child" => w[i].id # r[k].id /\ w[i].id # r[k].parent
  <2>1. w[i].for = "child" => w[i].id # r[k].id
    BY <1>3, <1>5, <1>6 DEF m
  <2>2. w[i].for = "child" => w[m].parent # w[i].id
    BY <1>3, <1>5 DEF WaitsOK, m
  <2> QED  BY <1>5, <2>1, <2>2 DEF m
<1>8. \A q \in DOMAIN u : u[q].id # r[k].id
  BY <1>6, <1>7
<1>9. \A q \in DOMAIN u : u[q].id = r[k].parent => Reachable(u, q)
  BY <1>6, <1>7 DEF WayKept
<1>10. \A j \in DOMAIN r : r[j].for = "child" =>
           r[j].parent # r[k].id /\ (r[j].id = r[k].id => j = k)
  BY <1>2, <1>6 DEF m
<1> QED  BY <1>8, <1>9, <1>10

\* The child goes where its parent is by now, and nowhere if the parent has gone.
LEMMA ChildArrives ==
    ASSUME NEW t, NEW n \in Nat, TreeOK(t, n), NEW w \in Seq(Waits(n)), WaitsOK(t, w),
           NEW i \in 1..Len(w), w[i].for = "child", NEW ok \in BOOLEAN,
           NEW u, u = AddChildNode(t, w[i].parent, BuildNode(w[i].spec, ok, w[i].id))
    PROVE  /\ TreeOK(u, n) /\ Steady(t, u) /\ Foreign(t, u) /\ WayKept(t, u)
           /\ \A q \in DOMAIN u : u[q].id = w[i].id \/ \E p \in DOMAIN t : t[p].id = u[q].id
           /\ NodeTypes(u) \subseteq NodeTypes(t) \cup {w[i].key[2]}
<1>1. CASE ~Has(t, w[i].parent)
  <2>1. u = t
    BY <1>1 DEF AddChildNode
  <2> QED  BY <2>1, ForeignSame, WaySame
<1>2. CASE Has(t, w[i].parent)
  <2>1. PICK p \in DOMAIN t : t[p].id = w[i].parent
    BY <1>2 DEF Has
  <2>2. w[i] \in ChildWaits(n) /\ i \in DOMAIN w
    <3>1. w[i] \in Waits(n) /\ i \in DOMAIN w
      BY ElementOfSeq, LenProperties
    <3> QED  BY <3>1, WaitKinds
  <2> DEFINE child == BuildNode(w[i].spec, ok, w[i].id)
             place == Append(p, t[p].width + 1)
  <2>3. /\ w[i].key[2] = w[i].spec.type /\ w[i].spec.type \in Types
        /\ w[i].id \in (1..n) \X Place
    BY <2>2, ChildFields
  <2>4. NodeOK(child, n) /\ child.id = w[i].id /\ child.type = w[i].key[2] /\ child.width = 0
    BY <2>3, BuildNodeOK
  <2> HIDE DEF child
  <2>5. (\A q \in DOMAIN t : t[q].id # child.id) /\ Reachable(t, p)
    BY <2>1, <2>2, <2>4 DEF WaitsOK
  <2>6. u = AddChildNode(t, t[p].id, child)
    BY <2>1 DEF child
  <2>7. TreeOK(u, n) /\ Foreign(t, u) /\ WayKept(t, u)
    BY <2>4, <2>5, <2>6, AddOK, ForeignAdd, WayAdd
  <2>8. ChildAdded(t, p, child, place, u)
    BY <2>6, AddShape
  <2> HIDE DEF place
  <2>9. Steady(t, u)
    BY <2>8 DEF ChildAdded, Steady
  <2>10. \A q \in DOMAIN u : u[q].id = w[i].id \/ \E x \in DOMAIN t : t[x].id = u[q].id
    BY <2>4, <2>8 DEF ChildAdded
  <2>11. NodeTypes(u) \subseteq NodeTypes(t) \cup {w[i].key[2]}
    <3> DEFINE type == w[i].key[2]
    <3>1. \A q \in DOMAIN u : u[q].type = type \/ \E x \in DOMAIN t : t[x].type = u[q].type
      BY <2>4, <2>8 DEF ChildAdded
    <3> HIDE DEF type
    <3>2. SUFFICES ASSUME NEW x \in NodeTypes(u)
                   PROVE  x \in NodeTypes(t) \cup {type}
      BY DEF type
    <3>3. PICK q \in DOMAIN u : u[q].type = x /\ x # ""
      BY DEF NodeTypes
    <3> QED  BY <3>1, <3>3 DEF NodeTypes
  <2> QED  BY <2>7, <2>9, <2>10, <2>11
<1> QED  BY <1>1, <1>2

\* What the i-th callback does to the dialog d.
Settled(d, u, w, i, n) ==
    /\ DlgOK(u, n)
    /\ Steady(d.tree, u.tree) /\ Foreign(d.tree, u.tree)
    /\ WaitsOK(u.tree, RemoveAt(w, i))
    /\ DOMAIN d.meta \subseteq DOMAIN u.meta
    /\ NodeTypes(u.tree) \subseteq NodeTypes(d.tree) \cup {w[i].key[2]}
    /\ w[i].key[2] # TheRoot => w[i].key[2] \in DOMAIN u.meta
    /\ u.rootType \notin {d.rootType, NoType} =>
          w[i].for = "root" /\ w[i].live /\ u.rootType = RootOf[w[i].key[1]]

LEMMA SettleOK ==
    ASSUME NEW d, NEW n \in Nat, DlgOK(d, n), NEW w \in Seq(Waits(n)), WaitsOK(d.tree, w),
           NEW i \in 1..Len(w), NEW ok \in BOOLEAN, ok => w[i].key[2] \notin Refused,
           NEW u, u = Settle(d, w[i], ok)
    PROVE  Settled(d, u, w, i, n)
<1>1. w[i] \in Waits(n) /\ i \in DOMAIN w
  BY ElementOfSeq, LenProperties
<1> SUFFICES /\ DlgOK(u, n)
             /\ Steady(d.tree, u.tree) /\ Foreign(d.tree, u.tree)
             /\ WaitsOK(u.tree, RemoveAt(w, i))
             /\ DOMAIN d.meta \subseteq DOMAIN u.meta
             /\ NodeTypes(u.tree) \subseteq NodeTypes(d.tree) \cup {w[i].key[2]}
             /\ w[i].key[2] # TheRoot => w[i].key[2] \in DOMAIN u.meta
             /\ u.rootType \notin {d.rootType, NoType} =>
                   w[i].for = "root" /\ w[i].live /\ u.rootType = RootOf[w[i].key[1]]
  BY DEF Settled
<1>2. TreeOK(d.tree, n)
  BY DEF DlgOK
<1>3. u.tree = d.tree => /\ Steady(d.tree, u.tree) /\ Foreign(d.tree, u.tree)
                         /\ WaitsOK(u.tree, RemoveAt(w, i))
  <2> SUFFICES Steady(d.tree, d.tree) /\ Foreign(d.tree, d.tree) /\ WaitsOK(d.tree, RemoveAt(w, i))
    OBVIOUS
  <2>1. WayKept(d.tree, d.tree)
    BY <1>2, WaySame
  <2> QED  BY <1>2, <2>1, ForeignSame, ServedWaits
<1>4. CASE w[i].for = "root"
  <2>1. w[i].key[1] \in Entities \ {""} /\ w[i].live \in BOOLEAN /\ w[i].key[2] = TheRoot
    BY <1>1, <1>4, WaitKinds DEF RootWaits
  <2>2. CASE w[i].live
    <3> DEFINE e == w[i].key[1]
    <3>1. u = RootAnswered(d, e, ok) /\ e \in Entities \ {""}
      BY <1>4, <2>1, <2>2 DEF Settle
    <3> HIDE DEF e
    <3>2. /\ DlgOK(RootAnswered(d, e, ok), n)
          /\ RootAnswered(d, e, ok).tree = d.tree
          /\ RootAnswered(d, e, ok).rootType \in {NoType, RootOf[e]}
          /\ DOMAIN d.meta \subseteq DOMAIN RootAnswered(d, e, ok).meta
      BY <3>1, RootAnsweredOK
    <3> QED  BY <1>3, <1>4, <2>1, <2>2, <3>1, <3>2 DEF e
  <2>3. CASE ~w[i].live
    <3>1. u = d
      BY <1>4, <2>3 DEF Settle
    <3> QED  BY <1>3, <2>1, <3>1
  <2> QED  BY <2>1, <2>2, <2>3
<1>5. CASE w[i].for = "type"
  <2>1. u = Learn(d, w[i].key[2], ok)
    BY <1>5 DEF Settle
  <2>2. /\ DlgOK(u, n) /\ u.tree = d.tree /\ u.rootType = d.rootType
        /\ DOMAIN u.meta = DOMAIN d.meta \cup {w[i].key[2]}
    BY <2>1, LearnOK
  <2> QED  BY <1>3, <2>2
<1>6. CASE w[i].for = "child"
  <2> DEFINE told == Learn(d, w[i].key[2], ok)
             tree == AddChildNode(d.tree, w[i].parent, BuildNode(w[i].spec, ok, w[i].id))
  <2>1. u = WithTree(told, tree)
    BY <1>6 DEF Settle
  <2>2. /\ DlgOK(told, n) /\ told.tree = d.tree /\ told.rootType = d.rootType
        /\ DOMAIN told.meta = DOMAIN d.meta \cup {w[i].key[2]}
    BY LearnOK
  <2> HIDE DEF told
  <2>3. /\ TreeOK(tree, n) /\ Steady(d.tree, tree) /\ Foreign(d.tree, tree) /\ WayKept(d.tree, tree)
        /\ \A q \in DOMAIN tree : tree[q].id = w[i].id \/ \E p \in DOMAIN d.tree : d.tree[p].id = tree[q].id
        /\ NodeTypes(tree) \subseteq NodeTypes(d.tree) \cup {w[i].key[2]}
    <3> DEFINE t == d.tree
    <3>1. TreeOK(t, n) /\ WaitsOK(t, w) /\ tree = AddChildNode(t, w[i].parent, BuildNode(w[i].spec, ok, w[i].id))
      BY <1>2
    <3> HIDE DEF t, tree
    <3>2. /\ TreeOK(tree, n) /\ Steady(t, tree) /\ Foreign(t, tree) /\ WayKept(t, tree)
          /\ \A q \in DOMAIN tree : tree[q].id = w[i].id \/ \E p \in DOMAIN t : t[p].id = tree[q].id
          /\ NodeTypes(tree) \subseteq NodeTypes(t) \cup {w[i].key[2]}
      BY <1>6, <3>1, ChildArrives
    <3> QED  BY <3>2 DEF t
  <2> HIDE DEF tree
  <2>4. /\ DlgOK(u, n) /\ u.tree = tree /\ u.rootType = told.rootType /\ u.meta = told.meta
    BY <2>1, <2>2, <2>3, WithTreeOK
  <2>5. WaitsOK(tree, RemoveAt(w, i))
    BY <1>6, <2>3, ServedWaits
  <2> QED  BY <2>2, <2>3, <2>4, <2>5
<1> QED  BY <1>1, <1>4, <1>5, <1>6, WaitKinds

LEMMA TypesOfTree ==
    ASSUME NEW t, NEW n, TreeOK(t, n)
    PROVE  NodeTypes(t) \subseteq Types
<1>1. \A p \in DOMAIN t : t[p].type \in Types \cup {""}
  BY DEF TreeOK, NodeOK, NoType
<1> QED  BY <1>1 DEF NodeTypes

\* What is waited for after a render.
Asked(d, w, e, c) ==
    w \o SetToSeq({Describe(e, t) : t \in Undescribed(d, e, c)} \ {w[i] : i \in DOMAIN w})

TypesAsked(d, w, e, c) ==
    \A t \in NodeTypes(d.tree) :
        \/ t \in DOMAIN d.meta \/ c[<<e, t>>] # "none"
        \/ \E i \in DOMAIN w : w[i].key[2] = t

LEMMA AskedOK ==
    ASSUME NEW d, NEW n \in Nat, TreeOK(d.tree, n), NEW e \in Entities, NEW c,
           NEW w \in Seq(Waits(n)), WaitsOK(d.tree, w), RootsFit(w, e),
           NEW a, a = Asked(d, w, e, c)
    PROVE  a \in Seq(Waits(n)) /\ WaitsOK(d.tree, a) /\ RootsFit(a, e) /\ TypesAsked(d, a, e, c)
<1> DEFINE U == Undescribed(d, e, c)
           D == {Describe(e, t) : t \in U}
           S == D \ {w[i] : i \in DOMAIN w}
           b == SetToSeq(S)
<1>1. NodeTypes(d.tree) \subseteq Types
  BY TypesOfTree
<1>2. IsFiniteSet(U) /\ U \subseteq Types
  <2>1. U \in SUBSET Types
    BY <1>1 DEF Undescribed
  <2>2. IsFiniteSet(Types)
    BY DialogAssumption DEF Types
  <2> HIDE DEF U
  <2> QED  BY <2>1, <2>2, FS_Subset
<1>3. IsFiniteSet(D)
  <2> DEFINE f == [t \in U |-> Describe(e, t)]
  <2>1. f \in Surjection(U, D)
    BY DEF Surjection
  <2> HIDE DEF f, U, D
  <2> QED  BY <1>2, <2>1, FS_Surjection
<1>4. IsFiniteSet(S)
  <2>1. S \in SUBSET D
    OBVIOUS
  <2> HIDE DEF S, D
  <2> QED  BY <1>3, <2>1, FS_Subset
<1>5. S \subseteq D /\ D \subseteq TypeWaits
  BY <1>2 DEF Describe, TypeWaits
<1> HIDE DEF S, D, U
<1>6. b \in Seq(S) /\ \A x \in S : \E i \in DOMAIN b : b[i] = x
  BY <1>4, SetToSeqRange
<1> HIDE DEF b
<1>7. /\ DOMAIN b = 1..Len(b) /\ Len(b) \in Nat /\ \A i \in 1..Len(b) : b[i] \in TypeWaits
      /\ DOMAIN w = 1..Len(w) /\ Len(w) \in Nat /\ \A i \in 1..Len(w) : w[i] \in Waits(n)
  BY <1>5, <1>6, LenProperties, ElementOfSeq
<1>8. b \in Seq(Waits(n))
  <2>1. \A i \in 1..Len(b) : b[i] \in Waits(n)
    BY <1>7 DEF Waits
  <2> HIDE DEF Waits
  <2> QED  BY <1>6, <1>7, <2>1, SeqDef
<1>9. a = w \o b
  BY DEF Asked, S, D, U, b
<1>10. a \in Seq(Waits(n)) /\ DOMAIN a = 1..(Len(w) + Len(b))
  <2> HIDE DEF Waits
  <2> QED  BY <1>8, <1>9, ConcatProperties, LenProperties
<1>11. /\ \A i \in 1..Len(w) : i \in DOMAIN a /\ a[i] = w[i]
       /\ \A i \in 1..Len(b) : Len(w) + i \in DOMAIN a /\ a[Len(w) + i] = b[i]
  <2>1. \A i \in 1..(Len(w) + Len(b)) : a[i] = IF i <= Len(w) THEN w[i] ELSE b[i - Len(w)]
    <3> HIDE DEF Waits
    <3> QED  BY <1>8, <1>9, ConcatProperties
  <2>2. \A i \in 1..Len(b) : Len(w) + i \in 1..(Len(w) + Len(b)) /\ ~(Len(w) + i <= Len(w))
                             /\ (Len(w) + i) - Len(w) = i
    BY <1>7
  <2>3. \A i \in 1..Len(w) : i \in 1..(Len(w) + Len(b)) /\ i <= Len(w)
    BY <1>7
  <2>4. \A i \in 1..Len(b) : Len(w) + i \in DOMAIN a /\ a[Len(w) + i] = b[i]
    <3> TAKE i \in 1..Len(b)
    <3> DEFINE k == Len(w) + i
    <3>1. k \in 1..(Len(w) + Len(b)) /\ ~(k <= Len(w)) /\ k - Len(w) = i
      BY <2>2
    <3> HIDE DEF k
    <3>2. k \in DOMAIN a /\ a[k] = b[i]
      BY <1>10, <2>1, <3>1
    <3> QED  BY <3>2 DEF k
  <2> QED  BY <1>10, <2>1, <2>3, <2>4
<1>12. \A i \in DOMAIN a : (i \in DOMAIN w /\ a[i] = w[i]) \/ a[i].for = "type"
  <2>1. \A i \in DOMAIN a : i \in 1..Len(w) \/ \E k \in 1..Len(b) : i = Len(w) + k
    <3> SUFFICES ASSUME NEW i \in 1..(Len(w) + Len(b)), i \notin 1..Len(w)
                 PROVE  i - Len(w) \in 1..Len(b) /\ i = Len(w) + (i - Len(w))
      BY <1>10
    <3> QED  BY <1>7
  <2>2. \A k \in 1..Len(b) : b[k].for = "type"
    BY <1>7 DEF TypeWaits
  <2> TAKE i \in DOMAIN a
  <2>3. CASE i \in 1..Len(w)
    BY <1>7, <1>11, <2>3
  <2>4. ASSUME NEW k \in 1..Len(b), i = Len(w) + k
        PROVE  a[i].for = "type"
    BY <1>11, <2>2, <2>4
  <2> QED  BY <2>1, <2>3, <2>4
<1>13. WaitsOK(d.tree, a)
  BY <1>12 DEF WaitsOK
<1>14. RootsFit(a, e)
  BY <1>12 DEF RootsFit
<1>15. ASSUME NEW t \in NodeTypes(d.tree), t \notin DOMAIN d.meta, c[<<e, t>>] = "none"
       PROVE  \E i \in DOMAIN a : a[i].key[2] = t
  <2>1. Describe(e, t) \in D
    BY <1>15 DEF D, U, Undescribed
  <2>2. CASE Describe(e, t) \in S
    <3>1. PICK i \in DOMAIN b : b[i] = Describe(e, t)
      BY <1>6, <2>2
    <3> QED  BY <1>7, <1>11, <3>1 DEF Describe
  <2>3. CASE Describe(e, t) \notin S
    <3>1. PICK i \in DOMAIN w : w[i] = Describe(e, t)
      BY <2>1, <2>3 DEF S
    <3> QED  BY <1>7, <1>11, <3>1 DEF Describe
  <2> QED  BY <2>2, <2>3
<1> QED  BY <1>10, <1>13, <1>14, <1>15 DEF TypesAsked

LEMMA CancelledOK ==
    ASSUME NEW n \in Nat, NEW w \in Seq(Waits(n)), NEW tree, WaitsOK(tree, w), NEW e
    PROVE  Cancelled(w) \in Seq(Waits(n)) /\ WaitsOK(tree, Cancelled(w)) /\ RootsFit(Cancelled(w), e)
<1> DEFINE a == Cancelled(w)
<1>1. DOMAIN w = 1..Len(w) /\ Len(w) \in Nat /\ \A i \in DOMAIN w : w[i] \in Waits(n)
  <2> HIDE DEF Waits
  <2> QED  BY LenProperties, ElementOfSeq
<1>2. /\ a = [i \in 1..Len(w) |-> a[i]] /\ DOMAIN a = DOMAIN w
      /\ \A i \in DOMAIN w :
            a[i] = IF w[i].for = "root" /\ ~w[i].retry THEN [w[i] EXCEPT !.live = FALSE] ELSE w[i]
  BY <1>1 DEF Cancelled
<1> HIDE DEF a
<1>3. \A i \in DOMAIN w : w[i].for = "root" =>
          /\ w[i].retry => a[i] = w[i]
          /\ ~w[i].retry => a[i] \in RootWaits /\ a[i].for = "root" /\ ~a[i].live
  <2> SUFFICES ASSUME NEW i \in DOMAIN w, w[i].for = "root"
               PROVE  /\ w[i].retry => a[i] = w[i]
                      /\ ~w[i].retry => a[i] \in RootWaits /\ a[i].for = "root" /\ ~a[i].live
    OBVIOUS
  <2>1. w[i] \in RootWaits
    BY <1>1, WaitKinds
  <2> QED  BY <1>2, <2>1 DEF RootWaits
<1>4. \A i \in DOMAIN w : w[i].for # "root" => a[i] = w[i]
  BY <1>2
<1>5. \A i \in DOMAIN w : w[i].for = "root" => w[i].retry \in BOOLEAN
  BY <1>1, WaitKinds DEF RootWaits
<1>6. \A i \in DOMAIN w : a[i] \in Waits(n)
  <2> TAKE i \in DOMAIN w
  <2>1. CASE w[i].for = "root"
    BY <1>1, <1>3, <1>5, <2>1 DEF Waits
  <2>2. CASE w[i].for # "root"
    BY <1>1, <1>4, <2>2
  <2> QED  BY <2>1, <2>2
<1>7. a \in Seq(Waits(n))
  <2> HIDE DEF Waits
  <2> QED  BY <1>1, <1>2, <1>6, SeqDef
<1>8. \A i \in DOMAIN a : a[i].for = "child" => w[i].for = "child" /\ a[i] = w[i]
  BY <1>2, <1>3, <1>4, <1>5
<1>9. WaitsOK(tree, a)
  BY <1>2, <1>8 DEF WaitsOK
<1>10. RootsFit(a, e)
  BY <1>2, <1>3, <1>4 DEF RootsFit
<1> QED  BY <1>7, <1>9, <1>10 DEF a

LEMMA StartRootOK ==
    ASSUME NEW d, NEW n \in Nat, DlgOK(d, n), NEW e \in Entities, NEW retry \in BOOLEAN,
           NEW w \in Seq(Waits(n)), WaitsOK(d.tree, w), RootsFit(w, e),
           NEW r, r = StartRoot(d, w, e, retry)
    PROVE  /\ Fit(r.dlg, r.waiting, n, e)
           /\ r.dlg.tree = d.tree
           /\ r.dlg.rootType \in {d.rootType, NoType, RootOf[e]}
<1>1. CASE e = ""
  <2> DEFINE u == [d EXCEPT !.rootType = NoType, !.rootError = TRUE]
  <2>1. r.dlg = u /\ r.waiting = w
    BY <1>1 DEF StartRoot
  <2>2. /\ DOMAIN u = DialogFields /\ u.tree = d.tree /\ u.text = d.text /\ u.error = d.error
        /\ u.open = d.open /\ u.rootType = NoType /\ u.meta = d.meta
    BY DEF DlgOK, DialogFields
  <2> HIDE DEF u
  <2>3. DlgOK(u, n)
    BY <2>2 DEF DlgOK
  <2> QED  BY <2>1, <2>2, <2>3 DEF Fit
<1>2. CASE e # ""
  <2> DEFINE u == [d EXCEPT !.rootError = FALSE]
  <2>1. /\ DOMAIN u = DialogFields /\ u.tree = d.tree /\ u.text = d.text /\ u.error = d.error
        /\ u.open = d.open /\ u.rootType = d.rootType /\ u.meta = d.meta
    BY DEF DlgOK, DialogFields
  <2> HIDE DEF u
  <2>2. DlgOK(u, n)
    BY <2>1 DEF DlgOK
  <2>3. CASE cache[<<e, TheRoot>>] = "described"
    <3>1. r.dlg = RootAnswered(u, e, TRUE) /\ r.waiting = w
      BY <1>2, <2>3 DEF StartRoot, u
    <3>2. /\ DlgOK(RootAnswered(u, e, TRUE), n)
          /\ RootAnswered(u, e, TRUE).tree = u.tree
          /\ RootAnswered(u, e, TRUE).rootType \in {NoType, RootOf[e]}
      BY <1>2, <2>2, RootAnsweredOK
    <3> QED  BY <2>1, <3>1, <3>2 DEF Fit
  <2>4. CASE cache[<<e, TheRoot>>] # "described"
    <3> DEFINE x == LoadRootOf(e, retry)
               a == Append(w, x)
    <3>1. r.dlg = u /\ r.waiting = a
      BY <1>2, <2>4 DEF StartRoot, u
    <3>2. x \in Waits(n) /\ x.for = "root" /\ x.key[1] = e
      BY <1>2 DEF LoadRootOf, Waits, RootWaits
    <3> HIDE DEF x
    <3>3. /\ a \in Seq(Waits(n)) /\ Len(a) = Len(w) + 1 /\ a[Len(w) + 1] = x
          /\ \A i \in 1..Len(w) : a[i] = w[i]
      <4> HIDE DEF Waits
      <4> QED  BY <3>2, AppendProperties
    <3> HIDE DEF a
    <3>4. DOMAIN a = 1..(Len(w) + 1) /\ DOMAIN w = 1..Len(w) /\ Len(w) \in Nat
      BY <3>3, LenProperties
    <3>5. \A i \in DOMAIN a : (i \in DOMAIN w /\ a[i] = w[i]) \/ a[i] = x
      BY <3>3, <3>4
    <3>6. WaitsOK(d.tree, a)
      BY <3>2, <3>5 DEF WaitsOK
    <3>7. RootsFit(a, e)
      BY <3>2, <3>5 DEF RootsFit
    <3> QED  BY <2>1, <2>2, <3>1, <3>3, <3>6, <3>7 DEF Fit
  <2> QED  BY <2>3, <2>4
<1> QED  BY <1>1, <1>2

-----------------------------------------------------------------------------
(***************************************************************************)
(* The invariant of the slide-out.                                         *)
(***************************************************************************)
CacheFits ==
    /\ cache \in [Keys -> {"none", "described", "refused"}]
    /\ \A k \in Keys : cache[k] = "described" => k[2] \notin Refused

AnswerFits ==
    \/ answer = NoAnswer
    \/ answer.key \in Keys /\ answer.ok \in BOOLEAN /\ (answer.ok => answer.key[2] \notin Refused)

\* A closed dialog waits for nothing.
DialogFits ==
    \/ dlg = Closed /\ waiting = <<>>
    \/ Fit(dlg, waiting, acts, entity)

DialogInv ==
    /\ acts \in Nat
    /\ entity \in Entities
    /\ CacheFits
    /\ flight \subseteq Keys
    /\ AnswerFits
    /\ DialogFits
    /\ TextOK(stored)
    /\ \A s \in sent : IsSource(s.wires)
    /\ EveryTypeIsAskedFor

\* What no step does to an open dialog: the three action properties.
DialogStep ==
    SameDialog =>
        /\ Foreign(dlg.tree, dlg'.tree)
        /\ acts' = acts => Steady(dlg.tree, dlg'.tree)
        /\ dlg'.rootType \notin {dlg.rootType, NoType, RootOf[entity']} =>
              \E i \in DOMAIN waiting : waiting[i].for = "root" /\ waiting[i].retry

LEMMA OpenFits ==
    ASSUME DialogFits
    PROVE  /\ dlg.open => Fit(dlg, waiting, acts, entity)
           /\ dlg.open \in BOOLEAN
           /\ ~dlg.open => dlg = Closed /\ waiting = <<>>
<1>1. CASE dlg = Closed /\ waiting = <<>>
  <2>1. dlg.open = FALSE
    BY <1>1 DEF Closed
  <2> QED  BY <1>1, <2>1
<1>2. CASE Fit(dlg, waiting, acts, entity)
  <2>1. dlg.open = TRUE
    BY <1>2 DEF Fit, DlgOK
  <2> QED  BY <1>2, <2>1
<1> QED  BY <1>1, <1>2 DEF DialogFits

LEMMA LaterFit ==
    ASSUME NEW n \in Nat, NEW m \in Nat, n <= m, NEW d, NEW w, NEW e, Fit(d, w, n, e)
    PROVE  Fit(d, w, m, e)
<1>1. w \in Seq(Waits(m))
  BY LaterWaits DEF Fit
<1>2. TreeOK(d.tree, m)
  <2> DEFINE t == d.tree
  <2>1. TreeOK(t, n)
    BY DEF Fit, DlgOK
  <2> HIDE DEF t
  <2>2. TreeOK(t, m)
    BY <2>1, LaterTree
  <2> QED  BY <2>2 DEF t
<1>3. DlgOK(d, m)
  BY <1>2 DEF Fit, DlgOK
<1> QED  BY <1>1, <1>3 DEF Fit

\* The state after the effects of a render.
LEMMA RenderFits ==
    ASSUME NEW d, NEW w, NEW f, Fit(d, w, acts', entity'), acts' \in Nat, entity' \in Entities,
           f \subseteq Keys, Render(d, w, f)
    PROVE  dlg' = d /\ DialogFits' /\ flight' \subseteq Keys /\ EveryTypeIsAskedFor'
<1> DEFINE a == Asked(d, w, entity', cache')
<1>1. dlg' = d /\ waiting' = a /\ flight' = f \cup {a[i].key : i \in DOMAIN a}
  BY DEF Render, Asked
<1>2. DlgOK(d, acts') /\ TreeOK(d.tree, acts') /\ w \in Seq(Waits(acts'))
      /\ WaitsOK(d.tree, w) /\ RootsFit(w, entity')
  BY DEF Fit, DlgOK
<1>3. /\ a \in Seq(Waits(acts')) /\ WaitsOK(d.tree, a) /\ RootsFit(a, entity')
      /\ TypesAsked(d, a, entity', cache')
  <2> DEFINE n == acts'
             e == entity'
             c == cache'
  <2>1. /\ n \in Nat /\ e \in Entities /\ TreeOK(d.tree, n) /\ w \in Seq(Waits(n))
        /\ WaitsOK(d.tree, w) /\ RootsFit(w, e) /\ a = Asked(d, w, e, c)
    BY <1>2
  <2> HIDE DEF n, e, c, a
  <2>2. a \in Seq(Waits(n)) /\ WaitsOK(d.tree, a) /\ RootsFit(a, e) /\ TypesAsked(d, a, e, c)
    BY <2>1, AskedOK
  <2> QED  BY <2>2 DEF n, e, c
<1> HIDE DEF a
<1>4. \A i \in DOMAIN a : a[i].key \in Keys
  <2>1. \A i \in DOMAIN a : a[i] \in Waits(acts')
    <3> HIDE DEF Waits
    <3> QED  BY <1>3, LenProperties, ElementOfSeq
  <2> QED  BY <2>1, WaitKinds
<1>5. DialogFits'
  BY <1>1, <1>2, <1>3 DEF DialogFits, Fit
<1>6. EveryTypeIsAskedFor'
  BY <1>1, <1>3 DEF EveryTypeIsAskedFor, TypesAsked
<1> QED  BY <1>1, <1>4, <1>5, <1>6

LEMMA StillAsked ==
    ASSUME DialogInv, UNCHANGED <<dlg, waiting, entity>>,
           \A k \in Keys : cache[k] # "none" => cache'[k] # "none"
    PROVE  EveryTypeIsAskedFor'
<1> SUFFICES ASSUME dlg.open, NEW t \in NodeTypes(dlg.tree)
             PROVE  \/ t \in DOMAIN dlg.meta \/ cache'[<<entity, t>>] # "none"
                    \/ \E i \in DOMAIN waiting : waiting[i].key[2] = t
  BY DEF EveryTypeIsAskedFor
<1>1. Fit(dlg, waiting, acts, entity)
  BY OpenFits DEF DialogInv
<1>2. TreeOK(dlg.tree, acts)
  BY <1>1 DEF Fit, DlgOK
<1>3. t \in Types
  <2> DEFINE tree == dlg.tree
  <2> HIDE DEF tree
  <2>1. NodeTypes(tree) \subseteq Types
    BY <1>2, TypesOfTree DEF tree
  <2> QED  BY <2>1 DEF tree
<1>4. <<entity, t>> \in Keys
  BY <1>3 DEF Keys, DialogInv
<1> QED  BY <1>4 DEF DialogInv, EveryTypeIsAskedFor

LEMMA SameStep ==
    ASSUME DialogFits, dlg' = dlg
    PROVE  DialogStep
<1> SUFFICES ASSUME dlg.open
             PROVE  Foreign(dlg.tree, dlg.tree) /\ Steady(dlg.tree, dlg.tree)
  BY DEF DialogStep, SameDialog
<1>1. TreeOK(dlg.tree, acts)
  BY OpenFits DEF Fit, DlgOK
<1> QED  BY <1>1, ForeignSame

-----------------------------------------------------------------------------
(***************************************************************************)
(* The steps: each keeps the invariant and is a DialogStep.                *)
(***************************************************************************)
\* One callback of an answer.  The dialog may have closed, and then nothing waits.
LEMMA NextCallbackFits ==
    ASSUME DialogInv, UNCHANGED <<entity, acts>>,
           \A k \in Keys : cache[k] # "none" => cache'[k] # "none",
           NEW key \in Keys, NEW ok \in BOOLEAN, ok => key[2] \notin Refused,
           NEW f, f \subseteq Keys, NextCallback(key, ok, f)
    PROVE  DialogFits' /\ flight' \subseteq Keys /\ AnswerFits' /\ EveryTypeIsAskedFor' /\ DialogStep
<1>1. CASE ~Awaited(waiting, key) /\ answer' = NoAnswer /\ flight' = f /\ UNCHANGED <<dlg, waiting>>
  <2>1. DialogFits'
    BY <1>1 DEF DialogInv, DialogFits
  <2>2. EveryTypeIsAskedFor'
    BY <1>1, StillAsked
  <2>3. DialogStep
    BY <1>1, SameStep DEF DialogInv
  <2> QED  BY <1>1, <2>1, <2>2, <2>3 DEF AnswerFits
<1>2. ASSUME NEW i \in DOMAIN waiting, waiting[i].key = key,
             LET told == Settle(dlg, waiting[i], ok)
                 rest == RemoveAt(waiting, i)
             IN  IF Awaited(rest, key)
                 THEN dlg' = told /\ waiting' = rest /\ flight' = f /\ answer' = [key |-> key, ok |-> ok]
                 ELSE Render(told, rest, f) /\ answer' = NoAnswer
      PROVE  DialogFits' /\ flight' \subseteq Keys /\ AnswerFits' /\ EveryTypeIsAskedFor' /\ DialogStep
  <2> DEFINE told == Settle(dlg, waiting[i], ok)
             rest == RemoveAt(waiting, i)
  <2>1. Fit(dlg, waiting, acts, entity) /\ dlg.open
    <3>1. waiting # <<>>
      BY <1>2
    <3> QED  BY <3>1, OpenFits DEF DialogInv
  <2>2. /\ acts \in Nat /\ DlgOK(dlg, acts) /\ waiting \in Seq(Waits(acts)) /\ WaitsOK(dlg.tree, waiting)
        /\ RootsFit(waiting, entity) /\ i \in 1..Len(waiting)
    <3>1. acts \in Nat /\ DlgOK(dlg, acts) /\ waiting \in Seq(Waits(acts)) /\ WaitsOK(dlg.tree, waiting)
          /\ RootsFit(waiting, entity)
      BY <2>1 DEF Fit, DialogInv
    <3> HIDE DEF Waits
    <3> QED  BY <3>1, LenProperties
  <2>3. /\ DlgOK(told, acts)
        /\ Steady(dlg.tree, told.tree) /\ Foreign(dlg.tree, told.tree)
        /\ WaitsOK(told.tree, rest)
        /\ DOMAIN dlg.meta \subseteq DOMAIN told.meta
        /\ NodeTypes(told.tree) \subseteq NodeTypes(dlg.tree) \cup {key[2]}
        /\ key[2] # TheRoot => key[2] \in DOMAIN told.meta
        /\ told.rootType \notin {dlg.rootType, NoType} =>
              waiting[i].for = "root" /\ waiting[i].live /\ told.rootType = RootOf[key[1]]
    <3> DEFINE d == dlg
               w == waiting
               n == acts
    <3>1. /\ n \in Nat /\ DlgOK(d, n) /\ w \in Seq(Waits(n)) /\ WaitsOK(d.tree, w) /\ i \in 1..Len(w)
          /\ (ok => w[i].key[2] \notin Refused) /\ told = Settle(d, w[i], ok)
      BY <1>2, <2>2
    <3> HIDE DEF d, w, n, told
    <3>2. Settled(d, told, w, i, n)
      BY <3>1, SettleOK
    <3> QED  BY <1>2, <3>2 DEF d, w, n, Settled
  <2>4. IF Awaited(rest, key)
        THEN dlg' = told /\ waiting' = rest /\ flight' = f /\ answer' = [key |-> key, ok |-> ok]
        ELSE Render(told, rest, f) /\ answer' = NoAnswer
    BY <1>2
  <2> HIDE DEF told
  <2>5. /\ rest \in Seq(Waits(acts)) /\ Len(rest) = Len(waiting) - 1
        /\ \A k \in 1..(Len(waiting) - 1) : Was(k, i) \in DOMAIN waiting /\ rest[k] = waiting[Was(k, i)]
    <3> HIDE DEF Waits
    <3> QED  BY <2>2, RemoveAtOK
  <2>6. RootsFit(rest, entity)
    <3>1. DOMAIN rest = 1..(Len(waiting) - 1)
      BY <2>5, LenProperties
    <3> HIDE DEF rest
    <3> QED  BY <2>2, <2>5, <3>1 DEF RootsFit
  <2>7. Fit(told, rest, acts, entity)
    BY <2>3, <2>5, <2>6 DEF Fit
  <2>8. dlg' = told => DialogStep
    <3>1. told.rootType \notin {dlg.rootType, NoType, RootOf[entity]} =>
              waiting[i].for = "root" /\ waiting[i].retry
      BY <1>2, <2>2, <2>3 DEF RootsFit
    <3> QED  BY <2>3, <3>1 DEF DialogStep, SameDialog
  <2>9. CASE Awaited(rest, key)
    <3>1. dlg' = told /\ waiting' = rest /\ flight' = f /\ answer' = [key |-> key, ok |-> ok]
      BY <2>4, <2>9
    <3>2. DialogFits'
      BY <2>7, <3>1 DEF DialogFits
    <3>3. AnswerFits'
      BY <3>1 DEF AnswerFits
    <3>4. EveryTypeIsAskedFor'
      <4> SUFFICES ASSUME NEW t \in NodeTypes(told.tree)
                   PROVE  \/ t \in DOMAIN told.meta \/ cache'[<<entity, t>>] # "none"
                          \/ \E k \in DOMAIN rest : rest[k].key[2] = t
        BY <3>1 DEF EveryTypeIsAskedFor
      <4>1. t # TheRoot
        BY DEF NodeTypes, TheRoot
      <4>2. CASE t = key[2]
        BY <2>3, <4>1, <4>2
      <4>3. CASE t \in NodeTypes(dlg.tree) /\ t # key[2]
        <5>1. \/ t \in DOMAIN dlg.meta \/ cache[<<entity, t>>] # "none"
              \/ \E j \in DOMAIN waiting : waiting[j].key[2] = t
          BY <2>1, <4>3 DEF DialogInv, EveryTypeIsAskedFor
        <5>2. <<entity, t>> \in Keys
          <6> DEFINE tree == dlg.tree
          <6>1. TreeOK(tree, acts)
            BY <2>2 DEF DlgOK
          <6> HIDE DEF tree
          <6>2. NodeTypes(tree) \subseteq Types
            BY <6>1, TypesOfTree
          <6> QED  BY <4>3, <6>2 DEF tree, Keys, DialogInv
        <5>3. ASSUME NEW j \in DOMAIN waiting, waiting[j].key[2] = t
              PROVE  \E k \in DOMAIN rest : rest[k].key[2] = t
          <6>1. j # i /\ j \in 1..Len(waiting)
            <7> HIDE DEF Waits
            <7> QED  BY <1>2, <2>2, <4>3, <5>3, LenProperties
          <6>2. \E k \in DOMAIN rest : rest[k] = waiting[j]
            <7> HIDE DEF Waits
            <7> QED  BY <2>2, <6>1, RemoveAtKeeps
          <6> QED  BY <5>3, <6>2
        <5> QED  BY <2>3, <5>1, <5>2, <5>3
      <4> QED  BY <2>3, <4>2, <4>3
    <3> QED  BY <2>8, <3>1, <3>2, <3>3, <3>4
  <2>10. CASE ~Awaited(rest, key)
    <3>1. Render(told, rest, f) /\ answer' = NoAnswer
      BY <2>4, <2>10
    <3>2. Fit(told, rest, acts', entity') /\ acts' \in Nat /\ entity' \in Entities
      BY <2>7 DEF DialogInv
    <3> HIDE DEF rest
    <3>3. dlg' = told /\ DialogFits' /\ flight' \subseteq Keys /\ EveryTypeIsAskedFor'
      BY <3>1, <3>2, RenderFits
    <3> QED  BY <2>8, <3>1, <3>3 DEF AnswerFits
  <2> QED  BY <2>9, <2>10
<1> QED  BY <1>1, <1>2 DEF NextCallback

LEMMA MetaAnswersStep ==
    ASSUME DialogInv, MetaAnswers
    PROVE  DialogInv' /\ DialogStep
<1>1. PICK key \in flight :
        \E outcome \in {"failed", IF key[1] = "" \/ key[2] \in Refused THEN "refused" ELSE "described"} :
            /\ cache' = Cached(cache, key, outcome)
            /\ NextCallback(key, outcome = "described", flight \ {key})
  BY DEF MetaAnswers
<1>2. PICK outcome \in {"failed", IF key[1] = "" \/ key[2] \in Refused THEN "refused" ELSE "described"} :
            /\ cache' = Cached(cache, key, outcome)
            /\ NextCallback(key, outcome = "described", flight \ {key})
  BY <1>1
<1>3. key \in Keys /\ flight \ {key} \subseteq Keys
  BY DEF DialogInv
<1>4. /\ outcome \in {"failed", "refused", "described"}
      /\ outcome = "described" => key[2] \notin Refused
  BY <1>2
<1>5. CacheFits' /\ \A k \in Keys : cache[k] # "none" => cache'[k] # "none"
  BY <1>2, <1>3, <1>4 DEF CacheFits, Cached, DialogInv
<1>6. UNCHANGED <<entity, stored, sent, acts>>
  BY DEF MetaAnswers
<1> DEFINE ok == outcome = "described"
           f  == flight \ {key}
<1>7. ok \in BOOLEAN /\ (ok => key[2] \notin Refused) /\ f \subseteq Keys /\ NextCallback(key, ok, f)
  BY <1>2, <1>3, <1>4
<1> HIDE DEF ok, f
<1>8. DialogFits' /\ flight' \subseteq Keys /\ AnswerFits' /\ EveryTypeIsAskedFor' /\ DialogStep
  BY <1>3, <1>5, <1>6, <1>7, NextCallbackFits
<1> QED  BY <1>5, <1>6, <1>8 DEF DialogInv

LEMMA CallbackStep ==
    ASSUME DialogInv, Callback
    PROVE  DialogInv' /\ DialogStep
<1>1. answer.key \in Keys /\ answer.ok \in BOOLEAN /\ (answer.ok => answer.key[2] \notin Refused)
  BY DEF Callback, DialogInv, AnswerFits
<1>2. UNCHANGED <<entity, cache, stored, sent, acts>> /\ NextCallback(answer.key, answer.ok, flight)
  BY DEF Callback
<1> DEFINE key == answer.key
           ok == answer.ok
<1>3. key \in Keys /\ ok \in BOOLEAN /\ (ok => key[2] \notin Refused) /\ NextCallback(key, ok, flight)
  BY <1>1, <1>2
<1> HIDE DEF key, ok
<1>4. flight \subseteq Keys /\ \A k \in Keys : cache[k] # "none" => cache'[k] # "none"
  BY <1>2 DEF DialogInv
<1>5. DialogFits' /\ flight' \subseteq Keys /\ AnswerFits' /\ EveryTypeIsAskedFor' /\ DialogStep
  BY <1>2, <1>3, <1>4, NextCallbackFits
<1> QED  BY <1>2, <1>5 DEF DialogInv, CacheFits

\* What an act of the operator leaves behind is rendered.
LEMMA ActRenders ==
    ASSUME DialogInv, Act, entity' \in Entities, UNCHANGED <<cache, stored, sent>>,
           NEW d, NEW w, Fit(d, w, acts + 1, entity'), Render(d, w, flight),
           dlg.open => /\ Foreign(dlg.tree, d.tree)
                       /\ d.rootType \in {dlg.rootType, NoType, RootOf[entity']}
    PROVE  DialogInv' /\ DialogStep
<1>1. acts' = acts + 1 /\ acts \in Nat /\ answer' = answer
  BY DEF Act, DialogInv
<1>2. Fit(d, w, acts', entity') /\ acts' \in Nat /\ acts' # acts /\ flight \subseteq Keys
  BY <1>1 DEF DialogInv
<1>3. dlg' = d /\ DialogFits' /\ flight' \subseteq Keys /\ EveryTypeIsAskedFor'
  BY <1>2, RenderFits
<1>4. CacheFits' /\ AnswerFits' /\ TextOK(stored') /\ \A s \in sent' : IsSource(s.wires)
  BY <1>1 DEF DialogInv, CacheFits, AnswerFits
<1>5. DialogStep
  BY <1>2, <1>3 DEF DialogStep, SameDialog
<1> QED  BY <1>2, <1>3, <1>4, <1>5 DEF DialogInv

LEMMA OpenedOK ==
    ASSUME NEW text, TextOK(text), NEW n \in Nat \ {0}
    PROVE  DlgOK(Opened(text, n), n)
<1> DEFINE d == Opened(text, n)
           none == [t \in {} |-> TRUE]
<1>1. /\ DOMAIN d = DialogFields /\ d.open = TRUE /\ d.tree = Parse(text.wires, n) /\ d.text = text
      /\ d.error = ~text.ok /\ d.rootType = NoType /\ d.meta = none
  BY DEF Opened, DialogFields
<1>2. DOMAIN none = {}
  OBVIOUS
<1> HIDE DEF d, none
<1>3. /\ TreeOK(Parse(text.wires, n), n)
      /\ Serialize(Parse(text.wires, n)) = text.wires
  <2> DEFINE w == text.wires
  <2>1. IsSource(w)
    BY DEF TextOK
  <2> HIDE DEF w
  <2>2. TreeOK(Parse(w, n), n) /\ Serialize(Parse(w, n)) = w
    BY <2>1, ParseOK
  <2> QED  BY <2>2 DEF w
<1>4. text.ok \in BOOLEAN
  BY DEF TextOK
<1>5. DlgOK(d, n)
  BY <1>1, <1>2, <1>3, <1>4 DEF DlgOK
<1> QED  BY <1>5 DEF d

LEMMA NothingWaits ==
    ASSUME NEW n, NEW tree, NEW e
    PROVE  <<>> \in Seq(Waits(n)) /\ WaitsOK(tree, <<>>) /\ RootsFit(<<>>, e)
<1>1. <<>> \in Seq(Waits(n)) /\ DOMAIN <<>> = {}
  <2> HIDE DEF Waits
  <2> QED  BY EmptySeq
<1> QED  BY <1>1 DEF WaitsOK, RootsFit

LEMMA OpenStep ==
    ASSUME DialogInv, Open
    PROVE  DialogInv' /\ DialogStep
<1> DEFINE n == acts + 1
           d == Opened(stored, n)
           r == StartRoot(d, <<>>, entity, FALSE)
<1>1. Act /\ ~dlg.open /\ UNCHANGED <<entity, cache, stored, sent>> /\ Render(r.dlg, r.waiting, flight)
  BY DEF Open, Serial
<1>2. n \in Nat \ {0} /\ entity \in Entities /\ TextOK(stored)
  BY DEF DialogInv
<1> HIDE DEF n
<1>3. DlgOK(d, n)
  BY <1>2, OpenedOK
<1> HIDE DEF d
<1>4. Fit(r.dlg, r.waiting, n, entity)
  BY <1>2, <1>3, NothingWaits, StartRootOK
<1> HIDE DEF r
<1>5. Fit(r.dlg, r.waiting, acts + 1, entity') /\ entity' \in Entities
  BY <1>1, <1>2, <1>4 DEF n
<1> QED  BY <1>1, <1>5, ActRenders

LEMMA CloseStep ==
    ASSUME DialogInv, Close
    PROVE  DialogInv' /\ DialogStep
<1>1. dlg' = Closed /\ waiting' = <<>> /\ acts' \in Nat /\ dlg'.open = FALSE
      /\ UNCHANGED <<entity, cache, flight, stored, sent, answer>>
  BY DEF Close, Act, Closed, DialogInv
<1>2. CacheFits' /\ AnswerFits' /\ TextOK(stored')
  BY <1>1 DEF DialogInv, CacheFits, AnswerFits
<1>3. DialogFits'
  BY <1>1 DEF DialogFits
<1> QED  BY <1>1, <1>2, <1>3 DEF DialogInv, EveryTypeIsAskedFor, DialogStep, SameDialog

LEMMA FitNow ==
    ASSUME DialogInv, dlg.open
    PROVE  /\ acts \in Nat /\ acts + 1 \in Nat /\ entity \in Entities
           /\ Fit(dlg, waiting, acts, entity) /\ Fit(dlg, waiting, acts + 1, entity)
           /\ TreeOK(dlg.tree, acts)
<1>1. Fit(dlg, waiting, acts, entity) /\ acts \in Nat /\ acts + 1 \in Nat /\ acts <= acts + 1
  BY OpenFits DEF DialogInv
<1>2. Fit(dlg, waiting, acts + 1, entity)
  BY <1>1, LaterFit
<1> QED  BY <1>1, <1>2 DEF DialogInv, Fit, DlgOK

LEMMA RetryStep ==
    ASSUME DialogInv, Retry
    PROVE  DialogInv' /\ DialogStep
<1> DEFINE n == acts + 1
           r == StartRoot(dlg, waiting, entity, TRUE)
<1>1. Act /\ dlg.open /\ UNCHANGED <<entity, cache, stored, sent>> /\ Render(r.dlg, r.waiting, flight)
  BY DEF Retry
<1>2. n \in Nat /\ entity \in Entities /\ Fit(dlg, waiting, n, entity) /\ TreeOK(dlg.tree, acts)
  BY <1>1, FitNow
<1> HIDE DEF n
<1>3. DlgOK(dlg, n) /\ waiting \in Seq(Waits(n)) /\ WaitsOK(dlg.tree, waiting) /\ RootsFit(waiting, entity)
  BY <1>2 DEF Fit
<1>4. /\ Fit(r.dlg, r.waiting, n, entity)
      /\ r.dlg.tree = dlg.tree
      /\ r.dlg.rootType \in {dlg.rootType, NoType, RootOf[entity]}
  BY <1>2, <1>3, StartRootOK
<1> HIDE DEF r
<1>5. Fit(r.dlg, r.waiting, acts + 1, entity') /\ entity' \in Entities
  BY <1>1, <1>2, <1>4 DEF n
<1>6. Foreign(dlg.tree, r.dlg.tree) /\ r.dlg.rootType \in {dlg.rootType, NoType, RootOf[entity']}
  BY <1>1, <1>2, <1>4, ForeignSame
<1> QED  BY <1>1, <1>5, <1>6, ActRenders

LEMMA ChangeEntityStep ==
    ASSUME DialogInv, ChangeEntity
    PROVE  DialogInv' /\ DialogStep
<1>1. CASE dlg.open
  <2> DEFINE n == acts + 1
             e == entity'
             w == Cancelled(waiting)
             r == StartRoot(dlg, w, e, FALSE)
  <2>1. Act /\ e \in Entities /\ UNCHANGED <<cache, stored, sent>> /\ Render(r.dlg, r.waiting, flight)
    BY <1>1 DEF ChangeEntity
  <2>2. n \in Nat /\ Fit(dlg, waiting, n, entity) /\ TreeOK(dlg.tree, acts)
    BY <1>1, FitNow
  <2> HIDE DEF n, e
  <2>3. DlgOK(dlg, n) /\ waiting \in Seq(Waits(n)) /\ WaitsOK(dlg.tree, waiting)
    BY <2>2 DEF Fit
  <2>4. w \in Seq(Waits(n)) /\ WaitsOK(dlg.tree, w) /\ RootsFit(w, e)
    BY <2>2, <2>3, CancelledOK
  <2> HIDE DEF w
  <2>5. /\ Fit(r.dlg, r.waiting, n, e)
        /\ r.dlg.tree = dlg.tree
        /\ r.dlg.rootType \in {dlg.rootType, NoType, RootOf[e]}
    BY <2>1, <2>2, <2>3, <2>4, StartRootOK
  <2> HIDE DEF r
  <2>6. Fit(r.dlg, r.waiting, acts + 1, entity') /\ entity' \in Entities
    BY <2>1, <2>5 DEF n, e
  <2>7. Foreign(dlg.tree, r.dlg.tree) /\ r.dlg.rootType \in {dlg.rootType, NoType, RootOf[entity']}
    BY <2>2, <2>5, ForeignSame DEF e
  <2> QED  BY <2>1, <2>6, <2>7, ActRenders
<1>2. CASE ~dlg.open
  <2>1. dlg = Closed /\ waiting = <<>>
    BY <1>2, OpenFits DEF DialogInv
  <2>2. UNCHANGED <<cache, stored, sent, dlg, waiting, flight, answer>> /\ entity' \in Entities /\ acts' \in Nat
    BY <1>2 DEF ChangeEntity, Act, DialogInv
  <2>3. CacheFits' /\ AnswerFits' /\ TextOK(stored') /\ DialogFits' /\ dlg'.open = FALSE
    BY <2>1, <2>2 DEF DialogInv, CacheFits, AnswerFits, DialogFits, Closed
  <2> QED  BY <2>2, <2>3 DEF DialogInv, EveryTypeIsAskedFor, DialogStep, SameDialog
<1> QED  BY <1>1, <1>2

\* A change by the builder: any edit of the tree will do.
LEMMA BuildStep ==
    ASSUME DialogInv, dlg.open, NEW tree, Edited(dlg.tree, tree, acts), Build(tree)
    PROVE  DialogInv' /\ DialogStep
<1> DEFINE n == acts + 1
           d == WithTree(dlg, tree)
<1>1. Act /\ UNCHANGED <<entity, cache, stored, sent>> /\ Render(d, waiting, flight)
  BY DEF Build
<1>2. n \in Nat /\ acts \in Nat /\ entity \in Entities /\ Fit(dlg, waiting, acts, entity)
  BY FitNow
<1>3. /\ DlgOK(dlg, acts) /\ waiting \in Seq(Waits(acts)) /\ WaitsOK(dlg.tree, waiting)
      /\ RootsFit(waiting, entity)
  BY <1>2 DEF Fit
<1>4. TreeOK(tree, n) /\ Foreign(dlg.tree, tree) /\ WayKept(dlg.tree, tree) /\ IdsFrom(dlg.tree, tree, acts)
  BY DEF Edited
<1>5. DlgOK(d, n) /\ d.tree = tree /\ d.rootType = dlg.rootType
  <2> HIDE DEF n
  <2> QED  BY <1>2, <1>3, <1>4, WithTreeOK
<1>6. WaitsOK(tree, waiting)
  <2> DEFINE t == dlg.tree
  <2> HIDE DEF t
  <2> QED  BY <1>2, <1>3, <1>4, EditedWaits DEF t
<1>7. waiting \in Seq(Waits(n))
  <2>1. acts <= n
    BY <1>2
  <2> HIDE DEF n
  <2> QED  BY <1>2, <1>3, <2>1, LaterWaits
<1> HIDE DEF d
<1>8. Fit(d, waiting, acts + 1, entity') /\ entity' \in Entities
  BY <1>1, <1>2, <1>3, <1>5, <1>6, <1>7 DEF Fit
<1> QED  BY <1>1, <1>4, <1>5, <1>8, ActRenders

\* Nothing refused is known to an open dialog.
LEMMA KnownDescribed ==
    ASSUME DialogInv, dlg.open
    PROVE  Known \cap Refused = {}
<1> SUFFICES ASSUME NEW t \in Types, IF t \in DOMAIN dlg.meta THEN dlg.meta[t] ELSE cache[<<entity, t>>] = "described"
             PROVE  t \notin Refused
  BY DEF Known, KnownTo
<1>1. CASE t \in DOMAIN dlg.meta
  BY <1>1, FitNow DEF Fit, DlgOK
<1>2. CASE t \notin DOMAIN dlg.meta
  <2>1. <<entity, t>> \in Keys
    BY FitNow DEF Keys
  <2> QED  BY <1>2, <2>1 DEF DialogInv, CacheFits
<1> QED  BY <1>1, <1>2

LEMMA StartTreeStep ==
    ASSUME DialogInv, StartTree
    PROVE  DialogInv' /\ DialogStep
<1> DEFINE n == acts + 1
           type == dlg.rootType
           tree == EmptyTree(type, n)
<1>1. dlg.open /\ Build(tree)
  BY DEF StartTree, Serial
<1>2. acts \in Nat /\ n \in Nat \ {0} /\ TreeOK(dlg.tree, acts) /\ type \in Types
  BY <1>1, FitNow DEF StartTree, Fit, DlgOK
<1> HIDE DEF type
<1>3. TreeOK(tree, n) /\ \A p \in DOMAIN tree : tree[p].id[1] = n
  <2> HIDE DEF n
  <2> QED  BY <1>2, EmptyTreeOK
<1> HIDE DEF tree
<1>4. Edited(dlg.tree, tree, acts)
  BY <1>2, <1>3, EditedFresh
<1> QED  BY <1>1, <1>4, BuildStep

LEMMA ClearTreeStep ==
    ASSUME DialogInv, ClearTree
    PROVE  DialogInv' /\ DialogStep
<1>1. dlg.open /\ Build(<<>>)
  BY DEF ClearTree
<1>2. acts \in Nat /\ TreeOK(dlg.tree, acts) /\ TreeOK(<<>>, acts + 1)
  BY <1>1, FitNow, NoTree
<1>3. Edited(dlg.tree, <<>>, acts)
  BY <1>2, EditedFresh
<1> QED  BY <1>1, <1>3, BuildStep

LEMMA EditNodeStep ==
    ASSUME DialogInv, EditNode
    PROVE  DialogInv' /\ DialogStep
<1>1. dlg.open
  BY DEF EditNode
<1>2. PICK p \in Rows(dlg.tree, Known) :
          \/ \E edit \in PropEdits(dlg.tree[p], Known) :
                Build(SetNodeProp(dlg.tree, dlg.tree[p].id, edit[1], edit[2]))
          \/ \E attribute \in AttributeEdits(dlg.tree[p], Known) :
                Build(UpdateNode(dlg.tree, dlg.tree[p].id, ApplyAttributeChange(dlg.tree[p], attribute)))
  BY DEF EditNode
<1> DEFINE t == dlg.tree
           known == Known
<1>3. acts \in Nat /\ TreeOK(t, acts) /\ known \cap Refused = {} /\ p \in Rows(t, known)
  BY <1>1, FitNow, KnownDescribed
<1>4. \/ \E edit \in PropEdits(t[p], known) : Build(SetNodeProp(t, t[p].id, edit[1], edit[2]))
      \/ \E attribute \in AttributeEdits(t[p], known) :
            Build(UpdateNode(t, t[p].id, ApplyAttributeChange(t[p], attribute)))
  BY <1>2
<1> HIDE DEF t, known
<1>5. t[p].type \in known
  BY <1>4 DEF PropEdits, AttributeEdits, Kind
<1>6. p \in DOMAIN t /\ Reachable(t, p) /\ DOMAIN t[p] = NodeFields
  BY <1>3, <1>5, RowAbove, RowKnown DEF TreeOK, NodeOK
<1> DEFINE v == t[p]
<1>7. ASSUME NEW key, NEW value
      PROVE  Edited(t, SetNodeProp(t, v.id, key, value), acts)
  <2> DEFINE node == SetProp(v, key, value)
  <2>1. /\ DOMAIN node = NodeFields /\ node.id = t[p].id /\ node.type = t[p].type
        /\ node.width = t[p].width /\ DOMAIN t[p].props \subseteq DOMAIN node.props
    <3> DOMAIN v = NodeFields
      BY <1>6
    <3> HIDE DEF v
    <3> QED  BY SetPropOK DEF v
  <2>2. SetNodeProp(t, v.id, key, value) = UpdateNode(t, t[p].id, node)
    BY <1>3, <1>6, FindOK DEF SetNodeProp
  <2> HIDE DEF node
  <2> QED  BY <1>3, <1>6, <2>1, <2>2, EditedUpdate
<1>8. ASSUME NEW attribute
      PROVE  Edited(t, UpdateNode(t, v.id, ApplyAttributeChange(v, attribute)), acts)
  <2> DEFINE node == ApplyAttributeChange(v, attribute)
  <2>1. /\ DOMAIN node = NodeFields /\ node.id = t[p].id /\ node.type = t[p].type
        /\ node.width = t[p].width /\ DOMAIN t[p].props \subseteq DOMAIN node.props
    <3> DOMAIN v = NodeFields
      BY <1>6
    <3> HIDE DEF v
    <3> QED  BY ApplyAttributeChangeOK DEF v
  <2> HIDE DEF node
  <2>2. Edited(t, UpdateNode(t, t[p].id, node), acts)
    BY <1>3, <1>6, <2>1, EditedUpdate
  <2> QED  BY <2>2 DEF node
<1>9. \E u : Edited(dlg.tree, u, acts) /\ Build(u)
  BY <1>4, <1>7, <1>8 DEF t
<1> QED  BY <1>1, <1>9, BuildStep

LEMMA RemoveRowStep ==
    ASSUME DialogInv, RemoveRow
    PROVE  DialogInv' /\ DialogStep
<1>1. PICK p \in Rows(dlg.tree, Known) \ {<<>>} : Build(RemoveNode(dlg.tree, dlg.tree[p].id))
  BY DEF RemoveRow
<1>2. dlg.open
  BY DEF RemoveRow
<1> DEFINE t == dlg.tree
           known == Known
<1>3. acts \in Nat /\ TreeOK(t, acts) /\ known \cap Refused = {} /\ p \in Rows(t, known) /\ p # <<>>
  BY <1>1, <1>2, FitNow, KnownDescribed
<1> HIDE DEF t, known
<1>4. p \in DOMAIN t /\ \A x \in DOMAIN t : IsStrictPrefix(x, p) => t[x].type \notin Refused
  BY <1>3, RowAbove
<1>5. Edited(t, RemoveNode(t, t[p].id), acts)
  BY <1>3, <1>4, EditedRemove
<1> QED  BY <1>1, <1>2, <1>5, BuildStep DEF t

\* What is offered below a node that shows its children.
LEMMA MenuOK ==
    ASSUME DialogInv, dlg.open, NEW p \in Rows(dlg.tree, Known), NEW spec \in AddMenu(dlg.tree[p], Known)
    PROVE  p \in DOMAIN dlg.tree /\ Reachable(dlg.tree, p) /\ spec \in Specs /\ spec.type \in Types
<1> DEFINE t == dlg.tree
           known == Known
<1>1. TreeOK(t, acts) /\ known \cap Refused = {} /\ p \in Rows(t, known) /\ spec \in AddMenu(t[p], known)
      /\ known \subseteq Types
  BY FitNow, KnownDescribed DEF Known, KnownTo
<1> HIDE DEF t, known
<1>2. t[p].type \in known /\ spec \in Meta[t[p].type].children
  BY <1>1 DEF AddMenu, ChildrenVisible, Kind
<1>3. p \in DOMAIN t /\ Reachable(t, p)
  BY <1>1, <1>2, RowAbove, RowKnown
<1>4. spec \in Specs /\ spec.type \in Types
  BY <1>1, <1>2, DialogAssumption DEF Specs, Types
<1> QED  BY <1>3, <1>4 DEF t

\* A new wait, for a child that this act makes, below a node that is there.
LEMMA NewWait ==
    ASSUME NEW t, NEW n \in Nat, TreeOK(t, n), NEW p \in DOMAIN t, Reachable(t, p),
           NEW w \in Seq(Waits(n)), WaitsOK(t, w), NEW e, RootsFit(w, e),
           NEW x \in ChildWaits(n + 1), x.parent = t[p].id, x.id[1] = n + 1
    PROVE  /\ Append(w, x) \in Seq(Waits(n + 1)) /\ WaitsOK(t, Append(w, x))
           /\ RootsFit(Append(w, x), e)
<1> DEFINE a == Append(w, x)
<1>1. x \in Waits(n + 1) /\ w \in Seq(Waits(n + 1)) /\ x.for = "child"
  <2>1. n + 1 \in Nat /\ n <= n + 1
    OBVIOUS
  <2>2. w \in Seq(Waits(n + 1))
    BY <2>1, LaterWaits
  <2>3. x.for = "child"
    BY <2>1, ChildFields
  <2> QED  BY <2>2, <2>3 DEF Waits
<1>2. a \in Seq(Waits(n + 1)) /\ Len(a) = Len(w) + 1 /\ a[Len(w) + 1] = x /\ \A i \in 1..Len(w) : a[i] = w[i]
  <2> HIDE DEF Waits
  <2> QED  BY <1>1, AppendProperties
<1> HIDE DEF a
<1>3. DOMAIN a = 1..(Len(w) + 1) /\ DOMAIN w = 1..Len(w) /\ Len(w) \in Nat
  BY <1>2, LenProperties
<1>4. \A i \in DOMAIN a : (i \in DOMAIN w /\ a[i] = w[i]) \/ (i = Len(w) + 1 /\ a[i] = x)
  BY <1>2, <1>3
<1>5. \A i \in DOMAIN w : w[i].for = "child" => w[i].id[1] \in 1..n /\ w[i].parent[1] \in 1..n
  <2>1. \A i \in DOMAIN w : w[i] \in Waits(n)
    <3> HIDE DEF Waits
    <3> QED  BY <1>3, ElementOfSeq
  <2>2. \A i \in DOMAIN w : w[i].for = "child" => w[i] \in ChildWaits(n)
    BY <2>1, WaitKinds
  <2> QED  BY <2>2, ChildFields
<1>6. \A i \in DOMAIN w : w[i].for = "child" => w[i].id # x.id /\ w[i].parent # x.id /\ x.parent # w[i].id
  BY <1>5 DEF WaitsOK
<1>7. x.parent # x.id /\ (\A q \in DOMAIN t : t[q].id # x.id)
      /\ \A q \in DOMAIN t : t[q].id = x.parent => Reachable(t, q)
  BY DEF TreeOK, NodeOK
<1>8. WaitsOK(t, a)
  <2> SUFFICES ASSUME NEW i \in DOMAIN a, a[i].for = "child"
               PROVE  /\ \A q \in DOMAIN t : t[q].id # a[i].id
                      /\ \A q \in DOMAIN t : t[q].id = a[i].parent => Reachable(t, q)
                      /\ \A j \in DOMAIN a : a[j].for = "child" =>
                            a[j].parent # a[i].id /\ (a[j].id = a[i].id => j = i)
    BY DEF WaitsOK
  <2>1. CASE i \in DOMAIN w /\ a[i] = w[i]
    <3>1. /\ \A q \in DOMAIN t : t[q].id # w[i].id
          /\ \A q \in DOMAIN t : t[q].id = w[i].parent => Reachable(t, q)
          /\ \A j \in DOMAIN w : w[j].for = "child" =>
                w[j].parent # w[i].id /\ (w[j].id = w[i].id => j = i)
      BY <2>1 DEF WaitsOK
    <3> QED  BY <1>4, <1>6, <2>1, <3>1
  <2>2. CASE i = Len(w) + 1 /\ a[i] = x
    BY <1>4, <1>6, <1>7, <2>2
  <2> QED  BY <1>4, <2>1, <2>2
<1>9. RootsFit(a, e)
  BY <1>1, <1>4 DEF RootsFit
<1> QED  BY <1>2, <1>8, <1>9 DEF a

LEMMA AddChildStep ==
    ASSUME DialogInv, AddChild
    PROVE  DialogInv' /\ DialogStep
<1> DEFINE n == acts + 1
           id == <<n, <<>>>>
<1>1. dlg.open
  BY DEF AddChild
<1>2. PICK p \in Rows(dlg.tree, Known) : \E spec \in AddMenu(dlg.tree[p], Known) :
          LET add == AddWhenKnown(entity, spec, dlg.tree[p].id, <<Serial, <<>>>>)
              said == cache[add.key]
          IN  IF said # "none"
              THEN Build(AddChildNode(dlg.tree, add.parent, BuildNode(spec, said = "described", add.id)))
              ELSE /\ Act
                   /\ UNCHANGED <<entity, cache, stored, sent>>
                   /\ Render(dlg, Append(waiting, add), flight)
  BY DEF AddChild
<1>3. PICK spec \in AddMenu(dlg.tree[p], Known) :
          LET add == AddWhenKnown(entity, spec, dlg.tree[p].id, id)
              said == cache[add.key]
          IN  IF said # "none"
              THEN Build(AddChildNode(dlg.tree, add.parent, BuildNode(spec, said = "described", add.id)))
              ELSE /\ Act
                   /\ UNCHANGED <<entity, cache, stored, sent>>
                   /\ Render(dlg, Append(waiting, add), flight)
  BY <1>2 DEF Serial
<1>4. p \in DOMAIN dlg.tree /\ Reachable(dlg.tree, p) /\ spec \in Specs /\ spec.type \in Types
  BY <1>1, MenuOK
<1>5. /\ acts \in Nat /\ n \in Nat \ {0} /\ n \in 1..n /\ entity \in Entities /\ TreeOK(dlg.tree, acts)
      /\ Fit(dlg, waiting, acts, entity) /\ Fit(dlg, waiting, n, entity)
  BY <1>1, FitNow
<1>6. id \in (1..n) \X Place /\ id[1] = n
  BY <1>5, EmptySeq DEF Place
<1> DEFINE add == AddWhenKnown(entity, spec, dlg.tree[p].id, id)
           said == cache[add.key]
<1>7. /\ add.key = <<entity, spec.type>> /\ add.for = "child" /\ add.spec = spec
      /\ add.parent = dlg.tree[p].id /\ add.id = id
      /\ DOMAIN add = {"key", "for", "spec", "parent", "id"} /\ add = [f \in DOMAIN add |-> add[f]]
  BY DEF AddWhenKnown
<1>8. IF said # "none"
      THEN Build(AddChildNode(dlg.tree, add.parent, BuildNode(spec, said = "described", add.id)))
      ELSE /\ Act
           /\ UNCHANGED <<entity, cache, stored, sent>>
           /\ Render(dlg, Append(waiting, add), flight)
  BY <1>3
<1>9. add \in ChildWaits(n)
  <2>1. dlg.tree[p].id \in (1..n) \X Place
    <3>1. dlg.tree[p].id \in (1..acts) \X Place
      BY <1>4, <1>5 DEF TreeOK, NodeOK
    <3> QED  BY <1>5, <3>1
  <2> HIDE DEF n, id
  <2> QED  BY <1>4, <1>5, <1>6, <2>1 DEF AddWhenKnown, ChildWaits
<1> HIDE DEF add, said, n, id
<1>10. CASE said # "none"
  <2> DEFINE t == dlg.tree
             described == said = "described"
             child == BuildNode(spec, described, id)
  <2>1. described \in BOOLEAN /\ n \in Nat /\ spec.type \in Types /\ id \in (1..n) \X Place
    BY <1>4, <1>5, <1>6
  <2>2. NodeOK(child, n) /\ child.id = id /\ child.width = 0
    <3> HIDE DEF described
    <3> QED  BY <2>1, BuildNodeOK
  <2>3. Build(AddChildNode(t, t[p].id, child))
    BY <1>7, <1>8, <1>10
  <2> HIDE DEF t, child
  <2>4. Edited(t, AddChildNode(t, t[p].id, child), acts)
    <3>1. acts \in Nat /\ TreeOK(t, acts) /\ p \in DOMAIN t /\ Reachable(t, p)
      BY <1>4, <1>5 DEF t
    <3>2. NodeOK(child, acts + 1) /\ child.width = 0 /\ child.id[1] = acts + 1
      BY <1>6, <2>2 DEF n
    <3> QED  BY <3>1, <3>2, EditedAdd
  <2> QED  BY <1>1, <2>3, <2>4, BuildStep DEF t
<1>11. CASE said = "none"
  <2> DEFINE a == Append(waiting, add)
  <2>1. Act /\ UNCHANGED <<entity, cache, stored, sent>> /\ Render(dlg, a, flight)
    BY <1>8, <1>11
  <2>2. a \in Seq(Waits(n)) /\ WaitsOK(dlg.tree, a) /\ RootsFit(a, entity)
    <3> DEFINE t == dlg.tree
    <3>1. /\ acts \in Nat /\ TreeOK(t, acts) /\ p \in DOMAIN t /\ Reachable(t, p)
          /\ waiting \in Seq(Waits(acts)) /\ WaitsOK(t, waiting) /\ RootsFit(waiting, entity)
          /\ add \in ChildWaits(acts + 1) /\ add.parent = t[p].id /\ add.id[1] = acts + 1
      BY <1>4, <1>5, <1>6, <1>7, <1>9 DEF Fit, n
    <3> HIDE DEF t
    <3>2. a \in Seq(Waits(acts + 1)) /\ WaitsOK(t, a) /\ RootsFit(a, entity)
      BY <3>1, NewWait
    <3> QED  BY <3>2 DEF t, n
  <2> HIDE DEF a
  <2>3. Fit(dlg, a, acts + 1, entity') /\ entity' \in Entities
    BY <1>5, <2>1, <2>2 DEF Fit, n
  <2>4. Foreign(dlg.tree, dlg.tree)
    BY <1>5, ForeignSame
  <2> QED  BY <2>1, <2>3, <2>4, ActRenders
<1> QED  BY <1>10, <1>11

LEMMA TypeTextStep ==
    ASSUME DialogInv, TypeText
    PROVE  DialogInv' /\ DialogStep
<1> DEFINE n == acts + 1
<1>1. PICK text \in {Json(w) : w \in Typed} \cup {Broken("typed")} :
          LET typed == [dlg EXCEPT !.text = text, !.error = ~text.ok]
          IN  Render(IF text.ok THEN [typed EXCEPT !.tree = Parse(text.wires, n)] ELSE typed,
                     waiting, flight)
  BY DEF TypeText, Serial
<1>2. dlg.open /\ Act /\ UNCHANGED <<entity, cache, stored, sent>>
  BY DEF TypeText
<1>3. /\ acts \in Nat /\ n \in Nat \ {0} /\ entity \in Entities /\ TreeOK(dlg.tree, acts)
      /\ Fit(dlg, waiting, acts, entity) /\ Fit(dlg, waiting, n, entity)
  BY <1>2, FitNow
<1>4. TextOK(text) /\ text.ok \in BOOLEAN
  <2>1. CASE text = Broken("typed")
    BY <2>1, NoTree DEF TextOK, Broken
  <2>2. ASSUME NEW x \in Typed, text = Json(x)
        PROVE  TextOK(text)
    <3>1. IsSource(x)
      BY DialogAssumption
    <3> QED  BY <2>2, <3>1 DEF TextOK, Json
  <2>3. TextOK(text)
    BY <2>1, <2>2
  <2> QED  BY <2>3 DEF TextOK
<1> DEFINE w == text.wires
           typed == [dlg EXCEPT !.text = text, !.error = ~text.ok]
           read == [typed EXCEPT !.tree = Parse(w, n)]
<1>5. /\ DOMAIN typed = DialogFields /\ typed.tree = dlg.tree /\ typed.text = text /\ typed.error = ~text.ok
      /\ typed.open = TRUE /\ typed.rootType = dlg.rootType /\ typed.meta = dlg.meta
  BY <1>3 DEF Fit, DlgOK, DialogFields
<1>6. IF text.ok THEN Render(read, waiting, flight) ELSE Render(typed, waiting, flight)
  BY <1>1
<1> HIDE DEF n, typed
<1>7. CASE text.ok
  <2>1. /\ DOMAIN read = DialogFields /\ read.tree = Parse(w, n) /\ read.text = text /\ read.error = ~text.ok
        /\ read.open = TRUE /\ read.rootType = dlg.rootType /\ read.meta = dlg.meta
    BY <1>5 DEF DialogFields
  <2>2. IsSource(w)
    BY <1>4 DEF TextOK
  <2> HIDE DEF w, read
  <2>3. TreeOK(Parse(w, n), n) /\ Serialize(Parse(w, n)) = w /\ \A p \in DOMAIN Parse(w, n) : Parse(w, n)[p].id[1] = n
    BY <1>3, <2>2, ParseOK
  <2>4. Edited(dlg.tree, Parse(w, n), acts)
    <3> DEFINE u == Parse(w, n)
    <3>1. TreeOK(u, acts + 1) /\ \A p \in DOMAIN u : u[p].id[1] = acts + 1
      BY <2>3 DEF n
    <3> HIDE DEF u
    <3>2. Edited(dlg.tree, u, acts)
      BY <1>3, <3>1, EditedFresh
    <3> QED  BY <3>2 DEF u
  <2>5. DlgOK(read, n)
    BY <1>3, <1>4, <1>7, <2>1, <2>3 DEF DlgOK, Fit, w
  <2>6. WaitsOK(read.tree, waiting)
    <3> DEFINE t == dlg.tree
               u == Parse(w, n)
    <3>1. acts \in Nat /\ waiting \in Seq(Waits(acts)) /\ WaitsOK(t, waiting) /\ WayKept(t, u) /\ IdsFrom(t, u, acts)
      BY <1>3, <2>4 DEF Fit, Edited
    <3> HIDE DEF t, u
    <3>2. WaitsOK(u, waiting)
      BY <3>1, EditedWaits
    <3> QED  BY <2>1, <3>2 DEF u
  <2>7. Fit(read, waiting, acts + 1, entity') /\ entity' \in Entities
    BY <1>2, <1>3, <2>5, <2>6 DEF Fit, n
  <2>8. Render(read, waiting, flight)
    BY <1>6, <1>7
  <2>9. Foreign(dlg.tree, read.tree) /\ read.rootType = dlg.rootType
    BY <2>1, <2>4 DEF Edited
  <2> QED  BY <1>2, <2>7, <2>8, <2>9, ActRenders
<1>8. CASE ~text.ok
  <2>1. DlgOK(typed, n)
    BY <1>3, <1>4, <1>5, <1>8 DEF DlgOK, Fit
  <2>2. Fit(typed, waiting, acts + 1, entity') /\ entity' \in Entities
    BY <1>2, <1>3, <1>5, <2>1 DEF Fit, n
  <2>3. Render(typed, waiting, flight)
    BY <1>6, <1>8
  <2>4. Foreign(dlg.tree, typed.tree) /\ typed.rootType = dlg.rootType
    BY <1>3, <1>5, ForeignSame
  <2> QED  BY <1>2, <2>2, <2>3, <2>4, ActRenders
<1> QED  BY <1>4, <1>7, <1>8

LEMMA ApplyingOK ==
    ASSUME NEW d, NEW n, DlgOK(d, n), NEW b
    PROVE  /\ DlgOK([d EXCEPT !.applying = b], n)
           /\ [d EXCEPT !.applying = b].tree = d.tree
           /\ [d EXCEPT !.applying = b].meta = d.meta
           /\ [d EXCEPT !.applying = b].rootType = d.rootType
<1> DEFINE u == [d EXCEPT !.applying = b]
<1>1. /\ DOMAIN u = DialogFields /\ u.tree = d.tree /\ u.text = d.text /\ u.error = d.error
      /\ u.open = d.open /\ u.rootType = d.rootType /\ u.meta = d.meta
  BY DEF DlgOK, DialogFields
<1> HIDE DEF u
<1>2. DlgOK(u, n)
  BY <1>1 DEF DlgOK
<1> QED  BY <1>1, <1>2 DEF u

\* Only whether the dialog is being applied changes.
LEMMA ApplyingFits ==
    ASSUME DialogInv, dlg.open, acts' \in Nat, acts <= acts', NEW b, dlg' = [dlg EXCEPT !.applying = b],
           UNCHANGED <<entity, cache, waiting>>
    PROVE  DialogFits' /\ EveryTypeIsAskedFor' /\ DialogStep
<1>1. acts \in Nat /\ Fit(dlg, waiting, acts, entity) /\ TreeOK(dlg.tree, acts)
  BY FitNow
<1>2. /\ DlgOK(dlg', acts) /\ dlg'.tree = dlg.tree /\ dlg'.meta = dlg.meta /\ dlg'.rootType = dlg.rootType
  BY <1>1, ApplyingOK DEF Fit
<1>3. Fit(dlg', waiting', acts, entity')
  BY <1>1, <1>2 DEF Fit
<1>4. Fit(dlg', waiting', acts', entity')
  <2> DEFINE d == dlg'
             w == waiting'
             e == entity'
             m == acts'
  <2>1. Fit(d, w, acts, e) /\ m \in Nat /\ acts <= m
    BY <1>3
  <2> HIDE DEF d, w, e, m
  <2>2. Fit(d, w, m, e)
    BY <1>1, <2>1, LaterFit
  <2> QED  BY <2>2 DEF d, w, e, m
<1>5. EveryTypeIsAskedFor'
  BY <1>2 DEF EveryTypeIsAskedFor, DialogInv
<1>6. DialogStep
  BY <1>1, <1>2, ForeignSame DEF DialogStep
<1> QED  BY <1>4, <1>5, <1>6 DEF DialogFits

LEMMA ApplyStep ==
    ASSUME DialogInv, Apply
    PROVE  DialogInv' /\ DialogStep
<1>1. dlg.open /\ Act /\ UNCHANGED <<entity, cache, flight, waiting, stored>>
      /\ dlg' = [dlg EXCEPT !.applying = TRUE]
      /\ sent' = sent \cup {[wires |-> SerializeTree(dlg.tree), act |-> Serial]}
  BY DEF Apply
<1>2. acts \in Nat /\ acts' \in Nat /\ acts <= acts' /\ answer' = answer /\ TreeOK(dlg.tree, acts)
  BY <1>1, FitNow DEF Act
<1>3. IsSource(SerializeTree(dlg.tree))
  BY <1>2, SerializeOK
<1>4. \A s \in sent' : IsSource(s.wires)
  BY <1>1, <1>3 DEF DialogInv
<1>5. DialogFits' /\ EveryTypeIsAskedFor' /\ DialogStep
  BY <1>1, <1>2, ApplyingFits
<1> QED  BY <1>1, <1>2, <1>4, <1>5 DEF DialogInv, CacheFits, AnswerFits

LEMMA ApplyRefusedStep ==
    ASSUME DialogInv, ApplyRefused
    PROVE  DialogInv' /\ DialogStep
<1>1. /\ UNCHANGED <<entity, cache, flight, waiting, answer, stored, acts>>
      /\ sent' \subseteq sent
      /\ dlg' = dlg \/ (dlg.open /\ dlg' = [dlg EXCEPT !.applying = FALSE])
  BY DEF ApplyRefused
<1>2. DialogFits' /\ EveryTypeIsAskedFor' /\ DialogStep
  <2>1. CASE dlg' = dlg
    BY <1>1, <2>1, StillAsked, SameStep DEF DialogInv, DialogFits
  <2>2. CASE dlg.open /\ dlg' = [dlg EXCEPT !.applying = FALSE]
    <3>1. acts \in Nat /\ acts' \in Nat /\ acts <= acts'
      BY <1>1 DEF DialogInv
    <3> QED  BY <1>1, <2>2, <3>1, ApplyingFits
  <2> QED  BY <1>1, <2>1, <2>2
<1> QED  BY <1>1, <1>2 DEF DialogInv, CacheFits, AnswerFits

LEMMA ApplyCommitsStep ==
    ASSUME DialogInv, ApplyCommits
    PROVE  DialogInv' /\ DialogStep
<1>1. PICK s \in sent : sent' = sent \ {s} /\ stored' = Json(s.wires)
  BY DEF ApplyCommits
<1>2. dlg' = Closed /\ waiting' = <<>> /\ UNCHANGED <<entity, cache, flight, answer, acts>>
  BY DEF ApplyCommits
<1>3. TextOK(stored')
  BY <1>1 DEF TextOK, Json, DialogInv
<1>4. DialogFits' /\ dlg'.open = FALSE
  BY <1>2 DEF DialogFits, Closed
<1> QED  BY <1>1, <1>2, <1>3, <1>4
         DEF DialogInv, CacheFits, AnswerFits, EveryTypeIsAskedFor, DialogStep, SameDialog

-----------------------------------------------------------------------------
(***************************************************************************)
(* Theorems                                                                *)
(***************************************************************************)
LEMMA DialogStarts ==
    ASSUME DialogInit
    PROVE  DialogInv
<1>1. dlg = Closed /\ waiting = <<>> /\ dlg.open = FALSE
  BY DEF DialogInit, Closed
<1>2. CacheFits
  BY DEF DialogInit, CacheFits
<1>3. TextOK(stored)
  BY DialogAssumption DEF DialogInit, TextOK
<1> QED  BY <1>1, <1>2, <1>3 DEF DialogInit, DialogInv, AnswerFits, DialogFits, EveryTypeIsAskedFor

LEMMA DialogMoves ==
    ASSUME DialogInv, [DialogNext]_dialogVars
    PROVE  DialogInv' /\ DialogStep
<1>1. CASE MetaAnswers
  BY <1>1, MetaAnswersStep
<1>2. CASE Callback
  BY <1>2, CallbackStep
<1>3. CASE Open
  BY <1>3, OpenStep
<1>4. CASE Close
  BY <1>4, CloseStep
<1>5. CASE Retry
  BY <1>5, RetryStep
<1>6. CASE ChangeEntity
  BY <1>6, ChangeEntityStep
<1>7. CASE StartTree
  BY <1>7, StartTreeStep
<1>8. CASE ClearTree
  BY <1>8, ClearTreeStep
<1>9. CASE EditNode
  BY <1>9, EditNodeStep
<1>10. CASE RemoveRow
  BY <1>10, RemoveRowStep
<1>11. CASE AddChild
  BY <1>11, AddChildStep
<1>12. CASE TypeText
  BY <1>12, TypeTextStep
<1>13. CASE Apply
  BY <1>13, ApplyStep
<1>14. CASE ApplyRefused
  BY <1>14, ApplyRefusedStep
<1>15. CASE ApplyCommits
  BY <1>15, ApplyCommitsStep
<1>16. CASE UNCHANGED dialogVars
  <2>1. DialogInv'
    BY <1>16 DEF dialogVars, DialogInv, CacheFits, AnswerFits, DialogFits, EveryTypeIsAskedFor
  <2>2. DialogStep
    BY <1>16, SameStep DEF dialogVars, DialogInv
  <2> QED  BY <2>1, <2>2
<1> QED  BY <1>1, <1>2, <1>3, <1>4, <1>5, <1>6, <1>7, <1>8, <1>9, <1>10, <1>11, <1>12, <1>13, <1>14,
            <1>15, <1>16 DEF DialogNext

\* The tree of an open dialog is a tree whose ids are its own, a child that waits for its
\* metadata is nobody else's, and nothing the server refused counts as known.
THEOREM DialogInvariance == DialogSpec => []DialogInv
<1>1. DialogInit => DialogInv
  BY DialogStarts
<1>2. DialogInv /\ [DialogNext]_dialogVars => DialogInv'
  BY DialogMoves
<1> QED  BY <1>1, <1>2, PTL DEF DialogSpec

\* A root that the builder put up and that has no children is all there is of its tree.
LEMMA BareRoot ==
    ASSUME NEW n \in Nat, NEW tree, TreeOK(tree, n), tree # <<>>, tree[<<>>].width = 0
    PROVE  DOMAIN tree = {<<>>}
<1>1. ASSUME NEW p \in DOMAIN tree, p # <<>>
      PROVE  FALSE
  <2>1. p \in Place /\ 1 \in 0..Len(p)
    BY <1>1, PlaceType DEF TreeOK
  <2> DEFINE q == SubSeq(p, 1, 1)
  <2>2. q \in DOMAIN tree /\ q # <<>>
    <3>1. q \in DOMAIN tree
      BY <1>1, <2>1 DEF TreeOK
    <3>2. q \in Place /\ Len(q) = 1
      BY <2>1, UpTo
    <3> HIDE DEF q
    <3>3. Len(q) > 0
      BY <3>2
    <3> QED  BY <3>1, <3>2, <3>3, PlaceType
  <2>3. Len(q) = 1 /\ q \in Place
    BY <2>1, UpTo
  <2> HIDE DEF q
  <2>4. Front(q) = <<>>
    <3>1. Front(q) \in Place /\ Len(Front(q)) = Len(q) - 1
      BY <2>2, <2>3, FrontOf
    <3>2. Len(Front(q)) = 0
      BY <2>3, <3>1
    <3> QED  BY <3>1, <3>2, PlaceType
  <2>5. Last(q) \in Nat \ {0}
    <3>1. 1 \in 1..Len(q)
      BY <2>3
    <3>2. \A i \in 1..Len(q) : q[i] \in Nat \ {0}
      BY <2>3, PlaceType
    <3> QED  BY <2>3, <3>1, <3>2 DEF Last
  <2>6. Last(q) <= tree[Front(q)].width
    BY <2>2 DEF TreeOK
  <2> QED  BY <2>4, <2>5, <2>6
<1>2. DOMAIN tree # {}
  <2>1. SUFFICES ASSUME DOMAIN tree = {}
                 PROVE  FALSE
    OBVIOUS
  <2>2. tree = [p \in {} |-> tree[p]] /\ <<>> = [p \in {} |-> tree[p]]
    BY <2>1 DEF TreeOK
  <2> QED  BY <2>2
<1> QED  BY <1>1, <1>2

\* Apply is the only step that sends, and it sends the tree.
LEMMA OnlyApplySends ==
    ASSUME DialogNext, NEW s \in sent' \ sent
    PROVE  dlg.open /\ ~dlg.error /\ s.wires = SerializeTree(dlg.tree)
<1>1. CASE Apply
  BY <1>1 DEF Apply
<1>2. ASSUME ~Apply
      PROVE  sent' \subseteq sent
  <2>1. CASE MetaAnswers \/ Callback \/ Open \/ Close \/ Retry \/ ChangeEntity \/ TypeText
    <3>1. ASSUME MetaAnswers
          PROVE  UNCHANGED <<entity, stored, sent, acts>>
      BY <3>1, Zenon DEF MetaAnswers
    <3>2. Callback => UNCHANGED sent
      BY DEF Callback
    <3>3. Open => UNCHANGED sent
      BY DEF Open
    <3>4. Close => UNCHANGED sent
      BY DEF Close
    <3>5. ASSUME Retry
          PROVE  UNCHANGED <<entity, cache, stored, sent>>
      BY <3>5, Zenon DEF Retry
    <3>6. ChangeEntity => UNCHANGED sent
      BY DEF ChangeEntity
    <3>7. TypeText => UNCHANGED sent
      BY DEF TypeText
    <3> QED  BY <2>1, <3>1, <3>2, <3>3, <3>4, <3>5, <3>6, <3>7
  <2>2. CASE StartTree \/ ClearTree \/ EditNode \/ RemoveRow \/ AddChild
    BY <2>2 DEF StartTree, ClearTree, EditNode, RemoveRow, AddChild, Build
  <2>3. CASE ApplyRefused \/ ApplyCommits
    BY <2>3 DEF ApplyRefused, ApplyCommits
  <2> QED  BY <1>2, <2>1, <2>2, <2>3 DEF DialogNext
<1> QED  BY <1>1, <1>2

\* The text is the tree's, so what is sent is the text's, or stands for a bare root.
LEMMA SentIsShown ==
    ASSUME DialogInv, DialogNext, NEW s \in sent' \ sent
    PROVE  /\ dlg.text.ok /\ ~dlg.error
           /\ \/ s.wires = dlg.text.wires
              \/ /\ s.wires = <<>>
                 /\ DOMAIN dlg.text.wires = {<<>>} /\ DOMAIN dlg.tree = {<<>>}
                 /\ dlg.tree[<<>>].made
<1> DEFINE t == dlg.tree
<1>1. dlg.open /\ ~dlg.error /\ s.wires = SerializeTree(t)
  BY OnlyApplySends
<1>2. /\ acts \in Nat /\ TreeOK(t, acts)
      /\ dlg.error = ~dlg.text.ok /\ dlg.text.ok \in BOOLEAN
      /\ dlg.text.wires = Serialize(t)
  BY <1>1, FitNow DEF Fit, DlgOK, TextOK
<1> HIDE DEF t
<1>3. CASE ~IsEmptyTree(t)
  BY <1>1, <1>2, <1>3 DEF SerializeTree
<1>4. CASE t = <<>>
  <2>1. SerializeTree(t) = <<>> /\ Serialize(t) = <<>>
    BY <1>4 DEF SerializeTree, IsEmptyTree, Serialize
  <2> QED  BY <1>1, <1>2, <2>1
<1>5. CASE IsEmptyTree(t) /\ t # <<>>
  <2>1. t[<<>>].made /\ t[<<>>].width = 0 /\ SerializeTree(t) = <<>>
    BY <1>5 DEF SerializeTree, IsEmptyTree
  <2>2. DOMAIN t = {<<>>}
    BY <1>2, <1>5, <2>1, BareRoot
  <2>3. DOMAIN Serialize(t) = {<<>>}
    BY <2>2 DEF Serialize
  <2> QED  BY <1>1, <1>2, <2>1, <2>2, <2>3 DEF t
<1> QED  BY <1>3, <1>4, <1>5

\* ApplySendsTheText for every metadata, tree and number of acts: what is posted is the
\* text on the screen, and "always run" in place of nothing but the builder's own bare root.
THEOREM TextIsSent == DialogSpec => ApplySendsTheText
<1>1. DialogInv /\ [DialogNext]_dialogVars =>
          [\A s \in sent' \ sent :
              /\ dlg.text.ok /\ ~dlg.error
              /\ \/ s.wires = dlg.text.wires
                 \/ /\ s.wires = <<>>
                    /\ DOMAIN dlg.text.wires = {<<>>} /\ DOMAIN dlg.tree = {<<>>}
                    /\ dlg.tree[<<>>].made]_dialogVars
  BY SentIsShown
<1> QED  BY <1>1, DialogInvariance, PTL DEF DialogSpec, ApplySendsTheText

\* EveryTypeIsAskedFor for every way a node can come into the tree, between the callbacks of
\* one answer too.
THEOREM TypesAreAskedFor == DialogSpec => []EveryTypeIsAskedFor
<1>1. DialogInv => EveryTypeIsAskedFor
  BY DEF DialogInv
<1> QED  BY <1>1, DialogInvariance, PTL

\* LateChildrenOnlyAdd: a child that comes with its metadata finds its parent where the
\* edits made meanwhile have put it, and takes nobody's place.
THEOREM LateChildren == DialogSpec => LateChildrenOnlyAdd
<1>1. DialogInv /\ [DialogNext]_dialogVars =>
          [SameDialog /\ acts' = acts =>
               \A p \in DOMAIN dlg.tree :
                   /\ p \in DOMAIN dlg'.tree
                   /\ dlg'.tree[p].id = dlg.tree[p].id
                   /\ dlg'.tree[p].type = dlg.tree[p].type
                   /\ dlg'.tree[p].props = dlg.tree[p].props]_dialogVars
  BY DialogMoves DEF DialogStep, Steady
<1> QED  BY <1>1, DialogInvariance, PTL DEF DialogSpec, LateChildrenOnlyAdd

\* ForeignDataSurvives: whatever is done in the builder, a node of a type nobody describes
\* keeps its type, its keys and all below it for as long as it is there.
THEOREM ForeignData == DialogSpec => ForeignDataSurvives
<1>1. DialogInv /\ [DialogNext]_dialogVars =>
          [SameDialog =>
               \A p \in DOMAIN dlg.tree, q \in DOMAIN dlg'.tree :
                   dlg.tree[p].id = dlg'.tree[q].id =>
                       /\ dlg'.tree[q].type = dlg.tree[p].type
                       /\ DOMAIN dlg.tree[p].props \subseteq DOMAIN dlg'.tree[q].props
                       /\ dlg.tree[p].type \in Refused =>
                             Subtree(dlg'.tree, q) = Subtree(dlg.tree, p)]_dialogVars
  BY DialogMoves DEF DialogStep, Foreign
<1> QED  BY <1>1, DialogInvariance, PTL DEF DialogSpec, ForeignDataSurvives

\* FormerRootIsDropped: the answer about a former entity type's root is not taken over when
\* it comes late, but for what a Retry asked, which nobody cancels.
THEOREM RootsAreCancelled == DialogSpec => FormerRootIsDropped
<1>1. DialogInv /\ [DialogNext]_dialogVars =>
          [SameDialog /\ dlg'.rootType \notin {dlg.rootType, NoType, RootOf[entity']} =>
               \E i \in DOMAIN waiting : waiting[i].for = "root" /\ waiting[i].retry]_dialogVars
  BY DialogMoves DEF DialogStep
<1> QED  BY <1>1, DialogInvariance, PTL DEF DialogSpec, FormerRootIsDropped
=============================================================================
