--------------------------- MODULE ServerViewProof ---------------------------
(***************************************************************************)
(* A view that has read everything is the server's state; its channels are *)
(* a tree whatever the server sends, a listing is read for what it descri- *)
(* bes, listeners are up to date once the deliveries are done, and no      *)
(* whenReady() is left waiting: for any channels, clients and connections. *)
(*                                                                         *)
(* Most of it is about the operators of ChannelTree and ChannelListing.    *)
(* The recursive functions are reasoned about through the least number at  *)
(* which a claim fails (Steps); a tree is rooted if every set that holds   *)
(* with a channel its parent, and is not empty, holds the top level, which *)
(* needs no induction.  Siblings are in order if each names the one before *)
(* it: then the walk of sortSiblings goes along them.  The last part is    *)
(* about the lines on their way: each event is shown to do to a tree that  *)
(* is the server's what the server has done.                               *)
(***************************************************************************)
EXTENDS ServerView, FiniteSetTheorems, SequenceTheorems, NaturalsInduction,
        WellFoundedInduction, TLAPS

-----------------------------------------------------------------------------
(* Numbers and recursive functions.                                        *)

\* A set of numbers that is not empty has a least one.
LEMMA MinimalIn ==
    ASSUME NEW R, IsWellFoundedOn(R, Nat), NEW S, S \subseteq Nat, S # {}
    PROVE  \E n \in S : \A m \in S : ~(<<m, n>> \in R)
  BY WFMin, Zenon

LEMMA NatOrder ==
    \E R : IsWellFoundedOn(R, Nat) /\ \A m, n \in Nat : m < n => <<m, n>> \in R
  <1>. DEFINE R == OpToRel(<, Nat)
  <1>1. IsWellFoundedOn(R, Nat)
    BY NatLessThanWellFounded
  <1>2. \A m, n \in Nat : m < n => <<m, n>> \in R
    BY DEF OpToRel
  <1>. WITNESS R
  <1>. QED  BY <1>1, <1>2

LEMMA LeastNumber ==
    ASSUME NEW S, S \subseteq Nat, S # {}
    PROVE  \E n \in S : \A m \in S : n <= m
  <1>1. PICK R : IsWellFoundedOn(R, Nat) /\ \A m, n \in Nat : m < n => <<m, n>> \in R
    BY NatOrder, Zenon
  <1>2. PICK n \in S : \A m \in S : ~(<<m, n>> \in R)
    BY <1>1, MinimalIn, Zenon
  <1>3. ASSUME NEW m \in S  PROVE n <= m
    <2>1. m \in Nat /\ n \in Nat
      OBVIOUS
    <2>2. ~(m < n)
      BY <1>1, <1>2, <2>1, Zenon
    <2>. QED  BY <2>1, <2>2, SMT
  <1>. QED  BY <1>3, Zenon

\* A set that holds 0 and with each number up to n the next one holds them all: the form
\* in which induction is used here.
LEMMA Steps ==
    ASSUME NEW n \in Nat, NEW S, 0 \in S, \A i \in 1 .. n : i - 1 \in S => i \in S
    PROVE  \A i \in 0 .. n : i \in S
  <1>. DEFINE Bad == {i \in 0 .. n : i \notin S}
  <1>. SUFFICES ASSUME Bad # {}  PROVE FALSE
    OBVIOUS
  <1>1. Bad \subseteq Nat
    OBVIOUS
  <1>2. PICK i \in Bad : \A j \in Bad : i <= j
    BY <1>1, LeastNumber
  <1>3. i \in 1 .. n /\ i - 1 \in 0 .. n
    BY <1>2
  <1>4. i - 1 \in S
    BY <1>2, <1>3
  <1>. QED  BY <1>2, <1>3, <1>4

\* f is the function that begins with base and takes one step after the other.
Iterates(f, n, base, step) ==
    f = [i \in 0 .. n |-> IF i = 0 THEN base ELSE step[i][f[i - 1]]]

\* There is one.
LEMMA IteratesExists ==
    ASSUME NEW n \in Nat, NEW base, NEW step
    PROVE  \E f : Iterates(f, n, base, step)
  <1>. DEFINE S == {k \in 0 .. n : \E f : Iterates(f, k, base, step)}
  <1>1. 0 \in S
    <2>. DEFINE f == [i \in 0 .. 0 |-> base]
    <2>1. Iterates(f, 0, base, step)
      BY DEF Iterates
    <2>. HIDE DEF f
    <2>. QED  BY <2>1
  <1>2. ASSUME NEW k \in 1 .. n, k - 1 \in S  PROVE k \in S
    <2>1. PICK f : Iterates(f, k - 1, base, step)
      BY <1>2
    <2>. DEFINE g == [i \in 0 .. k |-> IF i = k THEN step[k][f[k - 1]] ELSE f[i]]
                Rest(i) == IF i = 0 THEN base ELSE step[i][g[i - 1]]
    <2>2. \A i \in 0 .. (k - 1) : f[i] = IF i = 0 THEN base ELSE step[i][f[i - 1]]
      BY <2>1 DEF Iterates
    <2>3. \A i \in 0 .. (k - 1) : g[i] = f[i]
      OBVIOUS
    <2>4. g[k] = step[k][f[k - 1]]
      OBVIOUS
    <2>5. g = [i \in 0 .. k |-> g[i]]
      OBVIOUS
    <2>. HIDE DEF g
    <2>6. ASSUME NEW i \in 0 .. k  PROVE g[i] = Rest(i)
      <3>1. CASE i = k
        <4>1. i # 0 /\ g[i - 1] = f[k - 1]
          BY <2>3, <3>1
        <4>. QED  BY <2>4, <3>1, <4>1
      <3>2. CASE i # k
        <4>1. i \in 0 .. (k - 1) /\ (i # 0 => i - 1 \in 0 .. (k - 1))
          BY <3>2
        <4>. QED  BY <2>2, <2>3, <4>1
      <3>. QED  BY <3>1, <3>2
    <2>7. Iterates(g, k, base, step)
      BY <2>5, <2>6 DEF Iterates
    <2>. QED  BY <2>7
  <1>. HIDE DEF S
  <1>3. \A i \in 0 .. n : i \in S
    BY <1>1, <1>2, Steps
  <1>4. n \in S
    BY <1>3
  <1>. QED  BY <1>4 DEF S

\* It stays in a set that no step leaves.
LEMMA IteratesIn ==
    ASSUME NEW n \in Nat, NEW D, NEW base \in D, NEW step, NEW f, Iterates(f, n, base, step),
           \A i \in 1 .. n : \A d \in D : step[i][d] \in D
    PROVE  \A i \in 0 .. n : f[i] \in D
  <1>. DEFINE S == {i \in 0 .. n : f[i] \in D}
  <1>1. \A i \in 0 .. n : f[i] = IF i = 0 THEN base ELSE step[i][f[i - 1]]
    BY DEF Iterates
  <1>2. 0 \in S
    BY <1>1
  <1>3. ASSUME NEW i \in 1 .. n, i - 1 \in S  PROVE i \in S
    BY <1>1, <1>3
  <1>. HIDE DEF S
  <1>4. \A i \in 0 .. n : i \in S
    BY <1>2, <1>3, Steps
  <1>. QED  BY <1>4 DEF S

-----------------------------------------------------------------------------
(* Sequences.                                                              *)

Distinct(s) == \A i, j \in DOMAIN s : s[i] = s[j] => i = j

\* p has the elements that s has at the places in J, each place once.
Lists(p, s, J) ==
    /\ Len(p) = Cardinality(J)
    /\ \E g \in [DOMAIN p -> J] :
        /\ \A k \in DOMAIN p : p[k] = s[g[k]]
        /\ \A k, l \in DOMAIN p : g[k] = g[l] => k = l
        /\ \A j \in J : \E k \in DOMAIN p : g[k] = j

LEMMA AppendFacts ==
    ASSUME NEW T, NEW s \in Seq(T), NEW x \in T
    PROVE  /\ Append(s, x) \in Seq(T) /\ Len(Append(s, x)) = Len(s) + 1
           /\ DOMAIN Append(s, x) = 1 .. (Len(s) + 1) /\ Len(s) \in Nat /\ DOMAIN s = 1 .. Len(s)
           /\ \A i \in DOMAIN s : Append(s, x)[i] = s[i]
           /\ Append(s, x)[Len(s) + 1] = x
           /\ Append(s, x) # <<>>
  OBVIOUS

LEMMA ListsAppend ==
    ASSUME NEW T, NEW s, NEW p \in Seq(T), NEW J, Lists(p, s, J), IsFiniteSet(J),
           NEW n, n \notin J, s[n] \in T
    PROVE  Lists(Append(p, s[n]), s, J \cup {n})
  <1>. DEFINE q == Append(p, s[n])
              m == Len(p) + 1
  <1>1. /\ q \in Seq(T) /\ Len(q) = m /\ DOMAIN q = 1 .. m /\ DOMAIN p = 1 .. Len(p) /\ Len(p) \in Nat
        /\ \A k \in DOMAIN p : q[k] = p[k]
        /\ q[m] = s[n] /\ m \notin DOMAIN p /\ m \in DOMAIN q
        /\ \A k \in DOMAIN q : k \in DOMAIN p \/ k = m
    BY AppendFacts
  <1>2. PICK g \in [DOMAIN p -> J] :
            /\ \A k \in DOMAIN p : p[k] = s[g[k]]
            /\ \A k, l \in DOMAIN p : g[k] = g[l] => k = l
            /\ \A j \in J : \E k \in DOMAIN p : g[k] = j
    BY DEF Lists
  <1>. DEFINE h == [k \in DOMAIN q |-> IF k = m THEN n ELSE g[k]]
  <1>. HIDE DEF q, m
  <1>3. Len(q) = Cardinality(J \cup {n})
    <2>1. Cardinality(J \cup {n}) = Cardinality(J) + 1
      BY FS_AddElement
    <2>2. Len(p) = Cardinality(J)
      BY DEF Lists
    <2>. QED  BY <1>1, <2>1, <2>2 DEF m
  <1>4. \A k \in DOMAIN p : k \in DOMAIN q /\ h[k] = g[k] /\ h[k] \in J
    BY <1>1 DEF m
  <1>5. h[m] = n
    BY <1>1
  <1>6. h \in [DOMAIN q -> J \cup {n}]
    BY <1>1, <1>4, <1>5
  <1>. HIDE DEF h
  <1>7. \A k \in DOMAIN q : q[k] = s[h[k]]
    BY <1>1, <1>2, <1>4, <1>5
  <1>8. \A k, l \in DOMAIN q : h[k] = h[l] => k = l
    BY <1>1, <1>2, <1>4, <1>5
  <1>9. \A j \in J \cup {n} : \E k \in DOMAIN q : h[k] = j
    BY <1>1, <1>2, <1>4, <1>5
  <1>10. Lists(q, s, J \cup {n})
    BY <1>3, <1>6, <1>7, <1>8, <1>9 DEF Lists
  <1>. QED  BY <1>10 DEF q

\* Picked goes through the places one by one.
LEMMA PickedSteps ==
    ASSUME NEW T, NEW s \in Seq(T), NEW I
    PROVE  \E pick :
             /\ Picked(s, I) = pick[Len(s)]
             /\ \A i \in 0 .. Len(s) : pick[i] = IF i = 0 THEN <<>>
                                                 ELSE IF i \in I THEN Append(pick[i - 1], s[i])
                                                 ELSE pick[i - 1]
  <1>. DEFINE n == Len(s)
              Body(f) == [i \in 0 .. n |-> IF i = 0 THEN <<>>
                                           ELSE IF i \in I THEN Append(f[i - 1], s[i])
                                           ELSE f[i - 1]]
              pick == CHOOSE f : f = Body(f)
              step == [i \in 1 .. n |-> [p \in Seq(T) |-> IF i \in I THEN Append(p, s[i]) ELSE p]]
  <1>1. n \in Nat /\ DOMAIN s = 1 .. n /\ \A i \in 1 .. n : s[i] \in T
    OBVIOUS
  <1>2. Picked(s, I) = pick[n]
    BY DEF Picked
  <1>. HIDE DEF n
  <1>3. \A i \in 1 .. n : \A p \in Seq(T) : step[i][p] = (IF i \in I THEN Append(p, s[i]) ELSE p) /\ step[i][p] \in Seq(T)
    BY <1>1
  <1>4. \E f : f = Body(f)
    <2>0. <<>> \in Seq(T)
      OBVIOUS
    <2>. HIDE DEF step
    <2>1. PICK f : Iterates(f, n, <<>>, step)
      BY <1>1, IteratesExists
    <2>2. \A i \in 0 .. n : f[i] \in Seq(T)
      BY <1>1, <1>3, <2>0, <2>1, IteratesIn
    <2>3. f = [i \in 0 .. n |-> IF i = 0 THEN <<>> ELSE step[i][f[i - 1]]]
      BY <2>1 DEF Iterates
    <2>4. \A i \in 0 .. n : i # 0 => i \in 1 .. n /\ f[i - 1] \in Seq(T)
      BY <1>1, <2>2
    <2>5. f = Body(f)
      BY <1>3, <2>3, <2>4
    <2>. QED  BY <2>5
  <1>. HIDE DEF Body
  <1>5. pick = Body(pick)
    BY <1>4
  <1>. HIDE DEF pick, step
  <1>6. \A i \in 0 .. n : pick[i] = IF i = 0 THEN <<>>
                                    ELSE IF i \in I THEN Append(pick[i - 1], s[i]) ELSE pick[i - 1]
    BY <1>5 DEF Body
  <1>. QED  BY <1>2, <1>6 DEF n

\* Picked has what it says.
LEMMA PickedFacts ==
    ASSUME NEW T, NEW s \in Seq(T), NEW I
    PROVE  Picked(s, I) \in Seq(T) /\ Lists(Picked(s, I), s, DOMAIN s \cap I)
  <1>0. PICK n : n = Len(s)
    OBVIOUS
  <1>1. n \in Nat /\ DOMAIN s = 1 .. n /\ \A i \in 1 .. n : s[i] \in T
    BY <1>0
  <1>2. PICK pick :
            /\ Picked(s, I) = pick[n]
            /\ \A i \in 0 .. n : pick[i] = IF i = 0 THEN <<>>
                                           ELSE IF i \in I THEN Append(pick[i - 1], s[i])
                                           ELSE pick[i - 1]
    BY <1>0, PickedSteps
  <1>. DEFINE Upto(i) == (1 .. i) \cap I
              Good(i) == pick[i] \in Seq(T) /\ Lists(pick[i], s, Upto(i))
              S == {i \in 0 .. n : Good(i)}
  <1>6. \A i \in 0 .. n : pick[i] = IF i = 0 THEN <<>>
                                    ELSE IF i \in I THEN Append(pick[i - 1], s[i]) ELSE pick[i - 1]
    BY <1>2
  <1>7. 0 \in S
    <2>1. pick[0] = <<>> /\ Upto(0) = {}
      BY <1>1, <1>6
    <2>2. Lists(<<>>, s, {})
      <3>. DEFINE g == [k \in {} |-> 0]
      <3>1. g \in [{} -> {}]
        OBVIOUS
      <3>2. Len(<<>>) = 0 /\ DOMAIN <<>> = {} /\ Cardinality({}) = 0
        BY FS_EmptySet
      <3>. HIDE DEF g
      <3>. QED  BY <3>1, <3>2 DEF Lists
    <2>3. <<>> \in Seq(T)
      OBVIOUS
    <2>. HIDE DEF Upto
    <2>4. Good(0)
      BY <2>1, <2>2, <2>3
    <2>. QED  BY <1>1, <2>4
  <1>8. ASSUME NEW i \in 1 .. n, i - 1 \in S  PROVE i \in S
    <2>1. Good(i - 1)
      BY <1>8
    <2>2. i \in Nat /\ i # 0 /\ i \in 0 .. n /\ i \notin Upto(i - 1) /\ s[i] \in T
      BY <1>1
    <2>3. Upto(i) = Upto(i - 1) \cup (IF i \in I THEN {i} ELSE {})
      BY <2>2
    <2>4. IsFiniteSet(Upto(i - 1))
      <3>1. IsFiniteSet(1 .. (i - 1)) /\ Upto(i - 1) \subseteq 1 .. (i - 1)
        <4>1. i - 1 \in Int /\ 1 \in Int
          BY <2>2
        <4>. QED  BY <4>1, FS_Interval
      <3>. QED  BY <3>1, FS_Subset
    <2>5. pick[i] = IF i \in I THEN Append(pick[i - 1], s[i]) ELSE pick[i - 1]
      BY <1>6, <2>2
    <2>. HIDE DEF Upto
    <2>6. CASE i \in I
      <3>1. pick[i] = Append(pick[i - 1], s[i]) /\ Upto(i) = Upto(i - 1) \cup {i}
        BY <2>3, <2>5, <2>6
      <3>2. pick[i] \in Seq(T)
        BY <2>1, <2>2, <3>1
      <3>3. Lists(pick[i], s, Upto(i))
        <4>1. PICK q : q = pick[i - 1]
          OBVIOUS
        <4>2. PICK J : J = Upto(i - 1)
          OBVIOUS
        <4>3. q \in Seq(T) /\ Lists(q, s, J) /\ IsFiniteSet(J) /\ i \notin J
          BY <2>1, <2>2, <2>4, <4>1, <4>2
        <4>4. Lists(Append(q, s[i]), s, J \cup {i})
          BY <2>2, <4>3, ListsAppend
        <4>. QED  BY <3>1, <4>1, <4>2, <4>4
      <3>. QED  BY <2>2, <3>2, <3>3
    <2>7. CASE i \notin I
      <3>1. pick[i] = pick[i - 1] /\ Upto(i) = Upto(i - 1)
        BY <2>3, <2>5, <2>7
      <3>. QED  BY <2>1, <2>2, <3>1
    <2>. QED  BY <2>6, <2>7
  <1>. HIDE DEF S
  <1>9. \A i \in 0 .. n : i \in S
    BY <1>1, <1>7, <1>8, Steps
  <1>10. Good(n)
    <2>1. n \in S
      BY <1>1, <1>9
    <2>. HIDE DEF Good
    <2>. QED  BY <2>1 DEF S
  <1>11. Upto(n) = DOMAIN s \cap I
    BY <1>1
  <1>. QED  BY <1>2, <1>10, <1>11

\* A list without one of its elements.
LEMMA WithoutFacts ==
    ASSUME NEW T, NEW s \in Seq(T), NEW c, Distinct(s)
    PROVE  /\ Without(s, c) \in Seq(T) /\ Distinct(Without(s, c))
           /\ Range(Without(s, c)) = Range(s) \ {c}
  <1>. DEFINE J == {i \in DOMAIN s : s[i] # c}
              p == Without(s, c)
  <1>1. DOMAIN s \cap J = J
    OBVIOUS
  <1>2. p \in Seq(T) /\ Lists(p, s, J)
    BY <1>1, PickedFacts DEF Without
  <1>3. PICK g \in [DOMAIN p -> J] :
            /\ \A k \in DOMAIN p : p[k] = s[g[k]]
            /\ \A k, l \in DOMAIN p : g[k] = g[l] => k = l
            /\ \A j \in J : \E k \in DOMAIN p : g[k] = j
    BY <1>2 DEF Lists
  <1>. HIDE DEF p
  <1>4. \A k \in DOMAIN p : g[k] \in DOMAIN s /\ s[g[k]] # c
    BY <1>3
  <1>5. Distinct(p)
    BY <1>3, <1>4 DEF Distinct
  <1>6. Range(p) \subseteq Range(s) \ {c}
    BY <1>3, <1>4 DEF Range
  <1>7. Range(s) \ {c} \subseteq Range(p)
    <2>. SUFFICES ASSUME NEW i \in DOMAIN s, s[i] # c  PROVE s[i] \in Range(p)
      BY DEF Range
    <2>1. PICK k \in DOMAIN p : g[k] = i
      BY <1>3
    <2>. QED  BY <1>3, <2>1 DEF Range
  <1>. QED  BY <1>2, <1>5, <1>6, <1>7 DEF p

\* Where the elements are in a list with one more.
LEMMA InsertPlaces ==
    ASSUME NEW T, NEW s \in Seq(T), NEW c \in T,
           NEW at \in 1 .. (Len(s) + 1)
    PROVE  /\ InsertAt(s, at, c) \in Seq(T) /\ Len(InsertAt(s, at, c)) = Len(s) + 1
           /\ DOMAIN InsertAt(s, at, c) = 1 .. (Len(s) + 1)
           /\ \A i \in 1 .. (Len(s) + 1) :
                InsertAt(s, at, c)[i] = IF i < at THEN s[i] ELSE IF i = at THEN c ELSE s[i - 1]
  <1>. DEFINE a == SubSeq(s, 1, at - 1)
              b == SubSeq(s, at, Len(s))
              p == InsertAt(s, at, c)
              n == Len(s)
  <1>1. n \in Nat /\ DOMAIN s = 1 .. n /\ at \in Nat /\ \A i \in 1 .. n : s[i] \in T
    OBVIOUS
  <1>2. a \in Seq(T) /\ Len(a) = at - 1 /\ \A i \in 1 .. (at - 1) : a[i] = s[i]
    BY <1>1
  <1>3. b \in Seq(T) /\ Len(b) = n - at + 1 /\ \A i \in 1 .. (n - at + 1) : b[i] = s[at + i - 1]
    BY <1>1
  <1>4. p = a \o <<c>> \o b
    BY DEF InsertAt
  <1>5. <<c>> \in Seq(T) /\ Len(<<c>>) = 1 /\ <<c>>[1] = c
    OBVIOUS
  <1>. HIDE DEF a, b, p, n
  <1>6. a \o <<c>> \in Seq(T) /\ Len(a \o <<c>>) = at /\ (a \o <<c>>)[at] = c
        /\ \A i \in 1 .. (at - 1) : (a \o <<c>>)[i] = a[i]
    BY <1>1, <1>2, <1>5
  <1>7. /\ p \in Seq(T) /\ Len(p) = n + 1 /\ DOMAIN p = 1 .. (n + 1)
    <2>1. PICK d : d = a \o <<c>>
      OBVIOUS
    <2>2. d \in Seq(T) /\ Len(d) = at /\ p = d \o b
      BY <1>4, <1>6, <2>1
    <2>3. p \in Seq(T) /\ Len(p) = Len(d) + Len(b)
      <3>1. b \in Seq(T)
        BY <1>3
      <3>. QED  BY <2>2, <3>1, ConcatProperties
    <2>4. Len(p) = n + 1
      BY <1>1, <1>3, <2>2, <2>3
    <2>. QED  BY <2>3, <2>4
  <1>8. \A i \in 1 .. (n + 1) : p[i] = IF i < at THEN s[i] ELSE IF i = at THEN c ELSE s[i - 1]
    <2>. SUFFICES ASSUME NEW i \in 1 .. (n + 1)
                  PROVE  p[i] = IF i < at THEN s[i] ELSE IF i = at THEN c ELSE s[i - 1]
      OBVIOUS
    <2>1. CASE i <= at
      <3>1. p[i] = (a \o <<c>>)[i]
        BY <1>1, <1>3, <1>4, <1>6, <2>1
      <3>. QED  BY <1>1, <1>2, <1>6, <2>1, <3>1
    <2>2. CASE i > at
      <3>1. i - at \in 1 .. (n - at + 1) /\ at + (i - at) - 1 = i - 1
        BY <1>1, <2>2 DEF n
      <3>2. p[i] = b[i - at]
        <4>1. PICK d : d = a \o <<c>>
          OBVIOUS
        <4>2. d \in Seq(T) /\ b \in Seq(T) /\ Len(d) = at /\ p = d \o b
          BY <1>3, <1>4, <1>6, <4>1
        <4>3. \A k \in 1 .. (Len(d) + Len(b)) : p[k] = IF k <= Len(d) THEN d[k] ELSE b[k - Len(d)]
          BY <4>2, ConcatProperties
        <4>4. i \in 1 .. (Len(d) + Len(b)) /\ ~(i <= Len(d))
          BY <1>1, <1>3, <2>2, <4>2
        <4>. QED  BY <4>2, <4>3, <4>4
      <3>. QED  BY <1>1, <1>3, <2>2, <3>1, <3>2
    <2>. QED  BY <1>1, <2>1, <2>2
  <1>. QED  BY <1>7, <1>8 DEF p, n

\* A list with one more element.
LEMMA InsertFacts ==
    ASSUME NEW T, NEW s \in Seq(T), NEW c \in T, c \notin Range(s), Distinct(s),
           NEW at \in 1 .. (Len(s) + 1)
    PROVE  /\ InsertAt(s, at, c) \in Seq(T) /\ Distinct(InsertAt(s, at, c))
           /\ Range(InsertAt(s, at, c)) = Range(s) \cup {c}
  <1>. DEFINE p == InsertAt(s, at, c)
              n == Len(s)
  <1>1. n \in Nat /\ DOMAIN s = 1 .. n /\ at \in Nat /\ \A i \in 1 .. n : s[i] \in T
    OBVIOUS
  <1>7. /\ p \in Seq(T) /\ Len(p) = n + 1 /\ DOMAIN p = 1 .. (n + 1)
    BY InsertPlaces
  <1>8. \A i \in 1 .. (n + 1) : p[i] = IF i < at THEN s[i] ELSE IF i = at THEN c ELSE s[i - 1]
    BY InsertPlaces
  <1>. HIDE DEF p, n
  <1>9. \A i \in 1 .. n : s[i] # c
    BY <1>1 DEF Range
  <1>10. Distinct(p)
    <2>. SUFFICES ASSUME NEW i \in 1 .. (n + 1), NEW j \in 1 .. (n + 1), p[i] = p[j]  PROVE i = j
      BY <1>7 DEF Distinct
    <2>. DEFINE Old(k) == IF k < at THEN k ELSE k - 1
    <2>1. \A k \in 1 .. (n + 1) : k # at => Old(k) \in 1 .. n /\ p[k] = s[Old(k)] /\ p[k] # c
      BY <1>1, <1>8, <1>9 DEF n
    <2>2. p[at] = c /\ at \in 1 .. (n + 1)
      BY <1>1, <1>8 DEF n
    <2>3. i = at <=> j = at
      BY <2>1, <2>2
    <2>4. CASE i # at /\ j # at
      <3>1. Old(i) = Old(j)
        BY <1>1, <2>1, <2>4 DEF Distinct
      <3>. QED  BY <1>1, <2>4, <3>1
    <2>. QED  BY <2>3, <2>4
  <1>11. Range(p) \subseteq Range(s) \cup {c}
    <2>. SUFFICES ASSUME NEW i \in 1 .. (n + 1)  PROVE p[i] \in Range(s) \cup {c}
      BY <1>7 DEF Range
    <2>1. i # at => \E k \in 1 .. n : p[i] = s[k]
      BY <1>1, <1>8 DEF n
    <2>. QED  BY <1>1, <1>8, <2>1 DEF Range
  <1>12. Range(s) \cup {c} \subseteq Range(p)
    <2>1. p[at] = c /\ at \in DOMAIN p
      BY <1>1, <1>7, <1>8 DEF n
    <2>2. ASSUME NEW k \in 1 .. n  PROVE \E i \in DOMAIN p : p[i] = s[k]
      <3>1. CASE k < at
        <4>1. k \in 1 .. (n + 1) /\ p[k] = s[k]
          BY <1>1, <1>8, <3>1
        <4>. QED  BY <1>7, <4>1
      <3>2. CASE ~(k < at)
        <4>1. k + 1 \in 1 .. (n + 1) /\ p[k + 1] = s[k]
          BY <1>1, <1>8, <3>2
        <4>. QED  BY <1>7, <4>1
      <3>. QED  BY <3>1, <3>2
    <2>. QED  BY <1>1, <2>1, <2>2 DEF Range
  <1>. QED  BY <1>7, <1>10, <1>11, <1>12 DEF p

-----------------------------------------------------------------------------
(* Trees.                                                                  *)

Shape(t) ==
    /\ DOMAIN t = {"parent", "order", "kids", "consistent"}
    /\ t.parent \in [Channels -> Parents \cup {Absent}]
    /\ DOMAIN t.order = Channels
    /\ t.kids \in [Parents -> Seq(Channels)]

IsTree(t) == Shape(t) /\ ListsAgree(t) /\ Rooted(t)

Settled(t, c) == t.order[c] = IF Has(t, c) THEN OrderIn(t.kids[t.parent[c]], c) ELSE Absent

\* A tree with one channel missing in its parent's list.
Lacks(t, c) ==
    /\ Shape(t)
    /\ \A p \in Parents : Distinct(t.kids[p])
    /\ \A p \in Parents : Range(t.kids[p]) = {d \in Channels : t.parent[d] = p} \ {c}
    /\ \A d \in Channels : t.parent[d] \in Channels => Has(t, t.parent[d])
    /\ \A d \in Channels : d # c => Settled(t, d)

Same(u, t) == Shape(u) /\ u.parent = t.parent /\ u.order = t.order /\ u.kids = t.kids

LEMMA ChannelFacts ==
    /\ Top \in Parents /\ Top \notin Channels /\ Channels \subseteq Parents
    /\ Absent \notin Parents /\ Absent \notin Channels
    /\ \A p \in Parents : p = Top \/ p \in Channels
  BY ChannelsAssumption DEF Parents

LEMMA FlawedSame ==
    ASSUME NEW t, Shape(t)
    PROVE  Same(Flawed(t), t) /\ \A b : Same(FlawedIf(t, b), t)
  BY DEF Shape, Same, Flawed, FlawedIf

\* What the lists and orders say depends on the parents, the orders and the lists.
LEMMA SameTree ==
    ASSUME NEW t, NEW u, Same(u, t)
    PROVE  /\ ListsAgree(u) <=> ListsAgree(t)
           /\ Rooted(u) <=> Rooted(t)
           /\ \A c : Lacks(t, c) => Lacks(u, c)
           /\ \A c : Has(u, c) <=> Has(t, c)
  <1>1. Shape(u) /\ u.parent = t.parent /\ u.order = t.order /\ u.kids = t.kids
    BY DEF Same
  <1>2. \A c : Has(u, c) <=> Has(t, c)
    BY <1>1 DEF Has
  <1>3. ListsAgree(u) <=> ListsAgree(t)
    BY <1>1, <1>2 DEF ListsAgree
  <1>4. Rooted(u) <=> Rooted(t)
    BY <1>1, <1>2 DEF Rooted, Ancestry, Upward
  <1>5. \A c : Lacks(t, c) => Lacks(u, c)
    BY <1>1, <1>2 DEF Lacks, Settled
  <1>. QED  BY <1>2, <1>3, <1>4, <1>5

LEMMA ListedFields ==
    ASSUME NEW t, Shape(t), NEW p \in Parents, NEW list \in Seq(Channels)
    PROVE  /\ Shape(Listed(t, p, list)) /\ Listed(t, p, list).parent = t.parent
           /\ Listed(t, p, list).kids[p] = list
           /\ \A q \in Parents : q # p => Listed(t, p, list).kids[q] = t.kids[q]
           /\ \A c \in Channels : Listed(t, p, list).order[c] =
                                    IF c \in Range(list) THEN OrderIn(list, c) ELSE t.order[c]
  <1>. DEFINE order == [c \in Channels |-> IF c \in Range(list) THEN OrderIn(list, c) ELSE t.order[c]]
              u == [t EXCEPT !.kids[p] = list, !.order = order]
  <1>1. Listed(t, p, list) = u
    BY DEF Listed
  <1>2. DOMAIN order = Channels /\ \A c \in Channels : order[c] = IF c \in Range(list) THEN OrderIn(list, c) ELSE t.order[c]
    OBVIOUS
  <1>. HIDE DEF order
  <1>3. /\ DOMAIN u = {"parent", "order", "kids", "consistent"} /\ u.parent = t.parent
        /\ u.order = order /\ u.kids = [t.kids EXCEPT ![p] = list]
    BY DEF Shape
  <1>. HIDE DEF u
  <1>4. Shape(u)
    BY <1>2, <1>3 DEF Shape
  <1>5. u.kids[p] = list /\ \A q \in Parents : q # p => u.kids[q] = t.kids[q]
    BY <1>3 DEF Shape
  <1>. QED  BY <1>1, <1>2, <1>3, <1>4, <1>5

\* The place is one of the list's, or behind it.
LEMMA PlaceFacts ==
    ASSUME NEW list \in Seq(Channels), NEW after
    PROVE  PlaceAfter(list, after) \in 1 .. (Len(list) + 1)
  <1>1. Len(list) \in Nat /\ DOMAIN list = 1 .. Len(list)
    OBVIOUS
  <1>2. CASE after = Top
    <2>1. after \notin Range(list)
      BY <1>2, ChannelFacts DEF Range
    <2>2. PlaceAfter(list, after) = 1
      BY <1>2, <2>1 DEF PlaceAfter
    <2>. QED  BY <1>1, <2>2
  <1>3. CASE after # Top /\ after \in Range(list)
    <2>1. \E i \in DOMAIN list : list[i] = after
      BY <1>3 DEF Range
    <2>2. PICK at : at = CHOOSE i \in DOMAIN list : list[i] = after
      OBVIOUS
    <2>3. at \in 1 .. Len(list)
      BY <1>1, <2>1, <2>2
    <2>4. PlaceAfter(list, after) = at + 1
      BY <1>3, <2>2 DEF PlaceAfter
    <2>. QED  BY <1>1, <2>3, <2>4
  <1>4. CASE after # Top /\ after \notin Range(list)
    BY <1>1, <1>4 DEF PlaceAfter
  <1>. QED  BY <1>2, <1>3, <1>4

\* insert: the channel is put in its parent's list, and the tree is complete.
LEMMA InsertOK ==
    ASSUME NEW t, NEW c \in Channels, NEW p \in Parents, NEW after, Lacks(t, c), t.parent[c] = p
    PROVE  /\ Shape(Insert(t, p, c, after)) /\ ListsAgree(Insert(t, p, c, after))
           /\ Insert(t, p, c, after).parent = t.parent
  <1>0. PICK old : old = t.kids[p]
    OBVIOUS
  <1>1. PICK at : at = PlaceAfter(old, after)
    OBVIOUS
  <1>2. PICK list : list = InsertAt(old, at, c)
    OBVIOUS
  <1>3. PICK u : u = Listed(t, p, list)
    OBVIOUS
  <1>4. /\ old \in Seq(Channels) /\ Distinct(old) /\ Range(old) = {d \in Channels : t.parent[d] = p} \ {c}
        /\ Shape(t)
    BY <1>0 DEF Lacks, Shape
  <1>5. at \in 1 .. (Len(old) + 1)
    BY <1>1, <1>4, PlaceFacts
  <1>6. list \in Seq(Channels) /\ Distinct(list) /\ Range(list) = Range(old) \cup {c}
    BY <1>2, <1>4, <1>5, InsertFacts
  <1>7. /\ Shape(u) /\ u.parent = t.parent /\ u.kids[p] = list
        /\ \A q \in Parents : q # p => u.kids[q] = t.kids[q]
        /\ \A d \in Channels : u.order[d] = IF d \in Range(list) THEN OrderIn(list, d) ELSE t.order[d]
    BY <1>3, <1>4, <1>6, ListedFields
  <1>8. \A d : Has(u, d) <=> Has(t, d)
    BY <1>7 DEF Has
  <1>9. Range(list) = {d \in Channels : t.parent[d] = p}
    BY <1>4, <1>6
  <1>10. ListsAgree(u)
    <2>1. \A q \in Parents : Distinct(u.kids[q])
      BY <1>6, <1>7 DEF Lacks
    <2>2. \A q \in Parents : Range(u.kids[q]) = {d \in Channels : u.parent[d] = q}
      <3>1. ASSUME NEW q \in Parents, q # p
            PROVE  Range(u.kids[q]) = {d \in Channels : u.parent[d] = q}
        <4>1. Range(t.kids[q]) = {d \in Channels : t.parent[d] = q} \ {c}
          BY DEF Lacks
        <4>. QED  BY <1>7, <3>1, <4>1
      <3>. QED  BY <1>7, <1>9, <3>1
    <2>3. \A d \in Channels : u.parent[d] \in Channels => Has(u, u.parent[d])
      BY <1>7, <1>8 DEF Lacks
    <2>4. ASSUME NEW d \in Channels
          PROVE  u.order[d] = IF Has(u, d) THEN OrderIn(u.kids[u.parent[d]], d) ELSE Absent
      <3>1. CASE t.parent[d] = p
        <4>1. Has(u, d)
          BY <1>8, <3>1, ChannelFacts DEF Has
        <4>. QED  BY <1>7, <1>9, <3>1, <4>1
      <3>2. CASE t.parent[d] # p
        <4>1. d # c /\ d \notin Range(list)
          BY <1>9, <3>2
        <4>2. t.order[d] = IF Has(t, d) THEN OrderIn(t.kids[t.parent[d]], d) ELSE Absent
          BY <4>1 DEF Lacks, Settled
        <4>3. Has(t, d) => t.parent[d] \in Parents
          BY <1>4 DEF Has, Shape
        <4>. QED  BY <1>7, <1>8, <3>2, <4>1, <4>2, <4>3
      <3>. QED  BY <3>1, <3>2
    <2>. QED  BY <2>1, <2>2, <2>3, <2>4 DEF ListsAgree, Distinct
  <1>11. PICK b : b = (after # Top /\ after \notin Range(t.kids[p]))
    OBVIOUS
  <1>12. Insert(t, p, c, after) = FlawedIf(u, b)
    BY <1>0, <1>1, <1>2, <1>3, <1>11 DEF Insert
  <1>13. Same(FlawedIf(u, b), u)
    BY <1>7, FlawedSame
  <1>14. ListsAgree(FlawedIf(u, b)) /\ Shape(FlawedIf(u, b)) /\ FlawedIf(u, b).parent = t.parent
    BY <1>7, <1>10, <1>13, SameTree DEF Same
  <1>. QED  BY <1>12, <1>14

\* detach: the channel is taken out of its parent's list.
LEMMA DetachOK ==
    ASSUME NEW t, NEW c \in Channels, Shape(t), ListsAgree(t), Has(t, c)
    PROVE  Lacks(Detach(t, c), c) /\ Detach(t, c).parent = t.parent
  <1>0. PICK p : p = t.parent[c]
    OBVIOUS
  <1>1. PICK old : old = t.kids[p]
    OBVIOUS
  <1>2. PICK list : list = Without(old, c)
    OBVIOUS
  <1>3. PICK u : u = Listed(t, p, list)
    OBVIOUS
  <1>4. p \in Parents
    BY <1>0 DEF Has, Shape
  <1>5. old \in Seq(Channels) /\ Distinct(old) /\ Range(old) = {d \in Channels : t.parent[d] = p}
    BY <1>1, <1>4 DEF Shape, ListsAgree, Distinct
  <1>6. list \in Seq(Channels) /\ Distinct(list) /\ Range(list) = Range(old) \ {c}
    BY <1>2, <1>5, WithoutFacts
  <1>7. /\ Shape(u) /\ u.parent = t.parent /\ u.kids[p] = list
        /\ \A q \in Parents : q # p => u.kids[q] = t.kids[q]
        /\ \A d \in Channels : u.order[d] = IF d \in Range(list) THEN OrderIn(list, d) ELSE t.order[d]
    BY <1>3, <1>4, <1>6, ListedFields
  <1>8. \A d : Has(u, d) <=> Has(t, d)
    BY <1>7 DEF Has
  <1>9. \A q \in Parents : Distinct(u.kids[q])
    BY <1>6, <1>7 DEF ListsAgree, Distinct
  <1>10. \A q \in Parents : Range(u.kids[q]) = {d \in Channels : u.parent[d] = q} \ {c}
    <2>1. ASSUME NEW q \in Parents, q # p
          PROVE  Range(u.kids[q]) = {d \in Channels : u.parent[d] = q} \ {c}
      <3>1. Range(t.kids[q]) = {d \in Channels : t.parent[d] = q}
        BY DEF ListsAgree
      <3>. QED  BY <1>0, <1>7, <2>1, <3>1
    <2>. QED  BY <1>5, <1>6, <1>7, <2>1
  <1>11. \A d \in Channels : u.parent[d] \in Channels => Has(u, u.parent[d])
    BY <1>7, <1>8 DEF ListsAgree
  <1>12. ASSUME NEW d \in Channels, d # c  PROVE Settled(u, d)
    <2>1. t.order[d] = IF Has(t, d) THEN OrderIn(t.kids[t.parent[d]], d) ELSE Absent
      BY DEF ListsAgree
    <2>2. CASE t.parent[d] = p
      <3>1. Has(u, d) /\ d \in Range(list)
        BY <1>4, <1>5, <1>6, <1>8, <1>12, <2>2, ChannelFacts DEF Has
      <3>. QED  BY <1>7, <2>2, <3>1 DEF Settled
    <2>3. CASE t.parent[d] # p
      <3>1. d \notin Range(list)
        BY <1>5, <1>6, <2>3
      <3>2. Has(t, d) => t.parent[d] \in Parents
        BY DEF Has, Shape
      <3>. QED  BY <1>7, <1>8, <2>1, <2>3, <3>1, <3>2 DEF Settled
    <2>. QED  BY <2>2, <2>3
  <1>13. Lacks(u, c)
    BY <1>7, <1>9, <1>10, <1>11, <1>12 DEF Lacks
  <1>14. Detach(t, c) = u
    BY <1>0, <1>1, <1>2, <1>3 DEF Detach
  <1>. QED  BY <1>7, <1>13, <1>14

\* The channel gets another parent while it is in no list.
LEMMA ReparentOK ==
    ASSUME NEW t, NEW c \in Channels, Lacks(t, c), NEW p \in Parents, p = Top \/ Has(t, p) \/ p = c
    PROVE  /\ Lacks([t EXCEPT !.parent[c] = p], c)
           /\ [t EXCEPT !.parent[c] = p].parent = [t.parent EXCEPT ![c] = p]
  <1>1. PICK u : u = [t EXCEPT !.parent[c] = p]
    OBVIOUS
  <1>2. /\ DOMAIN u = {"parent", "order", "kids", "consistent"}
        /\ u.parent = [t.parent EXCEPT ![c] = p] /\ u.order = t.order /\ u.kids = t.kids
    BY <1>1 DEF Lacks, Shape
  <1>3. u.parent[c] = p /\ \A d \in Channels : d # c => u.parent[d] = t.parent[d]
    BY <1>2 DEF Lacks, Shape
  <1>4. Shape(u)
    BY <1>2 DEF Lacks, Shape
  <1>5. Has(u, c) /\ \A d : d # c => (Has(u, d) <=> Has(t, d))
    BY <1>3, ChannelFacts DEF Has
  <1>6. \A q \in Parents : Distinct(u.kids[q]) /\ Range(u.kids[q]) = {d \in Channels : u.parent[d] = q} \ {c}
    <2>. SUFFICES ASSUME NEW q \in Parents
                  PROVE  Distinct(u.kids[q]) /\ Range(u.kids[q]) = {d \in Channels : u.parent[d] = q} \ {c}
      OBVIOUS
    <2>1. Distinct(t.kids[q]) /\ Range(t.kids[q]) = {d \in Channels : t.parent[d] = q} \ {c}
      BY DEF Lacks
    <2>. QED  BY <1>2, <1>3, <2>1
  <1>7. \A d \in Channels : u.parent[d] \in Channels => Has(u, u.parent[d])
    <2>1. \A d \in Channels : t.parent[d] \in Channels => Has(t, t.parent[d])
      BY DEF Lacks
    <2>. QED  BY <1>3, <1>5, <2>1, ChannelFacts
  <1>8. \A d \in Channels : d # c => Settled(u, d)
    BY <1>2, <1>3, <1>5 DEF Lacks, Settled
  <1>9. Lacks(u, c)
    BY <1>4, <1>6, <1>7, <1>8 DEF Lacks
  <1>. QED  BY <1>1, <1>2, <1>9

-----------------------------------------------------------------------------
(* Ancestors, and the changes to a tree.                                   *)

\* The ancestors of a channel are the least set that holds it and goes upward.
LEMMA AncestryFacts ==
    ASSUME NEW t, Shape(t), NEW c \in Parents
    PROVE  /\ c \in Ancestry(t, c) /\ Ancestry(t, c) \in SUBSET Parents
           /\ Upward(t, Ancestry(t, c))
           /\ \A S \in SUBSET Parents : c \in S /\ Upward(t, S) => Ancestry(t, c) \subseteq S
  <1>1. c \in Ancestry(t, c) /\ Ancestry(t, c) \in SUBSET Parents
    BY DEF Ancestry
  <1>2. \A S \in SUBSET Parents : c \in S /\ Upward(t, S) => Ancestry(t, c) \subseteq S
    BY DEF Ancestry
  <1>3. ASSUME NEW d \in Ancestry(t, c), Has(t, d)  PROVE t.parent[d] \in Ancestry(t, c)
    <2>1. t.parent[d] \in Parents
      BY <1>3 DEF Has, Shape
    <2>2. ASSUME NEW S \in SUBSET Parents, c \in S, Upward(t, S)  PROVE t.parent[d] \in S
      <3>1. d \in S
        BY <1>2, <2>2
      <3>. QED  BY <1>3, <2>2, <3>1 DEF Upward
    <2>. QED  BY <2>1, <2>2 DEF Ancestry
  <1>4. Upward(t, Ancestry(t, c))
    BY <1>3 DEF Upward
  <1>. QED  BY <1>1, <1>2, <1>4

\* They are the channel and the ancestors of its parent.
LEMMA AncestryUp ==
    ASSUME NEW t, Shape(t), NEW c \in Channels, Has(t, c)
    PROVE  t.parent[c] \in Parents /\ Ancestry(t, c) = {c} \cup Ancestry(t, t.parent[c])
  <1>1. PICK p : p = t.parent[c]
    OBVIOUS
  <1>2. p \in Parents /\ c \in Parents
    BY <1>1, ChannelFacts DEF Has, Shape
  <1>3. PICK A : A = Ancestry(t, c)
    OBVIOUS
  <1>4. PICK B : B = Ancestry(t, p)
    OBVIOUS
  <1>5. /\ c \in A /\ A \in SUBSET Parents /\ Upward(t, A)
        /\ \A S \in SUBSET Parents : c \in S /\ Upward(t, S) => A \subseteq S
    BY <1>2, <1>3, AncestryFacts
  <1>6. /\ p \in B /\ B \in SUBSET Parents /\ Upward(t, B)
        /\ \A S \in SUBSET Parents : p \in S /\ Upward(t, S) => B \subseteq S
    BY <1>2, <1>4, AncestryFacts
  <1>7. p \in A
    BY <1>1, <1>5 DEF Upward
  <1>8. Upward(t, {c} \cup B)
    BY <1>1, <1>6 DEF Upward
  <1>9. A \subseteq {c} \cup B
    BY <1>2, <1>5, <1>6, <1>8
  <1>10. B \subseteq A
    BY <1>5, <1>6, <1>7
  <1>. QED  BY <1>1, <1>2, <1>3, <1>4, <1>5, <1>9, <1>10

\* Rooted, without Ancestry.
LEMMA RootedMeans ==
    ASSUME NEW t
    PROVE  Rooted(t) <=>
             \A c \in Channels : Has(t, c) =>
               \A S \in SUBSET Parents : c \in S /\ Upward(t, S) => Top \in S
  BY ChannelFacts DEF Rooted, Ancestry

\* remove: the channel goes with whatever is below, and nothing else.
LEMMA RemoveOK ==
    ASSUME NEW t, IsTree(t), NEW c \in Channels
    PROVE  /\ IsTree(RemoveChannel(t, c)) /\ ~Has(RemoveChannel(t, c), c)
  <1>1. CASE ~Has(t, c)
    <2>1. RemoveChannel(t, c) = Flawed(t)
      BY <1>1 DEF RemoveChannel
    <2>2. Same(Flawed(t), t)
      BY FlawedSame DEF IsTree
    <2>3. IsTree(Flawed(t)) /\ ~Has(Flawed(t), c)
      BY <1>1, <2>2, SameTree DEF IsTree, Same
    <2>. QED  BY <2>1, <2>3
  <1>2. CASE Has(t, c)
    <2>1. PICK below : below = {d \in Channels : Within(t, d, c)}
      OBVIOUS
    <2>2. PICK out : out = Detach(t, c)
      OBVIOUS
    <2>3. Lacks(out, c) /\ out.parent = t.parent
      BY <1>2, <2>2, DetachOK DEF IsTree
    <2>. DEFINE parent == [d \in Channels |-> IF d \in below THEN Absent ELSE out.parent[d]]
                order  == [d \in Channels |-> IF d \in below THEN Absent ELSE out.order[d]]
                kids   == [p \in Parents |-> IF p \in below THEN <<>> ELSE out.kids[p]]
    <2>4. PICK u : u = [out EXCEPT !.parent = parent, !.order = order, !.kids = kids]
      OBVIOUS
    <2>5. RemoveChannel(t, c) = FlawedIf(u, t.kids[c] # <<>>)
      BY <1>2, <2>1, <2>2, <2>4 DEF RemoveChannel
    <2>6. Shape(out)
      BY <2>3 DEF Lacks
    <2>7. /\ DOMAIN u = {"parent", "order", "kids", "consistent"}
          /\ u.parent = parent /\ u.order = order /\ u.kids = kids
      <3>. HIDE DEF parent, order, kids
      <3>. QED  BY <2>4, <2>6 DEF Shape
    <2>8. /\ \A d \in Channels : u.parent[d] = IF d \in below THEN Absent ELSE t.parent[d]
          /\ \A d \in Channels : u.order[d] = IF d \in below THEN Absent ELSE out.order[d]
          /\ \A p \in Parents : u.kids[p] = IF p \in below THEN <<>> ELSE out.kids[p]
      BY <2>3, <2>7
    <2>9. Shape(u)
      <3>1. parent \in [Channels -> Parents \cup {Absent}]
        BY <2>3, <2>6 DEF Shape
      <3>2. kids \in [Parents -> Seq(Channels)]
        <4>1. ASSUME NEW p \in Parents  PROVE kids[p] \in Seq(Channels)
          <5>1. <<>> \in Seq(Channels)
            OBVIOUS
          <5>2. out.kids[p] \in Seq(Channels)
            BY <2>6 DEF Shape
          <5>. QED  BY <5>1, <5>2
        <4>. QED  BY <4>1
      <3>3. DOMAIN order = Channels
        OBVIOUS
      <3>. HIDE DEF parent, order, kids
      <3>. QED  BY <2>7, <3>1, <3>2, <3>3 DEF Shape
    <2>. HIDE DEF parent, order, kids
    \* What is below: the channel, and who has a parent there.
    <2>10. below \subseteq Channels /\ c \in below /\ \A d \in below : Has(t, d)
      <3>1. c \in Ancestry(t, c)
        BY AncestryFacts, ChannelFacts DEF IsTree
      <3>. QED  BY <1>2, <2>1, <3>1 DEF Within
    <2>11. ASSUME NEW d \in Channels, Has(t, d)
           PROVE  d \in below <=> d = c \/ t.parent[d] \in below
      <3>1. t.parent[d] \in Parents /\ Ancestry(t, d) = {d} \cup Ancestry(t, t.parent[d])
        BY <2>11, AncestryUp DEF IsTree
      <3>2. CASE t.parent[d] = Top
        <4>1. Ancestry(t, Top) \subseteq {Top}
          <5>1. Upward(t, {Top}) /\ {Top} \in SUBSET Parents
            BY ChannelFacts DEF Upward, Has
          <5>. QED  BY <5>1, AncestryFacts, ChannelFacts DEF IsTree
        <4>. QED  BY <2>1, <2>10, <2>11, <3>1, <3>2, <4>1, ChannelFacts DEF Within
      <3>3. CASE t.parent[d] \in Channels
        <4>1. Has(t, t.parent[d])
          BY <3>3 DEF IsTree, ListsAgree
        <4>. QED  BY <2>1, <2>11, <3>1, <3>3, <4>1 DEF Within
      <3>. QED  BY <3>1, <3>2, <3>3, ChannelFacts
    <2>12. \A d \in Channels : Has(u, d) <=> Has(t, d) /\ d \notin below
      BY <2>8 DEF Has
    <2>13. ASSUME NEW p \in Parents
           PROVE  Distinct(u.kids[p]) /\ Range(u.kids[p]) = {d \in Channels : u.parent[d] = p}
      <3>1. CASE p \in below
        <4>1. u.kids[p] = <<>> /\ DOMAIN u.kids[p] = {}
          BY <2>8, <3>1
        <4>2. Distinct(u.kids[p]) /\ Range(u.kids[p]) = {}
          BY <4>1 DEF Distinct, Range
        <4>3. \A d \in Channels : u.parent[d] # p
          <5>. SUFFICES ASSUME NEW d \in Channels, u.parent[d] = p  PROVE FALSE
            OBVIOUS
          <5>1. d \notin below /\ t.parent[d] = p /\ Has(t, d)
            BY <2>8, <2>13, ChannelFacts DEF Has
          <5>. QED  BY <2>11, <3>1, <5>1
        <4>. QED  BY <4>2, <4>3
      <3>2. CASE p \notin below
        <4>1. /\ u.kids[p] = out.kids[p] /\ Distinct(out.kids[p])
              /\ Range(out.kids[p]) = {d \in Channels : t.parent[d] = p} \ {c}
          BY <2>3, <2>8, <3>2 DEF Lacks
        <4>2. ASSUME NEW d \in Channels  PROVE u.parent[d] = p <=> t.parent[d] = p /\ d # c
          <5>1. t.parent[d] = p => Has(t, d)
            BY <2>13, ChannelFacts DEF Has
          <5>2. t.parent[d] = p => (d \in below <=> d = c)
            BY <2>11, <3>2, <5>1
          <5>. QED  BY <2>8, <2>10, <2>13, <5>2, ChannelFacts
        <4>. QED  BY <4>1, <4>2
      <3>. QED  BY <3>1, <3>2
    <2>14. ASSUME NEW d \in Channels, u.parent[d] \in Channels  PROVE Has(u, u.parent[d])
      <3>1. d \notin below /\ u.parent[d] = t.parent[d]
        BY <2>8, <2>14, ChannelFacts
      <3>2. Has(t, t.parent[d]) /\ Has(t, d)
        BY <2>14, <3>1, ChannelFacts DEF IsTree, ListsAgree, Has
      <3>3. t.parent[d] \notin below
        BY <2>11, <3>1, <3>2
      <3>. QED  BY <2>12, <2>14, <3>1, <3>2, <3>3
    <2>15. ASSUME NEW d \in Channels
           PROVE  u.order[d] = IF Has(u, d) THEN OrderIn(u.kids[u.parent[d]], d) ELSE Absent
      <3>1. CASE d \in below
        BY <2>8, <2>12, <3>1
      <3>2. CASE d \notin below
        <4>1. d # c
          BY <2>10, <3>2
        <4>2. out.order[d] = IF Has(out, d) THEN OrderIn(out.kids[out.parent[d]], d) ELSE Absent
          BY <2>3, <4>1 DEF Lacks, Settled
        <4>3. (Has(out, d) <=> Has(t, d)) /\ (Has(u, d) <=> Has(t, d)) /\ u.parent[d] = t.parent[d]
          BY <2>3, <2>8, <2>12, <3>2 DEF Has
        <4>4. Has(t, d) => t.parent[d] \in Parents /\ t.parent[d] \notin below
          BY <2>11, <3>2 DEF Has, IsTree, Shape
        <4>. QED  BY <2>3, <2>8, <3>2, <4>2, <4>3, <4>4
      <3>. QED  BY <3>1, <3>2
    <2>16. ListsAgree(u)
      BY <2>13, <2>14, <2>15 DEF ListsAgree, Distinct
    <2>17. Rooted(u)
      <3>. SUFFICES ASSUME NEW d \in Channels, Has(u, d), NEW S \in SUBSET Parents, d \in S, Upward(u, S)
                    PROVE  Top \in S
        BY RootedMeans
      <3>. DEFINE R == S \ below
      <3>1. d \in R /\ R \in SUBSET Parents /\ Has(t, d)
        BY <2>12
      <3>2. ASSUME NEW e \in R, Has(t, e)  PROVE t.parent[e] \in R
        <4>1. e \in Channels /\ Has(u, e) /\ u.parent[e] = t.parent[e]
          BY <2>8, <2>12, <3>2 DEF Has
        <4>2. t.parent[e] \in S
          BY <4>1 DEF Upward
        <4>3. t.parent[e] \notin below
          BY <2>11, <3>2, <4>1
        <4>. QED  BY <4>2, <4>3
      <3>3. Upward(t, R)
        BY <3>2 DEF Upward
      <3>. HIDE DEF R
      <3>4. Top \in R
        BY <3>1, <3>3, RootedMeans DEF IsTree
      <3>. QED  BY <3>4 DEF R
    <2>18. ~Has(u, c)
      BY <2>10, <2>12
    <2>19. PICK b : b = (t.kids[c] # <<>>)
      OBVIOUS
    <2>20. Same(FlawedIf(u, b), u)
      BY <2>9, FlawedSame
    <2>21. IsTree(FlawedIf(u, b)) /\ ~Has(FlawedIf(u, b), c)
      BY <2>16, <2>17, <2>18, <2>20, SameTree DEF IsTree, Same
    <2>. QED  BY <2>5, <2>19, <2>21
  <1>. QED  BY <1>1, <1>2

\* ParentOf is the top level or a channel of the tree.
LEMMA ParentFacts ==
    ASSUME NEW t, NEW p
    PROVE  ParentOf(t, p) \in Parents /\ (ParentOf(t, p) = Top \/ Has(t, ParentOf(t, p)))
  BY ChannelFacts DEF ParentOf, Has

\* The parent changes, and the list goes with it.
LEMMA PlacedOK ==
    ASSUME NEW t, NEW c \in Channels, NEW q \in Parents, NEW after, NEW b,
           Lacks(t, c), q = Top \/ Has(t, q),
           NEW v, v = Insert(FlawedIf([t EXCEPT !.parent[c] = q], b), q, c, after)
    PROVE  Shape(v) /\ ListsAgree(v) /\ v.parent = [t.parent EXCEPT ![c] = q]
  <1>1. PICK u : u = [t EXCEPT !.parent[c] = q]
    OBVIOUS
  <1>2. Lacks(u, c) /\ u.parent = [t.parent EXCEPT ![c] = q]
    BY <1>1, ReparentOK
  <1>3. Same(FlawedIf(u, b), u)
    BY <1>2, FlawedSame DEF Lacks
  <1>4. PICK w : w = FlawedIf(u, b)
    OBVIOUS
  <1>5. Lacks(w, c) /\ w.parent = [t.parent EXCEPT ![c] = q]
    BY <1>2, <1>3, <1>4, SameTree DEF Same
  <1>6. w.parent[c] = q
    BY <1>5 DEF Lacks, Shape
  <1>7. v = Insert(w, q, c, after)
    BY <1>1, <1>4
  <1>8. Lacks(w, c)
    BY <1>5
  <1>9. Shape(v) /\ ListsAgree(v) /\ v.parent = w.parent
    BY <1>6, <1>7, <1>8, InsertOK
  <1>. QED  BY <1>5, <1>9

\* A channel that goes under one that is not below it leaves the tree rooted.
LEMMA RootedMoved ==
    ASSUME NEW t, Shape(t), Rooted(t), NEW c \in Channels, Has(t, c), NEW q \in Parents,
           q = Top \/ Has(t, q), c \notin Ancestry(t, q), NEW v, v.parent = [t.parent EXCEPT ![c] = q]
    PROVE  Rooted(v)
  <1>1. v.parent[c] = q /\ \A d \in Channels : d # c => v.parent[d] = t.parent[d]
    BY DEF Shape
  <1>2. \A d : Has(v, d) <=> Has(t, d)
    BY <1>1, ChannelFacts DEF Has
  <1>. SUFFICES ASSUME NEW d \in Channels, Has(v, d), NEW S \in SUBSET Parents, d \in S, Upward(v, S)
                PROVE  Top \in S
    BY RootedMeans
  <1>3. CASE c \notin S
    <2>1. Upward(t, S)
      BY <1>1, <1>2, <1>3 DEF Upward, Has
    <2>. QED  BY <1>2, <2>1, RootedMeans
  <1>4. CASE c \in S
    <2>1. q \in S
      BY <1>1, <1>2, <1>4 DEF Upward
    <2>2. PICK A : A = Ancestry(t, q)
      OBVIOUS
    <2>3. q \in A /\ A \in SUBSET Parents /\ Upward(t, A) /\ c \notin A
      BY <2>2, AncestryFacts
    <2>4. Upward(t, S \cap A)
      <3>. SUFFICES ASSUME NEW e \in S \cap A, Has(t, e)  PROVE t.parent[e] \in S \cap A
        BY DEF Upward
      <3>1. e # c /\ e \in Channels
        BY <2>3 DEF Has
      <3>2. v.parent[e] = t.parent[e] /\ Has(v, e)
        BY <1>1, <1>2, <3>1
      <3>. QED  BY <2>3, <3>2 DEF Upward
    <2>5. S \cap A \in SUBSET Parents /\ q \in S \cap A
      BY <2>1, <2>3
    <2>6. q # Top => q \in Channels
      BY ChannelFacts
    <2>. QED  BY <2>4, <2>5, <2>6, RootedMeans
  <1>. QED  BY <1>3, <1>4

\* So does one that was not there and has nothing below it.
LEMMA RootedAdded ==
    ASSUME NEW t, Shape(t), Rooted(t), NEW c \in Channels, ~Has(t, c), NEW q \in Parents,
           q = Top \/ Has(t, q), NEW v, v.parent = [t.parent EXCEPT ![c] = q]
    PROVE  Rooted(v)
  <1>1. v.parent[c] = q /\ \A d \in Channels : d # c => v.parent[d] = t.parent[d]
    BY DEF Shape
  <1>2. Has(v, c) /\ \A d : d # c => (Has(v, d) <=> Has(t, d))
    BY <1>1, ChannelFacts DEF Has
  <1>. SUFFICES ASSUME NEW d \in Channels, Has(v, d), NEW S \in SUBSET Parents, d \in S, Upward(v, S)
                PROVE  Top \in S
    BY RootedMeans
  <1>3. Upward(t, S)
    <2>. SUFFICES ASSUME NEW e \in S, Has(t, e)  PROVE t.parent[e] \in S
      BY DEF Upward
    <2>1. e # c /\ e \in Channels
      BY DEF Has
    <2>. QED  BY <1>1, <1>2, <2>1 DEF Upward
  <1>4. CASE d # c
    BY <1>2, <1>3, <1>4, RootedMeans
  <1>5. CASE d = c
    <2>1. q \in S
      BY <1>1, <1>2, <1>5 DEF Upward
    <2>2. q # Top => q \in Channels
      BY ChannelFacts
    <2>. QED  BY <1>3, <2>1, <2>2, RootedMeans
  <1>. QED  BY <1>4, <1>5

LEMMA CreateOK ==
    ASSUME NEW t, IsTree(t), NEW c \in Channels, NEW p, NEW after
    PROVE  IsTree(CreateChannel(t, c, p, after))
  <1>1. PICK room : room = IF Has(t, c) THEN Flawed(RemoveChannel(t, c)) ELSE t
    OBVIOUS
  <1>2. IsTree(room) /\ ~Has(room, c)
    <2>1. CASE Has(t, c)
      <3>1. PICK r : r = RemoveChannel(t, c)
        OBVIOUS
      <3>2. IsTree(r) /\ ~Has(r, c)
        BY <3>1, RemoveOK
      <3>3. Same(Flawed(r), r)
        BY <3>2, FlawedSame DEF IsTree
      <3>4. IsTree(Flawed(r)) /\ ~Has(Flawed(r), c)
        BY <3>2, <3>3, SameTree DEF IsTree, Same
      <3>. QED  BY <1>1, <2>1, <3>1, <3>4
    <2>2. CASE ~Has(t, c)
      BY <1>1, <2>2
    <2>. QED  BY <2>1, <2>2
  <1>3. PICK q : q = ParentOf(room, p)
    OBVIOUS
  <1>4. q \in Parents /\ (q = Top \/ Has(room, q))
    BY <1>3, ParentFacts
  <1>5. Lacks(room, c)
    <2>1. room.parent[c] = Absent
      BY <1>2 DEF Has
    <2>2. ASSUME NEW d \in Parents
          PROVE  Distinct(room.kids[d]) /\ Range(room.kids[d]) = {e \in Channels : room.parent[e] = d} \ {c}
      <3>1. Distinct(room.kids[d]) /\ Range(room.kids[d]) = {e \in Channels : room.parent[e] = d}
        BY <1>2 DEF IsTree, ListsAgree, Distinct
      <3>. QED  BY <2>1, <3>1, ChannelFacts
    <2>. QED  BY <1>2, <2>2 DEF Lacks, Settled, IsTree, ListsAgree
  <1>6. PICK b : b = Unknown(room, p)
    OBVIOUS
  <1>7. PICK v : v = Insert(FlawedIf([room EXCEPT !.parent[c] = q], b), q, c, after)
    OBVIOUS
  <1>8. Shape(v) /\ ListsAgree(v) /\ v.parent = [room.parent EXCEPT ![c] = q]
    BY <1>4, <1>5, <1>7, PlacedOK
  <1>9. Rooted(v)
    BY <1>2, <1>4, <1>8, RootedAdded DEF IsTree
  <1>10. CreateChannel(t, c, p, after) = v
    BY <1>1, <1>3, <1>6, <1>7 DEF CreateChannel
  <1>. QED  BY <1>8, <1>9, <1>10 DEF IsTree

LEMMA EditOK ==
    ASSUME NEW t, IsTree(t), NEW c \in Channels, NEW after
    PROVE  IsTree(EditChannel(t, c, after))
  <1>1. CASE ~Has(t, c)
    <2>1. Same(Flawed(t), t)
      BY FlawedSame DEF IsTree
    <2>2. IsTree(Flawed(t))
      BY <2>1, SameTree DEF IsTree, Same
    <2>3. CASE after # Absent
      BY <1>1, <2>2, <2>3 DEF EditChannel
    <2>4. CASE after = Absent
      <3>1. EditChannel(t, c, after) \in {Flawed(t), t}
        BY <1>1, <2>4 DEF EditChannel
      <3>. QED  BY <2>2, <3>1
    <2>. QED  BY <2>3, <2>4
  <1>2. CASE Has(t, c) /\ after = Absent
    BY <1>2 DEF EditChannel
  <1>3. CASE Has(t, c) /\ after # Absent
    <2>1. PICK u : u = Detach(t, c)
      OBVIOUS
    <2>2. Lacks(u, c) /\ u.parent = t.parent
      BY <1>3, <2>1, DetachOK DEF IsTree
    <2>3. PICK p : p = t.parent[c]
      OBVIOUS
    <2>4. p \in Parents /\ u.parent[c] = p
      BY <1>3, <2>2, <2>3 DEF Has, IsTree, Shape
    <2>5. PICK v : v = Insert(u, p, c, after)
      OBVIOUS
    <2>6. Shape(v) /\ ListsAgree(v) /\ v.parent = t.parent
      BY <2>2, <2>4, <2>5, InsertOK
    <2>7. Rooted(v)
      BY <2>6 DEF IsTree, Rooted, Ancestry, Upward, Has
    <2>8. EditChannel(t, c, after) = v
      BY <1>3, <2>1, <2>3, <2>5 DEF EditChannel
    <2>. QED  BY <2>6, <2>7, <2>8 DEF IsTree
  <1>. QED  BY <1>1, <1>2, <1>3

LEMMA MoveOK ==
    ASSUME NEW t, IsTree(t), NEW c \in Channels, NEW p, NEW after
    PROVE  IsTree(MoveChannel(t, c, p, after))
  <1>1. CASE ~Has(t, c)
    <2>1. Same(Flawed(t), t)
      BY FlawedSame DEF IsTree
    <2>2. IsTree(Flawed(t))
      BY <2>1, SameTree DEF IsTree, Same
    <2>. QED  BY <1>1, <2>2 DEF MoveChannel
  <1>2. CASE Has(t, c)
    <2>1. PICK u : u = Detach(t, c)
      OBVIOUS
    <2>2. Lacks(u, c) /\ u.parent = t.parent
      BY <1>2, <2>1, DetachOK DEF IsTree
    <2>3. PICK r : r = ParentOf(t, p)
      OBVIOUS
    <2>4. r \in Parents /\ (r = Top \/ Has(t, r))
      BY <2>3, ParentFacts
    <2>5. PICK q : q = IF Within(t, r, c) THEN t.parent[c] ELSE r
      OBVIOUS
    <2>6. t.parent[c] \in Parents /\ (t.parent[c] = Top \/ Has(t, t.parent[c]))
      BY <1>2, ChannelFacts DEF IsTree, ListsAgree, Has, Shape
    <2>7. q \in Parents /\ (q = Top \/ Has(t, q)) /\ (q = Top \/ Has(u, q))
      BY <2>2, <2>4, <2>5, <2>6 DEF Has
    <2>8. PICK b : b = (Within(t, r, c) \/ Unknown(t, p))
      OBVIOUS
    <2>9. PICK v : v = Insert(FlawedIf([u EXCEPT !.parent[c] = q], b), q, c, after)
      OBVIOUS
    <2>10. Shape(v) /\ ListsAgree(v) /\ v.parent = [t.parent EXCEPT ![c] = q]
      BY <2>2, <2>7, <2>9, PlacedOK
    <2>11. Rooted(v)
      <3>1. CASE Within(t, r, c)
        <4>1. [t.parent EXCEPT ![c] = q] = t.parent
          BY <2>5, <3>1 DEF IsTree, Shape
        <4>. QED  BY <2>10, <4>1 DEF IsTree, Rooted, Ancestry, Upward, Has
      <3>2. CASE ~Within(t, r, c)
        <4>1. c \notin Ancestry(t, q)
          <5>1. CASE q = Top
            <6>1. Upward(t, {Top}) /\ {Top} \in SUBSET Parents
              BY ChannelFacts DEF Upward, Has
            <6>2. Ancestry(t, Top) \subseteq {Top}
              BY <6>1, AncestryFacts, ChannelFacts DEF IsTree
            <6>. QED  BY <5>1, <6>2, ChannelFacts
          <5>2. CASE Has(t, q)
            BY <2>5, <3>2, <5>2 DEF Within
          <5>. QED  BY <2>7, <5>1, <5>2
        <4>. QED  BY <1>2, <2>7, <2>10, <4>1, RootedMoved DEF IsTree
      <3>. QED  BY <3>1, <3>2
    <2>12. MoveChannel(t, c, p, after) = v
      BY <1>2, <2>1, <2>3, <2>5, <2>8, <2>9 DEF MoveChannel
    <2>. QED  BY <2>10, <2>11, <2>12 DEF IsTree
  <1>. QED  BY <1>1, <1>2

\* An event that the protocol knows, of any channel and with any place.
IsEvent(e) == e.id \in Parents /\ e.kind \in {"created", "edited", "moved", "deleted"}

\* No channel event makes anything but a tree of a tree, however wrong the place is that
\* it names: applyCreated, applyEdited, applyMoved and applyDeleted.
THEOREM EventsKeepTheTree ==
    ASSUME NEW t, IsTree(t), NEW e, IsEvent(e)
    PROVE  IsTree(Apply(t, e))
  <1>1. CASE e.id = Top
    <2>1. Same(Flawed(t), t)
      BY FlawedSame DEF IsTree
    <2>2. IsTree(Flawed(t))
      BY <2>1, SameTree DEF IsTree, Same
    <2>3. Apply(t, e) = Flawed(t)
      BY <1>1 DEF Apply
    <2>. QED  BY <2>2, <2>3
  <1>2. CASE e.id # Top
    <2>1. e.id \in Channels
      BY <1>2, ChannelFacts DEF IsEvent
    <2>2. CASE e.kind = "created"
      <3>1. Apply(t, e) = CreateChannel(t, e.id, e.parent, e.order)
        BY <1>2, <2>2 DEF Apply
      <3>. QED  BY <2>1, <3>1, CreateOK
    <2>3. CASE e.kind = "edited"
      <3>1. Apply(t, e) = EditChannel(t, e.id, e.order)
        BY <1>2, <2>3 DEF Apply
      <3>. QED  BY <2>1, <3>1, EditOK
    <2>4. CASE e.kind = "moved"
      <3>1. Apply(t, e) = MoveChannel(t, e.id, e.parent, e.order)
        BY <1>2, <2>4 DEF Apply
      <3>. QED  BY <2>1, <3>1, MoveOK
    <2>5. CASE e.kind = "deleted"
      <3>1. Apply(t, e) = RemoveChannel(t, e.id)
        BY <1>2, <2>5 DEF Apply
      <3>. QED  BY <2>1, <3>1, RemoveOK
    <2>. QED  BY <2>2, <2>3, <2>4, <2>5 DEF IsEvent
  <1>. QED  BY <1>1, <1>2

-----------------------------------------------------------------------------
(* Reading a listing: the rows.                                            *)

\* At most one row per channel, and none of the top level.
OneEach(kept, R) ==
    /\ kept \in Seq(R)
    /\ \A i \in DOMAIN kept : kept[i].id \in Channels
    /\ \A i, j \in DOMAIN kept : kept[i].id = kept[j].id => i = j

LEMMA PutOK ==
    ASSUME NEW R, \A r \in R : r.id \in Parents, NEW kept, OneEach(kept, R), NEW row \in R
    PROVE  OneEach(Put(kept, row), R)
  <1>0. kept \in Seq(R) /\ Len(kept) \in Nat /\ DOMAIN kept = 1 .. Len(kept) /\ \A i \in DOMAIN kept : kept[i] \in R
    BY DEF OneEach
  <1>1. CASE row.id = Top
    BY <1>1 DEF Put
  <1>2. CASE row.id # Top /\ \E i \in DOMAIN kept : kept[i].id = row.id
    <2>1. PICK at : at = CHOOSE i \in DOMAIN kept : kept[i].id = row.id
      OBVIOUS
    <2>2. at \in DOMAIN kept /\ kept[at].id = row.id
      BY <1>2, <2>1
    <2>3. PICK new : new = [kept EXCEPT ![at] = row]
      OBVIOUS
    <2>4. /\ new \in Seq(R) /\ DOMAIN new = DOMAIN kept
          /\ \A i \in DOMAIN kept : new[i] = IF i = at THEN row ELSE kept[i]
      BY <1>0, <2>2, <2>3
    <2>5. \A i \in DOMAIN kept : new[i].id = kept[i].id
      BY <2>2, <2>4
    <2>6. Put(kept, row) = new
      BY <1>2, <2>1, <2>3 DEF Put
    <2>. QED  BY <2>4, <2>5, <2>6 DEF OneEach
  <1>3. CASE row.id # Top /\ ~\E i \in DOMAIN kept : kept[i].id = row.id
    <2>1. PICK new : new = Append(kept, row)
      OBVIOUS
    <2>2. /\ new \in Seq(R) /\ DOMAIN new = 1 .. (Len(kept) + 1) /\ new[Len(kept) + 1] = row
          /\ \A i \in DOMAIN kept : new[i] = kept[i]
      BY <1>0, <2>1, AppendFacts
    <2>3. \A i \in DOMAIN new : i \in DOMAIN kept \/ i = Len(kept) + 1
      BY <1>0, <2>2
    <2>4. row.id \in Channels
      BY <1>3, ChannelFacts
    <2>5. \A i \in DOMAIN new : new[i].id \in Channels
      BY <2>2, <2>3, <2>4 DEF OneEach
    <2>6. \A i, j \in DOMAIN new : new[i].id = new[j].id => i = j
      BY <1>3, <2>2, <2>3 DEF OneEach
    <2>7. Put(kept, row) = new
      BY <1>3, <2>1 DEF Put
    <2>. QED  BY <2>2, <2>5, <2>6, <2>7 DEF OneEach
  <1>. QED  BY <1>1, <1>2, <1>3

\* The rows are put one after the other.
LEMMA KeptSteps ==
    ASSUME NEW R, \A r \in R : r.id \in Parents, NEW list \in Seq(R)
    PROVE  \E kept :
             /\ OnePerChannel(list) = kept[Len(list)]
             /\ \A i \in 0 .. Len(list) :
                  /\ kept[i] = IF i = 0 THEN <<>> ELSE Put(kept[i - 1], list[i])
                  /\ OneEach(kept[i], R)
  <1>. DEFINE n == Len(list)
              D == {k \in Seq(R) : OneEach(k, R)}
              Body(f) == [i \in 0 .. n |-> IF i = 0 THEN <<>> ELSE Put(f[i - 1], list[i])]
              kept == CHOOSE f : f = Body(f)
              step == [i \in 1 .. n |-> [k \in D |-> Put(k, list[i])]]
  <1>1. n \in Nat /\ \A i \in 1 .. n : list[i] \in R
    OBVIOUS
  <1>2. OnePerChannel(list) = kept[n]
    BY DEF OnePerChannel
  <1>. HIDE DEF n
  <1>3. \A i \in 1 .. n : \A k \in D : step[i][k] = Put(k, list[i]) /\ step[i][k] \in D
    <2>. SUFFICES ASSUME NEW i \in 1 .. n, NEW k \in D
                  PROVE  step[i][k] = Put(k, list[i]) /\ step[i][k] \in D
      OBVIOUS
    <2>1. step[i][k] = Put(k, list[i])
      OBVIOUS
    <2>2. OneEach(Put(k, list[i]), R)
      BY <1>1, PutOK
    <2>. QED  BY <2>1, <2>2 DEF OneEach
  <1>4. <<>> \in D
    BY DEF OneEach
  <1>. HIDE DEF step, D
  <1>5. PICK f : Iterates(f, n, <<>>, step)
    BY <1>1, IteratesExists
  <1>6. \A i \in 0 .. n : f[i] \in D
    BY <1>1, <1>3, <1>4, <1>5, IteratesIn
  <1>7. \A i \in 0 .. n : i # 0 => i \in 1 .. n /\ f[i - 1] \in D
    BY <1>1, <1>6
  <1>8. f = Body(f)
    <2>1. f = [i \in 0 .. n |-> IF i = 0 THEN <<>> ELSE step[i][f[i - 1]]]
      BY <1>5 DEF Iterates
    <2>. QED  BY <1>3, <1>7, <2>1
  <1>. HIDE DEF Body
  <1>9. kept = Body(kept)
    BY <1>8
  <1>. HIDE DEF kept
  <1>10. \A i \in 0 .. n : kept[i] = IF i = 0 THEN <<>> ELSE Put(kept[i - 1], list[i])
    BY <1>9 DEF Body
  <1>. DEFINE S == {i \in 0 .. n : kept[i] \in D}
  <1>11. 0 \in S
    BY <1>1, <1>4, <1>10
  <1>12. ASSUME NEW i \in 1 .. n, i - 1 \in S  PROVE i \in S
    <2>1. i \in 0 .. n /\ i # 0 /\ kept[i] = Put(kept[i - 1], list[i])
      BY <1>1, <1>10
    <2>. QED  BY <1>3, <1>12, <2>1
  <1>. HIDE DEF S
  <1>13. \A i \in 0 .. n : i \in S
    BY <1>1, <1>11, <1>12, Steps
  <1>14. \A i \in 0 .. n : OneEach(kept[i], R)
    BY <1>13 DEF S, D
  <1>. QED  BY <1>2, <1>10, <1>14 DEF n

LEMMA OnePerChannelOK ==
    ASSUME NEW R, \A r \in R : r.id \in Parents, NEW list \in Seq(R)
    PROVE  OneEach(OnePerChannel(list), R)
  <1>1. Len(list) \in Nat
    OBVIOUS
  <1>. QED  BY <1>1, KeptSteps

\* They are all kept exactly if there is one per channel, and none of the top level.
LEMMA AllKept ==
    ASSUME NEW R, \A r \in R : r.id \in Parents, NEW list \in Seq(R)
    PROVE  /\ Len(OnePerChannel(list)) = Len(list) <=>
                /\ \A i \in DOMAIN list : list[i].id # Top
                /\ \A i, j \in DOMAIN list : list[i].id = list[j].id => i = j
           /\ Len(OnePerChannel(list)) = Len(list) => OnePerChannel(list) = list
  <1>0. PICK n : n = Len(list)
    OBVIOUS
  <1>1. n \in Nat /\ DOMAIN list = 1 .. n /\ \A i \in 1 .. n : list[i] \in R
    BY <1>0
  <1>2. PICK kept :
            /\ OnePerChannel(list) = kept[n]
            /\ \A i \in 0 .. n : /\ kept[i] = IF i = 0 THEN <<>> ELSE Put(kept[i - 1], list[i])
                                 /\ OneEach(kept[i], R)
    BY <1>0, KeptSteps
  <1>. DEFINE Clean(i) == /\ \A j \in 1 .. i : list[j].id # Top
                          /\ \A j, k \in 1 .. i : list[j].id = list[k].id => j = k
              Matches(i) == \A j \in 1 .. i : kept[i][j] = list[j]
              Good(i) == /\ Len(kept[i]) \in Nat /\ Len(kept[i]) <= i
                         /\ Len(kept[i]) = i => Matches(i)
                         /\ Clean(i) => Len(kept[i]) = i
              S == {i \in 0 .. n : Good(i)}
  <1>3. 0 \in S
    <2>1. kept[0] = <<>> /\ Len(<<>>) = 0
      BY <1>1, <1>2
    <2>2. Good(0)
      BY <2>1
    <2>. QED  BY <1>1, <2>2
  <1>4. ASSUME NEW i \in 1 .. n, i - 1 \in S  PROVE i \in S
    <2>1. PICK k : k = kept[i - 1]
      OBVIOUS
    <2>2. PICK row : row = list[i]
      OBVIOUS
    <2>3. i \in 0 .. n /\ i - 1 \in 0 .. n /\ i # 0 /\ i \in Nat /\ row \in R
      BY <1>1, <2>2
    <2>4. kept[i] = Put(k, row) /\ OneEach(k, R)
      BY <1>2, <2>1, <2>2, <2>3
    <2>5. k \in Seq(R) /\ Len(k) \in Nat /\ DOMAIN k = 1 .. Len(k)
      BY <2>4 DEF OneEach
    <2>6. /\ Len(k) <= i - 1
          /\ Len(k) = i - 1 => \A j \in 1 .. (i - 1) : k[j] = list[j]
          /\ Clean(i - 1) => Len(k) = i - 1
      <3>1. Good(i - 1)
        BY <1>4
      <3>. HIDE DEF Clean
      <3>. QED  BY <2>1, <3>1
    <2>7. Clean(i) => Clean(i - 1)
      BY <2>3
    <2>8. CASE row.id = Top
      <3>1. kept[i] = k
        BY <2>4, <2>8 DEF Put
      <3>2. ~Clean(i)
        BY <2>2, <2>3, <2>8
      <3>. HIDE DEF Clean, Matches
      <3>. QED  BY <2>3, <2>5, <2>6, <3>1, <3>2
    <2>9. CASE row.id # Top /\ \E j \in DOMAIN k : k[j].id = row.id
      <3>1. PICK at : at = CHOOSE j \in DOMAIN k : k[j].id = row.id
        OBVIOUS
      <3>2. PICK new : new = [k EXCEPT ![at] = row]
        OBVIOUS
      <3>3. kept[i] = new
        BY <2>4, <2>9, <3>1, <3>2 DEF Put
      <3>4. at \in DOMAIN k
        BY <2>9, <3>1
      <3>5. Len(new) = Len(k)
        BY <2>3, <2>5, <3>2, <3>4
      <3>6. ~Clean(i)
        <4>. SUFFICES ASSUME Clean(i)  PROVE FALSE
          OBVIOUS
        <4>1. Len(k) = i - 1 /\ \A j \in 1 .. (i - 1) : k[j] = list[j]
          <5>. HIDE DEF Clean
          <5>. QED  BY <2>6, <2>7
        <4>2. PICK j \in 1 .. (i - 1) : list[j].id = row.id
          BY <2>5, <2>9, <4>1
        <4>3. j \in 1 .. i /\ i \in 1 .. i /\ j # i
          BY <2>3
        <4>. QED  BY <2>2, <4>2, <4>3
      <3>. HIDE DEF Clean, Matches
      <3>. QED  BY <2>3, <2>5, <2>6, <3>3, <3>5, <3>6
    <2>10. CASE row.id # Top /\ ~\E j \in DOMAIN k : k[j].id = row.id
      <3>1. PICK new : new = Append(k, row)
        OBVIOUS
      <3>2. kept[i] = new
        BY <2>4, <2>10, <3>1 DEF Put
      <3>3. /\ Len(new) = Len(k) + 1 /\ new[Len(k) + 1] = row
            /\ \A j \in 1 .. Len(k) : new[j] = k[j]
        BY <2>3, <2>5, <3>1, AppendFacts
      <3>4. Len(new) = i => \A j \in 1 .. i : new[j] = list[j]
        <4>. SUFFICES ASSUME Len(new) = i, NEW j \in 1 .. i  PROVE new[j] = list[j]
          OBVIOUS
        <4>1. Len(k) = i - 1 /\ (j = i \/ j \in 1 .. (i - 1))
          BY <2>3, <2>5, <3>3
        <4>. QED  BY <2>2, <2>3, <2>6, <3>3, <4>1
      <3>5. Clean(i) => Len(new) = i
        <4>. HIDE DEF Clean
        <4>. QED  BY <2>3, <2>6, <2>7, <3>3
      <3>. HIDE DEF Clean
      <3>. QED  BY <2>3, <2>5, <2>6, <3>2, <3>3, <3>4, <3>5
    <2>. QED  BY <2>8, <2>9, <2>10
  <1>. HIDE DEF S, Good
  <1>5. \A i \in 0 .. n : i \in S
    BY <1>1, <1>3, <1>4, Steps
  <1>6. Good(n)
    <2>1. n \in S
      BY <1>1, <1>5
    <2>. QED  BY <2>1 DEF S
  <1>7. OneEach(kept[n], R)
    BY <1>1, <1>2
  <1>8. PICK last : last = kept[n]
    OBVIOUS
  <1>9. /\ last \in Seq(R) /\ Len(last) \in Nat /\ DOMAIN last = 1 .. Len(last)
        /\ \A i \in DOMAIN last : last[i].id \in Channels
        /\ \A i, j \in DOMAIN last : last[i].id = last[j].id => i = j
    BY <1>7, <1>8 DEF OneEach
  <1>10. Len(last) = n => last = list
    <2>. SUFFICES ASSUME Len(last) = n  PROVE last = list
      OBVIOUS
    <2>1. \A j \in 1 .. n : last[j] = list[j]
      BY <1>6, <1>8 DEF Good
    <2>. QED  BY <1>0, <1>1, <1>9, <2>1, SeqEqual
  <1>11. Len(last) = n => Clean(n)
    BY <1>1, <1>9, <1>10, ChannelFacts
  <1>12. Clean(n) => Len(last) = n
    <2>. HIDE DEF Clean
    <2>. QED  BY <1>6, <1>8 DEF Good
  <1>. QED  BY <1>0, <1>1, <1>2, <1>8, <1>10, <1>11, <1>12

-----------------------------------------------------------------------------
(* What sequences have.                                                    *)

LEMMA EmptyFacts == <<>> \in Seq({}) /\ Range(<<>>) = {} /\ Distinct(<<>>) /\ Len(<<>>) = 0
  BY DEF Range, Distinct

LEMMA AppendRange ==
    ASSUME NEW T, NEW s \in Seq(T), NEW x \in T
    PROVE  /\ Append(s, x) \in Seq(T) /\ Range(Append(s, x)) = Range(s) \cup {x}
           /\ Distinct(s) /\ x \notin Range(s) => Distinct(Append(s, x))
  <1>1. PICK p : p = Append(s, x)
    OBVIOUS
  <1>2. /\ p \in Seq(T) /\ DOMAIN p = 1 .. (Len(s) + 1) /\ Len(s) \in Nat /\ DOMAIN s = 1 .. Len(s)
        /\ \A i \in DOMAIN s : p[i] = s[i]
        /\ p[Len(s) + 1] = x
    BY <1>1, AppendFacts
  <1>3. /\ \A i \in DOMAIN p : i \in DOMAIN s \/ i = Len(s) + 1
        /\ \A i \in DOMAIN s : i \in DOMAIN p
        /\ Len(s) + 1 \in DOMAIN p
    BY <1>2
  <1>4. Range(p) = Range(s) \cup {x}
    BY <1>2, <1>3 DEF Range
  <1>5. Distinct(s) /\ x \notin Range(s) => Distinct(p)
    BY <1>2, <1>3 DEF Range, Distinct
  <1>. QED  BY <1>1, <1>2, <1>4, <1>5

LEMMA ConcatRange ==
    ASSUME NEW T, NEW a \in Seq(T), NEW b \in Seq(T)
    PROVE  /\ a \o b \in Seq(T) /\ Len(a \o b) = Len(a) + Len(b)
           /\ Range(a \o b) = Range(a) \cup Range(b)
  <1>1. PICK p : p = a \o b
    OBVIOUS
  <1>2. /\ p \in Seq(T) /\ Len(p) = Len(a) + Len(b)
        /\ \A i \in 1 .. (Len(a) + Len(b)) : p[i] = IF i <= Len(a) THEN a[i] ELSE b[i - Len(a)]
    BY <1>1, ConcatProperties
  <1>3. /\ Len(a) \in Nat /\ Len(b) \in Nat
        /\ DOMAIN a = 1 .. Len(a) /\ DOMAIN b = 1 .. Len(b) /\ DOMAIN p = 1 .. (Len(a) + Len(b))
    BY <1>2
  <1>4. Range(p) \subseteq Range(a) \cup Range(b)
    <2>. SUFFICES ASSUME NEW i \in DOMAIN p  PROVE p[i] \in Range(a) \cup Range(b)
      BY DEF Range
    <2>1. \/ i \in DOMAIN a /\ p[i] = a[i]
          \/ i - Len(a) \in DOMAIN b /\ p[i] = b[i - Len(a)]
      BY <1>2, <1>3
    <2>. QED  BY <2>1 DEF Range
  <1>5. Range(a) \subseteq Range(p)
    <2>1. \A i \in DOMAIN a : i \in DOMAIN p /\ p[i] = a[i]
      BY <1>2, <1>3
    <2>. QED  BY <2>1 DEF Range
  <1>6. Range(b) \subseteq Range(p)
    <2>1. \A i \in DOMAIN b : i + Len(a) \in DOMAIN p /\ p[i + Len(a)] = b[i]
      BY <1>2, <1>3
    <2>. QED  BY <2>1 DEF Range
  <1>. QED  BY <1>1, <1>2, <1>4, <1>5, <1>6

LEMMA HeadTailRange ==
    ASSUME NEW T, NEW s \in Seq(T), s # <<>>
    PROVE  /\ Head(s) \in T /\ Tail(s) \in Seq(T)
           /\ Len(s) \in Nat /\ Len(Tail(s)) \in Nat /\ Len(s) = Len(Tail(s)) + 1
           /\ Range(s) = {Head(s)} \cup Range(Tail(s))
  <1>1. PICK t : t = Tail(s)
    OBVIOUS
  <1>2. /\ Head(s) \in T /\ t \in Seq(T) /\ Len(t) = Len(s) - 1 /\ Head(s) = s[1]
        /\ \A i \in 1 .. Len(t) : t[i] = s[i + 1]
    BY <1>1, HeadTailProperties
  <1>3. /\ Len(s) \in Nat /\ Len(s) # 0 /\ DOMAIN s = 1 .. Len(s) /\ DOMAIN t = 1 .. Len(t)
    BY <1>2, EmptySeq
  <1>4. Range(s) \subseteq {Head(s)} \cup Range(t)
    <2>. SUFFICES ASSUME NEW i \in DOMAIN s  PROVE s[i] \in {Head(s)} \cup Range(t)
      BY DEF Range
    <2>1. i = 1 \/ (i - 1 \in DOMAIN t /\ s[i] = t[i - 1])
      BY <1>2, <1>3
    <2>. QED  BY <1>2, <2>1 DEF Range
  <1>5. {Head(s)} \cup Range(t) \subseteq Range(s)
    <2>1. 1 \in DOMAIN s /\ \A i \in DOMAIN t : i + 1 \in DOMAIN s /\ t[i] = s[i + 1]
      BY <1>2, <1>3
    <2>. QED  BY <1>2, <2>1 DEF Range
  <1>. QED  BY <1>1, <1>2, <1>3, <1>4, <1>5

-----------------------------------------------------------------------------
(* Reading a listing: the order of siblings.                               *)

\* N[i] is what sibling i follows; F[o] has as many as follow o.
AreFollowers(F, n, N, ids) ==
    \A o \in ids : F[o] \in Seq(ids) /\ Len(F[o]) = Cardinality({i \in 1 .. n : N[i] = o})

\* The siblings that follow another.
Behind(n, N, ids) == {i \in 1 .. n : N[i] \in ids}

\* The siblings that one not yet visited will put to do.
Left(n, N, ids, out) == {i \in 1 .. n : N[i] \in ids \ Range(out)}

Visits(ids) == [todo : Seq(ids), out : Seq(ids)]

\* A visit loses nothing, repeats nothing, and leaves less to do.
LEMMA VisitOK ==
    ASSUME NEW n \in Nat, NEW N, NEW ids, NEW F, AreFollowers(F, n, N, ids), NEW s \in Visits(ids)
    PROVE  /\ Visit(F, s) \in Visits(ids)
           /\ Distinct(s.out) => Distinct(Visit(F, s).out)
           /\ Range(s.out) \cup Range(s.todo) \subseteq Range(Visit(F, s).out) \cup Range(Visit(F, s).todo)
           /\ s.todo = <<>> => Visit(F, s) = s
           /\ s.todo # <<>> => Len(Visit(F, s).todo) + Cardinality(Left(n, N, ids, Visit(F, s).out))
                                 = (Len(s.todo) + Cardinality(Left(n, N, ids, s.out))) - 1
  <1>1. s.todo \in Seq(ids) /\ s.out \in Seq(ids) /\ s = [todo |-> s.todo, out |-> s.out]
    BY DEF Visits
  <1>2. CASE s.todo = <<>>
    BY <1>2 DEF Visit
  <1>3. CASE s.todo # <<>>
    <2>1. PICK h : h = Head(s.todo)
      OBVIOUS
    <2>2. PICK rest : rest = Tail(s.todo)
      OBVIOUS
    <2>3. /\ h \in ids /\ rest \in Seq(ids) /\ Range(s.todo) = {h} \cup Range(rest)
          /\ Len(rest) \in Nat /\ Len(s.todo) = Len(rest) + 1
      BY <1>1, <1>3, <2>1, <2>2, HeadTailRange
    <2>4. PICK v : v = Visit(F, s)
      OBVIOUS
    <2>5. IsFiniteSet(Left(n, N, ids, s.out)) /\ Cardinality(Left(n, N, ids, s.out)) \in Nat
      <3>1. IsFiniteSet(1 .. n) /\ Left(n, N, ids, s.out) \subseteq 1 .. n
        BY FS_Interval DEF Left
      <3>. QED  BY <3>1, FS_Subset, FS_CardinalityType
    <2>6. CASE h \in Range(s.out)
      <3>1. v = [todo |-> rest, out |-> s.out]
        BY <1>1, <1>3, <2>1, <2>2, <2>4, <2>6 DEF Visit
      <3>2. v \in Visits(ids) /\ v.todo = rest /\ v.out = s.out
        BY <1>1, <2>3, <3>1 DEF Visits
      <3>. QED  BY <1>3, <2>3, <2>4, <2>5, <2>6, <3>2
    <2>7. CASE h \notin Range(s.out)
      <3>1. v = [todo |-> F[h] \o rest, out |-> Append(s.out, h)]
        BY <1>1, <1>3, <2>1, <2>2, <2>4, <2>7 DEF Visit
      <3>2. F[h] \in Seq(ids) /\ Len(F[h]) = Cardinality({i \in 1 .. n : N[i] = h})
        BY <2>3 DEF AreFollowers
      <3>3. /\ v.todo \in Seq(ids) /\ Len(v.todo) = Len(F[h]) + Len(rest)
            /\ Range(v.todo) = Range(F[h]) \cup Range(rest)
        BY <2>3, <3>1, <3>2, ConcatRange
      <3>4. /\ v.out \in Seq(ids) /\ Range(v.out) = Range(s.out) \cup {h}
            /\ Distinct(s.out) => Distinct(v.out)
        BY <1>1, <2>3, <2>7, <3>1, AppendRange
      <3>5. v \in Visits(ids)
        <4>1. v = [todo |-> v.todo, out |-> v.out]
          BY <3>1
        <4>. QED  BY <3>3, <3>4, <4>1 DEF Visits
      <3>6. Cardinality(Left(n, N, ids, v.out)) = Cardinality(Left(n, N, ids, s.out)) - Len(F[h])
        <4>. DEFINE L == Left(n, N, ids, s.out)
                    M == {i \in 1 .. n : N[i] = h}
        <4>1. M \subseteq L
          BY <2>3, <2>7 DEF Left
        <4>2. Left(n, N, ids, v.out) = L \ M
          BY <3>4 DEF Left
        <4>3. L \cap M = M
          BY <4>1
        <4>. HIDE DEF L, M
        <4>4. Cardinality(L \ M) = Cardinality(L) - Cardinality(L \cap M)
          <5>1. IsFiniteSet(L)
            BY <2>5 DEF L
          <5>. QED  BY <5>1, FS_Difference
        <4>5. Cardinality(M) = Len(F[h])
          BY <3>2 DEF M
        <4>. QED  BY <4>2, <4>3, <4>4, <4>5 DEF L
      <3>7. Len(F[h]) \in Nat
        BY <3>2
      <3>8. Len(v.todo) + Cardinality(Left(n, N, ids, v.out)) = (Len(s.todo) + Cardinality(Left(n, N, ids, s.out))) - 1
        BY <2>3, <2>5, <3>3, <3>6, <3>7
      <3>9. Range(s.out) \cup Range(s.todo) \subseteq Range(v.out) \cup Range(v.todo)
        BY <2>3, <3>3, <3>4
      <3>. QED  BY <1>3, <2>4, <3>4, <3>5, <3>8, <3>9
    <2>. QED  BY <2>6, <2>7
  <1>. QED  BY <1>2, <1>3

\* A visit, case by case.
Visited(F, s, v) ==
    /\ s.todo = <<>> => v = s
    /\ s.todo # <<>> /\ Head(s.todo) \in Range(s.out) => v.todo = Tail(s.todo) /\ v.out = s.out
    /\ s.todo # <<>> /\ Head(s.todo) \notin Range(s.out) =>
         v.todo = F[Head(s.todo)] \o Tail(s.todo) /\ v.out = Append(s.out, Head(s.todo))

LEMMA VisitCases ==
    ASSUME NEW ids, NEW F, \A o \in ids : F[o] \in Seq(ids), NEW s \in Visits(ids)
    PROVE  Visit(F, s) \in Visits(ids) /\ Visited(F, s, Visit(F, s))
  <1>. USE DEF Visited
  <1>1. s.todo \in Seq(ids) /\ s.out \in Seq(ids) /\ s = [todo |-> s.todo, out |-> s.out]
    BY DEF Visits
  <1>2. CASE s.todo = <<>>
    BY <1>2 DEF Visit
  <1>3. CASE s.todo # <<>>
    <2>1. PICK h : h = Head(s.todo)
      OBVIOUS
    <2>2. PICK rest : rest = Tail(s.todo)
      OBVIOUS
    <2>3. h \in ids /\ rest \in Seq(ids)
      BY <1>1, <1>3, <2>1, <2>2, HeadTailRange
    <2>4. PICK v : v = Visit(F, s)
      OBVIOUS
    <2>5. CASE h \in Range(s.out)
      <3>1. v = [todo |-> rest, out |-> s.out]
        BY <1>1, <1>3, <2>1, <2>2, <2>4, <2>5 DEF Visit
      <3>2. v \in Visits(ids) /\ v.todo = rest /\ v.out = s.out
        BY <1>1, <2>3, <3>1 DEF Visits
      <3>. QED  BY <1>3, <2>1, <2>2, <2>4, <2>5, <3>2
    <2>6. CASE h \notin Range(s.out)
      <3>1. PICK todo : todo = F[h] \o rest
        OBVIOUS
      <3>2. PICK out : out = Append(s.out, h)
        OBVIOUS
      <3>3. v = [todo |-> todo, out |-> out]
        BY <1>1, <1>3, <2>1, <2>2, <2>4, <2>6, <3>1, <3>2 DEF Visit
      <3>4. todo \in Seq(ids) /\ out \in Seq(ids)
        BY <1>1, <2>3, <3>1, <3>2, ConcatRange, AppendRange
      <3>5. v \in Visits(ids) /\ v.todo = todo /\ v.out = out
        BY <3>3, <3>4 DEF Visits
      <3>. QED  BY <1>3, <2>1, <2>2, <2>4, <2>6, <3>1, <3>2, <3>5
    <2>. QED  BY <2>5, <2>6
  <1>. QED  BY <1>2, <1>3

\* One visit after the other.
AreVisits(visited, ids, F, todo, steps) ==
    /\ Follow(F, todo, steps) = visited[steps].out
    /\ \A k \in 0 .. steps :
         /\ visited[k] \in Visits(ids)
         /\ visited[k] = IF k = 0 THEN [todo |-> todo, out |-> <<>>] ELSE Visit(F, visited[k - 1])

LEMMA FollowSteps ==
    ASSUME NEW ids, NEW F, \A o \in ids : F[o] \in Seq(ids), NEW todo \in Seq(ids), NEW steps \in Nat
    PROVE  \E visited : AreVisits(visited, ids, F, todo, steps)
  <1>. DEFINE D == Visits(ids)
              base == [todo |-> todo, out |-> <<>>]
              Body(f) == [k \in 0 .. steps |-> IF k = 0 THEN [todo |-> todo, out |-> <<>>] ELSE Visit(F, f[k - 1])]
              visited == CHOOSE f : f = Body(f)
              step == [k \in 1 .. steps |-> [s \in D |-> Visit(F, s)]]
  <1>1. Follow(F, todo, steps) = visited[steps].out
    BY DEF Follow
  <1>2. base \in D
    BY DEF Visits
  <1>3. \A k \in 1 .. steps : \A s \in D : step[k][s] = Visit(F, s) /\ step[k][s] \in D
    BY VisitCases
  <1>. HIDE DEF step, base
  <1>4. PICK f : Iterates(f, steps, base, step)
    BY IteratesExists
  <1>. HIDE DEF D
  <1>5. \A k \in 0 .. steps : f[k] \in D
    BY <1>2, <1>3, <1>4, IteratesIn
  <1>6. \A k \in 0 .. steps : k # 0 => k \in 1 .. steps /\ f[k - 1] \in D
    BY <1>5
  <1>7. f = Body(f)
    <2>1. f = [k \in 0 .. steps |-> IF k = 0 THEN base ELSE step[k][f[k - 1]]]
      BY <1>4 DEF Iterates
    <2>. QED  BY <1>3, <1>6, <2>1 DEF base
  <1>. HIDE DEF Body
  <1>8. visited = Body(visited)
    BY <1>7
  <1>. HIDE DEF visited
  <1>9. \A k \in 0 .. steps : visited[k] = IF k = 0 THEN base ELSE Visit(F, visited[k - 1])
    BY <1>8 DEF Body, base
  <1>. DEFINE S == {k \in 0 .. steps : visited[k] \in D}
  <1>10. 0 \in S
    BY <1>2, <1>9
  <1>11. ASSUME NEW k \in 1 .. steps, k - 1 \in S  PROVE k \in S
    <2>1. k \in 0 .. steps /\ k # 0 /\ visited[k] = Visit(F, visited[k - 1])
      BY <1>9
    <2>. QED  BY <1>3, <1>11, <2>1
  <1>. HIDE DEF S
  <1>12. \A k \in 0 .. steps : k \in S
    BY <1>10, <1>11, Steps
  <1>13. \A k \in 0 .. steps : visited[k] \in Visits(ids)
    BY <1>12 DEF S, D
  <1>14. AreVisits(visited, ids, F, todo, steps)
    BY <1>1, <1>9, <1>13 DEF base, AreVisits
  <1>. QED  BY <1>14

\* With steps for all there is to do, whatever was to do at first is there, once.
LEMMA FollowOK ==
    ASSUME NEW n \in Nat, NEW N, NEW ids, NEW F, AreFollowers(F, n, N, ids),
           NEW todo \in Seq(ids), NEW steps \in Nat,
           Len(todo) + Cardinality(Behind(n, N, ids)) <= steps
    PROVE  /\ Follow(F, todo, steps) \in Seq(ids) /\ Distinct(Follow(F, todo, steps))
           /\ Range(todo) \subseteq Range(Follow(F, todo, steps))
  <1>. DEFINE D == Visits(ids)
              base == [todo |-> todo, out |-> <<>>]
              Size(s) == Len(s.todo) + Cardinality(Left(n, N, ids, s.out))
              Good(k, s) == /\ s \in D /\ Distinct(s.out)
                            /\ Range(todo) \subseteq Range(s.out) \cup Range(s.todo)
                            /\ s.todo = <<>> \/ Size(s) <= steps - k
  <1>0. \A o \in ids : F[o] \in Seq(ids)
    BY DEF AreFollowers
  <1>2. base \in D
    BY DEF Visits
  <1>3. PICK visited : AreVisits(visited, ids, F, todo, steps)
    BY <1>0, FollowSteps
  <1>9. \A k \in 0 .. steps : visited[k] = IF k = 0 THEN base ELSE Visit(F, visited[k - 1])
    BY <1>3 DEF base, AreVisits
  <1>. HIDE DEF base, D
  <1>. DEFINE S == {k \in 0 .. steps : Good(k, visited[k])}
  <1>10. 0 \in S
    <2>1. visited[0] = base /\ base.todo = todo /\ base.out = <<>>
      BY <1>9 DEF base
    <2>2. Left(n, N, ids, <<>>) = Behind(n, N, ids)
      BY EmptyFacts DEF Left, Behind
    <2>3. Good(0, base)
      <3>1. Cardinality(Left(n, N, ids, base.out)) = Cardinality(Behind(n, N, ids))
        BY <2>1, <2>2
      <3>2. Size(base) <= steps - 0
        BY <2>1, <3>1
      <3>3. Distinct(base.out) /\ Range(todo) \subseteq Range(base.out) \cup Range(base.todo)
        BY <2>1, EmptyFacts
      <3>. HIDE DEF Size
      <3>. QED  BY <1>2, <3>2, <3>3
    <2>. HIDE DEF Good
    <2>. QED  BY <2>1, <2>3
  <1>11. ASSUME NEW k \in 1 .. steps, k - 1 \in S  PROVE k \in S
    <2>1. PICK s : s = visited[k - 1]
      OBVIOUS
    <2>2. PICK v : v = visited[k]
      OBVIOUS
    <2>3. Good(k - 1, s)
      BY <1>11, <2>1
    <2>4. v = Visit(F, s)
      BY <1>9, <2>1, <2>2
    <2>5. /\ v \in D /\ Distinct(v.out)
          /\ Range(s.out) \cup Range(s.todo) \subseteq Range(v.out) \cup Range(v.todo)
          /\ s.todo = <<>> => v = s
          /\ s.todo # <<>> => Size(v) = Size(s) - 1
      <3>1. s \in Visits(ids) /\ Distinct(s.out)
        BY <2>3 DEF D
      <3>2. Visit(F, s) \in Visits(ids) /\ Distinct(Visit(F, s).out)
        BY <3>1, VisitOK, SMT
      <3>0. Range(s.out) \cup Range(s.todo) \subseteq Range(Visit(F, s).out) \cup Range(Visit(F, s).todo)
        BY <3>1, VisitOK, SMT
      <3>4. s.todo = <<>> => Visit(F, s) = s
        BY <3>1, VisitOK, SMT
      <3>3. s.todo # <<>> => Size(Visit(F, s)) = Size(s) - 1
        BY <3>1, VisitOK, SMT
      <3>. HIDE DEF Size
      <3>. QED  BY <2>4, <3>0, <3>2, <3>3, <3>4 DEF D
    <2>6. s.todo # <<>> => Size(s) \in Int
      <3>1. IsFiniteSet(1 .. n) /\ Left(n, N, ids, s.out) \subseteq 1 .. n
        BY FS_Interval DEF Left
      <3>2. Cardinality(Left(n, N, ids, s.out)) \in Nat
        BY <3>1, FS_Subset, FS_CardinalityType
      <3>3. Len(s.todo) \in Nat
        BY <2>3 DEF D, Visits
      <3>. QED  BY <3>2, <3>3
    <2>7. v.todo = <<>> \/ Size(v) <= steps - k
      <3>1. CASE s.todo = <<>>
        BY <2>5, <3>1
      <3>2. CASE s.todo # <<>>
        <4>1. Size(s) <= steps - (k - 1) /\ Size(v) = Size(s) - 1 /\ Size(s) \in Int
          BY <2>3, <2>5, <2>6, <3>2
        <4>. HIDE DEF Size
        <4>. QED  BY <4>1
      <3>. QED  BY <3>1, <3>2
    <2>8. Range(todo) \subseteq Range(v.out) \cup Range(v.todo)
      BY <2>3, <2>5
    <2>. HIDE DEF Size
    <2>9. Good(k, v) /\ k \in 0 .. steps
      BY <2>5, <2>7, <2>8
    <2>. HIDE DEF Good
    <2>. QED  BY <2>2, <2>9
  <1>. HIDE DEF S, Good
  <1>12. \A k \in 0 .. steps : k \in S
    BY <1>10, <1>11, Steps
  <1>13. steps \in S
    BY <1>12
  <1>14. PICK s : s = visited[steps]
    OBVIOUS
  <1>15. Good(steps, s)
    BY <1>13, <1>14 DEF S
  <1>16. s.todo \in Seq(ids) /\ s.out \in Seq(ids)
    BY <1>15 DEF Good, D, Visits
  <1>17. s.todo = <<>>
    <2>. SUFFICES ASSUME s.todo # <<>>  PROVE FALSE
      OBVIOUS
    <2>1. IsFiniteSet(1 .. n) /\ Left(n, N, ids, s.out) \subseteq 1 .. n
      BY FS_Interval DEF Left
    <2>2. Cardinality(Left(n, N, ids, s.out)) \in Nat
      BY <2>1, FS_Subset, FS_CardinalityType
    <2>3. Len(s.todo) \in Nat /\ Len(s.todo) # 0
      BY <1>16, EmptySeq
    <2>4. Size(s) <= steps - steps
      BY <1>15 DEF Good
    <2>. QED  BY <2>2, <2>3, <2>4
  <1>18. Distinct(s.out) /\ Range(todo) \subseteq Range(s.out)
    BY <1>15, <1>17, EmptyFacts DEF Good
  <1>. QED  BY <1>3, <1>14, <1>16, <1>18 DEF AreVisits

LEMMA IdsOfFacts ==
    ASSUME NEW s, NEW R, s \in Seq(R), NEW ids, \A i \in DOMAIN s : s[i].id \in ids
    PROVE  /\ IdsOf(s) \in Seq(ids) /\ Len(IdsOf(s)) = Len(s) /\ DOMAIN IdsOf(s) = DOMAIN s
           /\ \A i \in DOMAIN s : IdsOf(s)[i] = s[i].id
           /\ Range(IdsOf(s)) = {s[i].id : i \in DOMAIN s}
  <1>1. Len(s) \in Nat /\ DOMAIN s = 1 .. Len(s)
    OBVIOUS
  <1>2. PICK p : p = [i \in DOMAIN s |-> s[i].id]
    OBVIOUS
  <1>3. p \in [1 .. Len(s) -> ids]
    BY <1>1, <1>2
  <1>4. p \in Seq(ids) /\ Len(p) = Len(s) /\ DOMAIN p = DOMAIN s
    BY <1>1, <1>3
  <1>5. Range(p) = {s[i].id : i \in DOMAIN s}
    BY <1>2 DEF Range
  <1>. QED  BY <1>2, <1>4, <1>5 DEF IdsOf

LEMMA RangeIn ==
    ASSUME NEW T, NEW s \in Seq(T)
    PROVE  Range(s) \subseteq T
  <1>1. \A i \in DOMAIN s : s[i] \in T
    OBVIOUS
  <1>. QED  BY <1>1 DEF Range

LEMMA SeqIn ==
    ASSUME NEW T, NEW U, T \subseteq U, NEW s \in Seq(T)
    PROVE  s \in Seq(U)
  <1>1. Len(s) \in Nat /\ s \in [1 .. Len(s) -> T]
    OBVIOUS
  <1>2. s \in [1 .. Len(s) -> U]
    BY <1>1
  <1>. QED  BY <1>1, <1>2

\* The siblings that follow another, one that follows a stranger being first.
IdsIn(sib)       == {sib[i].id : i \in DOMAIN sib}
Followed(sib, i) == IF sib[i].order \in IdsIn(sib) THEN sib[i].order ELSE Top
After(sib, o)    == {i \in 1 .. Len(sib) : Followed(sib, i) = o}

ListFollowers(F, sib) ==
    /\ DOMAIN F = IdsIn(sib) \cup {Top}
    /\ \A o \in IdsIn(sib) \cup {Top} :
         /\ F[o] \in Seq(IdsIn(sib)) /\ Len(F[o]) = Cardinality(After(sib, o))
         /\ Range(F[o]) = {sib[i].id : i \in After(sib, o)}

LEMMA IdsInFacts ==
    ASSUME NEW R, NEW sib, OneEach(sib, R)
    PROVE  /\ IdsIn(sib) \subseteq Channels /\ Top \notin IdsIn(sib)
           /\ IdsOf(sib) \in Seq(IdsIn(sib)) /\ Len(IdsOf(sib)) = Len(sib)
           /\ Range(IdsOf(sib)) = IdsIn(sib)
  <1>1. sib \in Seq(R) /\ \A i \in DOMAIN sib : sib[i].id \in IdsIn(sib)
    BY DEF OneEach, IdsIn
  <1>2. /\ IdsOf(sib) \in Seq(IdsIn(sib)) /\ Len(IdsOf(sib)) = Len(sib)
        /\ Range(IdsOf(sib)) = {sib[i].id : i \in DOMAIN sib}
    BY <1>1, IdsOfFacts
  <1>3. IdsIn(sib) \subseteq Channels /\ Top \notin IdsIn(sib)
    BY ChannelFacts DEF OneEach, IdsIn
  <1>. QED  BY <1>2, <1>3 DEF IdsIn

LEMMA FollowersAre ==
    ASSUME NEW R, NEW sib, OneEach(sib, R)
    PROVE  ListFollowers(Followers(sib), sib)
  <1>0. PICK ids : ids = IdsIn(sib)
    OBVIOUS
  <1>1. sib \in Seq(R) /\ DOMAIN sib = 1 .. Len(sib) /\ \A i \in DOMAIN sib : sib[i].id \in ids
    BY <1>0 DEF OneEach, IdsIn
  <1>2. Range(IdsOf(sib)) = ids
    BY <1>0, IdsInFacts
  <1>6. DOMAIN Followers(sib) = ids \cup {Top}
    BY <1>2 DEF Followers
  <1>7. ASSUME NEW o \in ids \cup {Top}
        PROVE  Followers(sib)[o] = IdsOf(Picked(sib, After(sib, o)))
    <2>1. PICK K : K = {i \in DOMAIN sib : (IF sib[i].order \in Range(IdsOf(sib)) THEN sib[i].order ELSE Top) = o}
      OBVIOUS
    <2>2. Followers(sib)[o] = IdsOf(Picked(sib, K))
      BY <1>2, <2>1 DEF Followers
    <2>3. K = After(sib, o)
      BY <1>0, <1>1, <1>2, <2>1 DEF After, Followed
    <2>. QED  BY <2>2, <2>3
  <1>8. ASSUME NEW o \in ids \cup {Top}
        PROVE  /\ Followers(sib)[o] \in Seq(ids)
               /\ Len(Followers(sib)[o]) = Cardinality(After(sib, o))
               /\ Range(Followers(sib)[o]) = {sib[i].id : i \in After(sib, o)}
    <2>1. PICK J : J = After(sib, o)
      OBVIOUS
    <2>2. PICK p : p = Picked(sib, J)
      OBVIOUS
    <2>3. J \subseteq DOMAIN sib /\ DOMAIN sib \cap J = J
      BY <1>1, <2>1 DEF After
    <2>4. p \in Seq(R) /\ Lists(p, sib, J)
      BY <1>1, <2>2, <2>3, PickedFacts
    <2>5. PICK g \in [DOMAIN p -> J] :
              /\ \A k \in DOMAIN p : p[k] = sib[g[k]]
              /\ \A j \in J : \E k \in DOMAIN p : g[k] = j
      BY <2>4 DEF Lists
    <2>6. \A k \in DOMAIN p : p[k].id \in ids
      BY <1>1, <2>3, <2>5
    <2>7. IdsOf(p) \in Seq(ids) /\ Len(IdsOf(p)) = Len(p) /\ Range(IdsOf(p)) = {p[k].id : k \in DOMAIN p}
      BY <2>4, <2>6, IdsOfFacts
    <2>8. {p[k].id : k \in DOMAIN p} = {sib[i].id : i \in J}
      BY <2>5
    <2>9. Len(p) = Cardinality(J)
      BY <2>4 DEF Lists
    <2>. QED  BY <1>7, <2>1, <2>2, <2>7, <2>8, <2>9
  <1>. QED  BY <1>0, <1>6, <1>8 DEF ListFollowers

\* sortSiblings lists all the siblings it was given, each once.
LEMMA SortedOK ==
    ASSUME NEW R, NEW sib, OneEach(sib, R)
    PROVE  /\ Sorted(sib) \in Seq(Channels) /\ Distinct(Sorted(sib))
           /\ Range(Sorted(sib)) = IdsIn(sib)
  <1>. DEFINE n == Len(sib)
              ids == IdsIn(sib)
              N == [i \in 1 .. n |-> Followed(sib, i)]
              J(o) == {i \in 1 .. n : N[i] = o}
              F == Followers(sib)
  <1>1. sib \in Seq(R) /\ n \in Nat /\ DOMAIN sib = 1 .. n
    BY DEF OneEach
  <1>2. /\ ids \subseteq Channels /\ Top \notin ids
        /\ IdsOf(sib) \in Seq(ids) /\ Len(IdsOf(sib)) = n /\ Range(IdsOf(sib)) = ids
    BY IdsInFacts
  <1>3. \A i \in 1 .. n : N[i] \in ids \cup {Top}
    BY DEF Followed
  <1>4. \A o : After(sib, o) = J(o)
    BY DEF After
  <1>. HIDE DEF ids, F
  <1>5. \A o \in ids \cup {Top} : F[o] \in Seq(ids) /\ Len(F[o]) = Cardinality(J(o))
    <2>1. ListFollowers(F, sib)
      BY FollowersAre DEF F
    <2>. QED  BY <1>4, <2>1 DEF ids, ListFollowers
  <1>. HIDE DEF N
  <1>6. AreFollowers(F, n, N, ids)
    BY <1>5 DEF AreFollowers
  <1>7. Cardinality(Behind(n, N, ids)) = n - Cardinality(J(Top)) /\ Cardinality(J(Top)) \in Nat
    <2>1. IsFiniteSet(1 .. n) /\ Cardinality(1 .. n) = n
      BY <1>1, FS_Interval
    <2>2. Behind(n, N, ids) = (1 .. n) \ J(Top)
      BY <1>2, <1>3 DEF Behind
    <2>3. (1 .. n) \cap J(Top) = J(Top) /\ J(Top) \subseteq 1 .. n
      OBVIOUS
    <2>. HIDE DEF J, n
    <2>4. Cardinality((1 .. n) \ J(Top)) = Cardinality(1 .. n) - Cardinality((1 .. n) \cap J(Top))
      BY <2>1, FS_Difference
    <2>5. Cardinality(J(Top)) \in Nat
      BY <2>1, <2>3, FS_Subset, FS_CardinalityType
    <2>. QED  BY <2>1, <2>2, <2>3, <2>4, <2>5
  <1>8. PICK todo : todo = F[Top] \o IdsOf(sib)
    OBVIOUS
  <1>9. todo \in Seq(ids) /\ Len(todo) = Cardinality(J(Top)) + n /\ ids \subseteq Range(todo)
    <2>1. F[Top] \in Seq(ids) /\ Len(F[Top]) = Cardinality(J(Top))
      BY <1>5
    <2>2. todo \in Seq(ids) /\ Len(todo) = Len(F[Top]) + n /\ Range(todo) = Range(F[Top]) \cup Range(IdsOf(sib))
      BY <1>2, <1>8, <2>1, ConcatRange
    <2>. QED  BY <1>2, <2>1, <2>2
  <1>10. PICK out : out = Follow(F, todo, 2 * n)
    OBVIOUS
  <1>11. out \in Seq(ids) /\ Distinct(out) /\ Range(todo) \subseteq Range(out)
    <2>1. Len(todo) + Cardinality(Behind(n, N, ids)) <= 2 * n /\ 2 * n \in Nat
      BY <1>1, <1>7, <1>9
    <2>. HIDE DEF n
    <2>. QED  BY <1>1, <1>6, <1>9, <1>10, <2>1, FollowOK
  <1>12. Sorted(sib) = out
    BY <1>8, <1>10 DEF Sorted, F
  <1>13. Range(out) \subseteq ids /\ out \in Seq(Channels)
    BY <1>2, <1>11, RangeIn, SeqIn
  <1>. QED  BY <1>2, <1>9, <1>11, <1>12, <1>13 DEF ids

-----------------------------------------------------------------------------
(* Reading a listing: the tree.                                            *)

\* A tree of these channels, but for the orders and for channels that are their own
\* ancestors.
Draft(t, ids) ==
    /\ Shape(t)
    /\ \A p \in Parents : Distinct(t.kids[p])
    /\ \A p \in Parents : Range(t.kids[p]) = {c \in Channels : t.parent[c] = p}
    /\ ids \subseteq Channels
    /\ \A c \in Channels : t.parent[c] \in (IF c \in ids THEN ids \cup {Top} ELSE {Absent})

\* What hang hands on.
Drafts(ids, b) ==
    {t \in [parent : [Channels -> Parents \cup {Absent}], order : [Channels -> {Absent}],
            kids : [Parents -> Seq(Channels)], consistent : {b, FALSE}] : Draft(t, ids)}

\* A channel that is hung at the top is under it, and so is what was.
LEMMA HangOK ==
    ASSUME NEW ids, NEW b, NEW t \in Drafts(ids, b), NEW row, row.id \in ids
    PROVE  /\ Hang(t, row) \in Drafts(ids, b)
           /\ Top \in Ancestry(Hang(t, row), row.id)
           /\ \A d \in Parents : Top \in Ancestry(t, d) => Top \in Ancestry(Hang(t, row), d)
  <1>1. CASE Top \in Ancestry(t, row.id)
    BY <1>1 DEF Hang
  <1>2. CASE Top \notin Ancestry(t, row.id)
    <2>1. PICK c : c = row.id
      OBVIOUS
    <2>2. PICK q : q = t.parent[c]
      OBVIOUS
    <2>3. PICK u : u = Hang(t, row)
      OBVIOUS
    <2>4. /\ c \in Channels /\ c \in Parents /\ Shape(t) /\ Draft(t, ids) /\ q \in ids \cup {Top} /\ Has(t, c)
          /\ t.parent \in [Channels -> Parents \cup {Absent}] /\ t.order \in [Channels -> {Absent}]
          /\ t.kids \in [Parents -> Seq(Channels)]
      BY <2>1, <2>2, ChannelFacts DEF Drafts, Draft, Has
    <2>5. q # Top
      <3>1. CASE q = Top
        <4>1. Ancestry(t, c) = {c} \cup Ancestry(t, Top)
          <5>1. Ancestry(t, c) = {c} \cup Ancestry(t, t.parent[c])
            BY <2>4, AncestryUp
          <5>2. t.parent[c] = Top
            BY <2>2, <3>1
          <5>. QED  BY <5>1, <5>2, Zenon
        <4>2. Top \in Ancestry(t, Top)
          BY <2>4, AncestryFacts, ChannelFacts
        <4>. QED  BY <1>2, <2>1, <4>1, <4>2
      <3>. QED  BY <3>1
    <2>6. PICK parent : parent = [d \in Channels |-> IF d = c THEN Top ELSE t.parent[d]]
      OBVIOUS
    <2>7. PICK kids : kids = [p \in Parents |-> CASE p = Top -> Append(t.kids[p], c)
                                                  [] p = q -> Without(t.kids[p], c)
                                                  [] OTHER -> t.kids[p]]
      OBVIOUS
    <2>8. u = [parent |-> parent, order |-> t.order, kids |-> kids, consistent |-> FALSE]
      BY <1>2, <2>1, <2>2, <2>3, <2>6, <2>7 DEF Hang
    <2>9. parent \in [Channels -> Parents \cup {Absent}]
      BY <2>4, <2>6, ChannelFacts
    <2>10. kids \in [Parents -> Seq(Channels)] /\ \A p \in Parents :
              Distinct(kids[p]) /\ Range(kids[p]) = {d \in Channels : parent[d] = p}
      <3>. SUFFICES ASSUME NEW p \in Parents
                    PROVE  /\ kids[p] \in Seq(Channels) /\ Distinct(kids[p])
                           /\ Range(kids[p]) = {d \in Channels : parent[d] = p}
        BY <2>7
      <3>1. PICK old : old = t.kids[p]
        OBVIOUS
      <3>2. old \in Seq(Channels) /\ Distinct(old) /\ Range(old) = {d \in Channels : t.parent[d] = p}
        BY <2>4, <3>1 DEF Draft
      <3>3. CASE p = Top
        <4>1. kids[p] = Append(old, c)
          BY <2>5, <2>7, <3>1, <3>3
        <4>2. c \notin Range(old)
          BY <2>2, <2>5, <3>2, <3>3
        <4>3. kids[p] \in Seq(Channels) /\ Distinct(kids[p]) /\ Range(kids[p]) = Range(old) \cup {c}
          BY <2>4, <3>2, <4>1, <4>2, AppendRange
        <4>. QED  BY <2>4, <2>6, <3>2, <3>3, <4>3
      <3>4. CASE p = q
        <4>1. kids[p] = Without(old, c)
          BY <2>5, <2>7, <3>1, <3>4
        <4>2. kids[p] \in Seq(Channels) /\ Distinct(kids[p]) /\ Range(kids[p]) = Range(old) \ {c}
          BY <3>2, <4>1, WithoutFacts
        <4>. QED  BY <2>4, <2>5, <2>6, <3>2, <3>4, <4>2
      <3>5. CASE p # Top /\ p # q
        <4>1. kids[p] = old
          BY <2>7, <3>1, <3>5
        <4>. QED  BY <2>2, <2>4, <2>6, <3>2, <3>5, <4>1
      <3>. QED  BY <3>3, <3>4, <3>5
    <2>11. \A d \in Channels : parent[d] \in (IF d \in ids THEN ids \cup {Top} ELSE {Absent})
      BY <2>1, <2>4, <2>6 DEF Draft
    <2>12. /\ u.parent = parent /\ u.kids = kids /\ u.order = t.order
           /\ DOMAIN u = {"parent", "order", "kids", "consistent"}
           /\ u \in [parent : [Channels -> Parents \cup {Absent}], order : [Channels -> {Absent}],
                     kids : [Parents -> Seq(Channels)], consistent : {b, FALSE}]
      BY <2>4, <2>8, <2>9, <2>10
    <2>13. Shape(u)
      BY <2>4, <2>9, <2>10, <2>12 DEF Shape
    <2>14. u \in Drafts(ids, b)
      <3>1. \A p \in Parents : Distinct(u.kids[p])
        BY <2>10, <2>12
      <3>2. \A p \in Parents : Range(u.kids[p]) = {d \in Channels : u.parent[d] = p}
        BY <2>10, <2>12
      <3>3. ids \subseteq Channels /\ \A d \in Channels : u.parent[d] \in (IF d \in ids THEN ids \cup {Top} ELSE {Absent})
        BY <2>4, <2>11, <2>12 DEF Draft
      <3>4. Draft(u, ids)
        BY <2>13, <3>1, <3>2, <3>3, Zenon DEF Draft
      <3>. QED  BY <2>12, <3>4 DEF Drafts
    <2>15. ASSUME NEW S \in SUBSET Parents, Upward(u, S)
           PROVE  Top \in S \/ (c \notin S /\ Upward(t, S))
      <3>1. CASE c \in S
        <4>1. Has(u, c) /\ u.parent[c] = Top
          BY <2>4, <2>6, <2>12, ChannelFacts DEF Has
        <4>. QED  BY <2>15, <3>1, <4>1 DEF Upward
      <3>2. CASE c \notin S
        <4>1. \A d \in S : Has(t, d) => Has(u, d) /\ u.parent[d] = t.parent[d]
          BY <2>6, <2>12, <3>2 DEF Has
        <4>. QED  BY <2>15, <3>2, <4>1 DEF Upward
      <3>. QED  BY <3>1, <3>2
    <2>16. Top \in Ancestry(u, c)
      BY <2>15, ChannelFacts DEF Ancestry
    <2>17. \A d \in Parents : Top \in Ancestry(t, d) => Top \in Ancestry(u, d)
      BY <2>15, ChannelFacts DEF Ancestry
    <2>. QED  BY <2>1, <2>3, <2>14, <2>16, <2>17
  <1>. QED  BY <1>1, <1>2

\* Once all have been looked at, every channel is under the top level; a tree in which they
\* were is left as it was, and another one is not consistent any more.
LEMMA HungOK ==
    ASSUME NEW R, NEW kept, OneEach(kept, R), NEW b,
           NEW t \in Drafts({kept[i].id : i \in DOMAIN kept}, b)
    PROVE  /\ Hung(t, kept) \in Drafts({kept[i].id : i \in DOMAIN kept}, b)
           /\ \A i \in DOMAIN kept : Top \in Ancestry(Hung(t, kept), kept[i].id)
           /\ (\A i \in DOMAIN kept : Top \in Ancestry(t, kept[i].id)) => Hung(t, kept) = t
           /\ Hung(t, kept) = t \/ Hung(t, kept).consistent = FALSE
  <1>. DEFINE n == Len(kept)
              ids == {kept[i].id : i \in DOMAIN kept}
              D == Drafts(ids, b)
              Body(f) == [i \in 0 .. n |-> IF i = 0 THEN t ELSE Hang(f[i - 1], kept[i])]
              hang == CHOOSE f : f = Body(f)
              step == [i \in 1 .. n |-> [d \in D |-> Hang(d, kept[i])]]
              Sound == \A i \in DOMAIN kept : Top \in Ancestry(t, kept[i].id)
              Good(i, h) == /\ h \in D /\ \A j \in 1 .. i : Top \in Ancestry(h, kept[j].id)
                            /\ Sound => h = t
                            /\ h = t \/ h.consistent = FALSE
              S == {i \in 0 .. n : Good(i, hang[i])}
  <1>1. n \in Nat /\ DOMAIN kept = 1 .. n /\ \A i \in 1 .. n : kept[i].id \in ids /\ kept[i].id \in Parents
    BY ChannelFacts DEF OneEach
  <1>2. Hung(t, kept) = hang[n]
    BY DEF Hung
  <1>. HIDE DEF n, ids
  <1>3. \A i \in 1 .. n : \A d \in D : step[i][d] = Hang(d, kept[i]) /\ step[i][d] \in D
    BY <1>1, HangOK
  <1>4. t \in D
    BY DEF ids
  <1>. HIDE DEF step, D
  <1>5. PICK f : Iterates(f, n, t, step)
    BY <1>1, IteratesExists
  <1>6. \A i \in 0 .. n : f[i] \in D
    BY <1>1, <1>3, <1>4, <1>5, IteratesIn
  <1>7. \A i \in 0 .. n : i # 0 => i \in 1 .. n /\ f[i - 1] \in D
    BY <1>1, <1>6
  <1>8. f = Body(f)
    <2>1. f = [i \in 0 .. n |-> IF i = 0 THEN t ELSE step[i][f[i - 1]]]
      BY <1>5 DEF Iterates
    <2>. QED  BY <1>3, <1>7, <2>1
  <1>. HIDE DEF Body
  <1>9. hang = Body(hang)
    BY <1>8
  <1>. HIDE DEF hang
  <1>10. \A i \in 0 .. n : hang[i] = IF i = 0 THEN t ELSE Hang(hang[i - 1], kept[i])
    BY <1>9 DEF Body
  <1>11. 0 \in S
    BY <1>1, <1>4, <1>10
  <1>12. ASSUME NEW i \in 1 .. n, i - 1 \in S  PROVE i \in S
    <2>1. PICK h : h = hang[i - 1]
      OBVIOUS
    <2>2. PICK u : u = hang[i]
      OBVIOUS
    <2>3. i \in 0 .. n /\ i # 0 /\ u = Hang(h, kept[i])
      BY <1>1, <1>10, <2>1, <2>2
    <2>4. Good(i - 1, h)
      BY <1>12, <2>1
    <2>5. /\ u \in D /\ Top \in Ancestry(u, kept[i].id)
          /\ \A d \in Parents : Top \in Ancestry(h, d) => Top \in Ancestry(u, d)
      BY <1>1, <2>3, <2>4, HangOK DEF D
    <2>6. \A j \in 1 .. i : j = i \/ j \in 1 .. (i - 1)
      BY <1>1
    <2>7. \A j \in 1 .. i : j \in 1 .. n
      BY <1>1
    <2>9. u = h \/ (u.consistent = FALSE /\ Top \notin Ancestry(h, kept[i].id))
      BY <2>3 DEF Hang
    <2>10. Sound => u = t
      BY <1>1, <2>4, <2>9
    <2>11. u = t \/ u.consistent = FALSE
      BY <2>4, <2>9
    <2>12. \A j \in 1 .. i : Top \in Ancestry(u, kept[j].id)
      BY <1>1, <2>4, <2>5, <2>6, <2>7
    <2>8. Good(i, u)
      BY <2>5, <2>10, <2>11, <2>12
    <2>. HIDE DEF Good
    <2>. QED  BY <2>2, <2>3, <2>8
  <1>. HIDE DEF S, Good
  <1>13. \A i \in 0 .. n : i \in S
    BY <1>1, <1>11, <1>12, Steps
  <1>14. Good(n, hang[n])
    <2>1. n \in S
      BY <1>1, <1>13
    <2>. QED  BY <2>1 DEF S
  <1>. QED  BY <1>1, <1>2, <1>14 DEF Good, D, ids

LEMMA DraftedOK ==
    ASSUME NEW R, NEW kept, OneEach(kept, R), NEW x
    PROVE  FlawedIf(Drafted(kept), x) \in
             Drafts({kept[i].id : i \in DOMAIN kept}, FlawedIf(Drafted(kept), x).consistent)
  <1>. DEFINE ids == Range(IdsOf(kept))
              Astray(row) == row.parent # Top /\ (row.parent = row.id \/ row.parent \notin ids)
              Parent(row) == IF Astray(row) THEN Top ELSE row.parent
              RowOf(c) == kept[CHOOSE i \in DOMAIN kept : kept[i].id = c]
              Of(p) == {i \in DOMAIN kept : Parent(kept[i]) = p}
              parent == [c \in Channels |-> IF c \in ids THEN Parent(RowOf(c)) ELSE Absent]
              order == [c \in Channels |-> Absent]
              kids == [p \in Parents |-> Sorted(Picked(kept, Of(p)))]
              t == Drafted(kept)
              u == FlawedIf(t, x)
  <1>1. kept \in Seq(R) /\ \A i \in DOMAIN kept : kept[i].id \in Channels
    BY DEF OneEach
  <1>2. ids = {kept[i].id : i \in DOMAIN kept} /\ ids \subseteq Channels
    <2>1. Range(IdsOf(kept)) = {kept[i].id : i \in DOMAIN kept}
      BY <1>1, IdsOfFacts, Zenon
    <2>. QED  BY <1>1, <2>1
  <1>3. /\ DOMAIN t = {"parent", "order", "kids", "consistent"}
        /\ t.parent = parent /\ t.order = order /\ t.kids = kids
    BY DEF Drafted
  <1>. HIDE DEF t, ids
  <1>4. \A i \in DOMAIN kept : Parent(kept[i]) \in ids \cup {Top}
    OBVIOUS
  <1>5. \A i \in DOMAIN kept : parent[kept[i].id] = Parent(kept[i])
    <2>. SUFFICES ASSUME NEW i \in DOMAIN kept  PROVE parent[kept[i].id] = Parent(kept[i])
      OBVIOUS
    <2>1. PICK j : j = CHOOSE k \in DOMAIN kept : kept[k].id = kept[i].id
      OBVIOUS
    <2>2. j = i
      BY <2>1 DEF OneEach
    <2>3. kept[i].id \in ids /\ kept[i].id \in Channels
      BY <1>1, <1>2
    <2>4. RowOf(kept[i].id) = kept[i]
      BY <2>1, <2>2
    <2>. HIDE DEF RowOf, Parent
    <2>. QED  BY <2>3, <2>4
  <1>6. \A c \in Channels : c \notin ids => parent[c] = Absent
    OBVIOUS
  <1>. HIDE DEF Parent, RowOf
  <1>7. DOMAIN parent = Channels
    OBVIOUS
  <1>. HIDE DEF parent
  <1>8. \A c \in Channels : parent[c] \in (IF c \in ids THEN ids \cup {Top} ELSE {Absent})
    BY <1>2, <1>4, <1>5, <1>6
  <1>9. parent \in [Channels -> Parents \cup {Absent}]
    <2>1. \A c \in Channels : parent[c] \in Parents \cup {Absent}
      BY <1>2, <1>8, ChannelFacts
    <2>2. parent = [c \in Channels |-> parent[c]]
      BY DEF parent
    <2>. QED  BY <2>1, <2>2
  <1>10. \A p \in Parents : /\ kids[p] \in Seq(Channels) /\ Distinct(kids[p])
                            /\ Range(kids[p]) = {c \in Channels : parent[c] = p}
    <2>. SUFFICES ASSUME NEW p \in Parents
                  PROVE  /\ kids[p] \in Seq(Channels) /\ Distinct(kids[p])
                         /\ Range(kids[p]) = {c \in Channels : parent[c] = p}
      OBVIOUS
    <2>1. PICK J : J = Of(p)
      OBVIOUS
    <2>2. PICK s : s = Picked(kept, J)
      OBVIOUS
    <2>3. DOMAIN kept \cap J = J /\ \A i \in DOMAIN kept : i \in J <=> parent[kept[i].id] = p
      BY <1>5, <2>1
    <2>4. s \in Seq(R) /\ Lists(s, kept, J)
      BY <1>1, <2>2, <2>3, PickedFacts
    <2>5. PICK g \in [DOMAIN s -> J] :
              /\ \A k \in DOMAIN s : s[k] = kept[g[k]]
              /\ \A k, l \in DOMAIN s : g[k] = g[l] => k = l
              /\ \A j \in J : \E k \in DOMAIN s : g[k] = j
      BY <2>4 DEF Lists
    <2>6. \A k \in DOMAIN s : g[k] \in DOMAIN kept /\ g[k] \in J
      BY <2>3, <2>5
    <2>7. OneEach(s, R)
      <3>1. \A k \in DOMAIN s : s[k].id \in Channels
        BY <1>1, <2>5, <2>6
      <3>2. \A k, l \in DOMAIN s : s[k].id = s[l].id => k = l
        BY <2>5, <2>6 DEF OneEach
      <3>. QED  BY <2>4, <3>1, <3>2 DEF OneEach
    <2>8. {s[k].id : k \in DOMAIN s} = {c \in Channels : parent[c] = p}
      <3>1. ASSUME NEW k \in DOMAIN s  PROVE s[k].id \in Channels /\ parent[s[k].id] = p
        BY <1>1, <2>3, <2>5, <2>6
      <3>2. ASSUME NEW c \in Channels, parent[c] = p  PROVE \E k \in DOMAIN s : s[k].id = c
        <4>1. c \in ids
          BY <1>6, <3>2, ChannelFacts
        <4>2. PICK i \in DOMAIN kept : kept[i].id = c
          BY <1>2, <4>1
        <4>3. i \in J
          BY <2>3, <3>2, <4>2
        <4>. QED  BY <2>5, <4>2, <4>3
      <3>. QED  BY <3>1, <3>2
    <2>9. kids[p] = Sorted(s)
      BY <2>1, <2>2
    <2>10. /\ Sorted(s) \in Seq(Channels) /\ Distinct(Sorted(s))
           /\ Range(Sorted(s)) = {s[k].id : k \in DOMAIN s}
      BY <2>7, SortedOK, Zenon DEF IdsIn
    <2>11. Range(Sorted(s)) = {c \in Channels : parent[c] = p}
      BY <2>8, <2>10, Zenon
    <2>. QED  BY <2>9, <2>10, <2>11
  <1>11. kids = [p \in Parents |-> kids[p]] /\ order \in [Channels -> {Absent}]
    OBVIOUS
  <1>. HIDE DEF kids, order
  <1>12. kids \in [Parents -> Seq(Channels)]
    BY <1>10, <1>11
  <1>13. Shape(t)
    BY <1>3, <1>9, <1>11, <1>12 DEF Shape
  <1>14. Same(u, t)
    BY <1>13, FlawedSame
  <1>15. Shape(u) /\ u.parent = parent /\ u.order = order /\ u.kids = kids
    BY <1>3, <1>14 DEF Same
  <1>16. u = [parent |-> u.parent, order |-> u.order, kids |-> u.kids, consistent |-> u.consistent]
    BY <1>3 DEF FlawedIf
  <1>. HIDE DEF u
  <1>17. u \in [parent : [Channels -> Parents \cup {Absent}], order : [Channels -> {Absent}],
                kids : [Parents -> Seq(Channels)], consistent : {u.consistent, FALSE}]
    BY <1>9, <1>11, <1>12, <1>15, <1>16
  <1>18. Draft(u, ids)
    <2>1. \A p \in Parents : Distinct(u.kids[p])
      BY <1>10, <1>15
    <2>2. \A p \in Parents : Range(u.kids[p]) = {c \in Channels : u.parent[c] = p}
      BY <1>10, <1>15
    <2>. QED  BY <1>2, <1>8, <1>15, <2>1, <2>2, Zenon DEF Draft
  <1>19. u \in Drafts(ids, u.consistent)
    BY <1>17, <1>18 DEF Drafts
  <1>. QED  BY <1>2, <1>19 DEF u, t

\* ChannelTree.from makes a tree of any rows: of rows twice, of parents and siblings that
\* are not there, and of channels that are their own ancestors.
THEOREM ListingsMakeATree ==
    ASSUME NEW R, \A r \in R : r.id \in Parents, NEW list \in Seq(R)
    PROVE  IsTree(From(list))
  <1>1. PICK kept : kept = OnePerChannel(list)
    OBVIOUS
  <1>2. OneEach(kept, R)
    BY <1>1, OnePerChannelOK
  <1>3. PICK ids : ids = {kept[i].id : i \in DOMAIN kept}
    OBVIOUS
  <1>4. PICK t : t = FlawedIf(Drafted(kept), Len(kept) # Len(list))
    OBVIOUS
  <1>5. t \in Drafts(ids, t.consistent)
    BY <1>2, <1>3, <1>4, DraftedOK
  <1>6. PICK u : u = Hung(t, kept)
    OBVIOUS
  <1>7. u \in Drafts(ids, t.consistent) /\ \A i \in DOMAIN kept : Top \in Ancestry(u, kept[i].id)
    BY <1>2, <1>3, <1>5, <1>6, HungOK
  <1>8. Draft(u, ids) /\ Shape(u)
    BY <1>7 DEF Drafts, Draft
  <1>9. PICK order : order = [c \in Channels |-> IF Has(u, c) THEN OrderIn(u.kids[u.parent[c]], c) ELSE Absent]
    OBVIOUS
  <1>10. PICK v : v = [u EXCEPT !.order = order]
    OBVIOUS
  <1>11. From(list) = v
    BY <1>1, <1>4, <1>6, <1>9, <1>10 DEF From
  <1>12. Shape(v) /\ v.parent = u.parent /\ v.kids = u.kids /\ v.order = order
    BY <1>8, <1>9, <1>10 DEF Shape
  <1>13. \A c : Has(v, c) <=> Has(u, c)
    BY <1>12 DEF Has
  <1>14. ListsAgree(v)
    <2>1. \A p \in Parents : \A i, j \in DOMAIN v.kids[p] : v.kids[p][i] = v.kids[p][j] => i = j
      BY <1>8, <1>12 DEF Draft, Distinct
    <2>2. \A p \in Parents : Range(v.kids[p]) = {c \in Channels : v.parent[c] = p}
      BY <1>8, <1>12 DEF Draft
    <2>3. \A c \in Channels : v.parent[c] \in Channels => Has(v, v.parent[c])
      <3>. SUFFICES ASSUME NEW c \in Channels, u.parent[c] \in Channels  PROVE u.parent[u.parent[c]] # Absent
        BY <1>12 DEF Has
      <3>1. u.parent[c] \in ids
        BY <1>8, ChannelFacts DEF Draft
      <3>2. u.parent[u.parent[c]] \in ids \cup {Top}
        BY <1>8, <3>1 DEF Draft
      <3>. QED  BY <1>8, <3>2, ChannelFacts DEF Draft
    <2>4. \A c \in Channels : v.order[c] = IF Has(v, c) THEN OrderIn(v.kids[v.parent[c]], c) ELSE Absent
      BY <1>9, <1>12, <1>13
    <2>. QED  BY <2>1, <2>2, <2>3, <2>4 DEF ListsAgree
  <1>15. Rooted(v)
    <2>1. \A c \in Channels : Has(v, c) => Top \in Ancestry(u, c)
      <3>. SUFFICES ASSUME NEW c \in Channels, u.parent[c] # Absent  PROVE Top \in Ancestry(u, c)
        BY <1>13 DEF Has
      <3>1. c \in ids
        BY <1>8 DEF Draft
      <3>. QED  BY <1>3, <1>7, <3>1
    <2>2. \A c : Ancestry(v, c) = Ancestry(u, c)
      BY <1>12, <1>13 DEF Ancestry, Upward
    <2>. QED  BY <2>1, <2>2 DEF Rooted
  <1>. QED  BY <1>11, <1>12, <1>14, <1>15 DEF IsTree

-----------------------------------------------------------------------------
(* Reading a listing: siblings that name one another in a chain.           *)

\* The order of the one at a place is the one before it.
LEMMA OrderAt ==
    ASSUME NEW T, NEW s \in Seq(T), Distinct(s), NEW i \in 1 .. Len(s)
    PROVE  OrderIn(s, s[i]) = IF i = 1 THEN Top ELSE s[i - 1]
  <1>1. DOMAIN s = 1 .. Len(s) /\ Len(s) \in Nat
    OBVIOUS
  <1>2. PICK at : at = CHOOSE j \in DOMAIN s : s[j] = s[i]
    OBVIOUS
  <1>3. at \in DOMAIN s /\ s[at] = s[i]
    BY <1>1, <1>2
  <1>4. at = i
    BY <1>1, <1>3 DEF Distinct
  <1>5. OrderIn(s, s[i]) = IF at = 1 THEN Top ELSE s[at - 1]
    BY <1>2 DEF OrderIn
  <1>. QED  BY <1>4, <1>5

\* As many elements as places, if none is there twice.
LEMMA DistinctSize ==
    ASSUME NEW T, NEW s \in Seq(T), Distinct(s)
    PROVE  IsFiniteSet(Range(s)) /\ Cardinality(Range(s)) = Len(s)
  <1>1. PICK n : n = Len(s)
    OBVIOUS
  <1>2. n \in Nat /\ DOMAIN s = 1 .. n
    BY <1>1
  <1>3. PICK f : f = [i \in 1 .. n |-> s[i]]
    OBVIOUS
  <1>4. f \in [1 .. n -> Range(s)] /\ \A i \in 1 .. n : f[i] = s[i]
    BY <1>2, <1>3 DEF Range
  <1>5. f \in Injection(1 .. n, Range(s)) /\ f \in Surjection(1 .. n, Range(s))
    BY <1>2, <1>4 DEF Distinct, Injection, IsInjective, Surjection, Range
  <1>6. ExistsBijection(1 .. n, Range(s))
    BY <1>5 DEF ExistsBijection, Bijection
  <1>7. IsFiniteSet(1 .. n) /\ Cardinality(1 .. n) = n
    BY <1>2, FS_Interval
  <1>. QED  BY <1>1, <1>6, <1>7, FS_Bijection

\* What each of a list has before it, and what it has behind it.
Before(L, k) == IF k = 0 THEN Top ELSE L[k]
Behind1(L, k) == IF k < Len(L) THEN <<L[k + 1]>> ELSE <<>>
IsChain(F, L) == \A k \in 0 .. Len(L) : F[Before(L, k)] = Behind1(L, k)

\* Each sibling names the one before it in the list.
InOrder(L, sib) ==
    /\ L \in Seq(IdsIn(sib)) /\ Distinct(L) /\ Range(L) = IdsIn(sib)
    /\ \A i \in DOMAIN sib : sib[i].order = OrderIn(L, sib[i].id)

LEMMA SiblingsSize ==
    ASSUME NEW R, NEW sib, OneEach(sib, R)
    PROVE  IsFiniteSet(IdsIn(sib)) /\ Cardinality(IdsIn(sib)) = Len(sib)
  <1>1. PICK s : s = IdsOf(sib)
    OBVIOUS
  <1>2. s \in Seq(IdsIn(sib)) /\ Len(s) = Len(sib) /\ Range(s) = IdsIn(sib)
    BY <1>1, IdsInFacts
  <1>3. Distinct(s)
    <2>1. DOMAIN s = DOMAIN sib /\ \A i \in DOMAIN s : s[i] = sib[i].id
      BY <1>1 DEF IdsOf
    <2>. QED  BY <2>1 DEF Distinct, OneEach
  <1>. QED  BY <1>2, <1>3, DistinctSize

LEMMA ChainFollowers ==
    ASSUME NEW R, NEW sib, OneEach(sib, R), NEW F, ListFollowers(F, sib), NEW L, InOrder(L, sib)
    PROVE  /\ Len(L) = Len(sib) /\ IsChain(F, L)
           /\ \A i \in DOMAIN sib : sib[i].order \in IdsIn(sib) \cup {Top}
  <1>1. PICK ids : ids = IdsIn(sib)
    OBVIOUS
  <1>2. PICK n : n = Len(sib)
    OBVIOUS
  <1>3. L \in Seq(ids) /\ Distinct(L) /\ Range(L) = ids /\ \A i \in DOMAIN sib : sib[i].order = OrderIn(L, sib[i].id)
    BY <1>1 DEF InOrder
  <1>4. Len(L) = n
    BY <1>1, <1>2, <1>3, SiblingsSize, DistinctSize
  <1>5. /\ n \in Nat /\ DOMAIN sib = 1 .. n /\ DOMAIN L = 1 .. n /\ (\A i \in 1 .. n : L[i] \in ids)
        /\ Top \notin ids /\ \A i, j \in 1 .. n : sib[i].id = sib[j].id => i = j
    <2>1. n \in Nat /\ DOMAIN sib = 1 .. n
      BY <1>2 DEF OneEach
    <2>2. DOMAIN L = 1 .. n /\ \A i \in 1 .. n : L[i] \in ids
      BY <1>3, <1>4, <2>1
    <2>3. Top \notin ids
      BY <1>1, IdsInFacts
    <2>. QED  BY <2>1, <2>2, <2>3 DEF OneEach
  \* The one at place k + 1 is the one that follows the one at k.
  <1>6. ASSUME NEW i \in 1 .. n, NEW k \in 1 .. n, sib[i].id = L[k]
        PROVE  sib[i].order = Before(L, k - 1) /\ Followed(sib, i) = Before(L, k - 1)
    <2>1. sib[i].order = IF k = 1 THEN Top ELSE L[k - 1]
      <3>1. OrderIn(L, L[k]) = IF k = 1 THEN Top ELSE L[k - 1]
        BY <1>3, <1>4, OrderAt
      <3>. QED  BY <1>3, <1>5, <1>6, <3>1
    <2>2. sib[i].order = Before(L, k - 1)
      BY <1>5, <2>1 DEF Before
    <2>3. k # 1 => L[k - 1] \in ids
      BY <1>5
    <2>. QED  BY <1>1, <2>1, <2>2, <2>3 DEF Followed
  <1>7. \A i \in 1 .. n : \E k \in 1 .. n : sib[i].id = L[k]
    <2>1. \A i \in 1 .. n : sib[i].id \in Range(L)
      BY <1>1, <1>3, <1>5 DEF IdsIn
    <2>. QED  BY <1>5, <2>1 DEF Range
  <1>8. \A k \in 1 .. n : \E i \in 1 .. n : sib[i].id = L[k]
    BY <1>1, <1>5 DEF IdsIn
  <1>9. \A k, l \in 0 .. n : Before(L, k) = Before(L, l) => k = l
    BY <1>3, <1>5 DEF Before, Distinct
  <1>10. ASSUME NEW k \in 0 .. n  PROVE F[Before(L, k)] = Behind1(L, k)
    <2>1. PICK o : o = Before(L, k)
      OBVIOUS
    <2>2. o \in ids \cup {Top}
      BY <1>5, <2>1 DEF Before
    <2>3. PICK J : J = After(sib, o)
      OBVIOUS
    <2>4. J = {i \in 1 .. n : Followed(sib, i) = o}
      BY <1>2, <2>3 DEF After
    <2>5. F[o] \in Seq(ids) /\ Len(F[o]) = Cardinality(J) /\ Range(F[o]) = {sib[i].id : i \in J}
      BY <1>1, <2>2, <2>3 DEF ListFollowers
    <2>6. CASE k = n
      <3>1. J = {}
        <4>. SUFFICES ASSUME NEW i \in J  PROVE FALSE
          OBVIOUS
        <4>1. PICK j \in 1 .. n : sib[i].id = L[j]
          BY <1>7, <2>4
        <4>2. Before(L, j - 1) = Before(L, n) /\ j - 1 \in 0 .. n /\ n \in 0 .. n
          BY <1>5, <1>6, <2>1, <2>4, <2>6, <4>1
        <4>3. j - 1 = n
          BY <1>9, <4>2
        <4>. QED  BY <1>5, <4>3
      <3>2. F[o] = <<>>
        BY <2>5, <3>1, FS_EmptySet
      <3>. QED  BY <1>4, <1>5, <2>1, <2>6, <3>2 DEF Behind1
    <2>7. CASE k # n
      <3>0. k + 1 \in 1 .. n /\ k < n /\ (k + 1) - 1 = k
        BY <1>5, <2>7
      <3>1. PICK i \in 1 .. n : sib[i].id = L[k + 1]
        BY <1>8, <3>0
      <3>2. Followed(sib, i) = o
        BY <1>6, <2>1, <3>0, <3>1
      <3>3. ASSUME NEW j \in J  PROVE j = i
        <4>1. PICK l \in 1 .. n : sib[j].id = L[l]
          BY <1>7, <2>4, <3>3
        <4>2. Before(L, l - 1) = Before(L, k) /\ l - 1 \in 0 .. n
          BY <1>5, <1>6, <2>1, <2>4, <3>3, <4>1
        <4>3. l - 1 = k
          BY <1>9, <4>2
        <4>4. l = k + 1
          BY <3>0, <4>3
        <4>. QED  BY <1>5, <2>4, <3>1, <4>1, <4>4
      <3>4. J = {i}
        BY <2>4, <3>2, <3>3
      <3>5. Len(F[o]) = 1 /\ Range(F[o]) = {L[k + 1]}
        <4>1. Cardinality({i}) = 1
          BY FS_Singleton
        <4>2. {sib[j].id : j \in {i}} = {L[k + 1]}
          BY <3>1
        <4>. QED  BY <2>5, <3>4, <4>1, <4>2
      <3>6. F[o] = <<L[k + 1]>>
        <4>1. PICK s : s = F[o]
          OBVIOUS
        <4>2. s \in Seq(ids) /\ Len(s) = 1 /\ Range(s) = {L[k + 1]}
          BY <2>5, <3>5, <4>1
        <4>3. DOMAIN s = 1 .. 1
          BY <4>2
        <4>4. s[1] = L[k + 1]
          BY <4>2, <4>3 DEF Range
        <4>. QED  BY <4>1, <4>2, <4>4
      <3>. QED  BY <1>4, <2>1, <3>0, <3>6 DEF Behind1
    <2>. QED  BY <2>6, <2>7
  <1>11. \A i \in DOMAIN sib : sib[i].order \in ids \cup {Top}
    <2>. SUFFICES ASSUME NEW i \in 1 .. n  PROVE sib[i].order \in ids \cup {Top}
      BY <1>5
    <2>1. PICK k \in 1 .. n : sib[i].id = L[k]
      BY <1>7
    <2>2. sib[i].order = Before(L, k - 1)
      BY <1>6, <2>1
    <2>3. k - 1 \in 0 .. n /\ (k - 1 = 0 \/ L[k - 1] \in ids)
      BY <1>5
    <2>. QED  BY <2>2, <2>3 DEF Before
  <1>12. IsChain(F, L)
    BY <1>4, <1>10 DEF IsChain
  <1>. QED  BY <1>1, <1>2, <1>4, <1>11, <1>12

\* What a walk along a chain has done after m visits.
Walked(s, L, X, m) ==
    /\ Range(s.todo) \subseteq Range(L)
    /\ IF m <= Len(L) THEN s.todo = Behind1(L, m) \o X ELSE TRUE
    /\ s.out = SubSeq(L, 1, IF m <= Len(L) THEN m ELSE Len(L))

LEMMA FirstOnes ==
    ASSUME NEW T, NEW L \in Seq(T), NEW m \in 1 .. Len(L)
    PROVE  /\ SubSeq(L, 1, 0) = <<>> /\ SubSeq(L, 1, Len(L)) = L
           /\ SubSeq(L, 1, m) = Append(SubSeq(L, 1, m - 1), L[m])
           /\ Distinct(L) => L[m] \notin Range(SubSeq(L, 1, m - 1))
           /\ Range(SubSeq(L, 1, m)) \subseteq Range(L)
  <1>1. Len(L) \in Nat /\ m \in Nat /\ m <= Len(L) /\ m - 1 \in Nat /\ \A i \in 1 .. Len(L) : L[i] \in T
    OBVIOUS
  <1>2. SubSeq(L, 1, 0) = <<>>
    OBVIOUS
  <1>3. SubSeq(L, 1, Len(L)) = L
    OBVIOUS
  <1>4. PICK a : a = SubSeq(L, 1, m - 1)
    OBVIOUS
  <1>5. a \in Seq(T) /\ Len(a) = m - 1 /\ DOMAIN a = 1 .. (m - 1) /\ \A i \in 1 .. (m - 1) : a[i] = L[i]
    BY <1>1, <1>4
  <1>6. PICK b : b = SubSeq(L, 1, m)
    OBVIOUS
  <1>7. b \in Seq(T) /\ Len(b) = m /\ DOMAIN b = 1 .. m /\ \A i \in 1 .. m : b[i] = L[i]
    BY <1>1, <1>6
  <1>8. PICK c : c = Append(a, L[m])
    OBVIOUS
  <1>9. c \in Seq(T) /\ Len(c) = m /\ c[m] = L[m] /\ \A i \in 1 .. (m - 1) : c[i] = L[i]
    <2>1. /\ c \in Seq(T) /\ Len(c) = Len(a) + 1 /\ DOMAIN a = 1 .. Len(a)
          /\ (\A i \in DOMAIN a : c[i] = a[i]) /\ c[Len(a) + 1] = L[m]
      BY <1>1, <1>5, <1>8, AppendFacts
    <2>. QED  BY <1>1, <1>5, <2>1
  <1>10. b = c
    <2>1. \A i \in 1 .. m : i = m \/ i \in 1 .. (m - 1)
      BY <1>1
    <2>2. \A i \in 1 .. m : b[i] = c[i]
      BY <1>7, <1>9, <2>1
    <2>. QED  BY <1>7, <1>9, <2>2
  <1>11. Distinct(L) => L[m] \notin Range(a)
    <2>1. \A i \in 1 .. (m - 1) : i \in 1 .. Len(L) /\ i # m
      BY <1>1
    <2>. QED  BY <1>1, <1>5, <2>1 DEF Distinct, Range
  <1>12. Range(b) \subseteq Range(L)
    <2>1. \A i \in 1 .. m : i \in 1 .. Len(L)
      BY <1>1
    <2>. QED  BY <1>7, <2>1 DEF Range
  <1>. QED  BY <1>2, <1>3, <1>4, <1>6, <1>8, <1>10, <1>11, <1>12

LEMMA AheadOf ==
    ASSUME NEW T, NEW x \in T, NEW X \in Seq(T)
    PROVE  <<x>> \o X # <<>> /\ Head(<<x>> \o X) = x /\ Tail(<<x>> \o X) = X
  OBVIOUS

\* Followed by no more than the next, siblings are listed in the order of their chain.
LEMMA FollowChain ==
    ASSUME NEW T, NEW F, \A o \in T : F[o] \in Seq(T), NEW L \in Seq(T), Distinct(L), IsChain(F, L),
           NEW X \in Seq(T), Range(X) \subseteq Range(L), NEW steps \in Nat, Len(L) <= steps
    PROVE  Follow(F, F[Top] \o X, steps) = L
  <1>1. PICK n : n = Len(L)
    OBVIOUS
  <1>2. n \in Nat /\ DOMAIN L = 1 .. n /\ \A i \in 1 .. n : L[i] \in T
    BY <1>1
  <1>3. ASSUME NEW m \in 0 .. n
        PROVE  /\ F[Before(L, m)] = Behind1(L, m) /\ Behind1(L, m) \in Seq(T)
               /\ Range(Behind1(L, m) \o X) \subseteq Range(L) /\ Behind1(L, m) \o X \in Seq(T)
    <2>1. F[Before(L, m)] = Behind1(L, m)
      BY <1>1 DEF IsChain
    <2>2. CASE m < n
      <3>1. m + 1 \in 1 .. n
        BY <1>2, <2>2
      <3>2. Behind1(L, m) = <<L[m + 1]>> /\ L[m + 1] \in T /\ L[m + 1] \in Range(L)
        BY <1>1, <1>2, <2>2, <3>1 DEF Behind1, Range
      <3>3. <<L[m + 1]>> \in Seq(T) /\ Range(<<L[m + 1]>>) = {L[m + 1]}
        BY <3>2 DEF Range
      <3>4. PICK b : b = Behind1(L, m)
        OBVIOUS
      <3>5. b \in Seq(T) /\ Range(b) \subseteq Range(L)
        BY <3>2, <3>3, <3>4
      <3>6. b \o X \in Seq(T) /\ Range(b \o X) \subseteq Range(L)
        BY <3>5, ConcatRange
      <3>. QED  BY <2>1, <3>4, <3>5, <3>6
    <2>3. CASE ~(m < n)
      <3>1. Behind1(L, m) = <<>> /\ <<>> \in Seq(T) /\ Range(<<>>) = {}
        BY <1>1, <2>3, EmptyFacts DEF Behind1
      <3>. QED  BY <2>1, <3>1, ConcatRange
    <2>. QED  BY <2>2, <2>3
  <1>4. PICK todo : todo = F[Top] \o X
    OBVIOUS
  <1>5. todo = Behind1(L, 0) \o X /\ todo \in Seq(T)
    <2>1. 0 \in 0 .. n /\ Before(L, 0) = Top
      BY <1>2 DEF Before
    <2>. QED  BY <1>3, <1>4, <2>1
  <1>6. PICK visited : AreVisits(visited, T, F, todo, steps)
    BY <1>5, FollowSteps
  <1>7. /\ Follow(F, todo, steps) = visited[steps].out
        /\ \A k \in 0 .. steps : visited[k] \in Visits(T)
        /\ visited[0] = [todo |-> todo, out |-> <<>>]
        /\ \A k \in 1 .. steps : visited[k] = Visit(F, visited[k - 1])
    BY <1>6 DEF AreVisits
  <1>. DEFINE S == {m \in 0 .. steps : Walked(visited[m], L, X, m)}
  <1>8. 0 \in S
    <2>1. PICK s : s = visited[0]
      OBVIOUS
    <2>2. s.todo = todo /\ s.out = <<>>
      BY <1>7, <2>1
    <2>3. SubSeq(L, 1, 0) = <<>>
      OBVIOUS
    <2>4. Range(todo) \subseteq Range(L)
      BY <1>2, <1>3, <1>5
    <2>5. Walked(s, L, X, 0)
      BY <1>1, <1>2, <1>5, <2>2, <2>3, <2>4 DEF Walked
    <2>. QED  BY <2>1, <2>5
  <1>9. ASSUME NEW m \in 1 .. steps, m - 1 \in S  PROVE m \in S
    <2>1. PICK s : s = visited[m - 1]
      OBVIOUS
    <2>2. PICK v : v = visited[m]
      OBVIOUS
    <2>3. /\ m \in Nat /\ m # 0 /\ m \in 0 .. steps /\ m - 1 \in 0 .. steps
          /\ s \in Visits(T) /\ v = Visit(F, s) /\ Walked(s, L, X, m - 1)
      BY <1>7, <1>9, <2>1, <2>2
    <2>4. s.todo \in Seq(T) /\ s.out \in Seq(T) /\ Visited(F, s, v)
      BY <2>3, VisitCases DEF Visits
    <2>5. CASE m <= n
      <3>1. m \in 1 .. n /\ m - 1 \in 0 .. n /\ m - 1 <= n /\ m - 1 < n /\ (m - 1) + 1 = m /\ m \in 0 .. n
        BY <1>2, <2>3, <2>5
      <3>2. s.todo = <<L[m]>> \o X /\ s.out = SubSeq(L, 1, m - 1)
        BY <1>1, <2>3, <3>1 DEF Walked, Behind1
      <3>3. s.todo # <<>> /\ Head(s.todo) = L[m] /\ Tail(s.todo) = X
        <4>1. PICK x : x = L[m]
          OBVIOUS
        <4>2. x \in T /\ s.todo = <<x>> \o X
          BY <1>2, <3>1, <3>2, <4>1
        <4>3. <<x>> \o X # <<>> /\ Head(<<x>> \o X) = x /\ Tail(<<x>> \o X) = X
          BY <4>2, AheadOf
        <4>. QED  BY <4>1, <4>2, <4>3
      <3>4. L[m] \notin Range(s.out)
        <4>1. m \in 1 .. Len(L)
          BY <1>1, <3>1
        <4>2. L[m] \notin Range(SubSeq(L, 1, m - 1))
          BY <4>1, FirstOnes
        <4>. QED  BY <3>2, <4>2
      <3>5. v.todo = F[L[m]] \o X /\ v.out = Append(s.out, L[m])
        BY <2>4, <3>3, <3>4 DEF Visited
      <3>6. v.todo = Behind1(L, m) \o X
        <4>1. Before(L, m) = L[m]
          BY <2>3 DEF Before
        <4>2. F[L[m]] = Behind1(L, m)
          BY <1>3, <3>1, <4>1
        <4>. QED  BY <3>5, <4>2
      <3>7. v.out = SubSeq(L, 1, m)
        BY <1>1, <3>1, <3>2, <3>5, FirstOnes
      <3>8. Walked(v, L, X, m)
        BY <1>1, <1>3, <2>5, <3>1, <3>6, <3>7 DEF Walked
      <3>. QED  BY <2>2, <2>3, <3>8
    <2>6. CASE ~(m <= n)
      <3>1. Range(s.todo) \subseteq Range(L) /\ s.out = L
        <4>1. s.out = SubSeq(L, 1, n)
          BY <1>1, <1>2, <2>3, <2>6 DEF Walked
        <4>2. SubSeq(L, 1, n) = L
          BY <1>1
        <4>. QED  BY <2>3, <4>1, <4>2 DEF Walked
      <3>2. v.out = L /\ Range(v.todo) \subseteq Range(L)
        <4>1. CASE s.todo = <<>>
          <5>1. v = s
            BY <2>4, <4>1 DEF Visited
          <5>. QED  BY <3>1, <5>1
        <4>2. CASE s.todo # <<>>
          <5>1. Range(s.todo) = {Head(s.todo)} \cup Range(Tail(s.todo))
            BY <2>4, <4>2, HeadTailRange
          <5>2. Head(s.todo) \in Range(s.out)
            BY <3>1, <5>1
          <5>3. v.todo = Tail(s.todo) /\ v.out = s.out
            BY <2>4, <4>2, <5>2 DEF Visited
          <5>. QED  BY <3>1, <5>1, <5>3
        <4>. QED  BY <4>1, <4>2
      <3>3. SubSeq(L, 1, n) = L
        BY <1>1
      <3>4. Walked(v, L, X, m)
        BY <1>1, <2>6, <3>2, <3>3 DEF Walked
      <3>. QED  BY <2>2, <2>3, <3>4
    <2>. QED  BY <2>5, <2>6
  <1>. HIDE DEF S
  <1>10. \A m \in 0 .. steps : m \in S
    BY <1>8, <1>9, Steps
  <1>11. Walked(visited[steps], L, X, steps)
    <2>1. steps \in S
      BY <1>10
    <2>. QED  BY <2>1 DEF S
  <1>12. visited[steps].out = SubSeq(L, 1, n)
    <2>1. steps <= n => steps = n
      BY <1>1, <1>2
    <2>. QED  BY <1>1, <1>11, <2>1 DEF Walked
  <1>13. SubSeq(L, 1, n) = L
    BY <1>1
  <1>. QED  BY <1>4, <1>7, <1>12, <1>13

\* Each of a list is one of those that follow the one before it.
Following(F, L) == \A k \in 1 .. Len(L) : L[k] \in Range(F[Before(L, k - 1)])

\* When no two follow the same, a walk goes from one to the one that follows it.
LEMMA FollowOne ==
    ASSUME NEW T, NEW F, \A o \in T \cup {Top} : F[o] \in Seq(T) /\ Len(F[o]) <= 1, NEW n \in Nat
    PROVE  /\ Follow(F, F[Top], n) \in Seq(T) /\ Distinct(Follow(F, F[Top], n))
           /\ Following(F, Follow(F, F[Top], n))
  <1>. DEFINE Good(s) == /\ s \in Visits(T) /\ Distinct(s.out) /\ Following(F, s.out)
                         /\ s.todo = <<>> \/ s.todo = F[Before(s.out, Len(s.out))]
  <1>1. F[Top] \in Seq(T) /\ \A o \in T : F[o] \in Seq(T)
    OBVIOUS
  <1>2. PICK visited : AreVisits(visited, T, F, F[Top], n)
    BY <1>1, FollowSteps
  <1>3. /\ Follow(F, F[Top], n) = visited[n].out
        /\ \A k \in 0 .. n : visited[k] \in Visits(T)
        /\ visited[0] = [todo |-> F[Top], out |-> <<>>]
        /\ \A k \in 1 .. n : visited[k] = Visit(F, visited[k - 1])
    BY <1>2 DEF AreVisits
  <1>. DEFINE S == {k \in 0 .. n : Good(visited[k])}
  <1>4. 0 \in S
    <2>1. PICK s : s = visited[0]
      OBVIOUS
    <2>2. s.todo = F[Top] /\ s.out = <<>> /\ s \in Visits(T)
      BY <1>3, <2>1
    <2>3. Distinct(<<>>) /\ Len(<<>>) = 0 /\ Following(F, <<>>) /\ Before(<<>>, 0) = Top
      BY EmptyFacts DEF Following, Before
    <2>4. Good(s)
      BY <2>2, <2>3
    <2>. HIDE DEF Good
    <2>. QED  BY <2>1, <2>4
  <1>5. ASSUME NEW k \in 1 .. n, k - 1 \in S  PROVE k \in S
    <2>1. PICK s : s = visited[k - 1]
      OBVIOUS
    <2>2. PICK v : v = visited[k]
      OBVIOUS
    <2>3. Good(s) /\ v = Visit(F, s) /\ k \in 0 .. n
      BY <1>3, <1>5, <2>1, <2>2
    <2>4. s.todo \in Seq(T) /\ s.out \in Seq(T) /\ v \in Visits(T) /\ Visited(F, s, v)
      BY <1>1, <2>3, VisitCases DEF Visits
    <2>5. CASE s.todo = <<>>
      <3>1. v = s
        BY <2>4, <2>5 DEF Visited
      <3>. HIDE DEF Good
      <3>. QED  BY <2>2, <2>3, <3>1
    <2>6. CASE s.todo # <<>>
      <3>1. PICK h : h = Head(s.todo)
        OBVIOUS
      <3>2. PICK m : m = Len(s.out)
        OBVIOUS
      <3>3. m \in Nat /\ DOMAIN s.out = 1 .. m /\ \A i \in 1 .. m : s.out[i] \in T
        BY <2>4, <3>2
      <3>4. Before(s.out, m) \in T \cup {Top}
        BY <3>3 DEF Before
      <3>5. s.todo = F[Before(s.out, m)] /\ Len(s.todo) <= 1
        BY <2>3, <2>6, <3>2, <3>4
      <3>6. h \in T /\ h \in Range(s.todo) /\ Tail(s.todo) = <<>>
        <4>1. PICK d : d = s.todo
          OBVIOUS
        <4>2. PICK r : r = Tail(d)
          OBVIOUS
        <4>3. d \in Seq(T) /\ d # <<>> /\ h = Head(d) /\ Len(d) <= 1
          BY <2>4, <2>6, <3>1, <3>5, <4>1
        <4>4. h \in T /\ r \in Seq(T) /\ Len(d) = Len(r) + 1 /\ Len(r) \in Nat /\ Range(d) = {h} \cup Range(r)
          BY <4>2, <4>3, HeadTailRange
        <4>5. Len(r) = 0
          BY <4>3, <4>4
        <4>6. r = <<>>
          BY <4>4, <4>5
        <4>. QED  BY <4>1, <4>2, <4>4, <4>6
      <3>7. CASE h \in Range(s.out)
        <4>1. v.todo = <<>> /\ v.out = s.out
          BY <2>4, <2>6, <3>1, <3>6, <3>7 DEF Visited
        <4>. QED  BY <2>2, <2>3, <2>4, <4>1
      <3>8. CASE h \notin Range(s.out)
        <4>1. PICK out : out = Append(s.out, h)
          OBVIOUS
        <4>2. v.todo = F[h] \o <<>> /\ v.out = out
          BY <2>4, <2>6, <3>1, <3>6, <3>8, <4>1 DEF Visited
        <4>3. F[h] \o <<>> = F[h]
          BY <1>1, <3>6
        <4>4. /\ out \in Seq(T) /\ Len(out) = m + 1 /\ DOMAIN out = 1 .. (m + 1)
              /\ (\A i \in 1 .. m : out[i] = s.out[i]) /\ out[m + 1] = h
          BY <2>4, <3>2, <3>3, <3>6, <4>1, AppendFacts
        <4>5. Distinct(out)
          BY <2>3, <2>4, <3>6, <3>8, <4>1, AppendRange
        <4>6. Before(out, m + 1) = h /\ \A i \in 1 .. (m + 1) : Before(out, i - 1) = Before(s.out, i - 1)
          BY <3>3, <4>4 DEF Before
        <4>7. Following(F, out)
          <5>. SUFFICES ASSUME NEW i \in 1 .. (m + 1)  PROVE out[i] \in Range(F[Before(out, i - 1)])
            BY <4>4 DEF Following
          <5>1. CASE i = m + 1
            <6>1. i - 1 = m
              BY <3>3, <5>1
            <6>. QED  BY <3>5, <3>6, <4>4, <4>6, <5>1, <6>1
          <5>2. CASE i # m + 1
            <6>1. i \in 1 .. m
              BY <3>3, <5>2
            <6>. QED  BY <2>3, <3>2, <4>4, <4>6, <6>1 DEF Following
          <5>. QED  BY <5>1, <5>2
        <4>8. Good(v)
          BY <2>4, <4>2, <4>3, <4>4, <4>5, <4>6, <4>7
        <4>. HIDE DEF Good
        <4>. QED  BY <2>2, <2>3, <4>8
      <3>. QED  BY <3>7, <3>8
    <2>. QED  BY <2>5, <2>6
  <1>. HIDE DEF S
  <1>6. \A k \in 0 .. n : k \in S
    BY <1>4, <1>5, Steps
  <1>7. Good(visited[n])
    <2>1. n \in S
      BY <1>6
    <2>. QED  BY <2>1 DEF S
  <1>. QED  BY <1>3, <1>7 DEF Visits

\* The siblings are found to be one chain exactly if there is an order of them in which
\* each names the one before it, and then that is the order they are brought into.
LEMMA SiblingsChained ==
    ASSUME NEW R, NEW sib, OneEach(sib, R)
    PROVE  /\ Chained(sib) => \E L : InOrder(L, sib)
           /\ \A L : InOrder(L, sib) => Chained(sib) /\ Sorted(sib) = L
  <1>. DEFINE F == Followers(sib)
              ids == IdsIn(sib)
  <1>1. PICK n : n = Len(sib)
    OBVIOUS
  <1>2. /\ n \in Nat /\ DOMAIN sib = 1 .. n /\ Top \notin ids /\ IdsOf(sib) \in Seq(ids) /\ Len(IdsOf(sib)) = n
        /\ Range(IdsOf(sib)) = ids /\ IsFiniteSet(ids) /\ Cardinality(ids) = n
        /\ \A i, j \in 1 .. n : sib[i].id = sib[j].id => i = j
    BY <1>1, IdsInFacts, SiblingsSize DEF OneEach
  <1>3. ListFollowers(F, sib)
    BY FollowersAre
  <1>. HIDE DEF F, ids
  <1>4. DOMAIN F = ids \cup {Top} /\ \A o \in ids \cup {Top} : F[o] \in Seq(ids)
    BY <1>3 DEF ListFollowers, ids
  <1>5. ASSUME Chained(sib)  PROVE \E L : InOrder(L, sib)
    <2>1. PICK L : L = Follow(F, F[Top], n)
      OBVIOUS
    <2>2. /\ \A i \in 1 .. n : sib[i].order \in ids \cup {Top}
          /\ \A o \in ids \cup {Top} : Len(F[o]) <= 1
          /\ Len(L) = n
      BY <1>1, <1>2, <1>4, <1>5, <2>1 DEF Chained, F
    <2>3. L \in Seq(ids) /\ Distinct(L) /\ Following(F, L)
      BY <1>2, <1>4, <2>1, <2>2, FollowOne
    <2>4. Range(L) = ids
      <3>1. Range(L) \subseteq ids /\ Cardinality(Range(L)) = n
        BY <2>2, <2>3, RangeIn, DistinctSize
      <3>. QED  BY <1>2, <3>1, FS_Subset
    <2>5. ASSUME NEW i \in 1 .. n  PROVE sib[i].order = OrderIn(L, sib[i].id)
      <3>1. sib[i].id \in Range(L)
        BY <1>2, <2>4 DEF ids, IdsIn
      <3>2. PICK k \in 1 .. n : L[k] = sib[i].id
        BY <2>2, <2>3, <3>1 DEF Range
      <3>3. PICK o : o = Before(L, k - 1)
        OBVIOUS
      <3>4. o \in ids \cup {Top} /\ o = IF k = 1 THEN Top ELSE L[k - 1]
        BY <1>2, <2>2, <2>3, <3>3 DEF Before
      <3>5. sib[i].id \in {sib[j].id : j \in After(sib, o)}
        BY <1>3, <2>2, <2>3, <3>2, <3>3, <3>4 DEF Following, ListFollowers, ids
      <3>6. i \in After(sib, o)
        BY <1>1, <1>2, <3>5 DEF After
      <3>7. sib[i].order = o
        BY <1>2, <2>2, <3>6 DEF After, Followed, ids
      <3>8. OrderIn(L, L[k]) = IF k = 1 THEN Top ELSE L[k - 1]
        BY <2>2, <2>3, OrderAt
      <3>. QED  BY <3>2, <3>4, <3>7, <3>8
    <2>6. InOrder(L, sib)
      BY <1>2, <2>3, <2>4, <2>5 DEF InOrder, ids
    <2>. QED  BY <2>6
  <1>6. ASSUME NEW L, InOrder(L, sib)  PROVE Chained(sib) /\ Sorted(sib) = L
    <2>1. /\ Len(L) = n /\ IsChain(F, L) /\ \A i \in DOMAIN sib : sib[i].order \in ids \cup {Top}
      BY <1>1, <1>3, <1>6, ChainFollowers DEF ids
    <2>2. L \in Seq(ids) /\ Distinct(L) /\ Range(L) = ids
      BY <1>6 DEF InOrder, ids
    <2>3. \A o \in ids : F[o] \in Seq(ids)
      BY <1>4
    <2>4. Sorted(sib) = L
      <3>1. Sorted(sib) = Follow(F, F[Top] \o IdsOf(sib), 2 * n)
        BY <1>1 DEF Sorted, F
      <3>2. 2 * n \in Nat /\ Len(L) <= 2 * n
        BY <1>2, <2>1
      <3>. QED  BY <1>2, <2>1, <2>2, <2>3, <3>1, <3>2, FollowChain
    <2>5. Follow(F, F[Top], n) = L
      <3>1. PICK none : none = <<>>
        OBVIOUS
      <3>2. Follow(F, F[Top] \o none, n) = L
        <4>1. none \in Seq(ids) /\ Range(none) \subseteq Range(L) /\ Len(L) <= n
          BY <1>2, <2>1, <3>1, EmptyFacts
        <4>2. IsChain(F, L) /\ n \in Nat /\ Distinct(L) /\ L \in Seq(ids)
          BY <1>2, <2>1, <2>2
        <4>. QED  BY <2>3, <4>1, <4>2, FollowChain
      <3>3. F[Top] \o none = F[Top]
        BY <1>4, <3>1
      <3>. QED  BY <3>2, <3>3
    <2>6. ASSUME NEW o \in ids \cup {Top}  PROVE Len(F[o]) <= 1
      <3>1. \E k \in 0 .. n : o = Before(L, k)
        <4>1. CASE o = Top
          BY <1>2, <4>1 DEF Before
        <4>2. CASE o # Top
          <5>1. o \in Range(L)
            BY <2>2, <2>6, <4>2
          <5>2. PICK k \in 1 .. n : L[k] = o
            BY <2>1, <2>2, <5>1 DEF Range
          <5>. QED  BY <1>2, <5>2 DEF Before
        <4>. QED  BY <4>1, <4>2
      <3>2. PICK k \in 0 .. n : o = Before(L, k)
        BY <3>1
      <3>3. F[o] = Behind1(L, k)
        BY <2>1, <3>2 DEF IsChain
      <3>. QED  BY <3>3 DEF Behind1
    <2>7. Chained(sib)
      BY <1>1, <1>2, <1>4, <2>1, <2>5, <2>6 DEF Chained, F
    <2>. QED  BY <2>4, <2>7
  <1>. QED  BY <1>5, <1>6

\* A row that names a parent that is not there.
Strays(kept, row)  == row.parent # Top /\ (row.parent = row.id \/ row.parent \notin IdsIn(kept))
UnderIn(kept, p)   == Picked(kept, {i \in DOMAIN kept : kept[i].parent = p})

RowsUnder(s, kept, p) ==
    /\ \A k \in DOMAIN s : \E i \in DOMAIN kept : s[k] = kept[i] /\ kept[i].parent = p
    /\ \A i \in DOMAIN kept : kept[i].parent = p => \E k \in DOMAIN s : s[k] = kept[i]

LEMMA UnderInFacts ==
    ASSUME NEW R, NEW kept, OneEach(kept, R), NEW p
    PROVE  OneEach(UnderIn(kept, p), R) /\ RowsUnder(UnderIn(kept, p), kept, p)
  <1>1. PICK J : J = {i \in DOMAIN kept : kept[i].parent = p}
    OBVIOUS
  <1>2. PICK s : s = UnderIn(kept, p)
    OBVIOUS
  <1>3. DOMAIN kept \cap J = J /\ kept \in Seq(R) /\ s = Picked(kept, J)
    BY <1>1, <1>2 DEF OneEach, UnderIn
  <1>4. s \in Seq(R) /\ Lists(s, kept, J)
    BY <1>3, PickedFacts
  <1>5. PICK g \in [DOMAIN s -> J] :
            /\ \A k \in DOMAIN s : s[k] = kept[g[k]]
            /\ \A k, l \in DOMAIN s : g[k] = g[l] => k = l
            /\ \A j \in J : \E k \in DOMAIN s : g[k] = j
    BY <1>4 DEF Lists
  <1>6. \A k \in DOMAIN s : g[k] \in DOMAIN kept /\ g[k] \in J
    BY <1>1, <1>5
  <1>7. OneEach(s, R)
    <2>1. \A k \in DOMAIN s : s[k].id \in Channels
      BY <1>5, <1>6 DEF OneEach
    <2>2. \A k, l \in DOMAIN s : s[k].id = s[l].id => k = l
      BY <1>5, <1>6 DEF OneEach
    <2>. QED  BY <1>4, <2>1, <2>2 DEF OneEach
  <1>8. \A k \in DOMAIN s : \E i \in DOMAIN kept : s[k] = kept[i] /\ kept[i].parent = p
    BY <1>1, <1>5, <1>6
  <1>9. \A i \in DOMAIN kept : kept[i].parent = p => \E k \in DOMAIN s : s[k] = kept[i]
    BY <1>1, <1>5
  <1>. QED  BY <1>2, <1>7, <1>8, <1>9 DEF RowsUnder

\* The rows in their places, if each parent is there.
Placed(t, kept) ==
    /\ \A i \in DOMAIN kept : t.parent[kept[i].id] = kept[i].parent
    /\ \A p \in Parents : t.kids[p] = Sorted(UnderIn(kept, p))

DraftedAs(t, kept) ==
    /\ t.consistent <=> /\ \A i \in DOMAIN kept : ~Strays(kept, kept[i])
                        /\ \A p \in Parents : Chained(UnderIn(kept, p))
    /\ (\A i \in DOMAIN kept : ~Strays(kept, kept[i])) => Placed(t, kept)

LEMMA DraftedPlaces ==
    ASSUME NEW R, NEW kept, OneEach(kept, R)
    PROVE  DraftedAs(Drafted(kept), kept)
  <1>. DEFINE ids == Range(IdsOf(kept))
              Astray(row) == row.parent # Top /\ (row.parent = row.id \/ row.parent \notin ids)
              Parent(row) == IF Astray(row) THEN Top ELSE row.parent
              RowOf(c) == kept[CHOOSE i \in DOMAIN kept : kept[i].id = c]
              Of(p) == {i \in DOMAIN kept : Parent(kept[i]) = p}
              t == Drafted(kept)
  <1>1. ids = IdsIn(kept)
    BY IdsInFacts
  <1>2. /\ t.parent = [c \in Channels |-> IF c \in ids THEN Parent(RowOf(c)) ELSE Absent]
        /\ t.kids = [p \in Parents |-> Sorted(Picked(kept, Of(p)))]
        /\ t.consistent <=> /\ \A i \in DOMAIN kept : ~Astray(kept[i])
                            /\ \A p \in Parents : Chained(Picked(kept, Of(p)))
    BY DEF Drafted
  <1>. HIDE DEF t, ids
  <1>3. \A i \in DOMAIN kept : Astray(kept[i]) <=> Strays(kept, kept[i])
    BY <1>1 DEF Strays
  <1>4. ASSUME \A i \in DOMAIN kept : ~Strays(kept, kept[i])
        PROVE  \A i \in DOMAIN kept : Parent(kept[i]) = kept[i].parent
    BY <1>3, <1>4
  <1>5. ASSUME \A i \in DOMAIN kept : ~Strays(kept, kept[i]), NEW p
        PROVE  Picked(kept, Of(p)) = UnderIn(kept, p)
    <2>1. Of(p) = {i \in DOMAIN kept : kept[i].parent = p}
      BY <1>4, <1>5
    <2>. HIDE DEF Of
    <2>. QED  BY <2>1 DEF UnderIn
  <1>6. ASSUME \A i \in DOMAIN kept : ~Strays(kept, kept[i])  PROVE Placed(t, kept)
    <2>1. ASSUME NEW i \in DOMAIN kept  PROVE t.parent[kept[i].id] = kept[i].parent
      <3>1. PICK j : j = CHOOSE k \in DOMAIN kept : kept[k].id = kept[i].id
        OBVIOUS
      <3>2. j = i
        BY <3>1 DEF OneEach
      <3>3. kept[i].id \in ids /\ kept[i].id \in Channels
        BY <1>1 DEF OneEach, IdsIn
      <3>4. RowOf(kept[i].id) = kept[i]
        BY <3>1, <3>2
      <3>5. Parent(kept[i]) = kept[i].parent
        BY <1>4, <1>6
      <3>. HIDE DEF RowOf, Parent
      <3>. QED  BY <1>2, <3>3, <3>4, <3>5
    <2>2. ASSUME NEW p \in Parents  PROVE t.kids[p] = Sorted(UnderIn(kept, p))
      <3>1. Picked(kept, Of(p)) = UnderIn(kept, p)
        BY <1>5, <1>6
      <3>2. t.kids[p] = Sorted(Picked(kept, Of(p)))
        BY <1>2
      <3>. QED  BY <3>1, <3>2
    <2>. QED  BY <2>1, <2>2 DEF Placed
  <1>7. t.consistent <=> /\ \A i \in DOMAIN kept : ~Strays(kept, kept[i])
                         /\ \A p \in Parents : Chained(UnderIn(kept, p))
    <2>1. CASE \A i \in DOMAIN kept : ~Strays(kept, kept[i])
      <3>1. \A p \in Parents : Picked(kept, Of(p)) = UnderIn(kept, p)
        BY <1>5, <2>1
      <3>2. \A i \in DOMAIN kept : ~Astray(kept[i])
        BY <1>3, <2>1
      <3>. HIDE DEF Of, Astray
      <3>. QED  BY <1>2, <2>1, <3>1, <3>2
    <2>2. CASE ~\A i \in DOMAIN kept : ~Strays(kept, kept[i])
      <3>1. ~\A i \in DOMAIN kept : ~Astray(kept[i])
        BY <1>3, <2>2
      <3>. HIDE DEF Of, Astray
      <3>. QED  BY <1>2, <2>2, <3>1
    <2>. QED  BY <2>1, <2>2
  <1>. QED  BY <1>6, <1>7 DEF t, DraftedAs

\* The lists of a set, each element once.
LEMMA SetLists ==
    ASSUME NEW S, IsFiniteSet(S), NEW L
    PROVE  L \in SetToSeqs(S) <=> L \in Seq(S) /\ Distinct(L) /\ Range(L) = S
  <1>1. PICK m : m = Cardinality(S)
    OBVIOUS
  <1>2. m \in Nat
    BY <1>1, FS_CardinalityType
  <1>3. SetToSeqs(S) = {f \in [1 .. m -> S] : \A i, j \in 1 .. m : i # j => f[i] # f[j]}
    BY <1>1 DEF SetToSeqs
  <1>4. ASSUME L \in SetToSeqs(S)  PROVE L \in Seq(S) /\ Distinct(L) /\ Range(L) = S
    <2>1. L \in [1 .. m -> S] /\ \A i, j \in 1 .. m : i # j => L[i] # L[j]
      BY <1>3, <1>4
    <2>2. L \in Seq(S) /\ Len(L) = m /\ DOMAIN L = 1 .. m
      BY <1>2, <2>1
    <2>3. Distinct(L)
      BY <2>1, <2>2 DEF Distinct
    <2>4. Range(L) \subseteq S /\ Cardinality(Range(L)) = m
      BY <2>2, <2>3, RangeIn, DistinctSize
    <2>5. Range(L) = S
      BY <1>1, <2>4, FS_Subset
    <2>. QED  BY <2>2, <2>3, <2>5
  <1>5. ASSUME L \in Seq(S), Distinct(L), Range(L) = S  PROVE L \in SetToSeqs(S)
    <2>1. Len(L) = m
      BY <1>1, <1>5, DistinctSize
    <2>2. L \in [1 .. m -> S] /\ DOMAIN L = 1 .. m
      BY <1>5, <2>1
    <2>3. \A i, j \in 1 .. m : i # j => L[i] # L[j]
      BY <1>5, <2>2 DEF Distinct
    <2>. QED  BY <1>3, <2>2, <2>3
  <1>. QED  BY <1>4, <1>5

\* DescribeATree of rows that are one per channel, without the choice of a channel's row.
Described(list) ==
    /\ \A i \in DOMAIN list : list[i].parent \in IdsIn(list) \cup {Top}
    /\ \A S \in SUBSET IdsIn(list) : S # {} =>
         \E i \in DOMAIN list : list[i].id \in S /\ list[i].parent \notin S
    /\ \A p \in IdsIn(list) \cup {Top} : \E L : InOrder(L, UnderIn(list, p))

LEMMA DescribedMeans ==
    ASSUME NEW R, NEW list, OneEach(list, R)
    PROVE  DescribeATree(list) <=> Described(list)
  <1>. DEFINE ids == {list[i].id : i \in DOMAIN list}
              Of(c) == list[CHOOSE i \in DOMAIN list : list[i].id = c]
              Under(p) == {c \in ids : Of(c).parent = p}
              Ordered(p) == \E L \in SetToSeqs(Under(p)) : \A c \in Under(p) : Of(c).order = OrderIn(L, c)
  <1>1. /\ \A i \in DOMAIN list : list[i].id \in ids
        /\ \A c \in ids : \E i \in DOMAIN list : list[i].id = c
        /\ ids = IdsIn(list) /\ Top \notin ids /\ IsFiniteSet(ids)
        /\ \A i, j \in DOMAIN list : list[i].id = list[j].id => i = j
    <2>1. ids = IdsIn(list)
      BY DEF IdsIn
    <2>2. Top \notin IdsIn(list) /\ IsFiniteSet(IdsIn(list))
      BY IdsInFacts, SiblingsSize
    <2>. QED  BY <2>1, <2>2 DEF OneEach
  <1>2. ASSUME NEW i \in DOMAIN list  PROVE Of(list[i].id) = list[i]
    <2>1. PICK j : j = CHOOSE k \in DOMAIN list : list[k].id = list[i].id
      OBVIOUS
    <2>2. j = i
      BY <1>1, <2>1
    <2>. QED  BY <2>1, <2>2
  <1>3. DescribeATree(list) <=>
           /\ Top \notin ids
           /\ \A i, j \in DOMAIN list : list[i].id = list[j].id => i = j
           /\ \A c \in ids : Of(c).parent \in ids \cup {Top}
           /\ \A S \in SUBSET ids : S # {} => \E c \in S : Of(c).parent \notin S
           /\ \A p \in ids \cup {Top} : Ordered(p)
    BY DEF DescribeATree
  <1>. HIDE DEF ids, Of
  <1>4. ASSUME NEW p  PROVE Ordered(p) <=> \E L : InOrder(L, UnderIn(list, p))
    <2>1. PICK s : s = UnderIn(list, p)
      OBVIOUS
    <2>2. /\ \A k \in DOMAIN s : \E i \in DOMAIN list : s[k] = list[i] /\ list[i].parent = p
          /\ \A i \in DOMAIN list : list[i].parent = p => \E k \in DOMAIN s : s[k] = list[i]
      BY <2>1, UnderInFacts DEF RowsUnder
    <2>3. \A k \in DOMAIN s : s[k].id \in Under(p) /\ Of(s[k].id) = s[k]
      BY <1>1, <1>2, <2>2
    <2>4. \A c \in Under(p) : \E k \in DOMAIN s : s[k].id = c /\ Of(c) = s[k]
      BY <1>1, <1>2, <2>2
    <2>5. IdsIn(s) = Under(p)
      <3>1. Under(p) \subseteq IdsIn(s)
        BY <2>4 DEF IdsIn
      <3>2. IdsIn(s) \subseteq Under(p)
        <4>. HIDE DEF Under
        <4>. QED  BY <2>3 DEF IdsIn
      <3>. QED  BY <3>1, <3>2
    <2>6. IsFiniteSet(Under(p))
      <3>1. Under(p) \subseteq ids
        OBVIOUS
      <3>. HIDE DEF Under
      <3>. QED  BY <1>1, <3>1, FS_Subset
    <2>. HIDE DEF Under
    <2>7. ASSUME NEW L
          PROVE  InOrder(L, s) <=> L \in SetToSeqs(Under(p)) /\ \A c \in Under(p) : Of(c).order = OrderIn(L, c)
      <3>1. L \in SetToSeqs(Under(p)) <=> L \in Seq(Under(p)) /\ Distinct(L) /\ Range(L) = Under(p)
        BY <2>6, SetLists
      <3>2. (\A k \in DOMAIN s : s[k].order = OrderIn(L, s[k].id)) <=> \A c \in Under(p) : Of(c).order = OrderIn(L, c)
        BY <2>3, <2>4
      <3>. QED  BY <2>5, <3>1, <3>2 DEF InOrder
    <2>. QED  BY <2>1, <2>7
  <1>5. (\A c \in ids : Of(c).parent \in ids \cup {Top}) <=> \A i \in DOMAIN list : list[i].parent \in ids \cup {Top}
    BY <1>1, <1>2
  <1>6. ASSUME NEW S \in SUBSET ids
        PROVE  (\E c \in S : Of(c).parent \notin S) <=> \E i \in DOMAIN list : list[i].id \in S /\ list[i].parent \notin S
    BY <1>1, <1>2
  <1>. HIDE DEF Ordered
  <1>. QED  BY <1>1, <1>3, <1>4, <1>5, <1>6 DEF Described

\* Rows that are one per channel make a consistent draft with every channel under the top
\* level exactly if they describe a tree.
LEMMA DraftedConsistent ==
    ASSUME NEW R, NEW list, OneEach(list, R), NEW t, Draft(t, IdsIn(list)),
           Same(t, Drafted(list)), t.consistent <=> Drafted(list).consistent
    PROVE  /\ t.consistent /\ (\A i \in DOMAIN list : Top \in Ancestry(t, list[i].id)) <=> Described(list)
           /\ t.consistent => Placed(t, list)
  <1>1. PICK ids : ids = IdsIn(list)
    OBVIOUS
  <1>2. /\ ids \subseteq Channels /\ Top \notin ids /\ Shape(t)
        /\ \A c \in Channels : t.parent[c] \in (IF c \in ids THEN ids \cup {Top} ELSE {Absent})
        /\ \A i \in DOMAIN list : list[i].id \in ids
    <2>1. ids \subseteq Channels /\ Top \notin ids
      BY <1>1, IdsInFacts
    <2>2. Shape(t) /\ \A c \in Channels : t.parent[c] \in (IF c \in ids THEN ids \cup {Top} ELSE {Absent})
      BY <1>1 DEF Draft
    <2>3. \A i \in DOMAIN list : list[i].id \in ids
      BY <1>1 DEF IdsIn
    <2>. QED  BY <2>1, <2>2, <2>3
  <1>3. \A c \in ids : \E i \in DOMAIN list : list[i].id = c
    BY <1>1 DEF IdsIn
  <1>4. /\ t.consistent <=> /\ \A i \in DOMAIN list : ~Strays(list, list[i])
                            /\ \A p \in Parents : Chained(UnderIn(list, p))
        /\ (\A i \in DOMAIN list : ~Strays(list, list[i])) => Placed(t, list)
    <2>1. PICK d : d = Drafted(list)
      OBVIOUS
    <2>2. t.parent = d.parent /\ t.kids = d.kids /\ (t.consistent <=> d.consistent)
      BY <2>1 DEF Same
    <2>3. DraftedAs(d, list)
      BY <2>1, DraftedPlaces
    <2>4. Placed(d, list) => Placed(t, list)
      BY <2>2 DEF Placed
    <2>. QED  BY <2>2, <2>3, <2>4 DEF DraftedAs
  <1>5. \A p : Chained(UnderIn(list, p)) <=> \E L : InOrder(L, UnderIn(list, p))
    <2>. SUFFICES ASSUME NEW p  PROVE Chained(UnderIn(list, p)) <=> \E L : InOrder(L, UnderIn(list, p))
      OBVIOUS
    <2>1. OneEach(UnderIn(list, p), R)
      BY UnderInFacts
    <2>. QED  BY <2>1, SiblingsChained
  <1>6. ASSUME t.consistent, \A i \in DOMAIN list : Top \in Ancestry(t, list[i].id)
        PROVE  Described(list)
    <2>1. \A i \in DOMAIN list : list[i].parent \in ids \cup {Top} /\ t.parent[list[i].id] = list[i].parent
      BY <1>1, <1>4, <1>6 DEF Strays, Placed
    <2>2. ASSUME NEW S \in SUBSET ids, S # {}, \A i \in DOMAIN list : list[i].id \in S => list[i].parent \in S
          PROVE  FALSE
      <3>1. S \in SUBSET Parents
        BY <1>2, ChannelFacts
      <3>2. Upward(t, S)
        BY <1>3, <2>1, <2>2 DEF Upward
      <3>3. PICK i \in DOMAIN list : list[i].id \in S
        BY <1>3, <2>2
      <3>4. Top \in S
        BY <1>6, <3>1, <3>2, <3>3 DEF Ancestry
      <3>. QED  BY <1>2, <3>4
    <2>3. \A p \in ids \cup {Top} : \E L : InOrder(L, UnderIn(list, p))
      BY <1>2, <1>4, <1>5, <1>6, ChannelFacts
    <2>. QED  BY <1>1, <2>1, <2>2, <2>3 DEF Described
  <1>7. ASSUME Described(list)
        PROVE  t.consistent /\ \A i \in DOMAIN list : Top \in Ancestry(t, list[i].id)
    <2>1. /\ \A i \in DOMAIN list : list[i].parent \in ids \cup {Top}
          /\ \A S \in SUBSET ids : S # {} => \E i \in DOMAIN list : list[i].id \in S /\ list[i].parent \notin S
          /\ \A p \in ids \cup {Top} : \E L : InOrder(L, UnderIn(list, p))
      BY <1>1, <1>7 DEF Described
    <2>2. ASSUME NEW i \in DOMAIN list  PROVE ~Strays(list, list[i])
      <3>1. {list[i].id} \in SUBSET ids /\ {list[i].id} # {}
        BY <1>2
      <3>2. PICK j \in DOMAIN list : list[j].id \in {list[i].id} /\ list[j].parent \notin {list[i].id}
        BY <2>1, <3>1
      <3>3. j = i
        BY <3>2 DEF OneEach
      <3>. QED  BY <1>1, <2>1, <3>2, <3>3 DEF Strays
    <2>3. ASSUME NEW p \in Parents  PROVE \E L : InOrder(L, UnderIn(list, p))
      <3>1. CASE p \in ids \cup {Top}
        BY <2>1, <3>1
      <3>2. CASE p \notin ids \cup {Top}
        <4>1. PICK s : s = UnderIn(list, p)
          OBVIOUS
        <4>2. DOMAIN s = {}
          <5>1. RowsUnder(s, list, p)
            BY <4>1, UnderInFacts
          <5>2. \A k \in DOMAIN s : \E i \in DOMAIN list : list[i].parent = p
            BY <5>1 DEF RowsUnder
          <5>3. \A i \in DOMAIN list : list[i].parent # p
            BY <2>1, <3>2
          <5>. QED  BY <5>2, <5>3
        <4>3. IdsIn(s) = {}
          BY <4>2 DEF IdsIn
        <4>4. InOrder(<<>>, s)
          BY <4>2, <4>3, EmptyFacts DEF InOrder
        <4>. QED  BY <4>1, <4>4
      <3>. QED  BY <3>1, <3>2
    <2>4. t.consistent
      BY <1>4, <1>5, <2>2, <2>3
    <2>5. ASSUME NEW i \in DOMAIN list, NEW S \in SUBSET Parents, list[i].id \in S, Upward(t, S)
          PROVE  Top \in S
      <3>. SUFFICES ASSUME Top \notin S  PROVE FALSE
        OBVIOUS
      <3>1. S \cap ids \in SUBSET ids /\ S \cap ids # {}
        BY <1>2, <2>5
      <3>2. PICK j \in DOMAIN list : list[j].id \in S \cap ids /\ list[j].parent \notin S \cap ids
        BY <2>1, <3>1
      <3>3. t.parent[list[j].id] = list[j].parent /\ list[j].parent \in ids \cup {Top}
        BY <1>4, <2>1, <2>2 DEF Placed
      <3>4. Has(t, list[j].id)
        BY <1>2, <3>2, <3>3, ChannelFacts DEF Has
      <3>5. list[j].parent \in S
        BY <2>5, <3>2, <3>3, <3>4 DEF Upward
      <3>. QED  BY <3>2, <3>3, <3>5
    <2>6. \A i \in DOMAIN list : Top \in Ancestry(t, list[i].id)
      BY <2>5, ChannelFacts DEF Ancestry
    <2>. QED  BY <2>4, <2>6
  <1>8. t.consistent => Placed(t, list)
    BY <1>4
  <1>. QED  BY <1>6, <1>7, <1>8

\* Each channel has an order, if only Absent.
Filled(t) == t.order = [c \in Channels |-> t.order[c]]

\* ChannelTree.from finds rows consistent exactly if they describe a tree, in whatever order
\* they come, and then puts every channel under the parent and behind the sibling it names.
THEOREM ListingsAreRead ==
    ASSUME NEW R, \A r \in R : r.id \in Parents, NEW list \in Seq(R)
    PROVE  /\ From(list).consistent <=> DescribeATree(list)
           /\ From(list).consistent => \A i \in DOMAIN list :
                /\ From(list).parent[list[i].id] = list[i].parent
                /\ From(list).order[list[i].id] = list[i].order
           /\ From(list).consistent => \A c \in Channels : Has(From(list), c) => c \in IdsIn(list)
           /\ Filled(From(list))
  <1>1. PICK kept : kept = OnePerChannel(list)
    OBVIOUS
  <1>2. OneEach(kept, R)
    BY <1>1, OnePerChannelOK
  <1>3. PICK t : t = FlawedIf(Drafted(kept), Len(kept) # Len(list))
    OBVIOUS
  <1>4. t \in Drafts(IdsIn(kept), t.consistent)
    BY <1>2, <1>3, DraftedOK DEF IdsIn
  <1>5. PICK u : u = Hung(t, kept)
    OBVIOUS
  <1>6. /\ u \in Drafts(IdsIn(kept), t.consistent)
        /\ \A i \in DOMAIN kept : Top \in Ancestry(u, kept[i].id)
        /\ (\A i \in DOMAIN kept : Top \in Ancestry(t, kept[i].id)) => u = t
        /\ u = t \/ u.consistent = FALSE
    BY <1>2, <1>4, <1>5, HungOK DEF IdsIn
  <1>7. u.consistent \in {t.consistent, FALSE}
    BY <1>6 DEF Drafts
  <1>8. PICK order : order = [c \in Channels |-> IF Has(u, c) THEN OrderIn(u.kids[u.parent[c]], c) ELSE Absent]
    OBVIOUS
  <1>9. PICK v : v = [u EXCEPT !.order = order]
    OBVIOUS
  <1>10. From(list) = v
    BY <1>1, <1>3, <1>5, <1>8, <1>9 DEF From
  <1>11. v.consistent = u.consistent /\ v.parent = u.parent /\ v.order = order
    <2>1. DOMAIN u = {"parent", "order", "kids", "consistent"}
      BY <1>6 DEF Drafts
    <2>. QED  BY <1>9, <2>1
  <1>0. Filled(v)
    BY <1>8, <1>11 DEF Filled
  <1>12. DOMAIN Drafted(kept) = {"parent", "order", "kids", "consistent"}
    BY DEF Drafted
  <1>13. t.consistent <=> Drafted(kept).consistent /\ Len(kept) = Len(list)
    BY <1>3, <1>12 DEF FlawedIf
  <1>14. CASE Len(kept) # Len(list)
    <2>1. ~v.consistent
      BY <1>7, <1>11, <1>13, <1>14
    <2>2. ~DescribeATree(list)
      <3>1. ~(/\ \A i \in DOMAIN list : list[i].id # Top
              /\ \A i, j \in DOMAIN list : list[i].id = list[j].id => i = j)
        BY <1>1, <1>14, AllKept
      <3>2. DescribeATree(list) => /\ Top \notin {list[i].id : i \in DOMAIN list}
                                   /\ \A i, j \in DOMAIN list : list[i].id = list[j].id => i = j
        BY DEF DescribeATree
      <3>. QED  BY <3>1, <3>2
    <2>. QED  BY <1>0, <1>10, <2>1, <2>2
  <1>15. CASE Len(kept) = Len(list)
    <2>1. kept = list
      BY <1>1, <1>15, AllKept
    <2>2. OneEach(list, R)
      BY <1>2, <2>1
    <2>3. Draft(t, IdsIn(list)) /\ Same(t, Drafted(list)) /\ (t.consistent <=> Drafted(list).consistent)
      <3>1. Draft(t, IdsIn(list)) /\ Shape(t)
        BY <1>4, <2>1 DEF Drafts, Draft
      <3>2. t.parent = Drafted(kept).parent /\ t.order = Drafted(kept).order /\ t.kids = Drafted(kept).kids
        BY <1>3, <1>12 DEF FlawedIf
      <3>. QED  BY <1>13, <1>15, <2>1, <3>1, <3>2 DEF Same
    <2>4. /\ t.consistent /\ (\A i \in DOMAIN list : Top \in Ancestry(t, list[i].id)) <=> Described(list)
          /\ t.consistent => Placed(t, list)
      BY <2>2, <2>3, DraftedConsistent
    <2>5. v.consistent <=> t.consistent /\ \A i \in DOMAIN list : Top \in Ancestry(t, list[i].id)
      <3>1. CASE u = t
        BY <1>6, <1>11, <2>1, <3>1
      <3>2. CASE u # t
        BY <1>6, <1>11, <2>1, <3>2
      <3>. QED  BY <3>1, <3>2
    <2>6. v.consistent <=> DescribeATree(list)
      BY <2>2, <2>4, <2>5, DescribedMeans
    <2>7. ASSUME v.consistent, NEW i \in DOMAIN list
          PROVE  v.parent[list[i].id] = list[i].parent /\ v.order[list[i].id] = list[i].order
      <3>1. Placed(t, list) /\ Described(list) /\ u = t
        BY <1>6, <2>1, <2>4, <2>5, <2>7
      <3>2. PICK c : c = list[i].id
        OBVIOUS
      <3>3. PICK p : p = list[i].parent
        OBVIOUS
      <3>4. t.parent[c] = p /\ c \in Channels /\ p \in IdsIn(list) \cup {Top} /\ IdsIn(list) \subseteq Channels
        BY <2>2, <3>1, <3>2, <3>3, IdsInFacts DEF Placed, Described, OneEach
      <3>5. p \in Parents /\ p # Absent
        BY <3>4, ChannelFacts
      <3>6. order[c] = OrderIn(t.kids[p], c)
        BY <1>8, <3>1, <3>4, <3>5 DEF Has
      <3>7. PICK s : s = UnderIn(list, p)
        OBVIOUS
      <3>8. PICK L : InOrder(L, s)
        BY <3>1, <3>4, <3>7 DEF Described
      <3>9. t.kids[p] = L
        <4>1. OneEach(s, R)
          BY <2>2, <3>7, UnderInFacts
        <4>2. Sorted(s) = L
          BY <3>8, <4>1, SiblingsChained
        <4>. QED  BY <3>1, <3>5, <3>7, <4>2 DEF Placed
      <3>10. \E k \in DOMAIN s : s[k] = list[i]
        <4>1. \A j \in DOMAIN list : list[j].parent = p => \E k \in DOMAIN s : s[k] = list[j]
          BY <2>2, <3>7, UnderInFacts DEF RowsUnder
        <4>. QED  BY <3>3, <4>1
      <3>11. OrderIn(L, c) = list[i].order
        BY <3>2, <3>8, <3>10 DEF InOrder
      <3>. QED  BY <1>11, <3>1, <3>2, <3>3, <3>4, <3>6, <3>9, <3>11
    <2>8. \A c \in Channels : Has(v, c) => c \in IdsIn(list)
      BY <1>6, <1>11, <2>1 DEF Drafts, Draft, Has
    <2>. QED  BY <1>0, <1>10, <2>6, <2>7, <2>8
  <1>. QED  BY <1>14, <1>15

-----------------------------------------------------------------------------
(* What an event does to the orders: the sibling it does not mention.      *)

\* Where the elements are in a list without one.
LEMMA WithoutPlaces ==
    ASSUME NEW T, NEW s \in Seq(T), Distinct(s), NEW at \in 1 .. Len(s)
    PROVE  /\ Without(s, s[at]) \in Seq(T) /\ Len(Without(s, s[at])) = Len(s) - 1
           /\ \A k \in 1 .. (Len(s) - 1) : Without(s, s[at])[k] = IF k < at THEN s[k] ELSE s[k + 1]
  <1>0. PICK n : n = Len(s)
    OBVIOUS
  <1>1. n \in Nat /\ DOMAIN s = 1 .. n /\ (\A i \in 1 .. n : s[i] \in T) /\ at \in 1 .. n
    BY <1>0
  <1>2. PICK J : J = {i \in DOMAIN s : s[i] # s[at]}
    OBVIOUS
  <1>3. \A i \in 1 .. n : i \in J <=> i # at
    BY <1>1, <1>2 DEF Distinct
  <1>4. PICK pick :
            /\ Picked(s, J) = pick[n]
            /\ \A i \in 0 .. n : pick[i] = IF i = 0 THEN <<>>
                                           ELSE IF i \in J THEN Append(pick[i - 1], s[i])
                                           ELSE pick[i - 1]
    BY <1>0, PickedSteps
  <1>. DEFINE Size(i) == IF i < at THEN i ELSE i - 1
              Good(i) == /\ pick[i] \in Seq(T) /\ Len(pick[i]) = Size(i)
                         /\ \A k \in 1 .. Size(i) : pick[i][k] = IF k < at THEN s[k] ELSE s[k + 1]
              S == {i \in 0 .. n : Good(i)}
  <1>5. 0 \in S
    <2>1. pick[0] = <<>>
      BY <1>1, <1>4
    <2>2. <<>> \in Seq(T) /\ Len(<<>>) = 0
      OBVIOUS
    <2>3. Size(0) = 0 /\ 0 \in 0 .. n /\ \A k \in 1 .. 0 : FALSE
      BY <1>1
    <2>4. Good(0)
      BY <2>1, <2>2, <2>3
    <2>. HIDE DEF Good
    <2>. QED  BY <2>3, <2>4
  <1>6. ASSUME NEW i \in 1 .. n, i - 1 \in S  PROVE i \in S
    <2>1. PICK q : q = pick[i - 1]
      OBVIOUS
    <2>2. /\ q \in Seq(T) /\ Len(q) = Size(i - 1)
          /\ \A k \in 1 .. Size(i - 1) : q[k] = IF k < at THEN s[k] ELSE s[k + 1]
      BY <1>6, <2>1
    <2>3. i \in 0 .. n /\ i # 0 /\ s[i] \in T
      BY <1>1
    <2>4. CASE i = at
      <3>1. pick[i] = q /\ Size(i) = Size(i - 1)
        BY <1>1, <1>3, <1>4, <2>1, <2>3, <2>4
      <3>. QED  BY <2>2, <2>3, <3>1
    <2>5. CASE i # at
      <3>1. pick[i] = Append(q, s[i])
        BY <1>3, <1>4, <2>1, <2>3, <2>5
      <3>2. Size(i) = Size(i - 1) + 1 /\ Size(i) \in Nat /\ Size(i - 1) \in Nat /\ s[i] = IF Size(i) < at THEN s[Size(i)] ELSE s[Size(i) + 1]
        BY <1>1, <2>5
      <3>. HIDE DEF Size
      <3>3. /\ Append(q, s[i]) \in Seq(T) /\ Len(Append(q, s[i])) = Size(i)
            /\ \A k \in 1 .. Size(i - 1) : Append(q, s[i])[k] = q[k]
            /\ Append(q, s[i])[Size(i)] = s[i]
        BY <2>2, <2>3, <3>2, AppendFacts
      <3>4. ASSUME NEW k \in 1 .. Size(i)  PROVE pick[i][k] = IF k < at THEN s[k] ELSE s[k + 1]
        <4>1. k = Size(i) \/ k \in 1 .. Size(i - 1)
          BY <3>2
        <4>. QED  BY <2>2, <3>1, <3>2, <3>3, <4>1
      <3>. QED  BY <2>3, <3>1, <3>3, <3>4
    <2>. QED  BY <2>4, <2>5
  <1>. HIDE DEF S
  <1>7. \A i \in 0 .. n : i \in S
    BY <1>1, <1>5, <1>6, Steps
  <1>8. Good(n)
    <2>1. n \in S
      BY <1>1, <1>7
    <2>. HIDE DEF Good
    <2>. QED  BY <2>1 DEF S
  <1>9. Without(s, s[at]) = pick[n] /\ Size(n) = n - 1
    BY <1>1, <1>2, <1>4 DEF Without
  <1>. QED  BY <1>0, <1>8, <1>9

\* Out of a list: the one behind it follows the one before it.
LEMMA WithoutOrder ==
    ASSUME NEW s \in Seq(Channels), Distinct(s), NEW c \in Range(s), NEW d \in Range(s), d # c
    PROVE  OrderIn(Without(s, c), d) = IF OrderIn(s, d) = c THEN OrderIn(s, c) ELSE OrderIn(s, d)
  <1>0. PICK n : n = Len(s)
    OBVIOUS
  <1>1. n \in Nat /\ DOMAIN s = 1 .. n /\ \A i \in 1 .. n : s[i] \in Channels
    BY <1>0
  <1>2. PICK at \in 1 .. n : s[at] = c
    BY <1>1 DEF Range
  <1>3. PICK i \in 1 .. n : s[i] = d
    BY <1>1 DEF Range
  <1>4. PICK p : p = Without(s, c)
    OBVIOUS
  <1>5. /\ p \in Seq(Channels) /\ Len(p) = n - 1
        /\ \A k \in 1 .. (n - 1) : p[k] = IF k < at THEN s[k] ELSE s[k + 1]
    BY <1>0, <1>2, <1>4, WithoutPlaces
  <1>6. Distinct(p)
    BY <1>4, WithoutFacts
  <1>7. i # at
    BY <1>2, <1>3
  <1>8. PICK k : k = IF i < at THEN i ELSE i - 1
    OBVIOUS
  <1>9. k \in 1 .. (n - 1) /\ p[k] = d /\ k \in 1 .. Len(p)
    BY <1>1, <1>3, <1>5, <1>7, <1>8
  <1>10. OrderIn(p, d) = IF k = 1 THEN Top ELSE p[k - 1]
    BY <1>5, <1>6, <1>9, OrderAt
  <1>11. OrderIn(s, d) = IF i = 1 THEN Top ELSE s[i - 1]
    BY <1>0, <1>3, OrderAt
  <1>12. OrderIn(s, c) = IF at = 1 THEN Top ELSE s[at - 1]
    BY <1>0, <1>2, OrderAt
  <1>13. OrderIn(s, d) = c <=> i = at + 1
    <2>1. c # Top
      BY <1>1, <1>2, ChannelFacts
    <2>2. i # 1 => i - 1 \in DOMAIN s
      BY <1>1
    <2>. QED  BY <1>1, <1>2, <1>11, <2>1, <2>2 DEF Distinct
  <1>14. CASE i < at
    <2>1. k = i /\ (k # 1 => k - 1 \in 1 .. (n - 1) /\ k - 1 < at)
      BY <1>1, <1>8, <1>9, <1>14
    <2>. QED  BY <1>4, <1>5, <1>10, <1>11, <1>13, <1>14, <2>1
  <1>15. CASE i = at + 1
    <2>1. k = at /\ (k # 1 => k - 1 \in 1 .. (n - 1) /\ k - 1 < at)
      BY <1>1, <1>8, <1>9, <1>15
    <2>. QED  BY <1>4, <1>5, <1>10, <1>12, <1>13, <1>15, <2>1
  <1>16. CASE i > at + 1
    <2>1. k = i - 1 /\ k # 1 /\ k - 1 \in 1 .. (n - 1) /\ ~(k - 1 < at) /\ (k - 1) + 1 = i - 1 /\ i # 1
      BY <1>1, <1>8, <1>9, <1>16
    <2>2. p[k - 1] = s[i - 1]
      BY <1>5, <2>1
    <2>. QED  BY <1>4, <1>10, <1>11, <1>13, <1>16, <2>1, <2>2
  <1>. QED  BY <1>1, <1>7, <1>14, <1>15, <1>16

\* Into a list, behind a sibling: the one that followed that follows the new one.
LEMMA InsertOrder ==
    ASSUME NEW s \in Seq(Channels), Distinct(s), NEW c \in Channels, c \notin Range(s),
           NEW after \in Range(s) \cup {Top}
    PROVE  LET p == InsertAt(s, PlaceAfter(s, after), c)
           IN  /\ OrderIn(p, c) = after
               /\ \A d \in Range(s) : OrderIn(p, d) = IF OrderIn(s, d) = after THEN c ELSE OrderIn(s, d)
  <1>0. PICK n : n = Len(s)
    OBVIOUS
  <1>1. n \in Nat /\ DOMAIN s = 1 .. n /\ \A i \in 1 .. n : s[i] \in Channels
    BY <1>0
  <1>2. PICK at : at = PlaceAfter(s, after)
    OBVIOUS
  <1>3. at \in 1 .. (n + 1)
    BY <1>0, <1>2, PlaceFacts
  <1>4. after = IF at = 1 THEN Top ELSE s[at - 1]
    <2>1. CASE after = Top
      <3>1. after \notin Range(s)
        BY <1>1, <2>1, ChannelFacts DEF Range
      <3>2. at = 1
        BY <1>2, <2>1, <3>1 DEF PlaceAfter
      <3>. QED  BY <2>1, <3>2
    <2>2. CASE after # Top
      <3>1. PICK j : j = CHOOSE i \in DOMAIN s : s[i] = after
        OBVIOUS
      <3>2. j \in 1 .. n /\ s[j] = after
        BY <1>1, <2>2, <3>1 DEF Range
      <3>3. at = j + 1
        BY <1>2, <2>2, <3>1 DEF PlaceAfter
      <3>. QED  BY <1>1, <3>2, <3>3
    <2>. QED  BY <2>1, <2>2
  <1>5. PICK p : p = InsertAt(s, at, c)
    OBVIOUS
  <1>6. /\ p \in Seq(Channels) /\ Len(p) = n + 1
        /\ \A i \in 1 .. (n + 1) : p[i] = IF i < at THEN s[i] ELSE IF i = at THEN c ELSE s[i - 1]
    <2>1. at \in 1 .. (Len(s) + 1)
      BY <1>0, <1>3
    <2>2. /\ InsertAt(s, at, c) \in Seq(Channels) /\ Len(InsertAt(s, at, c)) = Len(s) + 1
          /\ \A i \in 1 .. (Len(s) + 1) :
               InsertAt(s, at, c)[i] = IF i < at THEN s[i] ELSE IF i = at THEN c ELSE s[i - 1]
      BY <2>1, InsertPlaces
    <2>. QED  BY <1>0, <1>5, <2>2
  <1>7. Distinct(p)
    BY <1>0, <1>3, <1>5, InsertFacts
  <1>8. OrderIn(p, c) = after
    <2>1. p[at] = c /\ at \in 1 .. Len(p)
      BY <1>1, <1>3, <1>6
    <2>2. OrderIn(p, c) = IF at = 1 THEN Top ELSE p[at - 1]
      BY <1>6, <1>7, <2>1, OrderAt
    <2>3. at # 1 => p[at - 1] = s[at - 1]
      BY <1>1, <1>3, <1>6
    <2>. QED  BY <1>4, <2>2, <2>3
  <1>9. ASSUME NEW d \in Range(s)
        PROVE  OrderIn(p, d) = IF OrderIn(s, d) = after THEN c ELSE OrderIn(s, d)
    <2>1. PICK i \in 1 .. n : s[i] = d
      BY <1>1 DEF Range
    <2>2. OrderIn(s, d) = IF i = 1 THEN Top ELSE s[i - 1]
      BY <1>0, <2>1, OrderAt
    <2>3. PICK k : k = IF i < at THEN i ELSE i + 1
      OBVIOUS
    <2>4. k \in 1 .. (n + 1) /\ k \in 1 .. Len(p)
      BY <1>1, <1>6, <2>3
    <2>5. p[k] = d
      BY <1>1, <1>3, <1>6, <2>1, <2>3, <2>4
    <2>6. OrderIn(p, d) = IF k = 1 THEN Top ELSE p[k - 1]
      BY <1>6, <1>7, <2>4, <2>5, OrderAt
    <2>7. OrderIn(s, d) = after <=> i = at
      <3>1. i # 1 => i - 1 \in DOMAIN s /\ s[i - 1] # Top
        BY <1>1, ChannelFacts
      <3>2. at # 1 => at - 1 \in DOMAIN s /\ s[at - 1] # Top
        BY <1>1, <1>3, ChannelFacts
      <3>. QED  BY <1>3, <1>4, <2>1, <2>2, <3>1, <3>2 DEF Distinct
    <2>8. CASE i < at
      <3>1. k = i /\ (k # 1 => k - 1 \in 1 .. (n + 1) /\ k - 1 < at) /\ i # at
        BY <1>1, <1>3, <2>3, <2>8
      <3>. QED  BY <1>6, <2>2, <2>6, <2>7, <3>1
    <2>9. CASE i = at
      <3>1. k = at + 1 /\ k # 1 /\ k - 1 = at /\ at \in 1 .. (n + 1) /\ ~(at < at)
        BY <1>1, <1>3, <2>3, <2>9
      <3>. QED  BY <1>6, <2>6, <2>7, <2>9, <3>1
    <2>10. CASE i > at
      <3>1. k = i + 1 /\ k # 1 /\ k - 1 = i /\ i \in 1 .. (n + 1) /\ ~(i < at) /\ i # at /\ i # 1
        BY <1>1, <1>3, <2>3, <2>10
      <3>. QED  BY <1>6, <2>2, <2>6, <2>7, <3>1
    <2>. QED  BY <1>1, <1>3, <2>8, <2>9, <2>10
  <1>. QED  BY <1>2, <1>5, <1>8, <1>9

\* The server's channels: the parents and orders of a tree, and no event was misplaced.
Mirrors(t, s) ==
    /\ IsTree(t) /\ t.consistent = TRUE
    /\ t.parent = s.parent /\ t.order = s.order

LEMMA ListedMore ==
    ASSUME NEW t, Shape(t), NEW p \in Parents, NEW list \in Seq(Channels)
    PROVE  /\ Listed(t, p, list).consistent = t.consistent
           /\ Listed(t, p, list).order = [c \in Channels |-> Listed(t, p, list).order[c]]
  <1>. DEFINE order == [c \in Channels |-> IF c \in Range(list) THEN OrderIn(list, c) ELSE t.order[c]]
              u == [t EXCEPT !.kids[p] = list, !.order = order]
  <1>1. Listed(t, p, list) = u
    BY DEF Listed
  <1>2. order = [c \in Channels |-> order[c]]
    OBVIOUS
  <1>. HIDE DEF order
  <1>3. u.consistent = t.consistent /\ u.order = order
    BY DEF Shape
  <1>. QED  BY <1>1, <1>2, <1>3

LEMMA NotFlawed ==
    ASSUME NEW t, Shape(t), t.consistent = TRUE, NEW b \in BOOLEAN, ~b
    PROVE  FlawedIf(t, b).consistent = TRUE
  BY DEF Shape, FlawedIf

\* What followed the sibling follows the channel, which is after the sibling.
PutAfter(v, t, p, c, after) ==
    /\ v.consistent = TRUE /\ v.order = [d \in Channels |-> v.order[d]]
    /\ \A d \in Channels :
         v.order[d] = IF d = c THEN after
                      ELSE IF t.parent[d] = p /\ t.order[d] = after THEN c ELSE t.order[d]

\* insert, where the sibling is known.
LEMMA InsertMirrors ==
    ASSUME NEW t, NEW c \in Channels, NEW p \in Parents, Lacks(t, c), t.parent[c] = p,
           t.consistent = TRUE, NEW after \in Range(t.kids[p]) \cup {Top},
           NEW v, v = Insert(t, p, c, after)
    PROVE  PutAfter(v, t, p, c, after)
  <1>0. PICK old : old = t.kids[p]
    OBVIOUS
  <1>1. PICK at : at = PlaceAfter(old, after)
    OBVIOUS
  <1>2. PICK list : list = InsertAt(old, at, c)
    OBVIOUS
  <1>3. PICK u : u = Listed(t, p, list)
    OBVIOUS
  <1>4. /\ old \in Seq(Channels) /\ Distinct(old) /\ Range(old) = {d \in Channels : t.parent[d] = p} \ {c}
        /\ Shape(t)
    BY <1>0 DEF Lacks, Shape
  <1>5. at \in 1 .. (Len(old) + 1)
    BY <1>1, <1>4, PlaceFacts
  <1>6. list \in Seq(Channels) /\ Range(list) = Range(old) \cup {c}
    BY <1>2, <1>4, <1>5, InsertFacts
  <1>7. /\ Shape(u) /\ u.consistent = t.consistent /\ u.order = [d \in Channels |-> u.order[d]]
        /\ \A d \in Channels : u.order[d] = IF d \in Range(list) THEN OrderIn(list, d) ELSE t.order[d]
    BY <1>3, <1>4, <1>6, ListedFields, ListedMore
  <1>8. PICK b : b = (after # Top /\ after \notin Range(t.kids[p]))
    OBVIOUS
  <1>9. b \in BOOLEAN /\ ~b
    BY <1>8
  <1>10. v = FlawedIf(u, b)
    BY <1>0, <1>1, <1>2, <1>3, <1>8 DEF Insert
  <1>11. v.consistent = TRUE
    BY <1>7, <1>9, <1>10, NotFlawed
  <1>12. v.order = u.order
    BY <1>7, <1>10, FlawedSame DEF Same
  <1>13. /\ OrderIn(list, c) = after
         /\ \A d \in Range(old) : OrderIn(list, d) = IF OrderIn(old, d) = after THEN c ELSE OrderIn(old, d)
    BY <1>0, <1>1, <1>2, <1>4, InsertOrder
  <1>14. ASSUME NEW d \in Channels
         PROVE  u.order[d] = IF d = c THEN after
                             ELSE IF t.parent[d] = p /\ t.order[d] = after THEN c ELSE t.order[d]
    <2>1. CASE d = c
      BY <1>6, <1>7, <1>13, <2>1
    <2>2. CASE d # c /\ t.parent[d] = p
      <3>1. d \in Range(old) /\ d \in Range(list)
        BY <1>4, <1>6, <2>2
      <3>2. Has(t, d) /\ t.order[d] = OrderIn(old, d)
        BY <1>0, <2>2, ChannelFacts DEF Lacks, Settled, Has
      <3>. QED  BY <1>7, <1>13, <2>2, <3>1, <3>2
    <2>3. CASE d # c /\ t.parent[d] # p
      <3>1. d \notin Range(list)
        BY <1>4, <1>6, <2>3
      <3>. QED  BY <1>7, <2>3, <3>1
    <2>. QED  BY <2>1, <2>2, <2>3
  <1>. QED  BY <1>7, <1>11, <1>12, <1>14 DEF PutAfter

\* The same under another parent.
LEMMA PlacedMirrors ==
    ASSUME NEW t, NEW c \in Channels, NEW q \in Parents, NEW b \in BOOLEAN, ~b,
           Lacks(t, c), t.consistent = TRUE, q = Top \/ Has(t, q), NEW after \in Range(t.kids[q]) \cup {Top},
           NEW v, v = Insert(FlawedIf([t EXCEPT !.parent[c] = q], b), q, c, after)
    PROVE  PutAfter(v, t, q, c, after)
  <1>1. PICK u : u = [t EXCEPT !.parent[c] = q]
    OBVIOUS
  <1>2. Lacks(u, c) /\ u.parent = [t.parent EXCEPT ![c] = q]
    BY <1>1, ReparentOK
  <1>3. u.order = t.order /\ u.kids = t.kids /\ u.consistent = TRUE
    BY <1>1 DEF Lacks, Shape
  <1>4. PICK w : w = FlawedIf(u, b)
    OBVIOUS
  <1>5. Same(w, u) /\ w.consistent = TRUE
    BY <1>2, <1>3, <1>4, FlawedSame, NotFlawed DEF Lacks
  <1>6. Lacks(w, c) /\ w.parent = [t.parent EXCEPT ![c] = q] /\ w.order = t.order /\ w.kids = t.kids
    BY <1>2, <1>3, <1>5, SameTree DEF Same
  <1>7. w.parent[c] = q /\ \A d \in Channels : d # c => w.parent[d] = t.parent[d]
    BY <1>6 DEF Lacks, Shape
  <1>8. v = Insert(w, q, c, after) /\ after \in Range(w.kids[q]) \cup {Top}
    BY <1>1, <1>4, <1>6
  <1>9. PutAfter(v, w, q, c, after)
    <2>1. Lacks(w, c) /\ w.parent[c] = q /\ w.consistent = TRUE
      BY <1>5, <1>6, <1>7
    <2>. QED  BY <1>8, <2>1, InsertMirrors
  <1>. QED  BY <1>6, <1>7, <1>9 DEF PutAfter

\* What followed the channel follows what was before it.
TakenOut(u, t, c) ==
    /\ u.consistent = TRUE /\ u.order = [d \in Channels |-> u.order[d]]
    /\ \A d \in Channels \ {c} :
         u.order[d] = IF t.parent[d] = t.parent[c] /\ t.order[d] = c THEN t.order[c] ELSE t.order[d]

\* detach.
LEMMA DetachMirrors ==
    ASSUME NEW t, NEW c \in Channels, IsTree(t), t.consistent = TRUE, Has(t, c)
    PROVE  TakenOut(Detach(t, c), t, c)
  <1>0. PICK p : p = t.parent[c]
    OBVIOUS
  <1>1. PICK old : old = t.kids[p]
    OBVIOUS
  <1>2. PICK list : list = Without(old, c)
    OBVIOUS
  <1>3. PICK u : u = Listed(t, p, list)
    OBVIOUS
  <1>4. p \in Parents /\ Shape(t)
    BY <1>0 DEF Has, Shape, IsTree
  <1>5. old \in Seq(Channels) /\ Distinct(old) /\ Range(old) = {d \in Channels : t.parent[d] = p}
    BY <1>1, <1>4 DEF Shape, ListsAgree, Distinct, IsTree
  <1>6. list \in Seq(Channels) /\ Range(list) = Range(old) \ {c}
    BY <1>2, <1>5, WithoutFacts
  <1>7. /\ u.consistent = t.consistent /\ u.order = [d \in Channels |-> u.order[d]]
        /\ \A d \in Channels : u.order[d] = IF d \in Range(list) THEN OrderIn(list, d) ELSE t.order[d]
    BY <1>3, <1>4, <1>6, ListedFields, ListedMore
  <1>8. \A d \in Channels : t.order[d] = IF Has(t, d) THEN OrderIn(t.kids[t.parent[d]], d) ELSE Absent
    BY DEF IsTree, ListsAgree
  <1>9. c \in Range(old) /\ t.order[c] = OrderIn(old, c)
    BY <1>0, <1>1, <1>5, <1>8
  <1>10. ASSUME NEW d \in Channels, d # c
         PROVE  u.order[d] = IF t.parent[d] = p /\ t.order[d] = c THEN t.order[c] ELSE t.order[d]
    <2>1. CASE t.parent[d] = p
      <3>1. d \in Range(old) /\ d \in Range(list)
        BY <1>5, <1>6, <1>10, <2>1
      <3>2. Has(t, d)
        BY <1>4, <2>1, ChannelFacts DEF Has
      <3>3. t.order[d] = OrderIn(old, d)
        BY <1>1, <1>8, <2>1, <3>2
      <3>4. OrderIn(list, d) = IF OrderIn(old, d) = c THEN OrderIn(old, c) ELSE OrderIn(old, d)
        BY <1>2, <1>5, <1>9, <1>10, <3>1, WithoutOrder
      <3>. QED  BY <1>7, <1>9, <2>1, <3>1, <3>3, <3>4
    <2>2. CASE t.parent[d] # p
      <3>1. d \notin Range(list)
        BY <1>5, <1>6, <2>2
      <3>. QED  BY <1>7, <2>2, <3>1
    <2>. QED  BY <2>1, <2>2
  <1>11. Detach(t, c) = u
    BY <1>0, <1>1, <1>2, <1>3 DEF Detach
  <1>. QED  BY <1>0, <1>7, <1>10, <1>11 DEF TakenOut

-----------------------------------------------------------------------------
(* What the server does to its channels, and the event it sends of it.     *)

IsServer(s) ==
    DOMAIN s = {"parent", "order", "at", "subscribed", "name", "groups"}

\* The rest of what the server keeps.
Besides(r, s) ==
    IsServer(r) /\ r.at = s.at /\ r.subscribed = s.subscribed /\ r.name = s.name /\ r.groups = s.groups

Unlinked(r, s, c) ==
    /\ Besides(r, s) /\ r.parent = s.parent
    /\ r.order = [d \in Channels |-> IF d # c /\ s.parent[d] = s.parent[c] /\ s.order[d] = c
                                    THEN s.order[c] ELSE s.order[d]]

Linked(r, s, c, p, o) ==
    /\ Besides(r, s) /\ r.parent = [s.parent EXCEPT ![c] = p]
    /\ r.order = [d \in Channels |-> IF d = c THEN o
                                    ELSE IF s.parent[d] = p /\ s.order[d] = o THEN c ELSE s.order[d]]

LEMMA UnlinkFields ==
    ASSUME NEW s, IsServer(s), NEW c
    PROVE  Unlinked(Unlink(s, c), s, c)
  <1>. DEFINE order == [d \in Channels |-> IF d # c /\ s.parent[d] = s.parent[c] /\ s.order[d] = c
                                           THEN s.order[c] ELSE s.order[d]]
              r == [s EXCEPT !.order = order]
  <1>1. Unlink(s, c) = r
    BY DEF Unlink
  <1>. HIDE DEF order
  <1>2. Besides(r, s) /\ r.parent = s.parent /\ r.order = order
    BY DEF IsServer, Besides
  <1>. QED  BY <1>1, <1>2 DEF order, Unlinked

LEMMA LinkFields ==
    ASSUME NEW s, IsServer(s), NEW c, NEW p, NEW o
    PROVE  Linked(Link(s, c, p, o), s, c, p, o)
  <1>. DEFINE order == [d \in Channels |-> CASE d = c -> o
                                             [] d # c /\ s.parent[d] = p /\ s.order[d] = o -> c
                                             [] OTHER -> s.order[d]]
              said == [d \in Channels |-> IF d = c THEN o
                                          ELSE IF s.parent[d] = p /\ s.order[d] = o THEN c ELSE s.order[d]]
              r == [s EXCEPT !.parent[c] = p, !.order = order]
  <1>1. Link(s, c, p, o) = r
    BY DEF Link
  <1>2. order = said
    OBVIOUS
  <1>. HIDE DEF order, said
  <1>3. Besides(r, s) /\ r.parent = [s.parent EXCEPT ![c] = p] /\ r.order = order
    BY DEF IsServer, Besides
  <1>. QED  BY <1>1, <1>2, <1>3 DEF said, Linked

\* A channel that is not there has no place in the lists.
LEMMA AbsentLacks ==
    ASSUME NEW t, IsTree(t), NEW c \in Channels, ~Has(t, c)
    PROVE  Lacks(t, c)
  <1>1. t.parent[c] = Absent
    BY DEF Has
  <1>2. ASSUME NEW d \in Parents
        PROVE  Distinct(t.kids[d]) /\ Range(t.kids[d]) = {e \in Channels : t.parent[e] = d} \ {c}
    <2>1. Distinct(t.kids[d]) /\ Range(t.kids[d]) = {e \in Channels : t.parent[e] = d}
      BY DEF IsTree, ListsAgree, Distinct
    <2>. QED  BY <1>1, <2>1, ChannelFacts
  <1>. QED  BY <1>2 DEF Lacks, Settled, IsTree, ListsAgree

LEMMA IsAnEvent ==
    ASSUME NEW k \in {"created", "edited", "moved", "deleted"}, NEW c \in Channels, NEW p, NEW o
    PROVE  /\ IsEvent(Event(k, c, p, o)) /\ Event(k, c, p, o).kind = k /\ Event(k, c, p, o).id = c
           /\ Event(k, c, p, o).parent = p /\ Event(k, c, p, o).order = o /\ c # Top
  BY ChannelFacts DEF IsEvent, Event

\* A channel is made.
LEMMA CreatedMirrors ==
    ASSUME NEW t, NEW s, Mirrors(t, s), IsServer(s), NEW c \in Channels, ~Has(t, c),
           NEW p \in Parents, p = Top \/ Has(t, p),
           NEW o \in {d \in Channels : t.parent[d] = p} \cup {Top}
    PROVE  Mirrors(Apply(t, Event("created", c, p, o)), Link(s, c, p, o))
  <1>0. PICK e : e = Event("created", c, p, o)
    OBVIOUS
  <1>1. IsEvent(e) /\ e.kind = "created" /\ e.id = c /\ e.parent = p /\ e.order = o /\ c # Top
    BY <1>0, IsAnEvent
  <1>2. ParentOf(t, p) = p /\ ~Unknown(t, p)
    BY DEF ParentOf, Unknown
  <1>3. PICK b : b = Unknown(t, p)
    OBVIOUS
  <1>4. b \in BOOLEAN /\ ~b
    BY <1>2, <1>3 DEF Unknown
  <1>5. PICK v : v = Insert(FlawedIf([t EXCEPT !.parent[c] = p], b), p, c, o)
    OBVIOUS
  <1>6. Apply(t, e) = v
    <2>1. Apply(t, e) = CreateChannel(t, c, p, o)
      BY <1>1 DEF Apply
    <2>2. CreateChannel(t, c, p, o) = v
      BY <1>2, <1>3, <1>5 DEF CreateChannel
    <2>. QED  BY <2>1, <2>2
  <1>7. Lacks(t, c) /\ t.consistent = TRUE
    BY AbsentLacks DEF Mirrors
  <1>8. o \in Range(t.kids[p]) \cup {Top}
    BY DEF Mirrors, IsTree, ListsAgree
  <1>9. PutAfter(v, t, p, c, o)
    BY <1>4, <1>5, <1>7, <1>8, PlacedMirrors
  <1>10. v.parent = [t.parent EXCEPT ![c] = p]
    <2>1. Lacks(t, c)
      BY <1>7
    <2>2. Shape(v) /\ ListsAgree(v) /\ v.parent = [t.parent EXCEPT ![c] = p]
      BY <1>5, <2>1, PlacedOK
    <2>. QED  BY <2>2
  <1>11. IsTree(v)
    BY <1>1, <1>6, EventsKeepTheTree DEF Mirrors
  <1>12. PICK r : r = Link(s, c, p, o)
    OBVIOUS
  <1>13. Linked(r, s, c, p, o)
    BY <1>12, LinkFields
  <1>14. t.parent = s.parent /\ t.order = s.order
    BY DEF Mirrors
  <1>15. r.parent = v.parent /\ r.order = v.order
    BY <1>9, <1>10, <1>13, <1>14 DEF PutAfter, Linked
  <1>. QED  BY <1>0, <1>6, <1>9, <1>11, <1>12, <1>15 DEF Mirrors, PutAfter

\* A channel that was there is put in a place.
LEMMA ReplacedMirrors ==
    ASSUME NEW t, NEW s, Mirrors(t, s), IsServer(s), NEW c \in Channels, Has(t, c),
           NEW q \in Parents, NEW o, NEW v, PutAfter(v, Detach(t, c), q, c, o),
           v.parent = [t.parent EXCEPT ![c] = q], IsTree(v)
    PROVE  Mirrors(v, Link(Unlink(s, c), c, q, o))
  <1>1. PICK u : u = Detach(t, c)
    OBVIOUS
  <1>2. TakenOut(u, t, c) /\ u.parent = t.parent
    BY <1>1, DetachMirrors, DetachOK DEF Mirrors, IsTree
  <1>3. PICK x : x = Unlink(s, c)
    OBVIOUS
  <1>4. Unlinked(x, s, c) /\ IsServer(x)
    BY <1>3, UnlinkFields DEF Unlinked, Besides
  <1>5. PICK r : r = Link(x, c, q, o)
    OBVIOUS
  <1>6. Linked(r, x, c, q, o)
    BY <1>4, <1>5, LinkFields
  <1>7. t.parent = s.parent /\ t.order = s.order
    BY DEF Mirrors
  <1>8. \A d \in Channels \ {c} : x.order[d] = u.order[d]
    BY <1>2, <1>4, <1>7 DEF TakenOut, Unlinked
  <1>9. x.parent = u.parent
    BY <1>2, <1>4, <1>7 DEF Unlinked
  <1>10. PutAfter(v, u, q, c, o)
    BY <1>1
  <1>11. r.order = v.order
    <2>1. \A d \in Channels : r.order[d] = v.order[d]
      BY <1>6, <1>8, <1>9, <1>10 DEF PutAfter, Linked
    <2>2. r.order = [d \in Channels |-> r.order[d]]
      BY <1>6 DEF Linked
    <2>3. v.order = [d \in Channels |-> v.order[d]]
      BY <1>10 DEF PutAfter
    <2>. QED  BY <2>1, <2>2, <2>3
  <1>12. r.parent = v.parent
    BY <1>6, <1>7, <1>9, <1>2 DEF Linked
  <1>13. v.consistent = TRUE
    BY <1>10 DEF PutAfter
  <1>. QED  BY <1>3, <1>5, <1>11, <1>12, <1>13 DEF Mirrors

\* What the server keeps a channel from going under is what the client does.
LEMMA NotWithin ==
    ASSUME NEW t, IsTree(t), t.parent = srv.parent, NEW c \in Channels,
           NEW q \in Parents, q # Top => Has(t, q) /\ c \notin Above(q)
    PROVE  ~Within(t, q, c)
  <1>. SUFFICES ASSUME Has(t, q), c \in Ancestry(t, q)  PROVE FALSE
    BY DEF Within
  <1>1. q \in Channels /\ q # Top
    BY ChannelFacts DEF Has
  <1>2. PICK S : S = {d \in Channels : d \in Ancestry(t, q) /\ c \in Ancestry(t, d)}
    OBVIOUS
  <1>3. Shape(t) /\ c \in Parents /\ q \in Parents
    BY ChannelFacts DEF IsTree
  <1>4. c \in S /\ q \in S /\ S \in SUBSET Channels
    BY <1>1, <1>2, <1>3, AncestryFacts
  <1>5. ASSUME NEW d \in S \ {c}  PROVE t.parent[d] \in S
    <2>1. d \in Channels /\ d \in Ancestry(t, q) /\ c \in Ancestry(t, d) /\ d # c
      BY <1>2
    <2>2. Has(t, d)
      <3>. SUFFICES ASSUME ~Has(t, d)  PROVE FALSE
        OBVIOUS
      <3>1. Upward(t, {d}) /\ {d} \in SUBSET Parents /\ d \in Parents
        BY <2>1, ChannelFacts DEF Upward
      <3>2. Ancestry(t, d) \subseteq {d}
        BY <1>3, <3>1, AncestryFacts
      <3>. QED  BY <2>1, <3>2
    <2>3. t.parent[d] \in Parents /\ Ancestry(t, d) = {d} \cup Ancestry(t, t.parent[d])
      BY <1>3, <2>1, <2>2, AncestryUp
    <2>4. c \in Ancestry(t, t.parent[d])
      BY <2>1, <2>3
    <2>5. t.parent[d] \in Ancestry(t, q)
      BY <1>3, <2>1, <2>2, AncestryFacts DEF Upward
    <2>6. t.parent[d] # Top
      <3>1. Upward(t, {Top}) /\ {Top} \in SUBSET Parents
        BY ChannelFacts DEF Upward, Has
      <3>2. Ancestry(t, Top) \subseteq {Top}
        BY <1>3, <3>1, AncestryFacts, ChannelFacts
      <3>. QED  BY <2>4, <3>2, ChannelFacts
    <2>. QED  BY <1>2, <2>3, <2>4, <2>5, <2>6, ChannelFacts
  <1>6. c \in Above(q)
    BY <1>1, <1>4, <1>5 DEF Above
  <1>. QED  BY <1>1, <1>6

\* A channel goes elsewhere, or elsewhere among its siblings.
LEMMA MovedMirrors ==
    ASSUME NEW t, NEW s, Mirrors(t, s), IsServer(s), NEW c \in Channels, Has(t, c),
           NEW q \in Parents, q = Top \/ Has(t, q), ~Within(t, q, c),
           NEW o \in ({d \in Channels : t.parent[d] = q} \ {c}) \cup {Top}
    PROVE  /\ Mirrors(Apply(t, Event("moved", c, q, o)), Link(Unlink(s, c), c, q, o))
           /\ q = t.parent[c] =>
                Mirrors(Apply(t, Event("edited", c, Absent, o)), Link(Unlink(s, c), c, q, o))
  <1>0. IsTree(t) /\ t.consistent = TRUE /\ Shape(t)
    BY DEF Mirrors, IsTree
  <1>1. PICK u : u = Detach(t, c)
    OBVIOUS
  <1>2. Lacks(u, c) /\ u.parent = t.parent /\ u.consistent = TRUE
    BY <1>0, <1>1, DetachOK, DetachMirrors DEF IsTree, TakenOut
  <1>3. o \in Range(u.kids[q]) \cup {Top} /\ (q = Top \/ Has(u, q))
    BY <1>2 DEF Lacks, Has
  <1>4. ASSUME NEW e, e = Event("moved", c, q, o)
        PROVE  Mirrors(Apply(t, e), Link(Unlink(s, c), c, q, o))
    <2>1. IsEvent(e) /\ e.kind = "moved" /\ e.id = c /\ e.parent = q /\ e.order = o /\ c # Top
      BY <1>4, IsAnEvent
    <2>2. ParentOf(t, q) = q /\ ~Unknown(t, q)
      BY DEF ParentOf, Unknown
    <2>3. PICK b : b = (Within(t, ParentOf(t, q), c) \/ Unknown(t, q))
      OBVIOUS
    <2>4. b \in BOOLEAN /\ ~b
      BY <2>2, <2>3
    <2>5. PICK v : v = Insert(FlawedIf([u EXCEPT !.parent[c] = q], b), q, c, o)
      OBVIOUS
    <2>6. Apply(t, e) = v
      <3>1. Apply(t, e) = MoveChannel(t, c, q, o)
        BY <2>1 DEF Apply
      <3>2. MoveChannel(t, c, q, o) = v
        BY <1>1, <2>2, <2>3, <2>5 DEF MoveChannel
      <3>. QED  BY <3>1, <3>2
    <2>7. PutAfter(v, u, q, c, o)
      BY <1>2, <1>3, <2>4, <2>5, PlacedMirrors
    <2>8. v.parent = [t.parent EXCEPT ![c] = q]
      BY <1>2, <1>3, <2>5, PlacedOK
    <2>9. IsTree(v)
      BY <1>0, <2>1, <2>6, EventsKeepTheTree
    <2>. QED  BY <1>1, <2>6, <2>7, <2>8, <2>9, ReplacedMirrors
  <1>5. ASSUME q = t.parent[c], NEW e, e = Event("edited", c, Absent, o)
        PROVE  Mirrors(Apply(t, e), Link(Unlink(s, c), c, q, o))
    <2>1. IsEvent(e) /\ e.kind = "edited" /\ e.id = c /\ e.order = o /\ c # Top /\ o # Absent
      BY <1>5, IsAnEvent, ChannelFacts
    <2>2. PICK v : v = Insert(u, q, c, o)
      OBVIOUS
    <2>3. Apply(t, e) = v
      <3>1. Apply(t, e) = EditChannel(t, c, o)
        BY <2>1 DEF Apply
      <3>2. EditChannel(t, c, o) = v
        BY <1>1, <1>5, <2>1, <2>2 DEF EditChannel
      <3>. QED  BY <3>1, <3>2
    <2>4. u.parent[c] = q
      BY <1>2, <1>5
    <2>5. PutAfter(v, u, q, c, o)
      BY <1>2, <1>3, <2>2, <2>4, InsertMirrors
    <2>6. v.parent = [t.parent EXCEPT ![c] = q]
      <3>1. v.parent = u.parent
        BY <1>2, <2>2, <2>4, InsertOK
      <3>2. [t.parent EXCEPT ![c] = q] = t.parent
        BY <1>0, <1>5 DEF Shape
      <3>. QED  BY <1>2, <3>1, <3>2
    <2>7. IsTree(v)
      BY <1>0, <2>1, <2>3, EventsKeepTheTree
    <2>. QED  BY <1>1, <2>3, <2>5, <2>6, <2>7, ReplacedMirrors
  <1>. QED  BY <1>4, <1>5

\* A channel with nothing below it goes.
LEMMA DeletedMirrors ==
    ASSUME NEW t, NEW s, Mirrors(t, s), IsServer(s), NEW c \in Channels, Has(t, c),
           \A d \in Channels : t.parent[d] # c
    PROVE  Mirrors(Apply(t, Event("deleted", c, Absent, Absent)),
                   [Unlink(s, c) EXCEPT !.parent[c] = Absent, !.order[c] = Absent])
  <1>0. IsTree(t) /\ t.consistent = TRUE /\ Shape(t) /\ t.parent = s.parent /\ t.order = s.order
    BY DEF Mirrors, IsTree
  <1>1. PICK e : e = Event("deleted", c, Absent, Absent)
    OBVIOUS
  <1>2. IsEvent(e) /\ e.kind = "deleted" /\ e.id = c /\ c # Top
    BY <1>1, IsAnEvent
  <1>3. {d \in Channels : Within(t, d, c)} = {c}
    <2>1. Within(t, c, c)
      BY <1>0, AncestryFacts, ChannelFacts DEF Within
    <2>2. ASSUME NEW d \in Channels, d # c  PROVE c \notin Ancestry(t, d)
      <3>1. Upward(t, Parents \ {c})
        BY <1>0 DEF Upward, Has, Shape
      <3>2. d \in Parents \ {c} /\ Parents \ {c} \in SUBSET Parents /\ d \in Parents
        BY <2>2, ChannelFacts
      <3>. QED  BY <1>0, <3>1, <3>2, AncestryFacts
    <2>. QED  BY <2>1, <2>2 DEF Within
  <1>4. PICK u : u = Detach(t, c)
    OBVIOUS
  <1>5. TakenOut(u, t, c) /\ u.parent = t.parent /\ Shape(u)
    BY <1>0, <1>4, DetachOK, DetachMirrors DEF IsTree, Lacks
  <1>. DEFINE parent == [d \in Channels |-> IF d \in {c} THEN Absent ELSE u.parent[d]]
              order  == [d \in Channels |-> IF d \in {c} THEN Absent ELSE u.order[d]]
              kids   == [p \in Parents |-> IF p \in {c} THEN <<>> ELSE u.kids[p]]
  <1>6. PICK w : w = [u EXCEPT !.parent = parent, !.order = order, !.kids = kids]
    OBVIOUS
  <1>7. PICK b : b = (t.kids[c] # <<>>)
    OBVIOUS
  <1>8. PICK v : v = FlawedIf(w, b)
    OBVIOUS
  <1>9. Apply(t, e) = v
    <2>1. Apply(t, e) = RemoveChannel(t, c)
      BY <1>2 DEF Apply
    <2>2. RemoveChannel(t, c) = v
      BY <1>3, <1>4, <1>6, <1>7, <1>8 DEF RemoveChannel
    <2>. QED  BY <2>1, <2>2
  <1>10. b \in BOOLEAN /\ ~b
    <2>1. PICK list : list = t.kids[c]
      OBVIOUS
    <2>2. list \in Seq(Channels) /\ Range(list) = {d \in Channels : t.parent[d] = c}
      BY <1>0, <2>1, ChannelFacts DEF Shape, IsTree, ListsAgree
    <2>3. DOMAIN list = {}
      BY <2>2 DEF Range
    <2>4. DOMAIN list = 1 .. Len(list) /\ Len(list) \in Nat
      BY <2>2
    <2>5. Len(list) = 0
      BY <2>3, <2>4
    <2>6. list = <<>>
      BY <2>2, <2>5, EmptySeq
    <2>. QED  BY <1>7, <2>1, <2>6
  <1>. HIDE DEF parent, order, kids
  <1>11. w.consistent = TRUE /\ w.parent = parent /\ w.order = order /\ DOMAIN w = DOMAIN u
    BY <1>5, <1>6 DEF Shape, TakenOut
  <1>12. v.consistent = TRUE /\ v.parent = parent /\ v.order = order
    BY <1>5, <1>8, <1>10, <1>11 DEF FlawedIf, Shape
  <1>13. IsTree(v)
    BY <1>0, <1>2, <1>9, EventsKeepTheTree
  <1>14. PICK x : x = Unlink(s, c)
    OBVIOUS
  <1>15. Unlinked(x, s, c)
    BY <1>14, UnlinkFields
  <1>16. PICK r : r = [x EXCEPT !.parent[c] = Absent, !.order[c] = Absent]
    OBVIOUS
  <1>17. r.parent = [x.parent EXCEPT ![c] = Absent] /\ r.order = [x.order EXCEPT ![c] = Absent]
    BY <1>15, <1>16 DEF Unlinked, Besides, IsServer
  <1>18. r.parent = v.parent
    <2>1. x.parent = t.parent /\ t.parent = [d \in Channels |-> t.parent[d]]
      BY <1>0, <1>15 DEF Unlinked, Shape
    <2>. QED  BY <1>5, <1>12, <1>17, <2>1 DEF parent
  <1>19. r.order = v.order
    <2>1. \A d \in Channels \ {c} : x.order[d] = u.order[d]
      BY <1>0, <1>5, <1>15 DEF TakenOut, Unlinked
    <2>2. x.order = [d \in Channels |-> x.order[d]]
      BY <1>15 DEF Unlinked
    <2>. QED  BY <1>12, <1>17, <2>1, <2>2 DEF order
  <1>. QED  BY <1>1, <1>9, <1>12, <1>13, <1>14, <1>16, <1>18, <1>19 DEF Mirrors

-----------------------------------------------------------------------------
(* The view.                                                               *)

\* Rows, each of a channel or of none.
IsListing(list) == \E R : list \in Seq(R) /\ \A r \in R : r.id \in Parents

IsLine(m) ==
    /\ m.type = "channel" => IsEvent(m)
    /\ m.type = "channellist" => IsListing(m.rows)

IsWire(w) == \E M : w \in Seq(M) /\ \A m \in M : IsLine(m)

LEMMA EmptyTreeOK == IsTree(EmptyTree)
  <1>1. /\ EmptyTree.parent = [c \in Channels |-> Absent] /\ EmptyTree.order = [c \in Channels |-> Absent]
        /\ EmptyTree.kids = [p \in Parents |-> <<>>]
        /\ DOMAIN EmptyTree = {"parent", "order", "kids", "consistent"}
    BY DEF EmptyTree
  <1>2. \A c : ~Has(EmptyTree, c)
    BY <1>1 DEF Has
  <1>3. Shape(EmptyTree)
    BY <1>1 DEF Shape
  <1>4. Rooted(EmptyTree)
    BY <1>2 DEF Rooted
  <1>5. ListsAgree(EmptyTree)
    <2>1. \A p \in Parents : EmptyTree.kids[p] = <<>> /\ p # Absent
      BY <1>1, ChannelFacts
    <2>2. \A p \in Parents : \A i, j \in DOMAIN EmptyTree.kids[p] :
              EmptyTree.kids[p][i] = EmptyTree.kids[p][j] => i = j
      BY <2>1
    <2>3. \A p \in Parents : Range(EmptyTree.kids[p]) = {c \in Channels : EmptyTree.parent[c] = p}
      BY <1>1, <2>1, EmptyFacts
    <2>. QED  BY <1>1, <1>2, <2>2, <2>3, ChannelFacts DEF ListsAgree
  <1>. QED  BY <1>3, <1>4, <1>5 DEF IsTree

LEMMA NoLines == IsWire(<<>>) /\ IsListing(<<>>)
  <1>. DEFINE M == {}
  <1>1. <<>> \in Seq(M) /\ (\A m \in M : IsLine(m)) /\ \A r \in M : r.id \in Parents
    OBVIOUS
  <1>. HIDE DEF M
  <1>. QED  BY <1>1 DEF IsWire, IsListing

LEMMA OneLine ==
    ASSUME NEW m, IsLine(m)
    PROVE  IsWire(<<m>>)
  <1>. DEFINE M == {m}
  <1>1. <<m>> \in Seq(M) /\ \A x \in M : IsLine(x)
    OBVIOUS
  <1>. HIDE DEF M
  <1>. QED  BY <1>1 DEF IsWire

LEMMA MoreLines ==
    ASSUME NEW v, NEW w, IsWire(v), IsWire(w)
    PROVE  IsWire(v \o w)
  <1>1. PICK M : v \in Seq(M) /\ \A m \in M : IsLine(m)
    BY DEF IsWire
  <1>2. PICK N : w \in Seq(N) /\ \A m \in N : IsLine(m)
    BY DEF IsWire
  <1>3. v \in Seq(M \cup N) /\ w \in Seq(M \cup N)
    BY <1>1, <1>2, SeqIn
  <1>4. v \o w \in Seq(M \cup N)
    BY <1>3, ConcatRange
  <1>5. \A m \in M \cup N : IsLine(m)
    BY <1>1, <1>2
  <1>. QED  BY <1>4, <1>5 DEF IsWire

LEMMA MoreRows ==
    ASSUME NEW v, NEW w, IsListing(v), IsListing(w)
    PROVE  IsListing(v \o w)
  <1>1. PICK M : v \in Seq(M) /\ \A r \in M : r.id \in Parents
    BY DEF IsListing
  <1>2. PICK N : w \in Seq(N) /\ \A r \in N : r.id \in Parents
    BY DEF IsListing
  <1>3. v \in Seq(M \cup N) /\ w \in Seq(M \cup N)
    BY <1>1, <1>2, SeqIn
  <1>4. v \o w \in Seq(M \cup N)
    BY <1>3, ConcatRange
  <1>5. \A r \in M \cup N : r.id \in Parents
    BY <1>1, <1>2
  <1>. QED  BY <1>4, <1>5 DEF IsListing

LEMMA NextLine ==
    ASSUME NEW w, IsWire(w), w # <<>>
    PROVE  IsLine(Head(w)) /\ IsWire(Tail(w))
  <1>1. PICK M : w \in Seq(M) /\ \A m \in M : IsLine(m)
    BY DEF IsWire
  <1>2. Head(w) \in M /\ Tail(w) \in Seq(M)
    BY <1>1, HeadTailRange
  <1>. QED  BY <1>1, <1>2 DEF IsWire

\* A line about anything but channels needs nothing.
LEMMA OtherLine ==
    ASSUME NEW m, m.type # "channel", m.type # "channellist"
    PROVE  IsLine(m)
  BY DEF IsLine

LEMMA EventLine ==
    ASSUME NEW c \in Parents, NEW k \in {"created", "edited", "moved", "deleted"}, NEW p, NEW o
    PROVE  IsWire(<<Event(k, c, p, o)>>)
  <1>1. IsLine(Event(k, c, p, o))
    BY DEF IsLine, IsEvent, Event
  <1>. QED  BY <1>1, OneLine

\* What happens on the server puts lines on the wire that name channels.
LEMMA TellOK ==
    ASSUME IsWire(wire), NEW ms, IsWire(ms), Tell(ms)
    PROVE  IsWire(wire')
  BY MoreLines DEF Tell

LEMMA ServerOpOK ==
    ASSUME IsWire(wire), ChannelOp \/ ClientOp \/ InfoOp
    PROVE  IsWire(wire')
  <1>1. CASE ChannelOp
    <2>1. \E ms : IsWire(ms) /\ Tell(ms)
      <3>1. ASSUME NEW c \in Channels, NEW k \in {"created", "edited", "moved", "deleted"}, NEW p, NEW o,
                   Tell(<<Event(k, c, p, o)>>)
            PROVE  \E ms : IsWire(ms) /\ Tell(ms)
        <4>1. IsWire(<<Event(k, c, p, o)>>)
          BY EventLine, ChannelFacts
        <4>. QED  BY <3>1, <4>1
      <3>. QED  BY <1>1, <3>1 DEF ChannelOp
    <2>. QED  BY <2>1, TellOK
  <1>2. CASE ClientOp
    <2>1. ASSUME NEW x, NEW before, NEW after  PROVE IsWire(SeenAs(x, before, after))
      <3>1. /\ IsWire(<<[type |-> "enter", clid |-> x, cid |-> after]>>)
            /\ IsWire(<<[type |-> "left", clid |-> x]>>)
            /\ IsWire(<<[type |-> "moved", clid |-> x, cid |-> after]>>)
        <4>1. /\ IsLine([type |-> "enter", clid |-> x, cid |-> after])
              /\ IsLine([type |-> "left", clid |-> x])
              /\ IsLine([type |-> "moved", clid |-> x, cid |-> after])
          BY OtherLine
        <4>. QED  BY <4>1, OneLine
      <3>. QED  BY <3>1, NoLines DEF SeenAs
    <2>2. ASSUME NEW c  PROVE IsWire(<<[type |-> "unsubscribed", cid |-> c]>>)
      <3>1. IsLine([type |-> "unsubscribed", cid |-> c])
        BY OtherLine
      <3>. QED  BY <3>1, OneLine
    <2>3. \E ms : IsWire(ms) /\ Tell(ms)
      BY <1>2, <2>1, <2>2 DEF ClientOp
    <2>. QED  BY <2>3, TellOK
  <1>3. CASE InfoOp
    <2>1. ASSUME NEW x  PROVE IsWire(<<[type |-> "server", name |-> x]>>)
      <3>1. IsLine([type |-> "server", name |-> x])
        BY OtherLine
      <3>. QED  BY <3>1, OneLine
    <2>2. ASSUME NEW k, NEW x  PROVE IsWire(<<[type |-> "groups", list |-> k, set |-> x]>>)
      <3>1. IsLine([type |-> "groups", list |-> k, set |-> x])
        BY OtherLine
      <3>. QED  BY <3>1, OneLine
    <2>3. \E ms : IsWire(ms) /\ Tell(ms)
      BY <1>3, <2>1, <2>2 DEF InfoOp
    <2>. QED  BY <2>3, TellOK
  <1>. QED  BY <1>1, <1>2, <1>3

LEMMA SetToSeqFacts ==
    ASSUME NEW S, IsFiniteSet(S)
    PROVE  SetToSeq(S) \in Seq(S) /\ SetToSeq(S) \in SetToSeqs(S)
  <1>1. PICK n : n = Cardinality(S)
    OBVIOUS
  <1>2. n \in Nat /\ \E f \in [1 .. n -> S] : IsInjective(f)
    BY <1>1, FS_CardinalityType DEF ExistsBijection, Bijection, Injection
  <1>3. SetToSeq(S) \in [1 .. n -> S] /\ IsInjective(SetToSeq(S))
    BY <1>1, <1>2 DEF SetToSeq
  <1>4. SetToSeq(S) \in SetToSeqs(S)
    BY <1>1, <1>3 DEF SetToSeqs, IsInjective
  <1>. QED  BY <1>2, <1>3, <1>4

\* The rows of a server's channels.
ListsChannels(list, s) ==
    /\ \A i, j \in DOMAIN list : list[i].id = list[j].id => i = j
    /\ IdsIn(list) = {c \in Channels : s.parent[c] # Absent}
    /\ \A i \in DOMAIN list : list[i].parent = s.parent[list[i].id] /\ list[i].order = s.order[list[i].id]

\* One of them may be any row.
LEMMA ListingsOK ==
    ASSUME NEW s, NEW list \in Listings(s)
    PROVE  /\ IsListing(list) /\ ListsChannels(list, s)
           /\ \A c \in Parents : \A p, o : list # <<>> => IsListing([list EXCEPT ![Len(list)] = Row(c, p, o)])
  <1>. DEFINE E == {c \in Channels : s.parent[c] # Absent}
              R == {list[i] : i \in DOMAIN list}
  <1>1. IsFiniteSet(E)
    BY FS_Subset, ChannelsAssumption
  <1>2. PICK ids \in SetToSeqs(E) : list = [i \in DOMAIN ids |-> Row(ids[i], s.parent[ids[i]], s.order[ids[i]])]
    BY DEF Listings
  <1>. HIDE DEF E
  <1>3. ids \in Seq(E) /\ Distinct(ids) /\ Range(ids) = E
    BY <1>1, <1>2, SetLists
  <1>4. DOMAIN list = 1 .. Len(ids) /\ Len(ids) \in Nat
    BY <1>2, <1>3
  <1>0. \A i \in DOMAIN list : /\ list[i].id = ids[i] /\ i \in DOMAIN ids /\ ids[i] \in E
                              /\ list[i].parent = s.parent[ids[i]] /\ list[i].order = s.order[ids[i]]
    BY <1>2, <1>3 DEF Row
  <1>8. ListsChannels(list, s)
    <2>1. \A i, j \in DOMAIN list : list[i].id = list[j].id => i = j
      BY <1>0, <1>3 DEF Distinct
    <2>2. IdsIn(list) = Range(ids)
      BY <1>0, <1>2 DEF IdsIn, Range
    <2>. QED  BY <1>0, <1>3, <2>1, <2>2 DEF ListsChannels, E
  <1>5. \A i \in DOMAIN list : list[i].id \in Parents
    BY <1>0, ChannelFacts DEF E
  <1>6. list \in Seq(R) /\ \A r \in R : r.id \in Parents
    <2>1. \A i \in DOMAIN list : list[i] \in R
      OBVIOUS
    <2>2. \A r \in R : r.id \in Parents
      BY <1>5
    <2>. HIDE DEF R
    <2>3. list = [i \in 1 .. Len(ids) |-> list[i]]
      BY <1>2, <1>4
    <2>4. list \in [1 .. Len(ids) -> R]
      BY <1>4, <2>1, <2>3
    <2>. QED  BY <1>4, <2>2, <2>4
  <1>. HIDE DEF R
  <1>7. ASSUME NEW c \in Parents, NEW p, NEW o, list # <<>>
        PROVE  IsListing([list EXCEPT ![Len(list)] = Row(c, p, o)])
    <2>1. PICK Q : Q = R \cup {Row(c, p, o)}
      OBVIOUS
    <2>2. \A r \in Q : r.id \in Parents
      BY <1>6, <2>1 DEF Row
    <2>3. list \in Seq(Q) /\ Row(c, p, o) \in Q
      BY <1>6, <2>1, SeqIn
    <2>4. Len(list) \in 1 .. Len(list)
      BY <2>3, <1>7, EmptySeq
    <2>5. [list EXCEPT ![Len(list)] = Row(c, p, o)] \in Seq(Q)
      BY <2>3, <2>4
    <2>. QED  BY <2>2, <2>5 DEF IsListing
  <1>. QED  BY <1>6, <1>7, <1>8 DEF IsListing

LEMMA GreetsOK ==
    ASSUME NEW list, IsListing(list), Greets(list)
    PROVE  IsWire(wire')
  <1>1. PICK there : there = SetToSeq({x \in Clients \ {Self} : Visible[x] # Absent})
    OBVIOUS
  <1>. DEFINE Entered(x) == [type |-> "enter", clid |-> x, cid |-> srv.at[x]]
              Groups(k)  == [type |-> "groups", list |-> k, set |-> srv.groups[k]]
              a == <<[type |-> "init", name |-> srv.name], Entered(Self),
                     [type |-> "channellist", rows |-> list]>>
              b == [i \in DOMAIN there |-> Entered(there[i])]
              c == <<[type |-> "finished"], Groups("server"), Groups("channel")>>
              M == {[type |-> "init", name |-> srv.name], [type |-> "channellist", rows |-> list],
                    [type |-> "finished"], Groups("server"), Groups("channel")} \cup {Entered(x) : x \in Clients}
  <1>2. wire' = a \o b \o c
    BY <1>1 DEF Greets, Unwelcomed
  <1>3. there \in Seq(Clients)
    <2>1. PICK S : S = {x \in Clients \ {Self} : Visible[x] # Absent}
      OBVIOUS
    <2>2. IsFiniteSet(S) /\ S \subseteq Clients
      BY <2>1, FS_Subset, ViewAssumption
    <2>3. there \in Seq(S)
      BY <1>1, <2>1, <2>2, SetToSeqFacts
    <2>. QED  BY <2>2, <2>3, SeqIn
  <1>4. \A m \in M : IsLine(m)
    <2>1. IsLine([type |-> "channellist", rows |-> list])
      BY DEF IsLine
    <2>2. /\ IsLine([type |-> "init", name |-> srv.name]) /\ IsLine([type |-> "finished"])
          /\ IsLine(Groups("server")) /\ IsLine(Groups("channel"))
          /\ \A x \in Clients : IsLine(Entered(x))
      BY OtherLine
    <2>. HIDE DEF Groups, Entered
    <2>. QED  BY <2>1, <2>2
  <1>5. a \in Seq(M) /\ c \in Seq(M)
    <2>1. Self \in Clients
      BY ViewAssumption
    <2>. HIDE DEF Groups, Entered
    <2>. QED  BY <2>1
  <1>6. b \in Seq(M)
    <2>1. Len(there) \in Nat /\ DOMAIN there = 1 .. Len(there) /\ \A i \in DOMAIN there : there[i] \in Clients
      BY <1>3
    <2>. HIDE DEF Entered
    <2>2. b \in [1 .. Len(there) -> M]
      BY <2>1
    <2>. QED  BY <2>1, <2>2
  <1>. HIDE DEF a, b, c, M
  <1>7. a \o b \o c \in Seq(M)
    BY <1>5, <1>6, ConcatRange
  <1>. QED  BY <1>2, <1>4, <1>7 DEF IsWire

-----------------------------------------------------------------------------
(* What holds of the view in every state.                                  *)

\* The view has moved since it was announced, or is to be announced as ready.
ToTell == moved \/ "viewReady" \in Range(queue)

\* What listeners last found is the view, unless there is something to tell, and then a
\* drain comes.
Told ==
    status \in {"live", "stale"} =>
        /\ ~ToTell => shown = View
        /\ ToTell => draining

QueueDrains == "viewReady" \in Range(queue) => draining

\* The lifecycle events that wait in the queue for #drain.
Lifecycle == {"viewReady", "disconnected"}

IInv ==
    /\ status \in {"empty", "loading", "live", "stale"}
    /\ moved \in BOOLEAN /\ draining \in BOOLEAN /\ queue \in Seq(Lifecycle)
    /\ IsTree(tree) /\ IsWire(wire) /\ IsListing(rows)
    /\ Told /\ QueueDrains
    /\ ReadyIsSettled

\* The part that is about the channels.
ChannelInv == IsTree(tree) /\ IsWire(wire) /\ IsListing(rows)

\* The part that is about the listeners.
EventInv ==
    /\ status \in {"empty", "loading", "live", "stale"}
    /\ moved \in BOOLEAN /\ draining \in BOOLEAN /\ queue \in Seq(Lifecycle)
    /\ Told /\ QueueDrains
    /\ ReadyIsSettled

LEMMA Parts == IInv <=> ChannelInv /\ EventInv
  BY DEF IInv, ChannelInv, EventInv

LEMMA InitHolds == Init => IInv
  <1>. SUFFICES ASSUME Init  PROVE IInv
    OBVIOUS
  <1>1. ChannelInv
    BY NoLines, EmptyTreeOK DEF Init, ChannelInv
  <1>2. EventInv
    <2>1. <<>> \in Seq(Lifecycle) /\ "viewReady" \notin Range(<<>>)
      BY EmptyFacts
    <2>. QED  BY <2>1 DEF Init, EventInv, Told, ToTell, QueueDrains, ReadyIsSettled
  <1>. QED  BY <1>1, <1>2, Parts

\* Every step leaves the channels a tree, and on the wire what makes one.
LEMMA ChannelStep ==
    ASSUME ChannelInv, [Next]_vars
    PROVE  ChannelInv'
  <1>. USE DEF ChannelInv
  <1>1. CASE UNCHANGED vars
    BY <1>1 DEF vars, store, line
  <1>2. CASE ReadRows
    <2>1. wire # <<>> /\ Head(wire).type = "channellist" /\ wire' = Tail(wire) /\ tree' = tree
      BY <1>2 DEF ReadRows, Takes
    <2>2. IsListing(Head(wire).rows) /\ IsWire(wire')
      BY <2>1, NextLine DEF IsLine
    <2>3. rows' = rows \/ rows' = rows \o Head(wire).rows
      BY <1>2 DEF ReadRows
    <2>. QED  BY <2>1, <2>2, <2>3, MoreRows
  <1>3. CASE ReadFinished
    <2>1. IsWire(wire')
      BY <1>3, NextLine DEF ReadFinished, Takes
    <2>2. \/ tree' = tree /\ rows' = rows
          \/ tree' = From(rows) /\ rows' = <<>>
      BY <1>3 DEF ReadFinished
    <2>3. IsTree(From(rows))
      <3>1. PICK R : rows \in Seq(R) /\ \A r \in R : r.id \in Parents
        BY DEF IsListing
      <3>. QED  BY <3>1, ListingsMakeATree
    <2>. QED  BY <2>1, <2>2, <2>3, NoLines
  <1>4. CASE ReadChannel
    <2>1. wire # <<>> /\ Head(wire).type = "channel" /\ wire' = Tail(wire) /\ rows' = rows
      BY <1>4 DEF ReadChannel, Takes
    <2>2. IsEvent(Head(wire)) /\ IsWire(wire')
      BY <2>1, NextLine DEF IsLine
    <2>3. tree' = tree \/ tree' = Apply(tree, Head(wire))
      BY <1>4 DEF ReadChannel
    <2>. QED  BY <2>1, <2>2, <2>3, EventsKeepTheTree
  <1>5. CASE ReadInit \/ ReadClient \/ ReadServer \/ ReadGroups
    <2>1. wire # <<>> /\ wire' = Tail(wire) /\ rows' = rows /\ tree' = tree
      BY <1>5 DEF ReadInit, ReadClient, ReadServer, ReadGroups, Takes
    <2>. QED  BY <2>1, NextLine
  <1>6. CASE Drain \/ WhenReady
    BY <1>6 DEF Drain, WhenReady, line
  <1>7. CASE Begin \/ End
    <2>1. wire' = <<>> /\ (tree' = tree \/ tree' = EmptyTree) /\ (rows' = rows \/ rows' = <<>>)
      BY <1>7 DEF Begin, End
    <2>. QED  BY <2>1, NoLines, EmptyTreeOK
  <1>8. CASE ServerOp
    <2>1. tree' = tree /\ rows' = rows /\ (ChannelOp \/ ClientOp \/ InfoOp)
      BY <1>8 DEF ServerOp, store
    <2>. QED  BY <2>1, ServerOpOK
  <1>9. CASE Stray
    <2>1. PICK k \in {"created", "moved", "edited", "deleted"}, c \in Channels, p \in Parents, o \in Parents \cup {Absent} :
              wire' = Append(wire, Event(k, c, p, o))
      BY <1>9 DEF Stray
    <2>2. IsWire(<<Event(k, c, p, o)>>)
      BY EventLine, ChannelFacts
    <2>3. IsLine(Event(k, c, p, o))
      BY ChannelFacts DEF IsLine, IsEvent, Event
    <2>4. PICK m : m = Event(k, c, p, o)
      OBVIOUS
    <2>5. PICK M : wire \in Seq(M) /\ \A x \in M : IsLine(x)
      BY DEF IsWire
    <2>6. PICK N : N = M \cup {m}
      OBVIOUS
    <2>7. wire \in Seq(N) /\ m \in N /\ \A x \in N : IsLine(x)
      BY <2>3, <2>4, <2>5, <2>6, SeqIn
    <2>8. wire' \in Seq(N)
      BY <2>1, <2>4, <2>7, AppendRange
    <2>9. tree' = tree /\ rows' = rows
      BY <1>9 DEF Stray, store
    <2>. QED  BY <2>7, <2>8, <2>9 DEF IsWire
  <1>10. CASE Welcome
    <2>1. PICK list \in Listings(srv) : Greets(list)
      BY <1>10 DEF Welcome
    <2>2. IsWire(wire')
      BY <2>1, ListingsOK, GreetsOK
    <2>. QED  BY <2>1, <2>2 DEF Greets, store
  <1>11. CASE WrongWelcome
    <2>1. PICK list \in Listings(srv), c \in Parents, p \in Parents, o \in Parents :
              list # <<>> /\ Greets([list EXCEPT ![Len(list)] = Row(c, p, o)])
      BY <1>11 DEF WrongWelcome
    <2>2. PICK other : other = [list EXCEPT ![Len(list)] = Row(c, p, o)]
      OBVIOUS
    <2>3. IsListing(other) /\ Greets(other)
      BY <2>1, <2>2, ListingsOK
    <2>. QED  BY <2>3, GreetsOK DEF Greets, store
  <1>. QED
    BY <1>1, <1>2, <1>3, <1>4, <1>5, <1>6, <1>7, <1>8, <1>9, <1>10, <1>11 DEF Next, Handling

\* An event queued joins those before it (#queue).
LEMMA QueuedOK ==
    ASSUME NEW q \in Seq(Lifecycle), NEW e \in Lifecycle
    PROVE  Append(q, e) \in Seq(Lifecycle) /\ e \in Range(Append(q, e))
  <1>1. Append(q, e) \in Seq(Lifecycle) /\ Range(Append(q, e)) = Range(q) \cup {e}
    BY AppendRange
  <1>. QED  BY <1>1, Zenon

\* Every step that changes the view leaves it to be told of.
LEMMA EventStep ==
    ASSUME EventInv, [Next]_vars
    PROVE  EventInv'
  <1>0. /\ status \in {"empty", "loading", "live", "stale"} /\ moved \in BOOLEAN /\ draining \in BOOLEAN
        /\ queue \in Seq(Lifecycle) /\ Told /\ QueueDrains /\ ReadyIsSettled
    BY DEF EventInv
  <1>1. ASSUME UNCHANGED <<status, tree, roster, name, groups, moved, queue, shown, ready, draining>>
        PROVE  EventInv'
    BY <1>0, <1>1 DEF EventInv, Told, ToTell, QueueDrains, ReadyIsSettled, View
  <1>2. CASE UNCHANGED vars \/ ServerOp \/ Stray \/ ReadRows \/ \E list : Greets(list)
    BY <1>1, <1>2 DEF vars, store, events, ServerOp, Stray, ReadRows, Takes, Greets
  <1>3. CASE Welcome \/ WrongWelcome
    BY <1>2, <1>3 DEF Welcome, WrongWelcome
  \* A change of the tree, the roster, the name or the groups with #bump.
  <1>4. ASSUME UNCHANGED <<status, queue, shown, ready>>,
               Bump \/ UNCHANGED <<tree, roster, name, groups, moved, draining>>
        PROVE  EventInv'
    <2>1. CASE Bump
      <3>1. moved' = TRUE /\ draining' \in BOOLEAN /\ (draining => draining') /\ (status # "loading" => draining')
        BY <1>0, <2>1 DEF Bump
      <3>. QED  BY <1>0, <1>4, <3>1 DEF EventInv, Told, ToTell, QueueDrains, ReadyIsSettled
    <2>2. CASE UNCHANGED <<tree, roster, name, groups, moved, draining>>
      BY <1>1, <1>4, <2>2
    <2>. QED  BY <1>4, <2>1, <2>2
  <1>5. CASE ReadInit \/ ReadServer \/ ReadGroups \/ ReadClient \/ ReadChannel
    <2>1. UNCHANGED <<status, queue, shown, ready>>
      BY <1>5 DEF ReadInit, ReadServer, ReadGroups, ReadClient, ReadChannel, Takes
    <2>2. Bump \/ UNCHANGED <<tree, roster, name, groups, moved, draining>>
      BY <1>5 DEF ReadInit, ReadServer, ReadGroups, ReadClient, ReadChannel, BumpIf
    <2>. QED  BY <1>4, <2>1, <2>2
  <1>6. CASE ReadFinished
    <2>1. CASE status = "loading" /\ connected
      <3>1. /\ status' = "live" /\ moved' = FALSE /\ draining' = TRUE /\ queue' = Append(queue, "viewReady")
            /\ ready' = IF ready = "waiting" THEN "resolved" ELSE ready
        BY <1>6, <2>1 DEF ReadFinished
      <3>2. queue' \in Seq(Lifecycle) /\ "viewReady" \in Range(queue')
        <4>1. "viewReady" \in Lifecycle
          BY DEF Lifecycle
        <4>2. /\ Append(queue, "viewReady") \in Seq(Lifecycle)
              /\ "viewReady" \in Range(Append(queue, "viewReady"))
          BY <1>0, <4>1, QueuedOK, Zenon
        <4>. QED  BY <3>1, <4>2, Zenon
      <3>. QED  BY <3>1, <3>2 DEF EventInv, Told, ToTell, QueueDrains, ReadyIsSettled
    <2>2. CASE ~(status = "loading" /\ connected)
      BY <1>1, <1>6, <2>2 DEF ReadFinished, Takes
    <2>. QED  BY <2>1, <2>2
  <1>7. CASE Drain
    <2>1. /\ draining' = FALSE /\ queue' = <<>> /\ UNCHANGED <<status, tree, roster, name, groups, ready>>
          /\ moved' = IF Announces THEN FALSE ELSE moved
          /\ shown' = IF Announces \/ "viewReady" \in Range(queue) THEN View ELSE shown
      BY <1>7 DEF Drain
    <2>2. queue' \in Seq(Lifecycle) /\ "viewReady" \notin Range(queue')
      BY <2>1, EmptyFacts
    <2>3. View' = View
      BY <2>1 DEF View
    <2>4. moved' \in BOOLEAN
      BY <1>0, <2>1
    <2>5. Told'
      <3>. SUFFICES ASSUME status \in {"live", "stale"}  PROVE ~moved' /\ shown' = View
        BY <2>1, <2>2, <2>3 DEF Told, ToTell
      <3>1. CASE moved
        BY <2>1, <3>1 DEF Announces
      <3>2. CASE ~moved
        BY <1>0, <2>1, <3>2 DEF Announces, Told, ToTell
      <3>. QED  BY <3>1, <3>2
    <2>. QED  BY <1>0, <2>1, <2>2, <2>4, <2>5 DEF EventInv, QueueDrains, ReadyIsSettled
  <1>8. CASE Begin
    <2>1. status' = "loading" /\ moved' = TRUE /\ queue' = queue /\ ready' = ready
      BY <1>8 DEF Begin
    <2>2. draining' = (draining \/ (status # "loading" /\ roster # roster'))
      BY <1>8 DEF Begin
    <2>3. draining' \in BOOLEAN /\ (draining => draining')
      BY <1>0, <2>2
    <2>. QED  BY <1>0, <2>1, <2>3 DEF EventInv, Told, QueueDrains, ReadyIsSettled
  <1>9. CASE End
    <2>1. /\ status' = "stale" /\ moved' = TRUE /\ draining' = TRUE /\ queue' = Append(queue, "disconnected")
          /\ ready' = IF ready = "waiting" THEN "rejected" ELSE ready
      BY <1>9 DEF End
    <2>2. queue' \in Seq(Lifecycle)
      <3>1. "disconnected" \in Lifecycle
        BY DEF Lifecycle
      <3>2. Append(queue, "disconnected") \in Seq(Lifecycle)
        BY <1>0, <3>1, QueuedOK, Zenon
      <3>. QED  BY <2>1, <3>2, Zenon
    <2>. QED  BY <2>1, <2>2 DEF EventInv, Told, ToTell, QueueDrains, ReadyIsSettled
  <1>10. CASE WhenReady
    <2>1. /\ UNCHANGED <<status, tree, roster, name, groups, moved, queue, shown, draining>>
          /\ ready' = CASE status = "live" -> "resolved" [] status = "stale" -> "rejected" [] OTHER -> "waiting"
      BY <1>10 DEF WhenReady, events
    <2>2. Told' /\ QueueDrains'
      BY <1>0, <2>1 DEF Told, ToTell, QueueDrains, View
    <2>3. ReadyIsSettled'
      BY <1>0, <2>1 DEF ReadyIsSettled
    <2>. QED  BY <1>0, <2>1, <2>2, <2>3 DEF EventInv
  <1>. QED
    BY <1>2, <1>3, <1>5, <1>6, <1>7, <1>8, <1>9, <1>10 DEF Next, Handling

\* The inductive invariant holds in every state of the view.
THEOREM ViewInductive == Spec => []IInv
  <1>1. IInv /\ [Next]_vars => IInv'
    <2>. SUFFICES ASSUME IInv, [Next]_vars  PROVE IInv'
      OBVIOUS
    <2>1. ChannelInv' /\ EventInv'
      BY Parts, ChannelStep, EventStep
    <2>. QED  BY <2>1 DEF IInv, ChannelInv, EventInv
  <1>. QED  BY <1>1, InitHolds, PTL DEF Spec

\* The view's channels are a tree with one place for each, whatever the server sends: a
\* listing that is no tree (ChannelTree.from), events that cannot be placed (#change).
THEOREM TreeIsAlwaysATree == Spec => []TreeIsATree
  <1>1. IInv => TreeIsATree
    BY DEF IInv, IsTree, TreeIsATree
  <1>. QED  BY <1>1, ViewInductive, PTL

\* Once the deliveries are done, listeners have seen the view as it is, its end included:
\* nothing changes it without #bump, or without a drain to come (#drain, announce).
THEOREM ListenersAlwaysUpToDate == Spec => []ListenersAreUpToDate
  <1>1. IInv => ListenersAreUpToDate
    BY DEF IInv, Told, ListenersAreUpToDate
  <1>. QED  BY <1>1, ViewInductive, PTL

\* No whenReady() waits once its connection has become live or has ended (#whenReady).
THEOREM ReadyIsAlwaysSettled == Spec => []ReadyIsSettled
  <1>1. IInv => ReadyIsSettled
    BY DEF IInv
  <1>. QED  BY <1>1, ViewInductive, PTL

\* The listing a client has been sent when its end comes is read for what it is: found
\* consistent exactly if it describes a tree, and then taken over row by row (#finish).
THEOREM ListingIsAlwaysRead == Spec => []ListingIsRead
  <1>1. IInv => ListingIsRead
    <2>. SUFFICES ASSUME IInv  PROVE ListingIsRead
      OBVIOUS
    <2>1. PICK R : rows \in Seq(R) /\ \A r \in R : r.id \in Parents
      BY DEF IInv, IsListing
    <2>. QED  BY <2>1, ListingsAreRead DEF ListingIsRead
  <1>. QED  BY <1>1, ViewInductive, PTL

-----------------------------------------------------------------------------
(* The view is the server's state.                                         *)

LEMMA ListsOneEach ==
    ASSUME NEW s, NEW list, IsListing(list), ListsChannels(list, s)
    PROVE  \E R : OneEach(list, R) /\ \A r \in R : r.id \in Parents
  <1>1. PICK R : list \in Seq(R) /\ \A r \in R : r.id \in Parents
    BY DEF IsListing
  <1>2. \A i \in DOMAIN list : list[i].id \in Channels
    BY DEF ListsChannels, IdsIn
  <1>3. \A i, j \in DOMAIN list : list[i].id = list[j].id => i = j
    BY DEF ListsChannels
  <1>4. OneEach(list, R)
    BY <1>1, <1>2, <1>3 DEF OneEach
  <1>. QED  BY <1>1, <1>4

\* The rows of a tree describe it.
LEMMA TreeDescribes ==
    ASSUME NEW t, NEW s, Mirrors(t, s), NEW list, IsListing(list), ListsChannels(list, s)
    PROVE  DescribeATree(list)
  <1>1. PICK R : OneEach(list, R)
    BY ListsOneEach
  <1>2. IsTree(t) /\ Shape(t) /\ ListsAgree(t) /\ Rooted(t) /\ t.parent = s.parent /\ t.order = s.order
    BY DEF Mirrors, IsTree
  <1>3. PICK ids : ids = IdsIn(list)
    OBVIOUS
  <1>4. /\ ids = {c \in Channels : t.parent[c] # Absent} /\ Top \notin ids
        /\ \A i \in DOMAIN list : /\ list[i].id \in ids
                                  /\ list[i].parent = t.parent[list[i].id] /\ list[i].order = t.order[list[i].id]
    <2>1. Top \notin ids
      BY <1>1, <1>3, IdsInFacts
    <2>2. \A i \in DOMAIN list : list[i].id \in ids
      BY <1>3 DEF IdsIn
    <2>. QED  BY <1>2, <1>3, <2>1, <2>2 DEF ListsChannels
  <1>5. \A c \in Channels : Has(t, c) <=> c \in ids
    BY <1>4 DEF Has
  <1>6. \A c \in ids : t.parent[c] \in ids \cup {Top}
    <2>. SUFFICES ASSUME NEW c \in ids  PROVE t.parent[c] \in ids \cup {Top}
      OBVIOUS
    <2>1. c \in Channels /\ t.parent[c] # Absent
      BY <1>4
    <2>2. t.parent[c] \in Channels \cup {Top}
      BY <1>2, <2>1 DEF Shape, Parents
    <2>3. t.parent[c] \in Channels => Has(t, t.parent[c])
      BY <1>2, <2>1 DEF ListsAgree
    <2>. QED  BY <1>5, <2>2, <2>3
  <1>7. ASSUME NEW S \in SUBSET ids, S # {}
        PROVE  \E i \in DOMAIN list : list[i].id \in S /\ list[i].parent \notin S
    <2>. SUFFICES ASSUME \A c \in S : t.parent[c] \in S  PROVE FALSE
      <3>1. \A c \in S : \E i \in DOMAIN list : list[i].id = c
        BY <1>3 DEF IdsIn
      <3>. QED  BY <1>4, <3>1
    <2>1. PICK c : c \in S
      BY <1>7
    <2>2. Upward(t, S)
      BY DEF Upward
    <2>3. Top \in Ancestry(t, c)
      BY <1>2, <1>4, <1>5, <2>1 DEF Rooted
    <2>4. S \in SUBSET Parents
      BY <1>4 DEF Parents
    <2>5. Top \in S
      BY <2>1, <2>2, <2>3, <2>4 DEF Ancestry
    <2>. QED  BY <1>4, <2>5
  <1>8. ASSUME NEW p \in ids \cup {Top}  PROVE \E L : InOrder(L, UnderIn(list, p))
    <2>1. PICK u : u = UnderIn(list, p)
      OBVIOUS
    <2>2. /\ \A k \in DOMAIN u : \E i \in DOMAIN list : u[k] = list[i] /\ list[i].parent = p
          /\ \A i \in DOMAIN list : list[i].parent = p => \E k \in DOMAIN u : u[k] = list[i]
      BY <1>1, <2>1, UnderInFacts DEF RowsUnder
    <2>3. PICK L : L = t.kids[p]
      OBVIOUS
    <2>4. p \in Parents /\ p # Absent
      BY <1>4, ChannelFacts DEF Parents
    <2>5. L \in Seq(Channels) /\ Distinct(L) /\ Range(L) = {c \in Channels : t.parent[c] = p}
      BY <1>2, <2>3, <2>4 DEF Shape, ListsAgree, Distinct
    <2>6. IdsIn(u) = {c \in Channels : t.parent[c] = p}
      <3>1. \A k \in DOMAIN u : u[k].id \in Channels /\ t.parent[u[k].id] = p
        BY <1>4, <2>2
      <3>2. \A c \in Channels : t.parent[c] = p => \E i \in DOMAIN list : list[i].id = c /\ list[i].parent = p
        <4>1. \A c \in ids : \E i \in DOMAIN list : list[i].id = c
          BY <1>3 DEF IdsIn
        <4>. QED  BY <1>4, <2>4, <4>1
      <3>3. \A c \in Channels : t.parent[c] = p => \E k \in DOMAIN u : u[k].id = c
        BY <2>2, <3>2
      <3>. QED  BY <3>1, <3>3 DEF IdsIn
    <2>7. L \in Seq(IdsIn(u))
      <3>1. DOMAIN L = 1 .. Len(L) /\ Len(L) \in Nat /\ \A i \in 1 .. Len(L) : L[i] \in IdsIn(u)
        BY <2>5, <2>6 DEF Range
      <3>2. L = [i \in 1 .. Len(L) |-> L[i]]
        BY <2>5
      <3>3. L \in [1 .. Len(L) -> IdsIn(u)]
        BY <3>1, <3>2
      <3>. QED  BY <3>1, <3>3
    <2>8. \A k \in DOMAIN u : u[k].order = OrderIn(L, u[k].id)
      <3>. SUFFICES ASSUME NEW k \in DOMAIN u  PROVE u[k].order = OrderIn(L, u[k].id)
        OBVIOUS
      <3>1. PICK i \in DOMAIN list : u[k] = list[i] /\ list[i].parent = p
        BY <2>2
      <3>2. PICK c : c = list[i].id
        OBVIOUS
      <3>3. c \in ids /\ c \in Channels /\ t.parent[c] = p /\ list[i].order = t.order[c]
        BY <1>4, <3>1, <3>2
      <3>4. t.order[c] = OrderIn(t.kids[t.parent[c]], c)
        BY <1>2, <1>5, <3>3 DEF ListsAgree
      <3>. QED  BY <2>3, <3>1, <3>2, <3>3, <3>4
    <2>9. InOrder(L, u)
      BY <2>5, <2>6, <2>7, <2>8 DEF InOrder
    <2>. QED  BY <2>1, <2>9
  <1>9. Described(list)
    BY <1>3, <1>4, <1>6, <1>7, <1>8 DEF Described
  <1>. QED  BY <1>1, <1>9, DescribedMeans

\* Rows that describe a tree are read as what they were made of.
LEMMA ListingMirrors ==
    ASSUME NEW s, s.parent \in [Channels -> Parents \cup {Absent}], Filled(s),
           \A c \in Channels : s.parent[c] = Absent => s.order[c] = Absent,
           NEW list, IsListing(list), ListsChannels(list, s), DescribeATree(list)
    PROVE  Mirrors(From(list), s)
  <1>1. PICK R : OneEach(list, R) /\ \A r \in R : r.id \in Parents
    BY ListsOneEach
  <1>2. PICK t : t = From(list)
    OBVIOUS
  <1>3. list \in Seq(R)
    BY <1>1 DEF OneEach
  <1>4. IsTree(t)
    BY <1>1, <1>2, <1>3, ListingsMakeATree
  <1>5. /\ t.consistent
        /\ \A i \in DOMAIN list : t.parent[list[i].id] = list[i].parent /\ t.order[list[i].id] = list[i].order
        /\ \A c \in Channels : Has(t, c) => c \in IdsIn(list)
    BY <1>1, <1>2, <1>3, ListingsAreRead
  <1>6. ASSUME NEW c \in Channels  PROVE t.parent[c] = s.parent[c] /\ t.order[c] = s.order[c]
    <2>1. CASE c \in IdsIn(list)
      <3>1. PICK i \in DOMAIN list : list[i].id = c
        BY <2>1 DEF IdsIn
      <3>. QED  BY <1>5, <3>1 DEF ListsChannels
    <2>2. CASE c \notin IdsIn(list)
      <3>1. ~Has(t, c) /\ s.parent[c] = Absent
        BY <1>5, <2>2 DEF ListsChannels
      <3>2. t.order[c] = Absent /\ t.parent[c] = Absent
        BY <1>4, <3>1 DEF IsTree, ListsAgree, Has
      <3>. QED  BY <3>1, <3>2
    <2>. QED  BY <2>1, <2>2
  <1>7. t.parent = s.parent
    BY <1>4, <1>6 DEF IsTree, Shape
  <1>8. Filled(t)
    BY <1>1, <1>2, <1>3, ListingsAreRead
  <1>9. t.order = s.order
    BY <1>6, <1>8 DEF Filled
  <1>10. t.consistent = TRUE
    BY <1>5
  <1>. QED  BY <1>2, <1>4, <1>7, <1>9, <1>10 DEF Mirrors

\* The store as far as lines change it, and what a line makes of it.
Store == [status |-> status, connected |-> connected, rows |-> rows, tree |-> tree,
          roster |-> roster, name |-> name, groups |-> groups]

Collects(a) == a.status = "loading" /\ a.connected
Keeps(a)    == a.status \in {"loading", "live"}

ClientLines == {"enter", "left", "moved", "unsubscribed"}

RosterOf(r, m) ==
    CASE m.type = "enter" -> [r EXCEPT ![m.clid] = m.cid]
      [] m.type = "left"  -> [r EXCEPT ![m.clid] = Absent]
      [] m.type = "moved" -> [r EXCEPT ![m.clid] = IF @ = Absent THEN Absent ELSE m.cid]
      [] m.type = "unsubscribed" -> [x \in Clients |-> IF r[x] = m.cid /\ x # Self THEN Absent ELSE r[x]]

Read(a, m) ==
    [status    |-> IF m.type = "finished" /\ Collects(a) THEN "live" ELSE a.status,
     connected |-> IF m.type = "init" THEN TRUE ELSE a.connected,
     rows      |-> IF m.type = "channellist" /\ Collects(a) THEN a.rows \o m.rows
                   ELSE IF m.type = "finished" /\ Collects(a) THEN <<>> ELSE a.rows,
     tree      |-> IF m.type = "finished" /\ Collects(a) THEN From(a.rows)
                   ELSE IF m.type = "channel" /\ a.status = "live" THEN Apply(a.tree, m) ELSE a.tree,
     roster    |-> IF m.type \in ClientLines THEN RosterOf(a.roster, m) ELSE a.roster,
     name      |-> IF m.type = "init" \/ (m.type = "server" /\ Keeps(a)) THEN m.name ELSE a.name,
     groups    |-> IF m.type = "groups" /\ Keeps(a) THEN [a.groups EXCEPT ![m.list] = m.set] ELSE a.groups]

\* The lines, read one by one.
Leads(a, w, b) ==
    \E f : f[0] = a /\ f[Len(w)] = b /\ \A k \in 1 .. Len(w) : f[k] = Read(f[k - 1], w[k])

LEMMA NoneLeads ==
    ASSUME NEW a, NEW b
    PROVE  Leads(a, <<>>, b) <=> a = b
  <1>. DEFINE f == [k \in {0} |-> a]
  <1>1. f[0] = a
    OBVIOUS
  <1>2. Len(<<>>) = 0 /\ \A k : k \notin 1 .. 0
    OBVIOUS
  <1>. HIDE DEF f
  <1>3. ASSUME a = b  PROVE Leads(a, <<>>, b)
    BY <1>1, <1>2, <1>3 DEF Leads
  <1>4. ASSUME Leads(a, <<>>, b)  PROVE a = b
    BY <1>2, <1>4 DEF Leads
  <1>. QED  BY <1>3, <1>4

LEMMA LeadsOn ==
    ASSUME NEW a, NEW b, NEW M, NEW w \in Seq(M), w # <<>>, Leads(a, w, b)
    PROVE  Leads(Read(a, Head(w)), Tail(w), b)
  <1>1. PICK f : f[0] = a /\ f[Len(w)] = b /\ \A k \in 1 .. Len(w) : f[k] = Read(f[k - 1], w[k])
    BY DEF Leads
  <1>2. PICK t : t = Tail(w)
    OBVIOUS
  <1>3. PICK n : n = Len(t)
    OBVIOUS
  <1>4. n \in Nat /\ Len(w) = n + 1 /\ Head(w) = w[1] /\ \A k \in 1 .. n : t[k] = w[k + 1]
    <2>1. t \in Seq(M) /\ Len(t) = Len(w) - 1 /\ Head(w) = w[1] /\ \A i \in 1 .. Len(t) : t[i] = w[i + 1]
      BY <1>2, HeadTailProperties
    <2>2. Len(w) \in Nat /\ Len(t) \in Nat
      BY <2>1
    <2>. QED  BY <1>3, <2>1, <2>2
  <1>. DEFINE g == [k \in 0 .. n |-> f[k + 1]]
  <1>5. \A k \in 0 .. n : g[k] = f[k + 1]
    OBVIOUS
  <1>. HIDE DEF g
  <1>6. g[0] = Read(a, Head(w)) /\ g[n] = b
    <2>1. 0 \in 0 .. n /\ n \in 0 .. n /\ 1 \in 1 .. Len(w) /\ 0 + 1 = 1 /\ 1 - 1 = 0
      BY <1>4
    <2>2. g[0] = f[1] /\ g[n] = f[n + 1]
      BY <1>5, <2>1
    <2>3. f[1] = Read(f[1 - 1], w[1])
      BY <1>1, <2>1
    <2>. QED  BY <1>1, <1>4, <2>1, <2>2, <2>3
  <1>7. ASSUME NEW k \in 1 .. n  PROVE g[k] = Read(g[k - 1], t[k])
    <2>1. k \in 0 .. n /\ k - 1 \in 0 .. n /\ k + 1 \in 1 .. Len(w) /\ (k - 1) + 1 = k /\ (k + 1) - 1 = k
      BY <1>4
    <2>2. g[k] = f[k + 1] /\ g[k - 1] = f[k]
      BY <1>5, <2>1
    <2>3. f[k + 1] = Read(f[(k + 1) - 1], w[k + 1])
      BY <1>1, <2>1
    <2>. QED  BY <1>4, <2>1, <2>2, <2>3
  <1>. QED  BY <1>2, <1>3, <1>6, <1>7 DEF Leads

LEMMA LeadsThen ==
    ASSUME NEW a, NEW b, NEW c, NEW M, NEW v \in Seq(M), NEW w \in Seq(M), Leads(a, v, b), Leads(b, w, c)
    PROVE  Leads(a, v \o w, c)
  <1>1. PICK f : f[0] = a /\ f[Len(v)] = b /\ \A k \in 1 .. Len(v) : f[k] = Read(f[k - 1], v[k])
    BY DEF Leads
  <1>2. PICK g : g[0] = b /\ g[Len(w)] = c /\ \A k \in 1 .. Len(w) : g[k] = Read(g[k - 1], w[k])
    BY DEF Leads
  <1>3. PICK m : m = Len(v)
    OBVIOUS
  <1>4. PICK n : n = Len(w)
    OBVIOUS
  <1>5. PICK u : u = v \o w
    OBVIOUS
  <1>6. /\ m \in Nat /\ n \in Nat /\ Len(u) = m + n
        /\ \A k \in 1 .. (m + n) : u[k] = IF k <= m THEN v[k] ELSE w[k - m]
    BY <1>3, <1>4, <1>5
  <1>. DEFINE h == [k \in 0 .. (m + n) |-> IF k <= m THEN f[k] ELSE g[k - m]]
  <1>7. \A k \in 0 .. (m + n) : h[k] = IF k <= m THEN f[k] ELSE g[k - m]
    OBVIOUS
  <1>. HIDE DEF h
  <1>8. h[0] = a
    BY <1>1, <1>6, <1>7
  <1>9. h[m + n] = c
    <2>1. CASE n = 0
      <3>1. m + n \in 0 .. (m + n) /\ m + n <= m /\ m + n = m
        BY <1>6, <2>1
      <3>. QED  BY <1>1, <1>2, <1>3, <1>4, <1>7, <2>1, <3>1
    <2>2. CASE n # 0
      <3>1. m + n \in 0 .. (m + n) /\ ~(m + n <= m) /\ (m + n) - m = n
        BY <1>6, <2>2
      <3>. QED  BY <1>2, <1>4, <1>7, <3>1
    <2>. QED  BY <2>1, <2>2
  <1>10. ASSUME NEW k \in 1 .. (m + n)  PROVE h[k] = Read(h[k - 1], u[k])
    <2>0. k \in 0 .. (m + n) /\ k - 1 \in 0 .. (m + n) /\ k \in Int
      BY <1>6
    <2>1. CASE k <= m
      <3>1. k \in 1 .. m /\ k - 1 <= m
        BY <1>6, <2>0, <2>1
      <3>2. h[k] = f[k] /\ h[k - 1] = f[k - 1] /\ u[k] = v[k]
        BY <1>6, <1>7, <2>0, <2>1, <3>1
      <3>. QED  BY <1>1, <1>3, <3>1, <3>2
    <2>2. CASE k = m + 1
      <3>1. ~(k <= m) /\ k - m = 1 /\ k - 1 = m /\ m <= m /\ 1 \in 1 .. n /\ 1 - 1 = 0
        BY <1>6, <2>0, <2>2
      <3>2. h[k] = g[1] /\ h[k - 1] = f[m] /\ u[k] = w[1]
        BY <1>6, <1>7, <2>0, <3>1
      <3>3. g[1] = Read(g[1 - 1], w[1])
        BY <1>2, <1>4, <3>1
      <3>. QED  BY <1>1, <1>2, <1>3, <3>1, <3>2, <3>3
    <2>3. CASE k > m + 1
      <3>1. ~(k <= m) /\ ~(k - 1 <= m) /\ k - m \in 1 .. n /\ (k - 1) - m = (k - m) - 1
        BY <1>6, <2>0, <2>3
      <3>2. h[k] = g[k - m] /\ h[k - 1] = g[(k - m) - 1] /\ u[k] = w[k - m]
        BY <1>6, <1>7, <2>0, <3>1
      <3>3. g[k - m] = Read(g[(k - m) - 1], w[k - m])
        BY <1>2, <1>4, <3>1
      <3>. QED  BY <3>2, <3>3
    <2>. QED  BY <1>6, <2>0, <2>1, <2>2, <2>3
  <1>. QED  BY <1>5, <1>6, <1>8, <1>9, <1>10 DEF Leads

LEMMA OneLeads ==
    ASSUME NEW a, NEW m
    PROVE  Leads(a, <<m>>, Read(a, m))
  <1>1. PICK b : b = Read(a, m)
    OBVIOUS
  <1>. DEFINE f == [k \in {0, 1} |-> IF k = 0 THEN a ELSE b]
              w == <<m>>
  <1>2. f[0] = a /\ f[1] = b /\ Len(w) = 1 /\ w[1] = m
    OBVIOUS
  <1>3. \A k \in 1 .. 1 : k = 1 /\ k - 1 = 0
    OBVIOUS
  <1>. HIDE DEF f, w
  <1>4. \A k \in 1 .. Len(w) : f[k] = Read(f[k - 1], w[k])
    BY <1>1, <1>2, <1>3
  <1>5. Leads(a, w, b)
    BY <1>2, <1>4 DEF Leads
  <1>. QED  BY <1>1, <1>5 DEF w

\* Each action that takes a line does to the store what reading it is.
LEMMA HandlingReads ==
    ASSUME Handling
    PROVE  wire # <<>> /\ wire' = Tail(wire) /\ Store' = Read(Store, Head(wire))
  <1>1. PICK m : m = Head(wire)
    OBVIOUS
  <1>2. CASE ReadInit
    <2>1. /\ wire # <<>> /\ wire' = Tail(wire) /\ m.type = "init" /\ connected' = TRUE /\ name' = m.name
          /\ UNCHANGED <<status, rows, tree, roster, groups>>
      BY <1>1, <1>2 DEF ReadInit, Takes
    <2>. QED  BY <1>1, <2>1 DEF Store, Read, ClientLines
  <1>3. CASE ReadRows
    <2>1. /\ wire # <<>> /\ wire' = Tail(wire) /\ m.type = "channellist"
          /\ rows' = IF status = "loading" /\ connected THEN rows \o m.rows ELSE rows
          /\ UNCHANGED <<connected, status, tree, roster, name, groups>>
      BY <1>1, <1>3 DEF ReadRows, Takes
    <2>. QED  BY <1>1, <2>1 DEF Store, Read, Collects, ClientLines
  <1>4. CASE ReadFinished
    <2>1. /\ wire # <<>> /\ wire' = Tail(wire) /\ m.type = "finished"
          /\ IF status = "loading" /\ connected
             THEN tree' = From(rows) /\ rows' = <<>> /\ status' = "live"
             ELSE UNCHANGED <<tree, rows, status>>
          /\ UNCHANGED <<connected, roster, name, groups>>
      BY <1>1, <1>4 DEF ReadFinished, Takes
    <2>. QED  BY <1>1, <2>1 DEF Store, Read, Collects, ClientLines
  <1>5. CASE ReadChannel
    <2>1. /\ wire # <<>> /\ wire' = Tail(wire) /\ m.type = "channel"
          /\ IF status = "live" THEN tree' = Apply(tree, m) ELSE tree' = tree
          /\ UNCHANGED <<connected, status, rows, roster, name, groups>>
      BY <1>1, <1>5 DEF ReadChannel, Takes
    <2>. QED  BY <1>1, <2>1 DEF Store, Read, ClientLines
  <1>6. CASE ReadClient
    <2>1. /\ wire # <<>> /\ wire' = Tail(wire) /\ m.type \in ClientLines /\ roster' = RosterAfter(m)
          /\ UNCHANGED <<connected, status, rows, tree, name, groups>>
      BY <1>1, <1>6 DEF ReadClient, Takes, ClientLines
    <2>2. RosterAfter(m) = RosterOf(roster, m)
      BY DEF RosterAfter, RosterOf
    <2>3. m.type \notin {"init", "channellist", "finished", "channel", "server", "groups"}
      BY <2>1 DEF ClientLines
    <2>. QED  BY <1>1, <2>1, <2>2, <2>3 DEF Store, Read
  <1>7. CASE ReadServer
    <2>1. /\ wire # <<>> /\ wire' = Tail(wire) /\ m.type = "server"
          /\ name' = IF status \in {"loading", "live"} THEN m.name ELSE name
          /\ UNCHANGED <<connected, status, rows, tree, roster, groups>>
      BY <1>1, <1>7 DEF ReadServer, Takes
    <2>. QED  BY <1>1, <2>1 DEF Store, Read, Keeps, ClientLines
  <1>8. CASE ReadGroups
    <2>1. /\ wire # <<>> /\ wire' = Tail(wire) /\ m.type = "groups"
          /\ groups' = IF status \in {"loading", "live"} THEN [groups EXCEPT ![m.list] = m.set] ELSE groups
          /\ UNCHANGED <<connected, status, rows, tree, roster, name>>
      BY <1>1, <1>8 DEF ReadGroups, Takes
    <2>. QED  BY <1>1, <2>1 DEF Store, Read, Keeps, ClientLines
  <1>. QED  BY <1>2, <1>3, <1>4, <1>5, <1>6, <1>7, <1>8 DEF Handling

LEMMA ShortSeq ==
    /\ \E M : <<>> \in Seq(M)
    /\ \A m : \E M : <<m>> \in Seq(M)
  <1>1. <<>> \in Seq({}) /\ \A m : <<m>> \in Seq({m})
    OBVIOUS
  <1>. QED  BY <1>1

LEMMA ThreeLead ==
    ASSUME NEW a, NEW m, NEW n, NEW o, NEW b, b = Read(a, m), NEW c, c = Read(b, n), NEW d, d = Read(c, o)
    PROVE  Leads(a, <<m, n, o>>, d)
  <1>. DEFINE w == <<m, n, o>>
              f == [k \in {0, 1, 2, 3} |-> CASE k = 0 -> a [] k = 1 -> b [] k = 2 -> c [] k = 3 -> d]
  <1>1. f[0] = a /\ f[1] = b /\ f[2] = c /\ f[3] = d /\ Len(w) = 3 /\ w[1] = m /\ w[2] = n /\ w[3] = o
    OBVIOUS
  <1>2. \A k \in 1 .. 3 : (k = 1 /\ k - 1 = 0) \/ (k = 2 /\ k - 1 = 1) \/ (k = 3 /\ k - 1 = 2)
    OBVIOUS
  <1>. HIDE DEF f, w
  <1>3. \A k \in 1 .. Len(w) : f[k] = Read(f[k - 1], w[k])
    BY <1>1, <1>2
  <1>4. Leads(a, w, d)
    BY <1>1, <1>3 DEF Leads
  <1>. QED  BY <1>4 DEF w

\* What the clients are seen as.
SeenIn(s) == [x \in Clients |-> IF x = Self \/ s.at[x] \in s.subscribed THEN s.at[x] ELSE Absent]

\* What the server keeps: a tree, and the rest.
ServerOK(s) ==
    /\ IsServer(s) /\ Filled(s) /\ (\E t : Mirrors(t, s))
    /\ s.at \in [Clients -> Channels \cup {Absent}] /\ s.subscribed \subseteq Channels
    /\ s.groups = [k \in GroupLists |-> s.groups[k]]

\* A live store that is the server's state.
Reflects(b, s) ==
    /\ b.status = "live" /\ Mirrors(b.tree, s) /\ b.roster = SeenIn(s)
    /\ b.name = s.name /\ b.groups = s.groups

\* Lines that tell all of a change on the server.
Carries(v, s, r) == \A b : Reflects(b, s) => \E c : Leads(b, v, c) /\ Reflects(c, r)

LEMMA OneCarries ==
    ASSUME NEW m, NEW s, NEW r, \A b : Reflects(b, s) => Reflects(Read(b, m), r)
    PROVE  Carries(<<m>>, s, r)
  BY OneLeads DEF Carries

LEMMA NoneCarries ==
    ASSUME NEW s, NEW r, \A b : Reflects(b, s) => Reflects(b, r)
    PROVE  Carries(<<>>, s, r)
  BY NoneLeads DEF Carries

LEMMA EventCarries ==
    ASSUME NEW s, NEW r, NEW e, ServerOK(s), e.type = "channel", Besides(r, s), Filled(r),
           \A t : Mirrors(t, s) => Mirrors(Apply(t, e), r)
    PROVE  ServerOK(r) /\ Carries(<<e>>, s, r)
  <1>1. r.at = s.at /\ r.subscribed = s.subscribed /\ r.name = s.name /\ r.groups = s.groups /\ IsServer(r)
    BY DEF Besides
  <1>2. ServerOK(r)
    BY <1>1 DEF ServerOK
  <1>3. SeenIn(r) = SeenIn(s)
    BY <1>1 DEF SeenIn
  <1>4. ASSUME NEW b, Reflects(b, s)  PROVE Reflects(Read(b, e), r)
    <2>1. /\ Read(b, e).status = b.status /\ Read(b, e).tree = Apply(b.tree, e) /\ Read(b, e).roster = b.roster
          /\ Read(b, e).name = b.name /\ Read(b, e).groups = b.groups
      BY <1>4 DEF Read, Reflects, ClientLines
    <2>. QED  BY <1>1, <1>3, <1>4, <2>1 DEF Reflects
  <1>. QED  BY <1>2, <1>4, OneCarries

LEMMA ChannelOpCarries ==
    ASSUME ServerOK(srv), ChannelOp
    PROVE  ServerOK(srv') /\ \E m : Tell(<<m>>) /\ Carries(<<m>>, srv, srv')
  <1>0. IsServer(srv) /\ \A t : Mirrors(t, srv) => t.parent = srv.parent /\ \A c \in Channels : Has(t, c) <=> Exists(c)
    BY ChannelFacts DEF ServerOK, Mirrors, Has, Exists
  <1>1. ASSUME NEW c \in Channels, NEW p \in Parents, NEW o \in Siblings(p) \cup {Top}, ~Exists(c), Exists(p),
               srv' = Link(srv, c, p, o), Tell(<<Event("created", c, p, o)>>)
        PROVE  ServerOK(srv') /\ \E m : Tell(<<m>>) /\ Carries(<<m>>, srv, srv')
    <2>1. PICK e : e = Event("created", c, p, o)
      OBVIOUS
    <2>2. Linked(srv', srv, c, p, o)
      BY <1>0, <1>1, LinkFields
    <2>3. Besides(srv', srv) /\ Filled(srv')
      BY <2>2 DEF Linked, Filled
    <2>4. ASSUME NEW t, Mirrors(t, srv)  PROVE Mirrors(Apply(t, e), srv')
      <3>1. ~Has(t, c) /\ (p = Top \/ Has(t, p)) /\ o \in {d \in Channels : t.parent[d] = p} \cup {Top}
        BY <1>0, <1>1, <2>4 DEF Siblings, Parents
      <3>. QED  BY <1>0, <1>1, <2>1, <2>4, <3>1, CreatedMirrors
    <2>5. e.type = "channel"
      BY <2>1 DEF Event
    <2>6. ServerOK(srv') /\ Carries(<<e>>, srv, srv')
      BY <2>3, <2>4, <2>5, EventCarries
    <2>. QED  BY <1>1, <2>1, <2>6
  <1>2. ASSUME NEW c \in Channels, NEW p \in Parents, NEW o \in (Siblings(p) \ {c}) \cup {Top},
               Exists(c), Exists(p), p # Top => c \notin Above(p),
               srv' = Link(Unlink(srv, c), c, p, o),
               \/ Tell(<<Event("moved", c, p, o)>>)
               \/ p = srv.parent[c] /\ Tell(<<Event("edited", c, Absent, o)>>)
        PROVE  ServerOK(srv') /\ \E m : Tell(<<m>>) /\ Carries(<<m>>, srv, srv')
    <2>1. PICK e : /\ Tell(<<e>>)
                   /\ \/ e = Event("moved", c, p, o)
                      \/ p = srv.parent[c] /\ e = Event("edited", c, Absent, o)
      BY <1>2
    <2>2. PICK u : u = Unlink(srv, c)
      OBVIOUS
    <2>3. Unlinked(u, srv, c)
      BY <1>0, <2>2, UnlinkFields
    <2>4. Linked(srv', u, c, p, o)
      BY <1>2, <2>2, <2>3, LinkFields DEF Unlinked, Besides
    <2>5. Besides(srv', srv) /\ Filled(srv')
      BY <2>3, <2>4 DEF Linked, Unlinked, Besides, Filled
    <2>6. ASSUME NEW t, Mirrors(t, srv)  PROVE Mirrors(Apply(t, e), srv')
      <3>1. Has(t, c) /\ (p = Top \/ Has(t, p)) /\ o \in ({d \in Channels : t.parent[d] = p} \ {c}) \cup {Top}
        BY <1>0, <1>2, <2>6 DEF Siblings, Parents
      <3>2. ~Within(t, p, c)
        BY <1>2, <2>6, <3>1, NotWithin DEF Mirrors, Has, Exists
      <3>3. /\ Mirrors(Apply(t, Event("moved", c, p, o)), srv')
            /\ p = t.parent[c] => Mirrors(Apply(t, Event("edited", c, Absent, o)), srv')
        BY <1>0, <1>2, <2>6, <3>1, <3>2, MovedMirrors
      <3>. QED  BY <1>0, <2>1, <2>6, <3>3
    <2>7. e.type = "channel"
      BY <2>1 DEF Event
    <2>8. ServerOK(srv') /\ Carries(<<e>>, srv, srv')
      BY <2>5, <2>6, <2>7, EventCarries
    <2>. QED  BY <2>1, <2>8
  <1>3. ASSUME NEW c \in Channels, Exists(c), Siblings(c) = {},
               srv' = [Unlink(srv, c) EXCEPT !.parent[c] = Absent, !.order[c] = Absent],
               Tell(<<Event("deleted", c, Absent, Absent)>>)
        PROVE  ServerOK(srv') /\ \E m : Tell(<<m>>) /\ Carries(<<m>>, srv, srv')
    <2>1. PICK e : e = Event("deleted", c, Absent, Absent)
      OBVIOUS
    <2>2. PICK u : u = Unlink(srv, c)
      OBVIOUS
    <2>3. Unlinked(u, srv, c)
      BY <1>0, <2>2, UnlinkFields
    <2>4. /\ Besides(srv', u) /\ srv'.order = [u.order EXCEPT ![c] = Absent]
      BY <1>3, <2>2, <2>3 DEF Unlinked, Besides, IsServer
    <2>5. Besides(srv', srv)
      BY <2>3, <2>4 DEF Unlinked, Besides
    <2>6. Filled(srv')
      BY <2>3, <2>4 DEF Unlinked, Filled
    <2>7. ASSUME NEW t, Mirrors(t, srv)  PROVE Mirrors(Apply(t, e), srv')
      <3>1. Has(t, c) /\ \A d \in Channels : t.parent[d] # c
        BY <1>0, <1>3, <2>7 DEF Siblings
      <3>. QED  BY <1>0, <1>3, <2>1, <2>7, <3>1, DeletedMirrors
    <2>8. e.type = "channel"
      BY <2>1 DEF Event
    <2>9. ServerOK(srv') /\ Carries(<<e>>, srv, srv')
      BY <2>5, <2>6, <2>7, <2>8, EventCarries
    <2>. QED  BY <1>3, <2>1, <2>9
  <1>. QED  BY <1>1, <1>2, <1>3 DEF ChannelOp

\* A change of the server in nothing but its clients.
OtherClients(r, s) ==
    /\ IsServer(r) /\ r.parent = s.parent /\ r.order = s.order /\ r.name = s.name /\ r.groups = s.groups

LEMMA SameChannels ==
    ASSUME NEW s, NEW r, r.parent = s.parent, r.order = s.order
    PROVE  /\ \A t : Mirrors(t, s) => Mirrors(t, r)
           /\ Filled(s) => Filled(r)
  BY DEF Mirrors, Filled

LEMMA RosterCarries ==
    ASSUME NEW s, NEW r, NEW m, OtherClients(r, s), m.type \in ClientLines, RosterOf(SeenIn(s), m) = SeenIn(r)
    PROVE  Carries(<<m>>, s, r)
  <1>1. m.type \notin {"init", "channellist", "finished", "channel", "server", "groups"}
    BY DEF ClientLines
  <1>2. ASSUME NEW b, Reflects(b, s)  PROVE Reflects(Read(b, m), r)
    <2>1. /\ Read(b, m).status = b.status /\ Read(b, m).tree = b.tree /\ Read(b, m).roster = RosterOf(b.roster, m)
          /\ Read(b, m).name = b.name /\ Read(b, m).groups = b.groups
      BY <1>1 DEF Read
    <2>2. Mirrors(b.tree, r)
      BY <1>2, SameChannels DEF Reflects, OtherClients
    <2>. QED  BY <1>2, <2>1, <2>2 DEF Reflects, OtherClients
  <1>. QED  BY <1>2, OneCarries

\* Who comes, goes or moves is told of as far as it is seen.
LEMMA SeenCarries ==
    ASSUME NEW s, ServerOK(s), NEW x \in Clients \ {Self}, NEW c \in Channels \cup {Absent}, c # s.at[x],
           NEW r, r = [s EXCEPT !.at[x] = c],
           NEW before, before = SeenIn(s)[x], NEW after, after = IF c \in s.subscribed THEN c ELSE Absent
    PROVE  ServerOK(r) /\ Carries(SeenAs(x, before, after), s, r)
  <1>1. OtherClients(r, s) /\ r.subscribed = s.subscribed /\ r.at = [s.at EXCEPT ![x] = c]
    BY DEF ServerOK, IsServer, OtherClients
  <1>2. ServerOK(r)
    <2>1. r.at \in [Clients -> Channels \cup {Absent}]
      BY <1>1 DEF ServerOK
    <2>2. Filled(r) /\ \E t : Mirrors(t, r)
      BY <1>1, SameChannels DEF OtherClients, ServerOK
    <2>. QED  BY <1>1, <2>1, <2>2 DEF ServerOK, OtherClients
  <1>3. SeenIn(r) = [SeenIn(s) EXCEPT ![x] = after]
    <2>1. \A y \in Clients : SeenIn(r)[y] = IF y = x THEN after ELSE SeenIn(s)[y]
      BY <1>1 DEF SeenIn, ServerOK
    <2>2. SeenIn(r) = [y \in Clients |-> SeenIn(r)[y]] /\ SeenIn(s) = [y \in Clients |-> SeenIn(s)[y]]
      BY DEF SeenIn
    <2>. QED  BY <2>1, <2>2
  <1>4. PICK w : w = SeenIn(s)
    OBVIOUS
  <1>5. w[x] = before
    BY <1>4
  <1>6. CASE before = Absent /\ after # Absent
    <2>1. PICK m : m = [type |-> "enter", clid |-> x, cid |-> after]
      OBVIOUS
    <2>2. SeenAs(x, before, after) = <<m>>
      BY <1>6, <2>1 DEF SeenAs
    <2>3. RosterOf(w, m) = [w EXCEPT ![x] = after] /\ m.type \in ClientLines
      BY <2>1 DEF RosterOf, ClientLines
    <2>4. RosterOf(SeenIn(s), m) = SeenIn(r)
      BY <1>3, <1>4, <2>3
    <2>5. Carries(<<m>>, s, r)
      BY <1>1, <2>3, <2>4, RosterCarries
    <2>. QED  BY <1>2, <2>2, <2>5
  <1>7. CASE before # Absent /\ after = Absent
    <2>1. PICK m : m = [type |-> "left", clid |-> x]
      OBVIOUS
    <2>2. SeenAs(x, before, after) = <<m>>
      BY <1>7, <2>1 DEF SeenAs
    <2>3. RosterOf(w, m) = [w EXCEPT ![x] = after] /\ m.type \in ClientLines
      BY <1>7, <2>1 DEF RosterOf, ClientLines
    <2>4. RosterOf(SeenIn(s), m) = SeenIn(r)
      BY <1>3, <1>4, <2>3
    <2>5. Carries(<<m>>, s, r)
      BY <1>1, <2>3, <2>4, RosterCarries
    <2>. QED  BY <1>2, <2>2, <2>5
  <1>8. CASE before # Absent /\ after # Absent /\ before # after
    <2>1. PICK m : m = [type |-> "moved", clid |-> x, cid |-> after]
      OBVIOUS
    <2>2. SeenAs(x, before, after) = <<m>>
      BY <1>8, <2>1 DEF SeenAs
    <2>3. RosterOf(w, m) = [w EXCEPT ![x] = after] /\ m.type \in ClientLines
      BY <1>5, <1>8, <2>1 DEF RosterOf, ClientLines
    <2>4. RosterOf(SeenIn(s), m) = SeenIn(r)
      BY <1>3, <1>4, <2>3
    <2>5. Carries(<<m>>, s, r)
      BY <1>1, <2>3, <2>4, RosterCarries
    <2>. QED  BY <1>2, <2>2, <2>5
  <1>9. CASE before = after
    <2>1. SeenAs(x, before, after) = <<>>
      BY <1>9 DEF SeenAs
    <2>2. SeenIn(r) = SeenIn(s)
      BY <1>3, <1>9 DEF SeenIn
    <2>3. \A b : Reflects(b, s) => Reflects(b, r)
      BY <1>1, <2>2, SameChannels DEF Reflects, OtherClients
    <2>. QED  BY <1>2, <2>1, <2>3, NoneCarries
  <1>. QED  BY <1>6, <1>7, <1>8, <1>9

\* Out of a channel no longer subscribed, nobody is seen but the client itself (dropChannel).
LEMMA UnsubscribedCarries ==
    ASSUME NEW s, ServerOK(s), NEW c \in Channels, NEW r, r = [s EXCEPT !.subscribed = @ \ {c}],
           NEW m, m = [type |-> "unsubscribed", cid |-> c]
    PROVE  ServerOK(r) /\ Carries(<<m>>, s, r)
  <1>1. OtherClients(r, s) /\ r.subscribed = s.subscribed \ {c} /\ r.at = s.at
    BY DEF ServerOK, IsServer, OtherClients
  <1>2. ServerOK(r)
    <2>1. Filled(r) /\ \E t : Mirrors(t, r)
      BY <1>1, SameChannels DEF OtherClients, ServerOK
    <2>. QED  BY <1>1, <2>1 DEF ServerOK, OtherClients
  <1>3. m.type \in ClientLines /\ RosterOf(SeenIn(s), m) = [x \in Clients |-> IF SeenIn(s)[x] = c /\ x # Self THEN Absent ELSE SeenIn(s)[x]]
    BY DEF RosterOf, ClientLines
  <1>4. ASSUME NEW x \in Clients
        PROVE  SeenIn(r)[x] = IF SeenIn(s)[x] = c /\ x # Self THEN Absent ELSE SeenIn(s)[x]
    BY <1>1, ChannelFacts DEF SeenIn
  <1>5. SeenIn(r) = [x \in Clients |-> SeenIn(r)[x]]
    BY DEF SeenIn
  <1>6. RosterOf(SeenIn(s), m) = SeenIn(r)
    BY <1>3, <1>4, <1>5
  <1>. QED  BY <1>1, <1>2, <1>3, <1>6, RosterCarries

LEMMA ClientOpCarries ==
    ASSUME ServerOK(srv), ClientOp
    PROVE  ServerOK(srv') /\ \E v : Tell(v) /\ Carries(v, srv, srv') /\ \E M : v \in Seq(M)
  <1>1. ASSUME NEW x \in Clients \ {Self}, NEW c \in Channels \cup {Absent}, c # srv.at[x],
               srv' = [srv EXCEPT !.at[x] = c],
               Tell(SeenAs(x, Visible[x], IF c \in srv.subscribed THEN c ELSE Absent))
        PROVE  ServerOK(srv') /\ \E v : Tell(v) /\ Carries(v, srv, srv') /\ \E M : v \in Seq(M)
    <2>1. PICK before : before = Visible[x]
      OBVIOUS
    <2>2. PICK after : after = IF c \in srv.subscribed THEN c ELSE Absent
      OBVIOUS
    <2>3. Visible = SeenIn(srv)
      BY DEF Visible, SeenIn
    <2>4. PICK v : v = SeenAs(x, before, after)
      OBVIOUS
    <2>5. ServerOK(srv') /\ Carries(v, srv, srv')
      BY <1>1, <2>1, <2>2, <2>3, <2>4, SeenCarries
    <2>6. v = <<>> \/ \E m : v = <<m>>
      BY <2>4 DEF SeenAs
    <2>. QED  BY <1>1, <2>1, <2>2, <2>4, <2>5, <2>6, ShortSeq
  <1>2. ASSUME NEW c \in Channels, srv' = [srv EXCEPT !.subscribed = @ \ {c}],
               Tell(<<[type |-> "unsubscribed", cid |-> c]>>)
        PROVE  ServerOK(srv') /\ \E v : Tell(v) /\ Carries(v, srv, srv') /\ \E M : v \in Seq(M)
    <2>1. PICK m : m = [type |-> "unsubscribed", cid |-> c]
      OBVIOUS
    <2>2. ServerOK(srv') /\ Carries(<<m>>, srv, srv')
      BY <1>2, <2>1, UnsubscribedCarries
    <2>. QED  BY <1>2, <2>1, <2>2, ShortSeq
  <1>. QED  BY <1>1, <1>2 DEF ClientOp

LEMMA InfoOpCarries ==
    ASSUME ServerOK(srv), InfoOp
    PROVE  ServerOK(srv') /\ \E m : Tell(<<m>>) /\ Carries(<<m>>, srv, srv')
  <1>1. ASSUME srv' = [srv EXCEPT !.name = 1 - @], Tell(<<[type |-> "server", name |-> 1 - srv.name]>>)
        PROVE  ServerOK(srv') /\ \E m : Tell(<<m>>) /\ Carries(<<m>>, srv, srv')
    <2>1. PICK m : m = [type |-> "server", name |-> 1 - srv.name]
      OBVIOUS
    <2>2. /\ IsServer(srv') /\ srv'.parent = srv.parent /\ srv'.order = srv.order /\ srv'.at = srv.at
          /\ srv'.subscribed = srv.subscribed /\ srv'.groups = srv.groups /\ srv'.name = m.name
      BY <1>1, <2>1 DEF ServerOK, IsServer
    <2>3. ServerOK(srv')
      <3>1. Filled(srv') /\ \E t : Mirrors(t, srv')
        BY <2>2, SameChannels DEF ServerOK
      <3>. QED  BY <2>2, <3>1 DEF ServerOK
    <2>4. ASSUME NEW b, Reflects(b, srv)  PROVE Reflects(Read(b, m), srv')
      <3>1. /\ Read(b, m).status = b.status /\ Read(b, m).tree = b.tree /\ Read(b, m).roster = b.roster
            /\ Read(b, m).name = m.name /\ Read(b, m).groups = b.groups
        BY <2>1, <2>4 DEF Read, Keeps, ClientLines, Reflects
      <3>2. Mirrors(b.tree, srv') /\ SeenIn(srv') = SeenIn(srv)
        BY <2>2, <2>4, SameChannels DEF Reflects, SeenIn
      <3>. QED  BY <2>2, <2>4, <3>1, <3>2 DEF Reflects
    <2>. QED  BY <1>1, <2>1, <2>3, <2>4, OneCarries
  <1>2. ASSUME NEW k \in GroupLists, srv' = [srv EXCEPT !.groups[k] = 1 - @],
               Tell(<<[type |-> "groups", list |-> k, set |-> 1 - srv.groups[k]]>>)
        PROVE  ServerOK(srv') /\ \E m : Tell(<<m>>) /\ Carries(<<m>>, srv, srv')
    <2>1. PICK m : m = [type |-> "groups", list |-> k, set |-> 1 - srv.groups[k]]
      OBVIOUS
    <2>2. /\ IsServer(srv') /\ srv'.parent = srv.parent /\ srv'.order = srv.order /\ srv'.at = srv.at
          /\ srv'.subscribed = srv.subscribed /\ srv'.name = srv.name
          /\ srv'.groups = [srv.groups EXCEPT ![k] = m.set]
      BY <1>2, <2>1 DEF ServerOK, IsServer
    <2>3. ServerOK(srv')
      <3>1. Filled(srv') /\ \E t : Mirrors(t, srv')
        BY <2>2, SameChannels DEF ServerOK
      <3>2. srv'.groups = [j \in GroupLists |-> srv'.groups[j]]
        BY <2>2 DEF ServerOK
      <3>. QED  BY <2>2, <3>1, <3>2 DEF ServerOK
    <2>4. ASSUME NEW b, Reflects(b, srv)  PROVE Reflects(Read(b, m), srv')
      <3>1. /\ Read(b, m).status = b.status /\ Read(b, m).tree = b.tree /\ Read(b, m).roster = b.roster
            /\ Read(b, m).name = b.name /\ Read(b, m).groups = [b.groups EXCEPT ![k] = m.set]
        BY <2>1, <2>4 DEF Read, Keeps, ClientLines, Reflects
      <3>2. Mirrors(b.tree, srv') /\ SeenIn(srv') = SeenIn(srv)
        BY <2>2, <2>4, SameChannels DEF Reflects, SeenIn
      <3>. QED  BY <2>2, <2>4, <3>1, <3>2 DEF Reflects
    <2>. QED  BY <1>2, <2>1, <2>3, <2>4, OneCarries
  <1>. QED  BY <1>1, <1>2 DEF InfoOp

\* The store at the start of a connection (reset).
At(st, co, li, tr, ro, na, gr) ==
    [status |-> st, connected |-> co, rows |-> li, tree |-> tr, roster |-> ro, name |-> na, groups |-> gr]

NoClients == [x \in Clients |-> Absent]
NoGroups  == [k \in GroupLists |-> Absent]
Fresh == At("loading", FALSE, <<>>, EmptyTree, NoClients, Absent, NoGroups)

\* The clients in view, one after the other.
FirstSeen(s, there, k) ==
    [x \in Clients |-> IF x = Self \/ (\E j \in 1 .. k : there[j] = x) THEN s.at[x] ELSE Absent]

LEMMA ClientsInView ==
    ASSUME NEW s, NEW there \in Seq(Clients), Range(there) = {x \in Clients \ {Self} : SeenIn(s)[x] # Absent},
           NEW li, NEW na, NEW gr,
           NEW v, v = [i \in DOMAIN there |-> [type |-> "enter", clid |-> there[i], cid |-> s.at[there[i]]]]
    PROVE  /\ Leads(At("loading", TRUE, li, EmptyTree, FirstSeen(s, there, 0), na, gr), v,
                    At("loading", TRUE, li, EmptyTree, SeenIn(s), na, gr))
           /\ \E M : v \in Seq(M)
  <1>1. PICK n : n = Len(there)
    OBVIOUS
  <1>2. n \in Nat /\ DOMAIN there = 1 .. n /\ \A i \in 1 .. n : there[i] \in Clients
    BY <1>1
  <1>. DEFINE Entered(x) == [type |-> "enter", clid |-> x, cid |-> s.at[x]]
              M == {Entered(x) : x \in Clients}
  <1>3. /\ DOMAIN v = 1 .. n
        /\ \A i \in 1 .. n : /\ v[i] = Entered(there[i]) /\ v[i].type = "enter"
                             /\ v[i].clid = there[i] /\ v[i].cid = s.at[there[i]]
    BY <1>2
  <1>4. v \in Seq(M) /\ Len(v) = n
    <2>1. v = [i \in 1 .. n |-> v[i]]
      BY <1>2
    <2>2. \A i \in 1 .. n : v[i] \in M
      BY <1>2, <1>3
    <2>. HIDE DEF M
    <2>3. v \in [1 .. n -> M]
      BY <2>1, <2>2
    <2>. QED  BY <1>2, <2>3
  <1>. HIDE DEF M, Entered
  <1>. DEFINE With(ro) == At("loading", TRUE, li, EmptyTree, ro, na, gr)
              f == [k \in 0 .. n |-> With(FirstSeen(s, there, k))]
  <1>. HIDE DEF With
  <1>5. \A k \in 0 .. n : f[k] = With(FirstSeen(s, there, k))
    OBVIOUS
  <1>. HIDE DEF f
  <1>6. FirstSeen(s, there, n) = SeenIn(s)
    <2>1. \A x \in Clients : (\E j \in 1 .. n : there[j] = x) <=> x # Self /\ SeenIn(s)[x] # Absent
      BY <1>2 DEF Range
    <2>2. ASSUME NEW x \in Clients
          PROVE  SeenIn(s)[x] = IF x = Self \/ (\E j \in 1 .. n : there[j] = x) THEN s.at[x] ELSE Absent
      <3>1. SeenIn(s)[x] = IF x = Self \/ s.at[x] \in s.subscribed THEN s.at[x] ELSE Absent
        BY DEF SeenIn
      <3>. QED  BY <2>1, <3>1
    <2>3. SeenIn(s) = [x \in Clients |-> SeenIn(s)[x]]
      BY DEF SeenIn
    <2>. QED  BY <2>2, <2>3 DEF FirstSeen
  <1>7. ASSUME NEW k \in 1 .. n  PROVE f[k] = Read(f[k - 1], v[k])
    <2>1. k - 1 \in 0 .. n /\ k \in 0 .. n /\ \A j \in 1 .. k : j = k \/ j \in 1 .. (k - 1)
      BY <1>2
    <2>0. \A j \in 1 .. (k - 1) : j \in 1 .. k
      BY <1>2
    <2>2. PICK r : r = FirstSeen(s, there, k - 1)
      OBVIOUS
    <2>3. FirstSeen(s, there, k) = [r EXCEPT ![there[k]] = s.at[there[k]]]
      <3>1. ASSUME NEW x \in Clients
            PROVE  FirstSeen(s, there, k)[x] = IF x = there[k] THEN s.at[x] ELSE r[x]
        <4>1. (\E j \in 1 .. k : there[j] = x) <=> x = there[k] \/ \E j \in 1 .. (k - 1) : there[j] = x
          BY <1>2, <2>0, <2>1
        <4>. QED  BY <2>2, <4>1 DEF FirstSeen
      <3>2. FirstSeen(s, there, k) = [x \in Clients |-> FirstSeen(s, there, k)[x]] /\ r = [x \in Clients |-> r[x]]
        BY <2>2 DEF FirstSeen
      <3>. QED  BY <3>1, <3>2
    <2>4. RosterOf(r, v[k]) = [r EXCEPT ![there[k]] = s.at[there[k]]]
      BY <1>3 DEF RosterOf
    <2>5. PICK q : q = RosterOf(r, v[k])
      OBVIOUS
    <2>6. Read(With(r), v[k]) = With(q)
      BY <1>3, <2>5 DEF Read, At, ClientLines, With
    <2>7. f[k - 1] = With(r)
      BY <1>5, <2>1, <2>2
    <2>8. f[k] = With(q)
      BY <1>5, <2>1, <2>3, <2>4, <2>5
    <2>. QED  BY <2>6, <2>7, <2>8
  <1>8. f[0] = With(FirstSeen(s, there, 0)) /\ f[n] = With(SeenIn(s))
    <2>1. 0 \in 0 .. n /\ n \in 0 .. n
      BY <1>2
    <2>. QED  BY <1>5, <1>6, <2>1
  <1>9. Leads(f[0], v, f[n])
    BY <1>4, <1>7 DEF Leads
  <1>. QED  BY <1>4, <1>8, <1>9 DEF With

\* A welcome, read to its end, makes the store the server's state.
LEMMA WelcomeReflects ==
    ASSUME ServerOK(srv), NEW list \in Listings(srv), Greets(list)
    PROVE  \E b : Leads(Fresh, wire', b) /\ Reflects(b, srv)
  <1>1. PICK t : Mirrors(t, srv)
    BY DEF ServerOK
  <1>2. /\ IsListing(list) /\ ListsChannels(list, srv) /\ DescribeATree(list)
    BY <1>1, ListingsOK, TreeDescribes
  <1>3. Mirrors(From(list), srv)
    <2>1. IsTree(t) /\ t.parent = srv.parent /\ t.order = srv.order
      BY <1>1 DEF Mirrors
    <2>2. srv.parent \in [Channels -> Parents \cup {Absent}]
      BY <2>1 DEF IsTree, Shape
    <2>3. \A c \in Channels : srv.parent[c] = Absent => srv.order[c] = Absent
      BY <2>1 DEF IsTree, ListsAgree, Has
    <2>. QED  BY <1>2, <2>2, <2>3, ListingMirrors DEF ServerOK
  <1>. DEFINE Entered(x) == [type |-> "enter", clid |-> x, cid |-> srv.at[x]]
              Groups(k)  == [type |-> "groups", list |-> k, set |-> srv.groups[k]]
  <1>4. PICK there : there = SetToSeq({x \in Clients \ {Self} : Visible[x] # Absent})
    OBVIOUS
  <1>5. there \in Seq(Clients) /\ Range(there) = {x \in Clients \ {Self} : SeenIn(srv)[x] # Absent}
    <2>1. PICK S : S = {x \in Clients \ {Self} : Visible[x] # Absent}
      OBVIOUS
    <2>2. IsFiniteSet(S) /\ S \subseteq Clients
      BY <2>1, FS_Subset, ViewAssumption
    <2>3. there \in Seq(S) /\ Range(there) = S
      BY <1>4, <2>1, <2>2, SetToSeqFacts, SetLists
    <2>4. Visible = SeenIn(srv)
      BY DEF Visible, SeenIn
    <2>. QED  BY <2>1, <2>2, <2>3, <2>4, SeqIn
  <1>6. PICK v : v = [i \in DOMAIN there |-> Entered(there[i])]
    OBVIOUS
  <1>7. PICK m1 : m1 = [type |-> "init", name |-> srv.name]
    OBVIOUS
  <1>8. PICK m2 : m2 = Entered(Self)
    OBVIOUS
  <1>9. PICK m3 : m3 = [type |-> "channellist", rows |-> list]
    OBVIOUS
  <1>10. PICK m4 : m4 = [type |-> "finished"]
    OBVIOUS
  <1>11. PICK m5 : m5 = Groups("server")
    OBVIOUS
  <1>12. PICK m6 : m6 = Groups("channel")
    OBVIOUS
  <1>13. wire' = <<m1, m2, m3>> \o v \o <<m4, m5, m6>>
    BY <1>4, <1>6, <1>7, <1>8, <1>9, <1>10, <1>11, <1>12 DEF Greets
  <1>14. PICK na : na = srv.name
    OBVIOUS
  <1>15. PICK none : none = NoGroups
    OBVIOUS
  <1>16. PICK g1 : g1 = [none EXCEPT !["server"] = srv.groups["server"]]
    OBVIOUS
  <1>17. PICK g2 : g2 = [g1 EXCEPT !["channel"] = srv.groups["channel"]]
    OBVIOUS
  <1>18. g2 = srv.groups
    <2>1. g2 = [k \in GroupLists |-> srv.groups[k]]
      BY <1>15, <1>16, <1>17 DEF NoGroups, GroupLists
    <2>. QED  BY <2>1 DEF ServerOK
  <1>19. PICK r : r = SeenIn(srv)
    OBVIOUS
  <1>20. PICK r1 : r1 = FirstSeen(srv, there, 0)
    OBVIOUS
  <1>21. r1 = [NoClients EXCEPT ![Self] = srv.at[Self]]
    <2>1. \A j : j \notin 1 .. 0
      OBVIOUS
    <2>. QED  BY <1>20, <2>1 DEF FirstSeen, NoClients
  <1>22. PICK a1 : a1 = At("loading", TRUE, <<>>, EmptyTree, NoClients, na, none)
    OBVIOUS
  <1>23. PICK a2 : a2 = At("loading", TRUE, <<>>, EmptyTree, r1, na, none)
    OBVIOUS
  <1>24. PICK a3 : a3 = At("loading", TRUE, list, EmptyTree, r1, na, none)
    OBVIOUS
  <1>25. PICK a4 : a4 = At("loading", TRUE, list, EmptyTree, r, na, none)
    OBVIOUS
  <1>26. PICK a5 : a5 = At("live", TRUE, <<>>, From(list), r, na, none)
    OBVIOUS
  <1>27. PICK a6 : a6 = At("live", TRUE, <<>>, From(list), r, na, g1)
    OBVIOUS
  <1>28. PICK a7 : a7 = At("live", TRUE, <<>>, From(list), r, na, g2)
    OBVIOUS
  <1>29. a1 = Read(Fresh, m1)
    BY <1>7, <1>14, <1>15, <1>22 DEF Fresh, At, Read, ClientLines
  <1>30. a2 = Read(a1, m2)
    <2>1. m2.type = "enter" /\ RosterOf(NoClients, m2) = r1
      BY <1>8, <1>21 DEF RosterOf
    <2>. QED  BY <1>22, <1>23, <2>1 DEF At, Read, ClientLines
  <1>31. a3 = Read(a2, m3)
    <2>1. m3.type = "channellist" /\ m3.rows = list /\ <<>> \o list = list
      BY <1>2, <1>9 DEF IsListing
    <2>. QED  BY <1>23, <1>24, <2>1 DEF At, Read, Collects, ClientLines
  <1>32. Leads(a3, v, a4) /\ \E M : v \in Seq(M)
    BY <1>5, <1>6, <1>19, <1>20, <1>24, <1>25, ClientsInView
  <1>33. a5 = Read(a4, m4)
    BY <1>10, <1>25, <1>26 DEF At, Read, Collects, ClientLines
  <1>34. a6 = Read(a5, m5)
    BY <1>11, <1>16, <1>26, <1>27 DEF At, Read, Keeps, ClientLines
  <1>35. a7 = Read(a6, m6)
    BY <1>12, <1>17, <1>27, <1>28 DEF At, Read, Keeps, ClientLines
  <1>36. Leads(Fresh, <<m1, m2, m3>>, a3) /\ Leads(a4, <<m4, m5, m6>>, a7)
    BY <1>29, <1>30, <1>31, <1>33, <1>34, <1>35, ThreeLead
  <1>37. Leads(Fresh, wire', a7)
    <2>1. PICK M : v \in Seq(M)
      BY <1>32
    <2>2. PICK N : N = M \cup {m1, m2, m3, m4, m5, m6}
      OBVIOUS
    <2>3. v \in Seq(N) /\ <<m1, m2, m3>> \in Seq(N) /\ <<m4, m5, m6>> \in Seq(N)
      BY <2>1, <2>2, SeqIn
    <2>4. Leads(Fresh, <<m1, m2, m3>> \o v, a4) /\ <<m1, m2, m3>> \o v \in Seq(N)
      BY <1>32, <1>36, <2>3, LeadsThen, ConcatRange
    <2>. QED  BY <1>13, <1>36, <2>3, <2>4, LeadsThen
  <1>38. Reflects(a7, srv)
    <2>1. /\ a7.status = "live" /\ a7.tree = From(list) /\ a7.roster = r /\ a7.name = na /\ a7.groups = g2
      BY <1>28 DEF At
    <2>. QED  BY <1>3, <1>14, <1>18, <1>19, <2>1 DEF Reflects
  <1>. QED  BY <1>37, <1>38

\* While the server sends what a server sends: reading what is on its way makes the store
\* the server's state, or a connection begins and its welcome is still to be sent.
Mirroring ==
    /\ ServerOK(srv)
    /\ online => \/ Store = Fresh /\ wire = <<>>
                 \/ \E b : Leads(Store, wire, b) /\ Reflects(b, srv)
    /\ ~online => wire = <<>> /\ status # "live"

MirrorInv == ~garbled => Mirroring

LEMMA InitMirrors == Init => MirrorInv
  <1>. SUFFICES ASSUME Init  PROVE ServerOK(srv)
    BY DEF Init, MirrorInv, Mirroring
  <1>1. PICK t \in Trees, at \in Places :
            srv = [parent |-> t.parent, order |-> t.order, at |-> at, subscribed |-> Channels,
                   name |-> 0, groups |-> [k \in GroupLists |-> 0]]
    BY DEF Init
  <1>2. /\ srv.parent \in [Channels -> Parents \cup {Absent}] /\ srv.order \in [Channels -> Parents \cup {Absent}]
        /\ \A c \in Channels : srv.parent[c] = Absent => srv.order[c] = Absent
        /\ \E list \in Listings(t) : DescribeATree(list)
    BY <1>1, TreesAssumption
  <1>3. Listings(t) = Listings(srv)
    BY <1>1 DEF Listings
  <1>4. PICK list \in Listings(srv) : DescribeATree(list)
    BY <1>2, <1>3
  <1>5. Filled(srv)
    BY <1>2 DEF Filled
  <1>6. Mirrors(From(list), srv)
    BY <1>2, <1>4, <1>5, ListingsOK, ListingMirrors
  <1>7. /\ IsServer(srv) /\ srv.at = at /\ srv.subscribed = Channels /\ srv.groups = [k \in GroupLists |-> 0]
    BY <1>1 DEF IsServer
  <1>8. srv.at \in [Clients -> Channels \cup {Absent}]
    BY <1>1, <1>7, ViewAssumption
  <1>9. srv.groups = [k \in GroupLists |-> srv.groups[k]]
    BY <1>7
  <1>. QED  BY <1>5, <1>6, <1>7, <1>8, <1>9 DEF ServerOK

\* A change of the server, told of as it is made.
LEMMA ServerOpMirrors ==
    ASSUME IsWire(wire), Mirroring, ServerOp
    PROVE  Mirroring'
  <1>1. /\ ServerOK(srv') /\ \E v : Tell(v) /\ Carries(v, srv, srv') /\ \E M : v \in Seq(M)
    <2>1. ServerOK(srv) /\ (ChannelOp \/ ClientOp \/ InfoOp)
      BY DEF Mirroring, ServerOp
    <2>2. CASE ChannelOp
      BY <2>1, <2>2, ChannelOpCarries, ShortSeq
    <2>3. CASE ClientOp
      BY <2>1, <2>3, ClientOpCarries
    <2>4. CASE InfoOp
      BY <2>1, <2>4, InfoOpCarries, ShortSeq
    <2>. QED  BY <2>1, <2>2, <2>3, <2>4
  <1>2. PICK v : Tell(v) /\ Carries(v, srv, srv') /\ \E M : v \in Seq(M)
    BY <1>1
  <1>3. Store' = Store /\ online' = online /\ status' = status /\ ~Unwelcomed
    BY DEF ServerOp, store, Store
  <1>4. CASE ~online
    BY <1>1, <1>2, <1>3, <1>4 DEF Mirroring, Tell
  <1>5. CASE online
    <2>1. wire' = wire \o v
      BY <1>2, <1>5 DEF Tell
    <2>2. ~(Store = Fresh /\ wire = <<>>)
      <3>1. Store = Fresh => status = "loading" /\ ~connected
        BY DEF Store, Fresh, At
      <3>. QED  BY <1>3, <1>5, <3>1 DEF Unwelcomed
    <2>3. PICK b : Leads(Store, wire, b) /\ Reflects(b, srv)
      BY <1>5, <2>2 DEF Mirroring
    <2>4. PICK c : Leads(b, v, c) /\ Reflects(c, srv')
      BY <1>2, <2>3 DEF Carries
    <2>5. PICK M : wire \in Seq(M)
      BY DEF IsWire
    <2>6. PICK N : v \in Seq(N)
      BY <1>2
    <2>7. wire \in Seq(M \cup N) /\ v \in Seq(M \cup N)
      BY <2>5, <2>6, SeqIn
    <2>8. Leads(Store, wire', c)
      BY <2>1, <2>3, <2>4, <2>7, LeadsThen
    <2>. QED  BY <1>1, <1>3, <1>5, <2>4, <2>8 DEF Mirroring
  <1>. QED  BY <1>4, <1>5

LEMMA MirrorStep ==
    ASSUME IInv, MirrorInv, [Next]_vars
    PROVE  MirrorInv'
  <1>0. IsWire(wire)
    BY DEF IInv
  <1>1. CASE Stray \/ WrongWelcome
    <2>1. garbled' = TRUE
      BY <1>1 DEF Stray, WrongWelcome, Garble
    <2>. QED  BY <2>1 DEF MirrorInv
  <1>2. CASE UNCHANGED vars
    <2>1. Mirroring => Mirroring'
      BY <1>2 DEF Mirroring, Store, vars, server, line, store
    <2>. QED  BY <1>2, <2>1 DEF MirrorInv, vars, server
  <1>. SUFFICES ASSUME Mirroring, garbled' = garbled,
                       \/ Handling \/ Drain \/ Begin \/ End \/ WhenReady \/ ServerOp \/ Welcome
                PROVE  Mirroring'
    <2>1. ASSUME \/ Handling \/ Drain \/ Begin \/ End \/ WhenReady \/ ServerOp \/ Welcome
          PROVE  garbled' = garbled
      BY <2>1 DEF Handling, ReadInit, ReadRows, ReadFinished, ReadChannel, ReadClient, ReadServer, ReadGroups,
                  Takes, Drain, Begin, End, WhenReady, ServerOp, Welcome, server
    <2>. QED  BY <1>1, <1>2, <2>1 DEF Next, MirrorInv
  <1>3. CASE Handling
    <2>1. wire # <<>> /\ wire' = Tail(wire) /\ Store' = Read(Store, Head(wire))
      BY <1>3, HandlingReads
    <2>2. srv' = srv /\ online' = online
      BY <1>3 DEF Handling, ReadInit, ReadRows, ReadFinished, ReadChannel, ReadClient, ReadServer, ReadGroups,
                  Takes, server
    <2>3. online
      BY <2>1 DEF Mirroring
    <2>4. PICK b : Leads(Store, wire, b) /\ Reflects(b, srv)
      BY <2>1, <2>3 DEF Mirroring
    <2>5. PICK M : wire \in Seq(M)
      BY <1>0 DEF IsWire
    <2>6. Leads(Store', wire', b)
      BY <2>1, <2>4, <2>5, LeadsOn
    <2>. QED  BY <2>2, <2>3, <2>4, <2>6 DEF Mirroring
  <1>4. CASE Drain \/ WhenReady
    <2>1. UNCHANGED <<srv, wire, online, status>> /\ Store' = Store
      BY <1>4 DEF Drain, WhenReady, server, line, Store, store
    <2>. QED  BY <2>1 DEF Mirroring
  <1>5. CASE Begin
    <2>1. srv' = srv /\ online' = TRUE /\ wire' = <<>>
      BY <1>5 DEF Begin, server
    <2>2. Store' = Fresh
      BY <1>5 DEF Begin, Store, Fresh, At, NoClients, NoGroups
    <2>. QED  BY <2>1, <2>2 DEF Mirroring
  <1>6. CASE End
    <2>1. srv' = srv /\ online' = FALSE /\ wire' = <<>> /\ status' = "stale"
      BY <1>6 DEF End, server
    <2>. QED  BY <2>1 DEF Mirroring
  <1>7. CASE ServerOp
    BY <1>0, <1>7, ServerOpMirrors
  <1>8. CASE Welcome
    <2>1. PICK list \in Listings(srv) : Greets(list)
      BY <1>8 DEF Welcome
    <2>2. /\ online /\ status = "loading" /\ wire = <<>> /\ srv' = srv /\ online' = online /\ Store' = Store
      BY <2>1 DEF Greets, Unwelcomed, store, Store
    <2>3. Store = Fresh
      <3>1. ASSUME NEW b, Leads(Store, wire, b), Reflects(b, srv)  PROVE FALSE
        <4>1. b = Store
          BY <2>2, <3>1, NoneLeads
        <4>2. Store.status = status
          BY DEF Store
        <4>. QED  BY <2>2, <3>1, <4>1, <4>2 DEF Reflects
      <3>. QED  BY <2>2, <3>1 DEF Mirroring
    <2>4. ServerOK(srv)
      BY DEF Mirroring
    <2>5. \E b : Leads(Fresh, wire', b) /\ Reflects(b, srv)
      BY <2>1, <2>4, WelcomeReflects
    <2>. QED  BY <2>2, <2>3, <2>4, <2>5 DEF Mirroring
  <1>. QED  BY <1>3, <1>4, <1>5, <1>6, <1>7, <1>8

\* A live view that has read everything is the server's state, whatever the channels, the
\* clients and the changes made to them, and however often connections are made: what the
\* lines on their way still tell is the whole difference between the two (ViewStore).
THEOREM ViewAlwaysMirrorsServer == Spec => []ViewMirrorsServer
  <1>1. IInv /\ MirrorInv /\ [Next]_vars => MirrorInv'
    BY MirrorStep
  <1>2. MirrorInv => ViewMirrorsServer
    <2>. SUFFICES ASSUME Mirroring, status = "live", wire = <<>>
                  PROVE  /\ tree.consistent /\ tree.parent = srv.parent /\ tree.order = srv.order
                         /\ roster = Visible /\ name = srv.name /\ groups = srv.groups
      BY DEF MirrorInv, ViewMirrorsServer
    <2>1. Store.status = status /\ Fresh.status = "loading"
      BY DEF Store, Fresh, At
    <2>2. PICK b : Leads(Store, wire, b) /\ Reflects(b, srv)
      BY <2>1 DEF Mirroring
    <2>3. b = Store
      BY <2>2, NoneLeads
    <2>4. Mirrors(tree, srv) /\ roster = SeenIn(srv) /\ name = srv.name /\ groups = srv.groups
      BY <2>2, <2>3 DEF Reflects, Store
    <2>. QED  BY <2>4 DEF Mirrors, SeenIn, Visible
  <1>. QED  BY <1>1, <1>2, InitMirrors, ViewInductive, PTL DEF Spec
=============================================================================
