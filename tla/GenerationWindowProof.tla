----------------------- MODULE GenerationWindowProof -----------------------
(***************************************************************************)
(* What the operators of GenerationWindow compute, for every number of ids *)
(* and every window that spans at most half of them.                       *)
(***************************************************************************)
EXTENDS GenerationWindow, TLAPS

\* The id and the generation of a packet determine its number.
LEMMA IdAndGen ==
    ASSUME NEW n \in Nat
    PROVE  /\ Id(n) \in Ids
           /\ Gen(n) \in Nat
           /\ n = Gen(n) * Mod + Id(n)
  BY WindowAssumption DEF Id, Gen, Ids

\* A generation more or less moves the number of a packet by a cycle of ids.
LEMMA Product ==
    ASSUME NEW g \in Int
    PROVE  /\ g * Mod \in Int
           /\ (g + 1) * Mod = g * Mod + Mod
           /\ (g - 1) * Mod = g * Mod - Mod
  BY WindowAssumption

\* A later generation begins at a number no smaller.
LEMMA ProductMonotone ==
    ASSUME NEW g \in Int, NEW h \in Int, g <= h
    PROVE  g * Mod <= h * Mod
  <1>1. PICK d \in Nat : h = g + d
    BY SMT
  <1>2. d * Mod >= 0
    BY WindowAssumption
  <1>3. h * Mod = g * Mod + d * Mod
    BY <1>1, WindowAssumption
  <1>. QED  BY <1>2, <1>3, WindowAssumption

\* The position of a window, its generation and base taken as one number, is natural.
LEMMA PositionType ==
    ASSUME NEW w \in WindowType
    PROVE  /\ w.base \in Nat /\ w.base < Mod
           /\ w.gen \in Nat /\ w.gen <= MaxGen
           /\ w.gen * Mod \in Nat
           /\ Position(w) \in Nat
  <1>1. w.base \in Nat /\ w.base < Mod /\ w.gen \in Nat /\ w.gen <= MaxGen
    BY WindowAssumption DEF WindowType, Ids
  <1>2. w.gen * Mod \in Nat
    BY <1>1, WindowAssumption
  <1>. QED  BY <1>1, <1>2 DEF Position

\* For a packet that decrypts, mappedToIndex is its distance from the next one
\* expected: the sign tells old from new, across any wrap.
LEMMA IndexExact ==
    ASSUME NEW w \in WindowType, NEW n \in Nat, Decrypts(w, n)
    PROVE  MappedToIndex(w, Id(n)) = n - Position(w)
  <1>1. /\ Id(n) \in Nat /\ Id(n) < Mod /\ Gen(n) \in Nat
        /\ n = Gen(n) * Mod + Id(n)
    BY IdAndGen, WindowAssumption DEF Ids
  <1>2. /\ w.base \in Nat /\ w.gen \in Nat /\ w.gen * Mod \in Nat
        /\ Position(w) = w.gen * Mod + w.base
    BY PositionType DEF Position
  <1>3. Gen(n) = GetGeneration(w, Id(n))
    BY DEF Decrypts
  <1>4. CASE IsNextGen(w, Id(n))
    <2>1. Gen(n) = w.gen + 1
      BY <1>3, <1>4 DEF GetGeneration
    <2>2. Gen(n) * Mod = w.gen * Mod + Mod
      BY <2>1, <1>2, Product
    <2>3. MappedToIndex(w, Id(n)) = Id(n) + Mod - w.base
      BY <1>4 DEF MappedToIndex
    <2>. QED  BY <1>1, <1>2, <2>2, <2>3, WindowAssumption
  <1>5. CASE ~IsNextGen(w, Id(n)) /\ IsBehindAcrossWrap(w, Id(n) - w.base)
    <2>1. Gen(n) = w.gen - 1
      BY <1>3, <1>5 DEF GetGeneration
    <2>2. Gen(n) * Mod = w.gen * Mod - Mod
      BY <2>1, <1>2, Product
    <2>3. MappedToIndex(w, Id(n)) = Id(n) - w.base - Mod
      BY <1>5 DEF MappedToIndex
    <2>. QED  BY <1>1, <1>2, <2>2, <2>3, WindowAssumption
  <1>6. CASE ~IsNextGen(w, Id(n)) /\ ~IsBehindAcrossWrap(w, Id(n) - w.base)
    <2>1. Gen(n) = w.gen
      BY <1>3, <1>6 DEF GetGeneration
    <2>2. MappedToIndex(w, Id(n)) = Id(n) - w.base
      BY <1>6 DEF MappedToIndex
    <2>. QED  BY <1>1, <1>2, <2>1, <2>2, WindowAssumption
  <1>. QED  BY <1>4, <1>5, <1>6

\* For a packet that decrypts, isInWindow says what it is meant to: the packet
\* is one of the next Window ones.
LEMMA InWindowExact ==
    ASSUME NEW w \in WindowType, NEW n \in Nat, Decrypts(w, n), IsInWindow(w, Id(n))
    PROVE  n >= Position(w) /\ n < Position(w) + Window
  <1>1. Id(n) \in Nat /\ Id(n) < Mod
    BY IdAndGen, WindowAssumption DEF Ids
  <1>2. w.base \in Nat /\ w.base < Mod /\ w.gen \in Nat /\ Position(w) \in Nat
    BY PositionType
  <1>3. MappedToIndex(w, Id(n)) = n - Position(w)
    BY IndexExact
  <1>4. MappedToIndex(w, Id(n)) >= 0 /\ MappedToIndex(w, Id(n)) < Window
    BY <1>1, <1>2, WindowAssumption
    DEF MappedToIndex, IsNextGen, IsBehindAcrossWrap, IsInWindow
  <1>. QED  BY <1>2, <1>3, <1>4, WindowAssumption

\* isOldPacket holds of a packet that decrypts exactly when the window has passed it.
LEMMA OldExact ==
    ASSUME NEW w \in WindowType, NEW n \in Nat, Decrypts(w, n)
    PROVE  IsOldPacket(w, Id(n)) <=> n < Position(w)
  BY IndexExact, PositionType DEF IsOldPacket

\* A packet within Window of the position, on either side, decrypts: getGeneration
\* finds its generation, across a wrap in either direction.
LEMMA NearDecrypts ==
    ASSUME NEW w \in WindowType, NEW n \in Nat,
           n >= Position(w) - Window, n < Position(w) + Window
    PROVE  Decrypts(w, n)
  <1>. DEFINE g == Gen(n)
              v == Id(n)
  <1>1. /\ v \in Nat /\ v < Mod /\ g \in Nat /\ g * Mod \in Int
        /\ n = g * Mod + v
    <2>1. v \in Ids /\ g \in Nat /\ n = g * Mod + v
      BY IdAndGen
    <2>. HIDE DEF g, v
    <2>2. g * Mod \in Int
      BY <2>1, WindowAssumption
    <2>. QED  BY <2>1, <2>2, WindowAssumption DEF Ids
  <1>2. /\ w.base \in Nat /\ w.base < Mod /\ w.gen \in Nat /\ w.gen * Mod \in Nat
        /\ Position(w) = w.gen * Mod + w.base
    BY PositionType DEF Position
  <1>. HIDE DEF g, v
  <1>3. g <= w.gen + 1
    <2>1. SUFFICES ASSUME w.gen + 2 <= g  PROVE FALSE
      BY <1>1, <1>2
    <2>2. (w.gen + 2) * Mod = w.gen * Mod + 2 * Mod
      BY <1>2, WindowAssumption
    <2>3. (w.gen + 2) * Mod <= g * Mod
      <3>1. w.gen + 2 \in Int /\ g \in Int
        BY <1>1, <1>2
      <3>. QED  BY ONLY <3>1, <2>1, ProductMonotone
    <2>. QED  BY <1>1, <1>2, <2>2, <2>3, WindowAssumption
  <1>4. w.gen <= g + 1
    <2>1. SUFFICES ASSUME g + 2 <= w.gen  PROVE FALSE
      BY <1>1, <1>2
    <2>2. (g + 2) * Mod = g * Mod + 2 * Mod
      BY <1>1, WindowAssumption
    <2>3. (g + 2) * Mod <= w.gen * Mod
      <3>1. w.gen \in Int /\ g + 2 \in Int
        BY <1>1, <1>2
      <3>. QED  BY ONLY <3>1, <2>1, ProductMonotone
    <2>. QED  BY <1>1, <1>2, <2>2, <2>3, WindowAssumption
  <1>5. GetGeneration(w, v) = g
    <2>1. CASE g = w.gen + 1
      <3>1. n = w.gen * Mod + Mod + v
        BY <2>1, <1>1, <1>2, Product
      <3>2. IsNextGen(w, v)
        BY <3>1, <1>1, <1>2, WindowAssumption DEF IsNextGen
      <3>. QED  BY <2>1, <3>2 DEF GetGeneration
    <2>2. CASE g = w.gen
      <3>1. n = w.gen * Mod + v
        BY <2>2, <1>1
      <3>2. ~IsNextGen(w, v)
        BY <3>1, <1>1, <1>2, WindowAssumption DEF IsNextGen
      <3>3. ~IsBehindAcrossWrap(w, v - w.base)
        BY <3>1, <1>1, <1>2, WindowAssumption DEF IsBehindAcrossWrap
      <3>. QED  BY <2>2, <3>2, <3>3 DEF GetGeneration
    <2>3. CASE g = w.gen - 1
      <3>1. n = w.gen * Mod - Mod + v
        BY <2>3, <1>1, <1>2, Product
      <3>2. ~IsNextGen(w, v)
        BY <3>1, <1>1, <1>2, WindowAssumption DEF IsNextGen
      <3>3. IsBehindAcrossWrap(w, v - w.base)
        BY <3>1, <2>3, <1>1, <1>2, WindowAssumption DEF IsBehindAcrossWrap
      <3>. QED  BY <2>3, <3>2, <3>3 DEF GetGeneration
    <2>4. g \in Nat /\ w.gen \in Nat
      BY <1>1, <1>2
    <2>5. g = w.gen + 1 \/ g = w.gen \/ g = w.gen - 1
      BY ONLY <1>3, <1>4, <2>4
    <2>. QED  BY ONLY <2>1, <2>2, <2>3, <2>5
  <1>. QED  BY <1>5 DEF Decrypts, g, v

\* The id and the generation of a number are its only split into a multiple of
\* Mod and a rest.
LEMMA SplitUnique ==
    ASSUME NEW x \in Nat, NEW g \in Int, NEW r \in Ids, x = g * Mod + r
    PROVE  Id(x) = r /\ Gen(x) = g
  <1>1. /\ Id(x) \in Nat /\ Id(x) < Mod /\ Gen(x) \in Int
        /\ x = Gen(x) * Mod + Id(x)
    BY IdAndGen, WindowAssumption DEF Ids
  <1>2. r \in Nat /\ r < Mod
    BY WindowAssumption DEF Ids
  <1>3. g * Mod \in Int /\ Gen(x) * Mod \in Int
    BY <1>1, Product
  <1>4. ~(g + 1 <= Gen(x))
    <2>1. SUFFICES ASSUME g + 1 <= Gen(x)  PROVE FALSE
      OBVIOUS
    <2>2. (g + 1) * Mod <= Gen(x) * Mod
      <3>1. g + 1 \in Int
        OBVIOUS
      <3>. QED  BY ONLY <1>1, <2>1, <3>1, ProductMonotone
    <2>3. (g + 1) * Mod = g * Mod + Mod
      BY Product
    <2>. QED  BY <1>1, <1>2, <1>3, <2>2, <2>3, WindowAssumption
  <1>5. ~(Gen(x) + 1 <= g)
    <2>1. SUFFICES ASSUME Gen(x) + 1 <= g  PROVE FALSE
      OBVIOUS
    <2>2. (Gen(x) + 1) * Mod <= g * Mod
      <3>1. Gen(x) + 1 \in Int
        BY <1>1
      <3>. QED  BY ONLY <2>1, <3>1, g \in Int, ProductMonotone
    <2>3. (Gen(x) + 1) * Mod = Gen(x) * Mod + Mod
      BY <1>1, Product
    <2>. QED  BY <1>1, <1>2, <1>3, <2>2, <2>3, WindowAssumption
  <1>6. Gen(x) = g
    BY <1>1, <1>4, <1>5
  <1>. QED  BY <1>1, <1>2, <1>3, <1>6

\* Numbers less than a full cycle apart have different ids.
LEMMA SameId ==
    ASSUME NEW a \in Nat, NEW b \in Nat, Id(a) = Id(b), a - b < Mod, b - a < Mod
    PROVE  a = b
  <1>1. /\ Id(a) \in Nat /\ Gen(a) \in Int /\ a = Gen(a) * Mod + Id(a)
        /\ Gen(b) \in Int /\ b = Gen(b) * Mod + Id(b)
    BY IdAndGen, WindowAssumption DEF Ids
  <1>2. Gen(a) * Mod \in Int /\ Gen(b) * Mod \in Int
    BY <1>1, Product
  <1>3. ~(Gen(a) + 1 <= Gen(b))
    <2>1. SUFFICES ASSUME Gen(a) + 1 <= Gen(b)  PROVE FALSE
      OBVIOUS
    <2>2. (Gen(a) + 1) * Mod <= Gen(b) * Mod
      <3>1. Gen(a) + 1 \in Int
        BY <1>1
      <3>. QED  BY ONLY <1>1, <2>1, <3>1, ProductMonotone
    <2>3. (Gen(a) + 1) * Mod = Gen(a) * Mod + Mod
      BY <1>1, Product
    <2>. QED  BY <1>1, <1>2, <2>2, <2>3, WindowAssumption
  <1>4. ~(Gen(b) + 1 <= Gen(a))
    <2>1. SUFFICES ASSUME Gen(b) + 1 <= Gen(a)  PROVE FALSE
      OBVIOUS
    <2>2. (Gen(b) + 1) * Mod <= Gen(a) * Mod
      <3>1. Gen(b) + 1 \in Int
        BY <1>1
      <3>. QED  BY ONLY <1>1, <2>1, <3>1, ProductMonotone
    <2>3. (Gen(b) + 1) * Mod = Gen(b) * Mod + Mod
      BY <1>1, Product
    <2>. QED  BY <1>1, <1>2, <2>2, <2>3, WindowAssumption
  <1>5. Gen(a) = Gen(b)
    BY <1>1, <1>3, <1>4
  <1>. QED  BY <1>1, <1>5

\* The ids from the base of a window on are those of the numbers from its
\* position on.
LEMMA IdFromBase ==
    ASSUME NEW w \in WindowType, NEW k \in Nat
    PROVE  Id(Position(w) + k) = (w.base + k) % Mod
  <1>1. /\ w.base \in Nat /\ w.gen \in Nat /\ w.gen * Mod \in Nat
        /\ Position(w) = w.gen * Mod + w.base
    BY PositionType DEF Position
  <1>. DEFINE s == w.base + k
              c == Gen(s)
              r == Id(s)
  <1>2. s \in Nat
    BY <1>1
  <1>3. r \in Ids /\ c \in Nat /\ s = c * Mod + r
    <2>. HIDE DEF s
    <2>. QED  BY <1>2, IdAndGen
  <1>4. r = (w.base + k) % Mod
    BY DEF Id
  <1>. HIDE DEF c, r
  <1>5. c * Mod \in Nat /\ (w.gen + c) * Mod = w.gen * Mod + c * Mod
    BY <1>1, <1>3, WindowAssumption
  <1>6. r \in Nat
    BY <1>3, WindowAssumption DEF Ids
  <1>7. Position(w) + k = (w.gen + c) * Mod + r
    BY <1>1, <1>3, <1>5, <1>6
  <1>8. Id(Position(w) + k) = r
    <2>1. Position(w) + k \in Nat /\ w.gen + c \in Int
      BY <1>1, <1>3
    <2>. QED  BY ONLY <2>1, <1>3, <1>7, SplitUnique
  <1>. QED  BY <1>4, <1>8

\* advance(amount) moves the position by the amount, carrying into the generation.
LEMMA AdvanceExact ==
    ASSUME NEW w \in WindowType, NEW k \in Nat, Position(w) + k < MaxGen * Mod
    PROVE  /\ Advance(w, k) \in WindowType
           /\ Position(Advance(w, k)) = Position(w) + k
           /\ Advance(w, k).base = (w.base + k) % Mod
  <1>. DEFINE sum == w.base + k
  <1>1. /\ w.base \in Nat /\ w.base < Mod /\ w.gen \in Nat /\ w.gen <= MaxGen
        /\ w.gen * Mod \in Nat /\ Position(w) = w.gen * Mod + w.base
    BY PositionType DEF Position
  <1>2. sum \in Nat
    BY <1>1
  <1>. DEFINE carry == sum \div Mod
  <1>3. /\ sum % Mod \in Nat /\ sum % Mod < Mod
        /\ carry \in Nat
        /\ sum = carry * Mod + (sum % Mod)
    <2>. HIDE DEF sum
    <2>1. /\ Id(sum) \in Ids /\ Gen(sum) \in Nat
          /\ sum = Gen(sum) * Mod + Id(sum)
      BY <1>2, IdAndGen
    <2>. QED  BY <2>1, WindowAssumption DEF Id, Gen, Ids
  <1>4. (w.gen + carry) * Mod = w.gen * Mod + carry * Mod
    BY <1>1, <1>3, WindowAssumption
  <1>5. w.gen + carry <= MaxGen
    <2>1. SUFFICES ASSUME MaxGen < w.gen + carry  PROVE FALSE
      BY <1>1, <1>3, WindowAssumption
    <2>. HIDE DEF carry
    <2>2. MaxGen * Mod <= (w.gen + carry) * Mod
      <3>1. MaxGen \in Int /\ w.gen + carry \in Int /\ MaxGen <= w.gen + carry
        BY <2>1, <1>1, <1>3, WindowAssumption
      <3>. QED  BY ONLY <3>1, ProductMonotone
    <2>3. carry * Mod \in Nat /\ MaxGen * Mod \in Nat
      BY <1>3, WindowAssumption
    <2>. QED  BY <2>2, <2>3, <1>1, <1>3, <1>4
  <1>6. CASE k = 0
    <2>1. Advance(w, k) = w
      BY <1>6 DEF Advance
    <2>2. w.base % Mod = w.base
      BY <1>1, WindowAssumption
    <2>. QED  BY <1>6, <2>1, <2>2, <1>1
  <1>7. CASE k > 0
    <2>1. Advance(w, k) = [base |-> sum % Mod, gen |-> w.gen + carry]
      BY <1>5, <1>7 DEF Advance
    <2>2. Advance(w, k) \in WindowType
      BY <2>1, <1>1, <1>3, <1>5, WindowAssumption DEF WindowType, Ids
    <2>3. Position(Advance(w, k)) = (w.gen + carry) * Mod + (sum % Mod)
      BY <2>1 DEF Position
    <2>4. carry * Mod \in Nat
      BY <1>3, WindowAssumption
    <2>5. Position(Advance(w, k)) = Position(w) + k
      BY <2>3, <2>4, <1>1, <1>2, <1>3, <1>4
    <2>. QED  BY <2>1, <2>2, <2>5
  <1>. QED  BY <1>6, <1>7
=============================================================================
