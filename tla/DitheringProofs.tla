-------------------------- MODULE DitheringProofs --------------------------
(***************************************************************************)
(* Theorems about the two ditherings (Dithering), for pictures of any      *)
(* size.  In the error diffusion the errors passed on are never negative,  *)
(* so that no sample is darkened before its turn, and what is written are  *)
(* the shades that were asked for, white staying white; they are never     *)
(* more than the error there was: no light is created, and no sample of    *)
(* the copy worked on grows by a whole step.  The ordered dithering keeps  *)
(* the tone of a tile of one shade.                                        *)
(***************************************************************************)
EXTENDS Dithering, FiniteSetTheorems, WellFoundedInduction, TLAPS

\* The tables of the three kernels.
LEMMA KernelsPositive ==
  ASSUME NEW k \in DOMAIN Kernels
  PROVE  /\ Kernels[k].denominator \in Nat \ {0}
         /\ \A d \in DOMAIN Kernels[k].targets : d \in Int \X Int /\ Kernels[k].targets[d] \in Nat
<1>1. DOMAIN Kernels = {"floyd", "atkinson", "jarvis"}
  BY DEF Kernels
<1>2. CASE k = "floyd"
  BY <1>2 DEF Kernels
<1>3. CASE k = "atkinson"
  BY <1>3 DEF Kernels
<1>4. CASE k = "jarvis"
  <2> DEFINE D == ({0} \X (1..2)) \cup ((1..2) \X (-2..2))
  <2>1. /\ Kernels[k].denominator = 48
        /\ Kernels[k].targets = [d \in D |->
             LET away == IF d[2] < 0 THEN d[1] - d[2] ELSE d[1] + d[2] IN 9 - 2 * away]
    BY <1>4 DEF Kernels
  <2>2. \A d \in D : (IF d[2] < 0 THEN d[1] - d[2] ELSE d[1] + d[2]) \in 1..4
    OBVIOUS
  <2>. QED  BY <2>1, <2>2
<1>. QED  BY <1>1, <1>2, <1>3, <1>4

\* A share of an error is not negative.
LEMMA ShareNat ==
  ASSUME NEW e \in Nat, NEW n \in Nat, NEW d \in Nat \ {0}
  PROVE  Share(e, n, d) \in Nat
<1>1. e * n \in Nat
  OBVIOUS
<1>2. \A m \in Nat : m \div d \in Nat
  OBVIOUS
<1>. QED  BY <1>1, <1>2 DEF Share

\* The nearest shade from below: with up to 16 levels, one of those asked for.
LEMMA StepPositive ==
  ASSUME NEW l \in 2..256
  PROVE  Step(l) = 255 \div (l - 1) /\ Step(l) \in 1..255
<1>1. 255 \div (l - 1) \in 1..255
  OBVIOUS
<1>. QED  BY <1>1 DEF Step

LEMMA ShadeBelow ==
  ASSUME NEW step \in 1..255, NEW old \in 0..255
  PROVE  Shade(old, step) = (old \div step) * step /\ Shade(old, step) \in 0..old
<1>1. old \div step \in Nat /\ (old \div step) * step \in 0..old
  OBVIOUS
<1> HIDE DEF Shade
<1>. QED  BY <1>1 DEF Shade, Clamp, AtMost

LEMMA ShadeOfLevel ==
  ASSUME NEW l \in 2..16, NEW old \in 0..255
  PROVE  /\ Shade(old, Step(l)) \in {s * Step(l) : s \in 0..(l - 1)}
         /\ Shade(255, Step(l)) = (l - 1) * Step(l)
<1>1. l \in 2..256 /\ 255 \in 0..255
  OBVIOUS
<1>2. 255 \div Step(l) = l - 1
  <2>1. 255 \div (255 \div (l - 1)) = l - 1
    OBVIOUS
  <2>. QED  BY <1>1, <2>1, StepPositive
<1>3. old \div Step(l) \in 0..(255 \div Step(l))
  <2> PICK step \in 1..255 : step = Step(l)
    BY <1>1, StepPositive
  <2>1. old \div step \in 0..(255 \div step)
    OBVIOUS
  <2>. QED  BY <2>1
<1> PICK step \in 1..255 : step = Step(l)
  BY <1>1, StepPositive
<1>4. Shade(old, step) = (old \div step) * step /\ Shade(255, step) = (255 \div step) * step
  BY <1>1, ShadeBelow
<1>. QED  BY <1>2, <1>3, <1>4

-----------------------------------------------------------------------------
\* What is and is not written, and no sample darker than in the picture.
GrayInv ==
  /\ picture \in Pictures /\ effect \in Effects
  /\ pixel \in Nat
  /\ buffer \in [0..(PixelCount - 1) -> Nat]
  /\ \A p \in 0..(PixelCount - 1) : buffer[p] >= picture.data[p]
  /\ DOMAIN result = 0..(PixelCount - 1)

LEMMA EffectParameters ==
  ASSUME effect \in Effects
  PROVE  /\ effect.name = "diffusion" => effect.kernel \in DOMAIN Kernels /\ effect.number \in 2..256
         /\ effect.name \in {"ordered", "diffusion"}
BY LevelsHaveStep DEF Effects

LEMMA GrayInit == Init => GrayInv /\ ShadesAsAsked
<1> SUFFICES ASSUME Init PROVE GrayInv /\ ShadesAsAsked
  OBVIOUS
<1> PICK p \in Pictures : p = picture
  BY DEF Init
<1>0. /\ p.data \in [0..(p.width * p.height - 1) -> 0..255]
      /\ PixelCount = p.width * p.height
  BY PicturesAreGray DEF PixelCount
<1>1. GrayInv
  <2>1. PICK S, d : S = 0..(PixelCount - 1) /\ d = p.data /\ d \in [S -> 0..255]
    BY <1>0
  <2>2. d \in [S -> Nat] /\ \A q \in S : d[q] >= d[q]
    <3>1. d \in [S -> 0..255]
      BY ONLY <2>1
    <3>2. \A q \in S : d[q] \in Nat
      BY ONLY <3>1
    <3>3. d \in [S -> Nat]
      BY ONLY <3>1, <3>2
    <3>. QED  BY ONLY <3>2, <3>3
  <2>3. buffer = d /\ picture.data = d
    BY <2>1 DEF Init
  <2>4. buffer \in [S -> Nat] /\ \A q \in S : buffer[q] >= picture.data[q]
    BY ONLY <2>2, <2>3
  <2>5. DOMAIN result = S
    BY <2>1 DEF Init
  <2>. QED  BY <2>1, <2>4, <2>5 DEF Init, GrayInv
<1>2. ShadesAsAsked
  BY DEF Init, ShadesAsAsked
<1>. QED  BY <1>1, <1>2

\* A pixel of the diffusion: its error is not negative, so that none of the buffer's
\* samples goes down, and the shade written is one of those asked for.
LEMMA DiffusedStep ==
  ASSUME GrayInv, ShadesAsAsked, DiffusedPixel
  PROVE  GrayInv' /\ ShadesAsAsked'
<1> DEFINE P == 0..(PixelCount - 1)
           k == Kernels[effect.kernel]
           step == Step(effect.number)
           old == Clamp(buffer[pixel], 0, 255)
           new == Shade(old, step)
           from(p) == <<Row(p) - Row(pixel), Col(p) - Col(pixel)>>
           there == Targets(picture, effect.kernel, Row(pixel), Col(pixel))
<1>1. /\ effect.name = "diffusion" /\ effect' = effect /\ picture' = picture /\ pixel' = pixel + 1
      /\ pixel < PixelCount /\ PixelCount' = PixelCount
      /\ result' = [result EXCEPT ![pixel] = new]
      /\ buffer' = [p \in P |->
           IF <<Row(p), Col(p)>> \in there
           THEN buffer[p] + Share(old - new, k.targets[from(p)], k.denominator) ELSE buffer[p]]
  BY DEF DiffusedPixel, GrayInv, PixelCount
<1>2. effect.kernel \in DOMAIN Kernels /\ effect.number \in 2..256 /\ step \in 1..255
  BY <1>1, EffectParameters, StepPositive DEF GrayInv
<1>3. PixelCount \in Nat /\ pixel \in P /\ picture.data \in [P -> 0..255]
  <2>1. picture.width \in Nat \ {0} /\ picture.height \in Nat \ {0} /\ picture.data \in [P -> 0..255]
    BY PicturesAreGray DEF GrayInv, PixelCount
  <2>. QED  BY <1>1, <2>1 DEF GrayInv, PixelCount
<1>4. old \in 0..255 /\ (picture.data[pixel] = 255 => old = 255)
  <2>1. buffer[pixel] \in Nat /\ buffer[pixel] >= picture.data[pixel]
    BY <1>3 DEF GrayInv
  <2>. QED  BY <2>1 DEF Clamp, AtMost
<1>5. old - new \in Nat
  <2>0. old \in 0..255 /\ step \in 1..255
    BY <1>2, <1>4
  <2> HIDE DEF old, step
  <2> PICK o \in 0..255, s \in 1..255 : o = old /\ s = step
    BY <2>0
  <2>1. Shade(o, s) \in 0..o
    BY ShadeBelow
  <2>2. o - Shade(o, s) \in Nat
    BY <2>1
  <2>. QED  BY <2>2
<1>6. ASSUME NEW p \in P PROVE buffer'[p] \in Nat /\ buffer'[p] >= buffer[p]
  <2>1. buffer[p] \in Nat
    BY DEF GrayInv
  <2>2. CASE <<Row(p), Col(p)>> \in there
    <3>1. from(p) \in DOMAIN k.targets
      <4>1. PICK d \in DOMAIN k.targets :
              <<Row(p), Col(p)>> = <<Row(pixel) + d[1], Col(pixel) + d[2]>>
        BY <2>2 DEF Targets
      <4>2. d \in Int \X Int
        BY <1>2, KernelsPositive
      <4>3. Row(p) \in Int /\ Col(p) \in Int /\ Row(pixel) \in Int /\ Col(pixel) \in Int
        <5>1. picture.width \in Nat \ {0}
          BY PicturesAreGray DEF GrayInv
        <5>. QED  BY <1>3, <5>1 DEF Row, Col
      <4> HIDE DEF k
      <4>4. from(p) = d
        BY <4>1, <4>2, <4>3
      <4>. QED  BY <4>4
    <3>2. k.targets[from(p)] \in Nat /\ k.denominator \in Nat \ {0}
      BY <1>2, <3>1, KernelsPositive
    <3>3. Share(old - new, k.targets[from(p)], k.denominator) \in Nat
      <4> HIDE DEF k, from, old, new
      <4>. QED  BY <1>5, <3>2, ShareNat
    <3> HIDE DEF k, from, old, new, there
    <3>. QED  BY <1>1, <2>1, <2>2, <3>3
  <2>3. CASE <<Row(p), Col(p)>> \notin there
    <3> HIDE DEF k, from, old, new, there
    <3>. QED  BY <1>1, <2>1, <2>3
  <2>. QED  BY <2>2, <2>3
<1> HIDE DEF k, from, old, new, there, step
<1>7. GrayInv'
  <2>1. buffer' \in [P -> Nat]
    BY <1>1, <1>6
  <2>2. ASSUME NEW p \in P PROVE buffer'[p] >= picture.data[p]
    <3>1. buffer[p] \in Nat /\ buffer[p] >= picture.data[p] /\ picture.data[p] \in 0..255
      BY <1>3 DEF GrayInv
    <3>2. \A x, y \in Nat, z \in 0..255 : x >= y /\ y >= z => x >= z
      OBVIOUS
    <3>. QED  BY <1>6, <3>1, <3>2
  <2>3. DOMAIN result' = P
    BY <1>1 DEF GrayInv
  <2>. QED  BY <1>1, <2>1, <2>2, <2>3 DEF GrayInv
<1>8. ShadesAsAsked'
  <2> SUFFICES ASSUME effect.number \in 2..16, NEW p \in 0..pixel
               PROVE  /\ result'[p] \in {s * Step(effect.number) : s \in 0..(effect.number - 1)}
                      /\ picture.data[p] = 255 =>
                           result'[p] = (effect.number - 1) * Step(effect.number)
    BY <1>1, <1>3 DEF ShadesAsAsked, GrayInv
  <2>1. CASE p = pixel
    <3>1. result'[p] = new
      BY <1>1, <1>3, <2>1 DEF GrayInv
    <3>2. new = Shade(old, Step(effect.number))
      BY DEF new, step
    <3>3. /\ new \in {s * Step(effect.number) : s \in 0..(effect.number - 1)}
          /\ old = 255 => new = (effect.number - 1) * Step(effect.number)
      <4> PICK o \in 0..255, l \in 2..16 : o = old /\ l = effect.number
        BY <1>4
      <4>1. /\ Shade(o, Step(l)) \in {s * Step(l) : s \in 0..(l - 1)}
            /\ Shade(255, Step(l)) = (l - 1) * Step(l)
        BY ShadeOfLevel
      <4>. QED  BY <3>2, <4>1
    <3>. QED  BY <1>4, <2>1, <3>1, <3>3
  <2>2. CASE p # pixel
    <3>1. p \in 0..(pixel - 1) /\ result'[p] = result[p]
      BY <1>1, <1>3, <2>2 DEF GrayInv
    <3>. QED  BY <1>1, <3>1 DEF ShadesAsAsked
  <2>. QED  BY <2>1, <2>2
<1>. QED  BY <1>7, <1>8

LEMMA GrayStep ==
  ASSUME GrayInv, ShadesAsAsked, [Next]_vars
  PROVE  GrayInv' /\ ShadesAsAsked'
<1>1. CASE OrderedPixel
  <2>1. /\ UNCHANGED <<picture, effect, buffer>> /\ pixel' = pixel + 1
        /\ effect.name = "ordered" /\ DOMAIN result' = DOMAIN result
    BY <1>1 DEF OrderedPixel
  <2>. QED  BY <2>1 DEF GrayInv, ShadesAsAsked, PixelCount
<1>2. CASE DiffusedPixel
  BY <1>2, DiffusedStep
<1>3. CASE UNCHANGED vars
  BY <1>3 DEF vars, GrayInv, ShadesAsAsked, PixelCount
<1>4. CASE Done
  BY <1>3, <1>4 DEF Done
<1>. QED  BY <1>1, <1>2, <1>3, <1>4 DEF Next

\* With 2 to 16 levels, what the error diffusion writes is one of as many evenly spaced
\* shades, and a white sample stays the lightest of them, whatever errors reach it.
THEOREM ShadesWritten == Spec => []ShadesAsAsked
<1>. QED  BY GrayInit, GrayStep, PTL DEF Spec

\* No sample is darker when its turn comes than it was in the picture.
NoneDarkened == \A p \in 0..(PixelCount - 1) : buffer[p] >= picture.data[p]

THEOREM OnlyLighter == Spec => []NoneDarkened
<1>1. GrayInv => NoneDarkened
  BY DEF GrayInv, NoneDarkened
<1>. QED  BY <1>1, GrayInit, GrayStep, PTL DEF Spec

-----------------------------------------------------------------------------
(***************************************************************************)
(* Sums.  What Sum computes by recursion is known by its least             *)
(* counterexample: a set of natural numbers has a least one.               *)
(***************************************************************************)
LEMMA LeastOf ==
  ASSUME NEW T \in SUBSET Nat, T # {}
  PROVE  \E m \in T : \A n \in T : m <= n
<1> DEFINE R == OpToRel(<, Nat)
<1>1. IsWellFoundedOn(R, Nat)
  BY NatLessThanWellFounded
<1>2. \A x, y \in Nat : <<x, y>> \in R <=> x < y
  BY DEF OpToRel
<1> HIDE DEF R
<1>3. PICK m \in T : \A n \in T : ~(<<n, m>> \in R)
  BY <1>1, WFMin
<1>4. \A n \in T : ~(n < m)
  BY <1>2, <1>3
<1>. QED  BY <1>4

\* Induction over the subsets of a finite set: G holds those that the claim is true of.
LEMMA SubsetInduction ==
  ASSUME NEW S, IsFiniteSet(S), NEW G,
         \A T \in SUBSET S : (\A U \in SUBSET T : U # T => U \in G) => T \in G
  PROVE  \A T \in SUBSET S : T \in G
<1> DEFINE Bad == {n \in Nat : \E T \in SUBSET S : Cardinality(T) = n /\ T \notin G}
<1>1. \A T \in SUBSET S : IsFiniteSet(T) /\ Cardinality(T) \in Nat
  BY FS_Subset, FS_CardinalityType
<1>2. Bad = {}
  <2> SUFFICES ASSUME Bad # {} PROVE FALSE
    OBVIOUS
  <2>1. PICK m \in Bad : \A n \in Bad : m <= n
    BY LeastOf
  <2>2. PICK T \in SUBSET S : Cardinality(T) = m /\ T \notin G
    OBVIOUS
  <2>3. ASSUME NEW U \in SUBSET T, U # T
        PROVE  U \in G
    <3>1. U \in SUBSET S /\ Cardinality(U) < m /\ Cardinality(U) \in Nat
      BY <1>1, <2>2, <2>3, FS_Subset
    <3>. QED  BY <2>1, <3>1
  <2>. QED  BY <2>2, <2>3
<1>3. ASSUME NEW T \in SUBSET S PROVE T \in G
  <2>1. PICK n \in Nat : n = Cardinality(T)
    BY <1>1
  <2>. QED  BY <1>2, <2>1
<1>. QED  BY <1>3

\* The recursion of a sum over S, for the sets in D: g is right wherever it is defined.
First(s) == CHOOSE x \in s : TRUE
Sums(g, f, D) ==
  g = [s \in D |-> IF s = {} THEN 0 ELSE f[First(s)] + g[s \ {First(s)}]]

Totals(g, f, S) == Sums(g, f, SUBSET S)

UpTo(S, n) == {s \in SUBSET S : Cardinality(s) <= n}

LEMMA FirstIn ==
  ASSUME NEW s, s # {}
  PROVE  First(s) \in s
BY DEF First

LEMMA OneLess ==
  ASSUME NEW S, IsFiniteSet(S), NEW x \in S
  PROVE  /\ IsFiniteSet(S \ {x}) /\ Cardinality(S) \in Nat \ {0}
         /\ Cardinality(S \ {x}) = Cardinality(S) - 1
<1>1. /\ IsFiniteSet(S \ {x}) /\ Cardinality(S \ {x}) = Cardinality(S) - 1
      /\ Cardinality(S) \in Nat
  BY FS_RemoveElement, FS_CardinalityType
<1>2. Cardinality(S) # 0
  BY FS_EmptySet
<1>. QED  BY <1>1, <1>2

LEMMA SumsExist ==
  ASSUME NEW f, NEW S, IsFiniteSet(S)
  PROVE  \E g : Totals(g, f, S)
<1> DEFINE Bad == {n \in Nat : ~ \E g : Sums(g, f, UpTo(S, n))}
<1>1. Bad = {}
  <2> SUFFICES ASSUME Bad # {} PROVE FALSE
    OBVIOUS
  <2>1. PICK m \in Bad : \A n \in Bad : m <= n
    BY LeastOf
  <2>2. CASE m = 0
    <3>1. UpTo(S, 0) = {{}}
      <4>1. \A s \in SUBSET S : Cardinality(s) <= 0 <=> s = {}
        BY FS_Subset, FS_CardinalityType, FS_EmptySet
      <4>. QED  BY <4>1 DEF UpTo
    <3>2. PICK g : g = [s \in {{}} |-> 0]
      OBVIOUS
    <3>3. g = [s \in {{}} |-> IF s = {} THEN 0 ELSE f[First(s)] + g[s \ {First(s)}]]
      BY <3>2
    <3>. QED  BY <2>2, <3>1, <3>3 DEF Sums
  <2>3. CASE m # 0
    <3>1. m - 1 \in Nat /\ m - 1 \notin Bad
      BY <2>1, <2>3
    <3>2. PICK g : Sums(g, f, UpTo(S, m - 1))
      BY <3>1
    <3> DEFINE h == [s \in UpTo(S, m) |-> IF s = {} THEN 0 ELSE f[First(s)] + g[s \ {First(s)}]]
    <3>3. ASSUME NEW s \in UpTo(S, m), s # {}
          PROVE  h[s \ {First(s)}] = g[s \ {First(s)}]
      <4>1. s \ {First(s)} \in UpTo(S, m - 1) /\ s \ {First(s)} \in UpTo(S, m)
        <5>1. /\ IsFiniteSet(s) /\ s \in SUBSET S /\ Cardinality(s) <= m
              /\ First(s) \in s
          BY <3>3, FS_Subset, FirstIn DEF UpTo
        <5>2. Cardinality(s \ {First(s)}) = Cardinality(s) - 1 /\ Cardinality(s) \in Nat
          BY <5>1, OneLess
        <5>. QED  BY <2>1, <5>1, <5>2 DEF UpTo
      <4> PICK t : t = s \ {First(s)}
        OBVIOUS
      <4>2. g[t] = IF t = {} THEN 0 ELSE f[First(t)] + g[t \ {First(t)}]
        BY <3>2, <4>1 DEF Sums
      <4>3. h[t] = IF t = {} THEN 0 ELSE f[First(t)] + g[t \ {First(t)}]
        BY <4>1
      <4>. QED  BY <4>2, <4>3
    <3>4. h = [s \in UpTo(S, m) |-> IF s = {} THEN 0 ELSE f[First(s)] + h[s \ {First(s)}]]
      <4>1. \A s \in UpTo(S, m) :
              (IF s = {} THEN 0 ELSE f[First(s)] + g[s \ {First(s)}])
                = IF s = {} THEN 0 ELSE f[First(s)] + h[s \ {First(s)}]
        BY <3>3
      <4>. QED  BY <4>1
    <3> HIDE DEF h
    <3>5. Sums(h, f, UpTo(S, m))
      BY <3>4 DEF Sums
    <3>. QED  BY <2>1, <3>5
  <2>. QED  BY <2>2, <2>3
<1>2. Cardinality(S) \in Nat /\ UpTo(S, Cardinality(S)) = SUBSET S
  BY FS_CardinalityType, FS_Subset DEF UpTo
<1>3. PICK n \in Nat : n = Cardinality(S)
  BY <1>2
<1>4. \E g : Sums(g, f, UpTo(S, n))
  BY <1>1
<1>. QED  BY <1>2, <1>3, <1>4 DEF Totals

\* Two such functions agree where both are defined.
LEMMA SumsAgree ==
  ASSUME NEW f, NEW S, IsFiniteSet(S), NEW T \in SUBSET S,
         NEW g, Totals(g, f, S), NEW h, Totals(h, f, T)
  PROVE  g[T] = h[T]
<1> DEFINE G == {s \in SUBSET T : g[s] = h[s]}
<1>1. IsFiniteSet(T)
  BY FS_Subset
<1>2. ASSUME NEW s \in SUBSET T, \A t \in SUBSET s : t # s => t \in G
      PROVE  g[s] = h[s]
  <2>1. /\ g[s] = IF s = {} THEN 0 ELSE f[First(s)] + g[s \ {First(s)}]
        /\ h[s] = IF s = {} THEN 0 ELSE f[First(s)] + h[s \ {First(s)}]
    BY DEF Totals, Sums
  <2>2. CASE s # {}
    <3>1. s \ {First(s)} \in SUBSET s /\ s \ {First(s)} # s
      BY <2>2, FirstIn
    <3>2. s \ {First(s)} \in G
      BY <1>2, <3>1
    <3>. QED  BY <2>1, <2>2, <3>2
  <2>. QED  BY <2>1, <2>2
<1>3. \A s \in SUBSET T : s \in G
  <2>1. \A s \in SUBSET T : (\A t \in SUBSET s : t # s => t \in G) => s \in G
    BY <1>2
  <2> HIDE DEF G
  <2>. QED  BY <1>1, <2>1, SubsetInduction
<1>. QED  BY <1>3

LEMMA SumIs ==
  ASSUME NEW f, NEW S, IsFiniteSet(S), NEW g, Totals(g, f, S), NEW T \in SUBSET S
  PROVE  Sum(f, T) = g[T]
<1> DEFINE iter == CHOOSE h : Totals(h, f, T)
<1>1. Totals(iter, f, T)
  BY FS_Subset, SumsExist
<1>2. Sum(f, T) = iter[T]
  BY DEF Sum, FoldFunctionOnSet, MapThenFoldSet, Totals, Sums, First
<1> HIDE DEF iter
<1>3. g[T] = iter[T]
  BY <1>1, SumsAgree
<1>. QED  BY <1>2, <1>3

LEMMA SumEmpty ==
  ASSUME NEW f
  PROVE  Sum(f, {}) = 0
<1>1. IsFiniteSet({})
  BY FS_EmptySet
<1>2. PICK g : Totals(g, f, {})
  BY <1>1, SumsExist
<1>3. Sum(f, {}) = g[{}]
  BY <1>1, <1>2, SumIs
<1>. QED  BY <1>2, <1>3 DEF Totals, Sums

LEMMA SumFirst ==
  ASSUME NEW f, NEW S, IsFiniteSet(S), S # {}
  PROVE  Sum(f, S) = f[First(S)] + Sum(f, S \ {First(S)})
<1>1. PICK g : Totals(g, f, S)
  BY SumsExist
<1>2. PICK T : T = S \ {First(S)} /\ T \in SUBSET S /\ S \in SUBSET S
  OBVIOUS
<1>3. Sum(f, S) = g[S] /\ Sum(f, T) = g[T]
  BY <1>1, <1>2, SumIs
<1>4. g[S] = f[First(S)] + g[T]
  BY <1>1, <1>2 DEF Totals, Sums
<1>. QED  BY <1>2, <1>3, <1>4

\* The sum of integers, taken from any of them on.
SumRight(f, S) ==
  /\ Sum(f, S) \in Int
  /\ \A x \in S : Sum(f, S) = f[x] + Sum(f, S \ {x})

LEMMA SumAny ==
  ASSUME NEW f, NEW S, IsFiniteSet(S), \A x \in S : f[x] \in Int
  PROVE  SumRight(f, S)
<1> DEFINE G == {T \in SUBSET S : SumRight(f, T)}
<1>1. ASSUME NEW T \in SUBSET S, \A U \in SUBSET T : U # T => U \in G
      PROVE  SumRight(f, T)
  <2>1. CASE T = {}
    BY <2>1, SumEmpty DEF SumRight
  <2>2. CASE T # {}
    <3>1. PICK y \in T : y = First(T)
      BY <2>2, FirstIn
    <3>2. IsFiniteSet(T) /\ \A x \in T : f[x] \in Int
      BY FS_Subset
    <3>3. \A U \in SUBSET T : U # T => SumRight(f, U)
      BY <1>1
    <3>4. Sum(f, T) = f[y] + Sum(f, T \ {y})
      BY <2>2, <3>1, <3>2, SumFirst
    <3>5. ASSUME NEW x \in T, x # y
          PROVE  Sum(f, T) = f[x] + Sum(f, T \ {x})
      <4> PICK V : V = T \ {x}
        OBVIOUS
      <4> PICK W : W = T \ {y}
        OBVIOUS
      <4> PICK U : U = V \ {y}
        OBVIOUS
      <4>1. /\ U = W \ {x} /\ U \in SUBSET T /\ V \in SUBSET T /\ W \in SUBSET T
            /\ U # T /\ V # T /\ W # T
        OBVIOUS
      <4>2. SumRight(f, U) /\ SumRight(f, V) /\ SumRight(f, W) /\ y \in V /\ x \in W
        BY <3>3, <3>5, <4>1
      <4>3. Sum(f, W) = f[x] + Sum(f, U) /\ Sum(f, V) = f[y] + Sum(f, U) /\ Sum(f, U) \in Int
        BY <4>1, <4>2 DEF SumRight
      <4>4. PICK a \in Int, b \in Int, c \in Int : a = f[x] /\ b = f[y] /\ c = Sum(f, U)
        BY <3>2, <4>3
      <4>5. b + (a + c) = a + (b + c)
        OBVIOUS
      <4>. QED  BY <3>4, <4>1, <4>3, <4>4, <4>5
    <3>6. Sum(f, T) \in Int
      <4>1. SumRight(f, T \ {y}) /\ f[y] \in Int
        BY <3>2, <3>3
      <4>. QED  BY <3>4, <4>1 DEF SumRight
    <3>. QED  BY <3>4, <3>5, <3>6 DEF SumRight
  <2>. QED  BY <2>1, <2>2
<1>2. \A T \in SUBSET S : T \in G
  <2>1. \A T \in SUBSET S : (\A U \in SUBSET T : U # T => U \in G) => T \in G
    BY <1>1
  <2> HIDE DEF G
  <2>. QED  BY <2>1, SubsetInduction
<1>. QED  BY <1>2

LEMMA SumWith ==
  ASSUME NEW f, NEW S, IsFiniteSet(S), NEW x, x \notin S, \A y \in S \cup {x} : f[y] \in Int
  PROVE  Sum(f, S \cup {x}) = Sum(f, S) + f[x] /\ Sum(f, S) \in Int
<1>1. IsFiniteSet(S \cup {x})
  BY FS_AddElement
<1> PICK T : T = S \cup {x}
  OBVIOUS
<1>2. x \in T /\ T \ {x} = S
  OBVIOUS
<1>3. SumRight(f, T) /\ SumRight(f, S)
  BY <1>1, SumAny
<1>4. Sum(f, T) = f[x] + Sum(f, S) /\ Sum(f, S) \in Int /\ f[x] \in Int
  BY <1>2, <1>3 DEF SumRight
<1>. QED  BY <1>4

\* Numbers that a sum has room for, each in a place of its own, or that are zero.
LEMMA SumInjected ==
  ASSUME NEW S, IsFiniteSet(S), NEW T, IsFiniteSet(T), NEW f, \A x \in S : f[x] \in Nat,
         NEW g, \A y \in T : g[y] \in Nat,
         NEW to, \A x \in S : f[x] = 0 \/ (to[x] \in T /\ f[x] <= g[to[x]]),
         \A x, y \in S : to[x] = to[y] => x = y
  PROVE  Sum(f, S) <= Sum(g, T) /\ Sum(f, S) \in Nat
<1> DEFINE Fits(U, W) == (\A x \in U : f[x] = 0 \/ to[x] \in W) => Sum(f, U) <= Sum(g, W)
           N == {W \in SUBSET T : Sum(g, W) \in Nat}
           G == {U \in SUBSET S : Sum(f, U) \in Nat /\ \A W \in SUBSET T : Fits(U, W)}
<1>1. \A U \in SUBSET S : IsFiniteSet(U) /\ SumRight(f, U)
  BY FS_Subset, SumAny
<1>2. \A W \in SUBSET T : IsFiniteSet(W) /\ SumRight(g, W)
  BY FS_Subset, SumAny
<1>3. \A W \in SUBSET T : Sum(g, W) \in Nat
  <2>1. ASSUME NEW W \in SUBSET T, \A V \in SUBSET W : V # W => V \in N
        PROVE  Sum(g, W) \in Nat
    <3>1. CASE W = {}
      BY <3>1, SumEmpty
    <3>2. CASE W # {}
      <4>1. PICK x \in W : TRUE
        BY <3>2
      <4> PICK V : V = W \ {x}
        OBVIOUS
      <4>2. Sum(g, W) = g[x] + Sum(g, V) /\ g[x] \in Nat /\ Sum(g, V) \in Nat
        BY <1>2, <2>1, <4>1 DEF SumRight
      <4>. QED  BY <4>2
    <3>. QED  BY <3>1, <3>2
  <2>2. \A W \in SUBSET T : W \in N
    <3>1. \A W \in SUBSET T : (\A V \in SUBSET W : V # W => V \in N) => W \in N
      BY <2>1
    <3> HIDE DEF N
    <3>. QED  BY <3>1, SubsetInduction
  <2>. QED  BY <2>2
<1>4. ASSUME NEW U \in SUBSET S, \A V \in SUBSET U : V # U => V \in G
      PROVE  U \in G
  <2>1. CASE U = {}
    BY <1>3, <2>1, SumEmpty
  <2>2. CASE U # {}
    <3>1. PICK x \in U : TRUE
      BY <2>2
    <3>0. U \ {x} \in SUBSET U /\ U \ {x} # U
      OBVIOUS
    <3>2. PICK V : V = U \ {x} /\ V \in G
      BY <1>4, <3>0
    <3>3. Sum(f, U) = f[x] + Sum(f, V) /\ f[x] \in Nat /\ Sum(f, V) \in Nat
      BY <1>1, <3>2 DEF SumRight
    <3>4. ASSUME NEW W \in SUBSET T, \A z \in U : f[z] = 0 \/ to[z] \in W
          PROVE  Sum(f, U) <= Sum(g, W)
      <4>1. CASE f[x] = 0
        <5>1. Sum(f, V) <= Sum(g, W)
          BY <3>2, <3>4
        <5>. QED  BY <3>3, <4>1, <5>1
      <4>2. CASE f[x] # 0
        <5> PICK Y : Y = W \ {to[x]}
          OBVIOUS
        <5>1. Sum(g, W) = g[to[x]] + Sum(g, Y) /\ to[x] \in W /\ Y \in SUBSET T
          BY <1>2, <3>4, <4>2 DEF SumRight
        <5>2. \A z \in V : f[z] = 0 \/ to[z] \in Y
          BY <3>2, <3>4
        <5>3. Sum(f, V) <= Sum(g, Y)
          BY <3>2, <5>1, <5>2
        <5>4. f[x] <= g[to[x]] /\ g[to[x]] \in Nat /\ Sum(g, Y) \in Nat
          BY <1>3, <4>2, <5>1
        <5>. QED  BY <3>3, <5>1, <5>3, <5>4
      <4>. QED  BY <4>1, <4>2
    <3>5. Sum(f, U) \in Nat
      BY <3>3
    <3>. QED  BY <3>4, <3>5
  <2>. QED  BY <2>1, <2>2
<1>5. \A U \in SUBSET S : U \in G
  <2>1. \A U \in SUBSET S : (\A V \in SUBSET U : V # U => V \in G) => U \in G
    BY <1>4
  <2> HIDE DEF G
  <2>. QED  BY <2>1, SubsetInduction
<1>6. S \in G /\ T \in SUBSET T
  BY <1>5
<1>. QED  BY <1>6

\* A sum of multiples.
LEMMA SumLinear ==
  ASSUME NEW S, IsFiniteSet(S), NEW f, \A x \in S : f[x] \in Int, NEW g, \A x \in S : g[x] \in Int,
         NEW a \in Int, NEW h, \A x \in S : h[x] = a * f[x] + g[x]
  PROVE  Sum(h, S) = a * Sum(f, S) + Sum(g, S)
<1> DEFINE G == {T \in SUBSET S : Sum(h, T) = a * Sum(f, T) + Sum(g, T)}
<1>1. \A T \in SUBSET S : IsFiniteSet(T) /\ SumRight(f, T) /\ SumRight(g, T)
  BY FS_Subset, SumAny
<1>2. \A T \in SUBSET S : SumRight(h, T)
  <2>1. \A x \in S : h[x] \in Int
    OBVIOUS
  <2>. QED  BY <1>1, <2>1, SumAny
<1>3. ASSUME NEW T \in SUBSET S, \A U \in SUBSET T : U # T => U \in G
      PROVE  T \in G
  <2>1. CASE T = {}
    BY <2>1, SumEmpty
  <2>2. CASE T # {}
    <3>1. PICK x \in T : TRUE
      BY <2>2
    <3>0. T \ {x} \in SUBSET T /\ T \ {x} # T
      OBVIOUS
    <3>2. PICK U : U = T \ {x} /\ U \in G
      BY <1>3, <3>0
    <3>3. /\ Sum(h, T) = h[x] + Sum(h, U) /\ Sum(f, T) = f[x] + Sum(f, U)
          /\ Sum(g, T) = g[x] + Sum(g, U)
      BY <1>1, <1>2, <3>2 DEF SumRight
    <3>4. /\ h[x] = a * f[x] + g[x] /\ f[x] \in Int /\ g[x] \in Int
          /\ Sum(f, U) \in Int /\ Sum(g, U) \in Int
          /\ Sum(h, U) = a * Sum(f, U) + Sum(g, U)
      BY <1>1, <3>2 DEF SumRight
    <3>5. ASSUME NEW p \in Int, NEW q \in Int, NEW r \in Int, NEW s \in Int
          PROVE  (a * p + q) + (a * r + s) = a * (p + r) + (q + s)
      OBVIOUS
    <3>. QED  BY <3>3, <3>4, <3>5
  <2>. QED  BY <2>1, <2>2
<1>4. \A T \in SUBSET S : T \in G
  <2> HIDE DEF G
  <2>. QED  BY <1>3, SubsetInduction
<1>. QED  BY <1>4

\* Two functions that agree have the same sum.
LEMMA SumSame ==
  ASSUME NEW S, IsFiniteSet(S), NEW f, \A x \in S : f[x] \in Int, NEW g, \A x \in S : g[x] = f[x]
  PROVE  Sum(g, S) = Sum(f, S) /\ Sum(f, S) \in Int
<1>1. Sum(f, S) \in Int
  BY SumAny DEF SumRight
<1> PICK a \in Int : a = 0
  OBVIOUS
<1>2. \A x \in S : g[x] = a * f[x] + f[x]
  OBVIOUS
<1>3. Sum(g, S) = a * Sum(f, S) + Sum(f, S)
  BY <1>2, SumLinear
<1>. QED  BY <1>1, <1>3

LEMMA SumAdded ==
  ASSUME NEW S, IsFiniteSet(S), NEW f, \A x \in S : f[x] \in Int, NEW g, \A x \in S : g[x] \in Int,
         NEW h, \A x \in S : h[x] = f[x] + g[x]
  PROVE  Sum(h, S) = Sum(f, S) + Sum(g, S) /\ Sum(f, S) \in Int /\ Sum(g, S) \in Int
<1>1. Sum(f, S) \in Int /\ Sum(g, S) \in Int
  BY SumAny DEF SumRight
<1>2. \A x \in S : h[x] = 1 * f[x] + g[x]
  OBVIOUS
<1>3. Sum(h, S) = 1 * Sum(f, S) + Sum(g, S)
  BY ONLY <1>2, SumLinear, IsFiniteSet(S), \A x \in S : f[x] \in Int, \A x \in S : g[x] \in Int
<1>. QED  BY <1>1, <1>3

LEMMA SumScaled ==
  ASSUME NEW S, IsFiniteSet(S), NEW f, \A x \in S : f[x] \in Int, NEW a \in Int,
         NEW h, \A x \in S : h[x] = a * f[x]
  PROVE  Sum(h, S) = a * Sum(f, S) /\ Sum(f, S) \in Int
<1> PICK z : z = [x \in S |-> 0]
  OBVIOUS
<1>1. \A x \in S : z[x] \in Int /\ z[x] = z[x] + z[x]
  OBVIOUS
<1>2. Sum(z, S) = Sum(z, S) + Sum(z, S) /\ Sum(z, S) \in Int
  BY <1>1, SumAdded
<1>3. \A x \in S : h[x] = a * f[x] + z[x]
  OBVIOUS
<1>4. Sum(h, S) = a * Sum(f, S) + Sum(z, S)
  BY <1>1, <1>3, SumLinear
<1>5. PICK n \in Int : n = Sum(f, S)
  BY SumAny DEF SumRight
<1>6. Sum(z, S) = 0
  <2>1. PICK m \in Int : m = Sum(z, S)
    BY <1>2
  <2>2. m = m + m
    BY <1>2, <2>1
  <2>3. m = 0
    BY ONLY m \in Int, <2>2
  <2>. QED  BY <2>1, <2>3
<1>7. a * n \in Int /\ Sum(h, S) = a * n + 0
  BY <1>4, <1>5, <1>6
<1>. QED  BY <1>5, <1>7

-----------------------------------------------------------------------------
(***************************************************************************)
(* The light that a pixel passes on, and that it receives.                 *)
(***************************************************************************)
\* The sum over a set put together one by one.
Adds(f, S, n) == IsFiniteSet(S) /\ (\A y \in S : f[y] \in Int) /\ n \in Int /\ Sum(f, S) = n

LEMMA AddsNone ==
  ASSUME NEW f
  PROVE  Adds(f, {}, 0)
BY SumEmpty, FS_EmptySet DEF Adds

LEMMA AddsNext ==
  ASSUME NEW f, NEW S, NEW n, Adds(f, S, n), NEW x, x \notin S, NEW m \in Int, f[x] = m,
         NEW T, T = S \cup {x}
  PROVE  Adds(f, T, n + m)
<1>1. IsFiniteSet(S) /\ IsFiniteSet(T) /\ \A y \in S \cup {x} : f[y] \in Int
  BY FS_AddElement DEF Adds
<1>2. Sum(f, S \cup {x}) = Sum(f, S) + f[x]
  BY <1>1, SumWith
<1>. QED  BY <1>1, <1>2 DEF Adds

\* No kernel passes on more than the whole error.
LEMMA FloydTotal == Adds(Kernels["floyd"].targets, DOMAIN Kernels["floyd"].targets, 16)
<1> PICK t : t = Kernels["floyd"].targets
  OBVIOUS
<1>1. /\ DOMAIN t = {<<0, 1>>, <<1, -1>>, <<1, 0>>, <<1, 1>>}
      /\ t[<<0, 1>>] = 7 /\ t[<<1, -1>>] = 3 /\ t[<<1, 0>>] = 5 /\ t[<<1, 1>>] = 1
  BY DEF Kernels
<1> PICK A : A = {<<0, 1>>}
  OBVIOUS
<1> PICK B : B = A \cup {<<1, -1>>}
  OBVIOUS
<1> PICK C : C = B \cup {<<1, 0>>}
  OBVIOUS
<1> PICK D : D = C \cup {<<1, 1>>}
  OBVIOUS
<1>2. A = {} \cup {<<0, 1>>} /\ <<1, -1>> \notin A /\ <<1, 0>> \notin B /\ <<1, 1>> \notin C
      /\ DOMAIN t = D
  BY <1>1
<1>3. Adds(t, A, 7)
  <2> PICK O : O = {}
    OBVIOUS
  <2>1. Adds(t, O, 0)
    BY AddsNone
  <2>2. Adds(t, A, 0 + 7)
    BY <1>1, <1>2, <2>1, AddsNext
  <2>. QED  BY <2>2
<1>4. Adds(t, B, 7 + 3)
  BY <1>1, <1>2, <1>3, AddsNext
<1>5. Adds(t, C, 10 + 5)
  BY <1>1, <1>2, <1>4, AddsNext
<1>6. Adds(t, D, 15 + 1)
  BY <1>1, <1>2, <1>5, AddsNext
<1>. QED  BY <1>2, <1>6

\* Five others, and what they add.
Others(S, a, b, c, d, e) ==
  /\ a \notin S /\ b \notin S /\ c \notin S /\ d \notin S /\ e \notin S
  /\ a # b /\ a # c /\ a # d /\ a # e /\ b # c /\ b # d /\ b # e /\ c # d /\ c # e /\ d # e
Weights(f, a, b, c, d, e, total) ==
  /\ f[a] \in Int /\ f[b] \in Int /\ f[c] \in Int /\ f[d] \in Int /\ f[e] \in Int
  /\ total = f[a] + f[b] + f[c] + f[d] + f[e]

LEMMA AddsFive ==
  ASSUME NEW f, NEW S, NEW n, Adds(f, S, n),
         NEW a, NEW b, NEW c, NEW d, NEW e, Others(S, a, b, c, d, e),
         NEW total, Weights(f, a, b, c, d, e, total),
         NEW T, T = S \cup {a, b, c, d, e}
  PROVE  Adds(f, T, n + total)
<1>0. PICK i \in Int, j \in Int, k \in Int, l \in Int, m \in Int :
        f[a] = i /\ f[b] = j /\ f[c] = k /\ f[d] = l /\ f[e] = m
  BY DEF Weights
<1> PICK A : A = S \cup {a}
  OBVIOUS
<1> PICK B : B = A \cup {b}
  OBVIOUS
<1> PICK C : C = B \cup {c}
  OBVIOUS
<1> PICK D : D = C \cup {d}
  OBVIOUS
<1>1. b \notin A /\ c \notin B /\ d \notin C /\ e \notin D /\ T = D \cup {e}
  BY DEF Others
<1>2. PICK p : p = n + i
  OBVIOUS
<1>3. PICK q : q = p + j
  OBVIOUS
<1>4. PICK r : r = q + k
  OBVIOUS
<1>5. PICK s : s = r + l
  OBVIOUS
<1>6. Adds(f, A, p)
  BY <1>0, <1>2, AddsNext DEF Others
<1>7. Adds(f, B, q)
  BY <1>0, <1>1, <1>3, <1>6, AddsNext
<1>8. Adds(f, C, r)
  BY <1>0, <1>1, <1>4, <1>7, AddsNext
<1>9. Adds(f, D, s)
  BY <1>0, <1>1, <1>5, <1>8, AddsNext
<1>10. Adds(f, T, s + m)
  BY <1>0, <1>1, <1>9, AddsNext
<1>11. s + m = n + total
  BY <1>0, <1>2, <1>3, <1>4, <1>5 DEF Weights, Adds
<1>. QED  BY <1>10, <1>11

LEMMA AtkinsonTotal == Adds(Kernels["atkinson"].targets, DOMAIN Kernels["atkinson"].targets, 6)
<1> PICK t : t = Kernels["atkinson"].targets
  OBVIOUS
<1>1. /\ DOMAIN t = {<<0, 1>>, <<0, 2>>, <<1, -1>>, <<1, 0>>, <<1, 1>>, <<2, 0>>}
      /\ \A d \in DOMAIN t : t[d] = 1
  BY DEF Kernels
<1> PICK O : O = {}
  OBVIOUS
<1> PICK A : A = O \cup {<<0, 1>>}
  OBVIOUS
<1>2. /\ Others(A, <<0, 2>>, <<1, -1>>, <<1, 0>>, <<1, 1>>, <<2, 0>>)
      /\ DOMAIN t = A \cup {<<0, 2>>, <<1, -1>>, <<1, 0>>, <<1, 1>>, <<2, 0>>}
  BY <1>1 DEF Others
<1>3. Adds(t, O, 0)
  BY AddsNone
<1>4. Adds(t, A, 0 + 1)
  BY <1>1, <1>3, AddsNext
<1>5. Weights(t, <<0, 2>>, <<1, -1>>, <<1, 0>>, <<1, 1>>, <<2, 0>>, 5)
  BY <1>1 DEF Weights
<1>6. Adds(t, A, 1)
  BY <1>4
<1> PICK D : D = DOMAIN t
  OBVIOUS
<1>7. Adds(t, D, 1 + 5)
  BY <1>2, <1>5, <1>6, AddsFive
<1>. QED  BY <1>7

LEMMA JarvisTotal == Adds(Kernels["jarvis"].targets, DOMAIN Kernels["jarvis"].targets, 48)
<1> PICK t : t = Kernels["jarvis"].targets
  OBVIOUS
<1> PICK D : D = ({0} \X (1..2)) \cup ((1..2) \X (-2..2))
  OBVIOUS
<1>1. t = [d \in D |-> LET away == IF d[2] < 0 THEN d[1] - d[2] ELSE d[1] + d[2] IN 9 - 2 * away]
  BY DEF Kernels
<1> PICK O : O = {}
  OBVIOUS
<1> PICK A : A = O \cup {<<0, 1>>}
  OBVIOUS
<1> PICK B : B = A \cup {<<0, 2>>}
  OBVIOUS
<1> PICK C : C = B \cup {<<1, -2>>, <<1, -1>>, <<1, 0>>, <<1, 1>>, <<1, 2>>}
  OBVIOUS
<1>2. D = C \cup {<<2, -2>>, <<2, -1>>, <<2, 0>>, <<2, 1>>, <<2, 2>>}
  OBVIOUS
<1>3. /\ <<0, 1>> \in D /\ <<0, 2>> \in D
      /\ \A r \in 1..2 : \A c \in -2..2 : <<r, c>> \in D
  OBVIOUS
<1>4. t[<<0, 1>>] = 7 /\ t[<<0, 2>>] = 5
  BY <1>1, <1>3
<1>5. \A r \in 1..2 : /\ t[<<r, -2>>] = 5 - 2 * r /\ t[<<r, -1>>] = 7 - 2 * r /\ t[<<r, 0>>] = 9 - 2 * r
                      /\ t[<<r, 1>>] = 7 - 2 * r /\ t[<<r, 2>>] = 5 - 2 * r
  BY <1>1, <1>3
<1>6. Adds(t, O, 0)
  BY AddsNone
<1>7. Adds(t, A, 0 + 7)
  BY <1>4, <1>6, AddsNext
<1>8. Adds(t, B, 7 + 5)
  <2>1. <<0, 2>> \notin A /\ Adds(t, A, 7)
    BY <1>7
  <2>. QED  BY <1>4, <2>1, AddsNext
<1>9. Adds(t, C, 12 + 23)
  <2>1. Others(B, <<1, -2>>, <<1, -1>>, <<1, 0>>, <<1, 1>>, <<1, 2>>) /\ Adds(t, B, 12)
    BY <1>8 DEF Others
  <2>2. Weights(t, <<1, -2>>, <<1, -1>>, <<1, 0>>, <<1, 1>>, <<1, 2>>, 23)
    BY <1>5 DEF Weights
  <2>. QED  BY <2>1, <2>2, AddsFive
<1>10. Adds(t, D, 35 + 13)
  <2>1. Others(C, <<2, -2>>, <<2, -1>>, <<2, 0>>, <<2, 1>>, <<2, 2>>) /\ Adds(t, C, 35)
    BY <1>9 DEF Others
  <2>2. Weights(t, <<2, -2>>, <<2, -1>>, <<2, 0>>, <<2, 1>>, <<2, 2>>, 13)
    BY <1>5 DEF Weights
  <2>. QED  BY <1>2, <2>1, <2>2, AddsFive
<1>. QED  BY <1>1, <1>10

LEMMA KernelTotal ==
  ASSUME NEW k \in DOMAIN Kernels
  PROVE  /\ IsFiniteSet(DOMAIN Kernels[k].targets)
         /\ Sum(Kernels[k].targets, DOMAIN Kernels[k].targets) \in Nat
         /\ Sum(Kernels[k].targets, DOMAIN Kernels[k].targets) <= Kernels[k].denominator
<1>1. DOMAIN Kernels = {"floyd", "atkinson", "jarvis"}
  BY DEF Kernels
<1>2. /\ Kernels["floyd"].denominator = 16 /\ Kernels["atkinson"].denominator = 8
      /\ Kernels["jarvis"].denominator = 48
  BY DEF Kernels
<1>. QED  BY <1>1, <1>2, FloydTotal, AtkinsonTotal, JarvisTotal DEF Adds

\* Pixels are told apart by their row and column.
LEMMA PlacesDiffer ==
  ASSUME NEW w \in Nat \ {0}, NEW p \in Nat, NEW q \in Nat, p \div w = q \div w, p % w = q % w
  PROVE  p = q
<1>1. p = w * (p \div w) + (p % w) /\ q = w * (q \div w) + (q % w)
  OBVIOUS
<1>. QED  BY <1>1

LEMMA PlaceInGrid ==
  ASSUME NEW w \in Nat \ {0}, NEW h \in Nat \ {0}, NEW p \in 0..(w * h - 1)
  PROVE  p \div w \in 0..(h - 1) /\ p % w \in 0..(w - 1)
<1> PICK q \in Nat : q = p \div w
  OBVIOUS
<1>1. w * q <= p /\ p < w * h /\ p % w \in 0..(w - 1)
  OBVIOUS
<1>2. q < h
  <2> SUFFICES ASSUME h <= q PROVE FALSE
    OBVIOUS
  <2>1. PICK r \in Nat : q = h + r
    <3>1. q - h \in Nat /\ q = h + (q - h)
      OBVIOUS
    <3>. QED  BY <3>1
  <2>2. w * (h + r) = w * h + w * r /\ w * r \in Nat /\ w * h \in Nat
    OBVIOUS
  <2>. QED  BY <1>1, <2>1, <2>2
<1>. QED  BY <1>1, <1>2

\* What a target gets of an error, in whole numbers, is no more than its part of it.
LEMMA ShareBelow ==
  ASSUME NEW e \in Nat, NEW n \in Nat, NEW d \in Nat \ {0}
  PROVE  Share(e, n, d) \in Nat /\ d * Share(e, n, d) <= e * n
<1>1. PICK m \in Nat : m = e * n
  OBVIOUS
<1>2. m \div d \in Nat /\ d * (m \div d) <= m
  OBVIOUS
<1>3. Share(e, n, d) = m \div d
  BY <1>1 DEF Share
<1>. QED  BY <1>1, <1>2, <1>3

\* The pixel in hand: what was there, how much of it is not written, and who gets how much.
Places == 0..(PixelCount - 1)
TheKernel == Kernels[effect.kernel]
OldShade == Clamp(buffer[pixel], 0, 255)
NewShade == Shade(OldShade, Step(effect.number))
Away(p, n) == <<Row(p) - Row(n), Col(p) - Col(n)>>
Passed(p) ==
  IF <<Row(p), Col(p)>> \in Targets(picture, effect.kernel, Row(pixel), Col(pixel))
  THEN Share(OldShade - NewShade, TheKernel.targets[Away(p, pixel)], TheKernel.denominator) ELSE 0

LEMMA PictureFacts ==
  ASSUME GrayInv
  PROVE  /\ picture.width \in Nat \ {0} /\ picture.height \in Nat \ {0}
         /\ PixelCount = picture.width * picture.height /\ PixelCount \in Nat
         /\ picture.data \in [Places -> 0..255]
         /\ \A p \in Places : /\ Row(p) \in 0..(picture.height - 1) /\ Col(p) \in 0..(picture.width - 1)
                              /\ p \in Nat
<1>1. /\ picture.width \in Nat \ {0} /\ picture.height \in Nat \ {0}
      /\ picture.data \in [0..(picture.width * picture.height - 1) -> 0..255]
  BY PicturesAreGray DEF GrayInv
<1>2. PICK w \in Nat \ {0}, h \in Nat \ {0} : w = picture.width /\ h = picture.height
  BY <1>1
<1>3. \A p \in 0..(w * h - 1) : p \div w \in 0..(h - 1) /\ p % w \in 0..(w - 1) /\ p \in Nat
  <2> TAKE p \in 0..(w * h - 1)
  <2>1. p \div w \in 0..(h - 1) /\ p % w \in 0..(w - 1)
    BY PlaceInGrid
  <2>2. w * h \in Nat
    OBVIOUS
  <2>. QED  BY <2>1, <2>2
<1>4. PixelCount = w * h /\ w * h \in Nat /\ Places = 0..(w * h - 1)
  BY <1>2 DEF PixelCount, Places
<1>. QED  BY <1>1, <1>2, <1>3, <1>4 DEF Row, Col

LEMMA DiffusedFacts ==
  ASSUME GrayInv, DiffusedPixel
  PROVE  /\ effect.name = "diffusion" /\ effect' = effect /\ picture' = picture
         /\ pixel' = pixel + 1 /\ pixel \in Places /\ PixelCount' = PixelCount
         /\ effect.kernel \in DOMAIN Kernels /\ Step(effect.number) \in 1..255
         /\ OldShade \in 0..255 /\ OldShade <= buffer[pixel]
         /\ NewShade \in 0..OldShade /\ OldShade - NewShade \in 0..(Step(effect.number) - 1)
         /\ result' = [result EXCEPT ![pixel] = NewShade]
         /\ buffer' = [p \in Places |-> buffer[p] + Passed(p)]
<1>1. /\ effect.name = "diffusion" /\ effect' = effect /\ picture' = picture /\ pixel' = pixel + 1
      /\ pixel < PixelCount /\ PixelCount' = PixelCount
      /\ result' = [result EXCEPT ![pixel] = NewShade]
  BY DEF DiffusedPixel, PixelCount, NewShade, OldShade
<1>2. effect.kernel \in DOMAIN Kernels /\ Step(effect.number) \in 1..255
  BY <1>1, EffectParameters, StepPositive DEF GrayInv
<1>3. pixel \in Places
  BY <1>1, PictureFacts DEF GrayInv, Places
<1>4. OldShade \in 0..255 /\ OldShade <= buffer[pixel]
  <2>1. buffer[pixel] \in Nat
    BY <1>3 DEF GrayInv, Places
  <2>. QED  BY <2>1 DEF OldShade, Clamp, AtMost
<1>5. NewShade \in 0..OldShade /\ OldShade - NewShade \in 0..(Step(effect.number) - 1)
  <2> PICK o \in 0..255, s \in 1..255 : o = OldShade /\ s = Step(effect.number)
    BY <1>2, <1>4
  <2>1. Shade(o, s) = (o \div s) * s /\ Shade(o, s) \in 0..o
    BY ShadeBelow
  <2>2. o - (o \div s) * s \in 0..(s - 1)
    OBVIOUS
  <2>3. NewShade = Shade(o, s)
    BY DEF NewShade
  <2>. QED  BY <2>1, <2>2, <2>3
<1>6. buffer' = [p \in Places |-> buffer[p] + Passed(p)]
  <2>1. \A p \in Places : buffer[p] \in Nat
    BY DEF GrayInv, Places
  <2>2. \A p \in Places :
          (IF <<Row(p), Col(p)>> \in Targets(picture, effect.kernel, Row(pixel), Col(pixel))
           THEN buffer[p] + Share(OldShade - NewShade, TheKernel.targets[Away(p, pixel)],
                                  TheKernel.denominator)
           ELSE buffer[p]) = buffer[p] + Passed(p)
    BY <2>1 DEF Passed
  <2>3. DOMAIN buffer = Places
    BY DEF GrayInv, Places
  <2>4. buffer' = [p \in Places |->
          IF <<Row(p), Col(p)>> \in Targets(picture, effect.kernel, Row(pixel), Col(pixel))
          THEN buffer[p] + Share(OldShade - NewShade, TheKernel.targets[Away(p, pixel)],
                                 TheKernel.denominator)
          ELSE buffer[p]]
    BY <2>3 DEF DiffusedPixel, OldShade, NewShade, TheKernel, Away
  <2>. QED  BY <2>2, <2>4
<1>. QED  BY <1>1, <1>2, <1>3, <1>4, <1>5, <1>6

\* A pixel of the picture gets its part exactly when the kernel has its offset.
LEMMA PassedBelow ==
  ASSUME GrayInv, DiffusedPixel, NEW p \in Places
  PROVE  /\ Passed(p) \in Nat
         /\ Away(p, pixel) \notin DOMAIN TheKernel.targets => Passed(p) = 0
         /\ Away(p, pixel) \in DOMAIN TheKernel.targets =>
              /\ TheKernel.targets[Away(p, pixel)] \in Nat
              /\ TheKernel.denominator * Passed(p)
                   <= (OldShade - NewShade) * TheKernel.targets[Away(p, pixel)]
<1>1. /\ effect.kernel \in DOMAIN Kernels /\ pixel \in Places
      /\ OldShade - NewShade \in Nat
  BY DiffusedFacts
<1>2. /\ TheKernel.denominator \in Nat \ {0}
      /\ \A d \in DOMAIN TheKernel.targets : d \in Int \X Int /\ TheKernel.targets[d] \in Nat
  BY <1>1, KernelsPositive DEF TheKernel
<1>3. PICK r \in Nat, c \in Nat, s \in Nat, b \in Nat :
        r = Row(p) /\ c = Col(p) /\ s = Row(pixel) /\ b = Col(pixel)
  BY <1>1, PictureFacts
<1>4. Away(p, pixel) = <<r - s, c - b>>
  BY <1>3 DEF Away
<1>5. <<Row(p), Col(p)>> \in Targets(picture, effect.kernel, Row(pixel), Col(pixel))
        <=> Away(p, pixel) \in DOMAIN TheKernel.targets
  <2>1. <<r, c>> \in (0..picture.height - 1) \X (0..picture.width - 1)
    BY <1>3, PictureFacts
  <2>2. Targets(picture, effect.kernel, Row(pixel), Col(pixel))
          = {<<s + d[1], b + d[2]>> : d \in DOMAIN TheKernel.targets}
              \cap ((0..picture.height - 1) \X (0..picture.width - 1))
    BY <1>3 DEF Targets, TheKernel
  <2>3. ASSUME NEW d \in DOMAIN TheKernel.targets, <<r, c>> = <<s + d[1], b + d[2]>>
        PROVE  d = <<r - s, c - b>>
    <3>1. PICK x \in Int, y \in Int : d = <<x, y>>
      BY <1>2
    <3>. QED  BY <2>3, <3>1
  <2>4. ASSUME <<r - s, c - b>> \in DOMAIN TheKernel.targets
        PROVE  <<r, c>> \in {<<s + d[1], b + d[2]>> : d \in DOMAIN TheKernel.targets}
    <3>1. PICK d \in DOMAIN TheKernel.targets : d = <<r - s, c - b>>
      BY <2>4
    <3>2. s + d[1] = r /\ b + d[2] = c
      BY <3>1
    <3>. QED  BY <3>2
  <2>. QED  BY <1>3, <1>4, <2>1, <2>2, <2>3, <2>4
<1>6. CASE Away(p, pixel) \in DOMAIN TheKernel.targets
  <2>1. PICK e \in Nat, n \in Nat, d \in Nat \ {0} :
          e = OldShade - NewShade /\ n = TheKernel.targets[Away(p, pixel)] /\ d = TheKernel.denominator
    BY <1>1, <1>2, <1>6
  <2>2. Passed(p) = Share(e, n, d)
    BY <1>5, <1>6, <2>1 DEF Passed
  <2>3. Share(e, n, d) \in Nat /\ d * Share(e, n, d) <= e * n
    BY ShareBelow
  <2>. QED  BY <1>6, <2>1, <2>2, <2>3
<1>7. CASE Away(p, pixel) \notin DOMAIN TheKernel.targets
  BY <1>5, <1>7 DEF Passed
<1>. QED  BY <1>6, <1>7

\* All that a pixel passes on to some others is no more than its error.
LEMMA LightPassed ==
  ASSUME GrayInv, DiffusedPixel, NEW L \in SUBSET Places, NEW given, \A p \in L : given[p] = Passed(p)
  PROVE  /\ \A p \in L : given[p] \in Nat
         /\ Sum(given, L) \in Nat /\ Sum(given, L) <= OldShade - NewShade
<1>1. /\ effect.kernel \in DOMAIN Kernels /\ OldShade - NewShade \in Nat
      /\ pixel \in Places
  BY DiffusedFacts
<1>2. PICK D, weight : D = DOMAIN TheKernel.targets /\ weight = TheKernel.targets
  OBVIOUS
<1>3. /\ TheKernel.denominator \in Nat \ {0} /\ \A d \in D : weight[d] \in Nat
  BY <1>1, <1>2, KernelsPositive DEF TheKernel
<1>4. PICK n \in Nat \ {0} : n = TheKernel.denominator
  BY <1>3
<1>5. PICK e \in Nat : e = OldShade - NewShade
  BY <1>1
<1>6. IsFiniteSet(D) /\ Sum(weight, D) \in Nat /\ Sum(weight, D) <= n
  BY <1>1, <1>2, <1>4, KernelTotal DEF TheKernel
<1>7. IsFiniteSet(L)
  <2>1. IsFiniteSet(Places)
    BY PictureFacts, FS_Interval DEF Places
  <2>. QED  BY <2>1, FS_Subset
<1>8. \A p \in L : given[p] \in Nat
  BY PassedBelow
<1> DEFINE f == [p \in L |-> n * given[p]]
           g == [d \in D |-> e * weight[d]]
           to == [p \in L |-> Away(p, pixel)]
<1>9. \A p \in L : f[p] \in Nat /\ f[p] = n * given[p]
  <2> TAKE p \in L
  <2>1. PICK m \in Nat : m = given[p]
    BY <1>8
  <2>2. n * m \in Nat
    OBVIOUS
  <2>. QED  BY <2>1, <2>2
<1>10. \A d \in D : g[d] \in Nat /\ g[d] = e * weight[d]
  <2> TAKE d \in D
  <2>1. PICK m \in Nat : m = weight[d]
    BY <1>3
  <2>2. e * m \in Nat
    OBVIOUS
  <2>. QED  BY <2>1, <2>2
<1>11. \A p \in L : f[p] = 0 \/ (to[p] \in D /\ f[p] <= g[to[p]])
  <2> TAKE p \in L
  <2>1. to[p] = Away(p, pixel) /\ f[p] = n * given[p] /\ given[p] = Passed(p)
    OBVIOUS
  <2>2. CASE Away(p, pixel) \in D
    <3>1. n * Passed(p) <= e * weight[Away(p, pixel)]
      BY <1>2, <1>4, <1>5, <2>2, PassedBelow
    <3> HIDE DEF f, g, to
    <3>2. g[to[p]] = e * weight[Away(p, pixel)]
      BY <1>10, <2>1, <2>2
    <3>. QED  BY <2>1, <2>2, <3>1, <3>2
  <2>3. CASE Away(p, pixel) \notin D
    <3>1. Passed(p) = 0
      BY <1>2, <2>3, PassedBelow
    <3>2. n * 0 = 0
      OBVIOUS
    <3> HIDE DEF f, g, to
    <3>. QED  BY <2>1, <3>1, <3>2
  <2>. QED  BY <2>2, <2>3
<1>12. \A p, q \in L : to[p] = to[q] => p = q
  <2> SUFFICES ASSUME NEW p \in L, NEW q \in L, Away(p, pixel) = Away(q, pixel) PROVE p = q
    OBVIOUS
  <2>1. /\ Row(p) \in Nat /\ Col(p) \in Nat /\ Row(q) \in Nat /\ Col(q) \in Nat
        /\ Row(pixel) \in Nat /\ Col(pixel) \in Nat /\ p \in Nat /\ q \in Nat
        /\ picture.width \in Nat \ {0}
    BY <1>1, PictureFacts
  <2>2. Row(p) = Row(q) /\ Col(p) = Col(q)
    <3>1. Row(p) - Row(pixel) = Row(q) - Row(pixel) /\ Col(p) - Col(pixel) = Col(q) - Col(pixel)
      BY DEF Away
    <3>. QED  BY <2>1, <3>1
  <2>3. PICK w \in Nat \ {0} : w = picture.width
    BY <2>1
  <2>. QED  BY <2>1, <2>2, <2>3, PlacesDiffer DEF Row, Col
<1> HIDE DEF f, g, to
<1>13. Sum(f, L) <= Sum(g, D)
  BY <1>6, <1>7, <1>9, <1>10, <1>11, <1>12, SumInjected
<1>14. Sum(f, L) = n * Sum(given, L) /\ Sum(given, L) \in Int
  BY <1>7, <1>8, <1>9, SumScaled
<1>15. Sum(g, D) = e * Sum(weight, D)
  <2>1. \A d \in D : weight[d] \in Int
    BY <1>3
  <2>. QED  BY <1>6, <1>10, <2>1, SumScaled
<1>16. Sum(given, L) \in Nat
  <2> PICK none : none = [p \in L |-> p]
    OBVIOUS
  <2>1. \A p \in L : none[p] \in L /\ given[p] <= given[none[p]]
    BY <1>8
  <2>2. \A p, q \in L : none[p] = none[q] => p = q
    OBVIOUS
  <2>. QED  BY <1>7, <1>8, <2>1, <2>2, SumInjected
<1>17. Sum(given, L) <= e
  <2>1. PICK s \in Nat, t \in Nat : s = Sum(given, L) /\ t = Sum(weight, D)
    BY <1>6, <1>16
  <2>2. n * s <= e * t /\ t <= n
    BY <1>6, <1>13, <1>14, <1>15, <2>1
  <2>3. e * t <= e * n
    BY <2>2
  <2>4. n * s <= n * e
    BY <2>2, <2>3
  <2>5. s <= e
    BY <2>4
  <2>. QED  BY <2>1, <2>5
<1>. QED  BY <1>5, <1>8, <1>16, <1>17

\* What has been written are shades, and the light is not more than the picture's.
LightInv ==
  /\ result \in [Places -> 0..255] /\ pixel \in 0..PixelCount
  /\ NoLightCreated

LEMMA LightInit ==
  ASSUME Init, GrayInv
  PROVE  LightInv
<1>1. pixel = 0 /\ result = [p \in Places |-> 0] /\ buffer = picture.data
  BY DEF Init, Places
<1>2. PixelCount \in Nat /\ picture.data \in [Places -> 0..255]
  BY PictureFacts
<1>3. Sum(result, 0..(0 - 1)) = 0
  <2>1. 0..(0 - 1) = {}
    OBVIOUS
  <2>. QED  BY <2>1, SumEmpty
<1>4. Sum(picture.data, Places) \in Int
  <2>1. IsFiniteSet(Places)
    BY <1>2, FS_Interval DEF Places
  <2>2. PICK d : d = picture.data
    OBVIOUS
  <2>3. \A p \in Places : d[p] \in Int
    BY <1>2, <2>2
  <2>. QED  BY <2>1, <2>2, <2>3, SumAny DEF SumRight
<1>5. NoLightCreated
  BY <1>1, <1>3, <1>4 DEF NoLightCreated, Places
<1>. QED  BY <1>1, <1>2, <1>5 DEF LightInv

\* A pixel of the diffusion keeps the sum of what is written and what is left.
LEMMA LightKept ==
  ASSUME GrayInv, LightInv, DiffusedPixel
  PROVE  LightInv'
<1> PICK P : P = Places
  OBVIOUS
<1>0. PICK N \in Nat : N = PixelCount
  BY PictureFacts
<1>1. PICK i \in 0..(N - 1) : N = PixelCount /\ i = pixel /\ P = 0..(N - 1)
  BY <1>0, DiffusedFacts DEF Places
<1> PICK L : L = (i + 1)..(N - 1)
  OBVIOUS
<1> PICK W : W = 0..(i - 1)
  OBVIOUS
<1>2. i..(N - 1) = L \cup {i} /\ i \notin L /\ 0..i = W \cup {i} /\ i \notin W
  BY <1>1
<1>2a. i \in P /\ (\A p \in L : p \in P) /\ \A p \in W : p \in P /\ p # i
  BY <1>1
<1>3. IsFiniteSet(L) /\ IsFiniteSet(W) /\ IsFiniteSet(P)
  BY <1>1, FS_Interval
<1>4. PICK given : given = [p \in P |-> Passed(p)]
  OBVIOUS
<1>5. PICK b, c, r, s : b = buffer /\ c = buffer' /\ r = result /\ s = result'
  OBVIOUS
<1>6. PICK old \in Nat, new \in Nat : old = OldShade /\ new = NewShade /\ new <= 255
  <2>1. OldShade \in 0..255 /\ NewShade \in 0..OldShade
    BY DiffusedFacts
  <2>2. OldShade \in Nat /\ NewShade \in Nat /\ NewShade <= 255
    BY <2>1
  <2>. QED  BY <2>2
<1>6a. old <= b[i]
  BY <1>1, <1>5, <1>6, DiffusedFacts
<1>7. /\ \A p \in P : b[p] \in Nat /\ b[p] \in Int
      /\ \A p \in P : c[p] = b[p] + Passed(p)
  <2>1. b \in [P -> Nat] /\ c = [p \in P |-> b[p] + Passed(p)]
    BY <1>5, DiffusedFacts DEF GrayInv, Places
  <2>. QED  BY <2>1
<1>7a. r \in [P -> 0..255] /\ s = [r EXCEPT ![i] = new]
  BY <1>1, <1>5, <1>6, DiffusedFacts DEF LightInv
<1>8. s \in [P -> 0..255] /\ s[i] = new /\ \A p \in P : p # i => s[p] = r[p]
  BY <1>2a, <1>6, <1>7a
<1>8a. \A p \in P : s[p] \in Int /\ r[p] \in Int
  BY ONLY <1>7a, <1>8
<1>9. /\ \A p \in L : given[p] \in Nat
      /\ Sum(given, L) \in Nat /\ Sum(given, L) <= old - new
  <2>1. \A p \in L : given[p] = Passed(p)
    BY <1>2a, <1>4
  <2>2. L \in SUBSET Places
    BY <1>2a
  <2>. QED  BY <1>6, <2>1, <2>2, LightPassed
<1>10. Sum(c, L) = Sum(b, L) + Sum(given, L) /\ Sum(b, L) \in Int
  <2>1. \A p \in L : b[p] \in Int /\ given[p] \in Int /\ c[p] = b[p] + given[p]
    <3> TAKE p \in L
    <3>1. given[p] = Passed(p) /\ given[p] \in Nat /\ p \in P
      BY <1>2a, <1>4, <1>9
    <3>2. c[p] = b[p] + Passed(p) /\ b[p] \in Int
      BY <1>7, <3>1
    <3>. QED  BY <3>1, <3>2
  <2>. QED  BY <1>3, <2>1, SumAdded
<1>11. Sum(b, L \cup {i}) = Sum(b, L) + b[i]
  <2>1. \A p \in L \cup {i} : b[p] \in Int
    BY ONLY <1>2a, <1>7
  <2>. QED  BY ONLY <1>2, <1>3, <2>1, SumWith
<1>12. Sum(s, W) = Sum(r, W) /\ Sum(r, W) \in Int
  <2>1. \A p \in W : r[p] \in Int /\ s[p] = r[p]
    BY ONLY <1>2a, <1>8, <1>8a
  <2>. QED  BY <1>3, <2>1, SumSame
<1>13. Sum(s, W \cup {i}) = Sum(s, W) + new
  <2>1. \A p \in W \cup {i} : s[p] \in Int
    BY ONLY <1>2a, <1>8a
  <2>2. Sum(s, W \cup {i}) = Sum(s, W) + s[i]
    BY ONLY <1>2, <1>3, <2>1, SumWith
  <2>. QED  BY ONLY <1>8, <2>2
<1>14. NoLightCreated'
  <2>1. /\ effect' = effect /\ effect.name = "diffusion" /\ pixel' = i + 1 /\ PixelCount' = N
        /\ picture' = picture
    BY <1>1, DiffusedFacts
  <2>2. PICK all : all = Sum(picture.data, 0..(N - 1))
    OBVIOUS
  <2>3. Sum(r, W) + Sum(b, L \cup {i}) <= all
    BY <1>1, <1>2, <1>5, <2>1, <2>2 DEF LightInv, NoLightCreated
  <2>4. all \in Int
    <3>1. PICK d : d = picture.data
      OBVIOUS
    <3>2. d \in [P -> 0..255]
      BY <3>1, PictureFacts
    <3>3. \A p \in P : d[p] \in Int
      BY ONLY <3>2
    <3>. QED  BY <1>1, <1>3, <2>2, <3>1, <3>3, SumAny DEF SumRight
  <2>5. PICK u \in Int, v \in Int, x \in Nat, y \in Nat :
          u = Sum(r, W) /\ v = Sum(b, L) /\ x = Sum(given, L) /\ y = b[i]
    BY <1>2a, <1>7, <1>9, <1>10, <1>12
  <2>6. u + (v + y) <= all /\ x <= old - new /\ old <= y
    BY <1>6a, <1>9, <1>11, <2>3, <2>5
  <2>7. (u + new) + (v + x) <= all
    BY <2>4, <2>6
  <2>8. Sum(s, 0..i) + Sum(c, L) <= all
    BY <1>2, <1>10, <1>12, <1>13, <2>5, <2>7
  <2>9. 0..((i + 1) - 1) = 0..i
    BY <1>1
  <2>. QED  BY <1>5, <2>1, <2>2, <2>8, <2>9 DEF NoLightCreated
<1>15. pixel' \in 0..PixelCount' /\ Places' = P
  BY <1>1, DiffusedFacts DEF Places
<1>. QED  BY <1>5, <1>8, <1>14, <1>15 DEF LightInv

LEMMA LightStep ==
  ASSUME GrayInv, LightInv, [Next]_vars
  PROVE  LightInv'
<1>1. CASE OrderedPixel
  <2>1. /\ UNCHANGED <<picture, effect, buffer>> /\ pixel' = pixel + 1 /\ pixel < PixelCount
        /\ effect.name = "ordered" /\ PixelCount' = PixelCount
    BY <1>1 DEF OrderedPixel, PixelCount
  <2>2. \E v \in 0..255 : result' = [result EXCEPT ![pixel] = v]
    <3>1. \/ result' = [result EXCEPT ![pixel] = 255]
          \/ result' = [result EXCEPT ![pixel] = 0]
      BY <1>1 DEF OrderedPixel
    <3>. QED  BY <3>1
  <2>3. pixel' \in 0..PixelCount
    BY <2>1, PictureFacts DEF LightInv
  <2>. QED  BY <2>1, <2>2, <2>3 DEF LightInv, NoLightCreated, Places
<1>2. CASE DiffusedPixel
  BY <1>2, LightKept
<1>3. CASE UNCHANGED vars
  BY <1>3 DEF vars, LightInv, NoLightCreated, Places, PixelCount
<1>4. CASE Done
  BY <1>3, <1>4 DEF Done
<1>. QED  BY <1>1, <1>2, <1>3, <1>4 DEF Next

\* The error diffusion creates no light in a picture of any size: what is written and what
\* is still to be handled are together at most what there was, at every pixel.
THEOREM LightNeverCreated == Spec => []NoLightCreated
<1>1. Init => GrayInv /\ LightInv
  BY GrayInit, LightInit
<1>2. GrayInv /\ ShadesAsAsked /\ LightInv /\ [Next]_vars
        => (GrayInv /\ ShadesAsAsked /\ LightInv)'
  BY GrayStep, LightStep
<1>3. LightInv => NoLightCreated
  BY DEF LightInv
<1>. QED  BY <1>1, <1>2, <1>3, GrayInit, PTL DEF Spec

-----------------------------------------------------------------------------
(***************************************************************************)
(* How much a pixel has received: no more than its part of the errors of   *)
(* the pixels handled, which are less than a step each.                    *)
(***************************************************************************)
Heard(p) == {d \in DOMAIN TheKernel.targets : \E n \in 0..(pixel - 1) : Away(p, n) = d}

RoomInv ==
  /\ effect.name = "ordered" => buffer = picture.data
  /\ effect.name = "diffusion" =>
       \A p \in Places : TheKernel.denominator * (buffer[p] - picture.data[p])
                           <= (Step(effect.number) - 1) * Sum(TheKernel.targets, Heard(p))

LEMMA RoomInit ==
  ASSUME Init, GrayInv
  PROVE  RoomInv
<1> SUFFICES ASSUME effect.name = "diffusion", NEW p \in Places
             PROVE  TheKernel.denominator * (buffer[p] - picture.data[p])
                      <= (Step(effect.number) - 1) * Sum(TheKernel.targets, Heard(p))
  BY DEF Init, RoomInv
<1>1. effect.kernel \in DOMAIN Kernels /\ Step(effect.number) \in 1..255
  BY EffectParameters, StepPositive DEF GrayInv
<1>2. PICK n \in Nat \ {0} : n = TheKernel.denominator
  BY <1>1, KernelsPositive DEF TheKernel
<1>3. Heard(p) = {}
  BY DEF Heard, Init
<1>4. Sum(TheKernel.targets, Heard(p)) = 0
  BY <1>3, SumEmpty
<1>5. buffer[p] - picture.data[p] = 0
  <2>1. buffer[p] = picture.data[p] /\ picture.data[p] \in 0..255
    BY PictureFacts DEF Init
  <2>. QED  BY <2>1
<1>6. PICK s \in 1..255 : s = Step(effect.number)
  BY <1>1
<1>7. n * 0 <= (s - 1) * 0
  OBVIOUS
<1>. QED  BY <1>2, <1>4, <1>5, <1>6, <1>7

\* The sum over what the other pixels have passed on.
LEMMA HeardSum ==
  ASSUME GrayInv, effect.kernel \in DOMAIN Kernels, NEW p \in Places
  PROVE  /\ IsFiniteSet(Heard(p)) /\ Sum(TheKernel.targets, Heard(p)) \in Nat
         /\ Sum(TheKernel.targets, Heard(p)) <= TheKernel.denominator
<1>1. PICK f, D, H : f = TheKernel.targets /\ D = DOMAIN f /\ H = Heard(p)
  OBVIOUS
<1>2. H \in SUBSET D
  BY <1>1 DEF Heard
<1>3. IsFiniteSet(D) /\ Sum(f, D) \in Nat /\ Sum(f, D) <= TheKernel.denominator
  BY <1>1, KernelTotal DEF TheKernel
<1>4. \A d \in D : f[d] \in Nat
  BY <1>1, KernelsPositive DEF TheKernel
<1>5. IsFiniteSet(H) /\ \A d \in H : f[d] \in Nat
  BY <1>2, <1>3, <1>4, FS_Subset
<1> PICK to : to = [d \in H |-> d]
  OBVIOUS
<1>6. /\ \A d \in H : to[d] \in D /\ f[d] <= f[to[d]]
      /\ \A d, e \in H : to[d] = to[e] => d = e
  BY <1>2, <1>4
<1>7. Sum(f, H) <= Sum(f, D) /\ Sum(f, H) \in Nat
  BY <1>3, <1>4, <1>5, <1>6, SumInjected
<1>8. TheKernel.denominator \in Nat
  BY KernelsPositive DEF TheKernel
<1>. QED  BY <1>1, <1>3, <1>5, <1>7, <1>8

\* The pixel handled is heard from once.
LEMMA HeardNext ==
  ASSUME GrayInv, DiffusedPixel, NEW p \in Places
  PROVE  /\ Away(p, pixel) \notin Heard(p)
         /\ Heard(p)' = Heard(p) \cup ({Away(p, pixel)} \cap DOMAIN TheKernel.targets)
<1>1. PICK i \in Nat : i = pixel /\ i \in Places
  BY DiffusedFacts, PictureFacts
<1>2. pixel' = i + 1 /\ TheKernel' = TheKernel /\ picture' = picture
  BY <1>1, DiffusedFacts DEF TheKernel
<1>3. \A n : Away(p, n)' = Away(p, n)
  BY <1>2 DEF Away, Row, Col
<1>4. ASSUME NEW n \in 0..(i - 1), Away(p, n) = Away(p, i) PROVE FALSE
  <2>1. n \in Places /\ n \in Nat
    BY <1>1, PictureFacts DEF Places
  <2>2. /\ Row(p) \in Nat /\ Col(p) \in Nat /\ Row(n) \in Nat /\ Col(n) \in Nat
        /\ Row(i) \in Nat /\ Col(i) \in Nat /\ picture.width \in Nat \ {0}
    BY <1>1, <2>1, PictureFacts
  <2>3. Row(p) - Row(n) = Row(p) - Row(i) /\ Col(p) - Col(n) = Col(p) - Col(i)
    BY <1>4 DEF Away
  <2>4. Row(n) = Row(i) /\ Col(n) = Col(i)
    BY <2>2, <2>3
  <2>5. PICK w \in Nat \ {0} : w = picture.width
    BY <2>2
  <2>6. n = i
    BY <2>1, <2>4, <2>5, PlacesDiffer DEF Row, Col
  <2>. QED  BY <2>6
<1>5. Heard(p) = {d \in DOMAIN TheKernel.targets : \E n \in 0..(i - 1) : Away(p, n) = d}
  BY <1>1 DEF Heard
<1>6. Heard(p)' = {d \in DOMAIN TheKernel.targets : \E n \in 0..i : Away(p, n) = d}
  <2>1. Heard(p)' = {d \in DOMAIN TheKernel.targets : \E n \in 0..((i + 1) - 1) : Away(p, n) = d}
    BY <1>2, <1>3 DEF Heard
  <2>. QED  BY <2>1
<1>7. \A n : n \in 0..i <=> n \in 0..(i - 1) \/ n = i
  OBVIOUS
<1>. QED  BY <1>1, <1>4, <1>5, <1>6, <1>7

LEMMA RoomFor ==
  ASSUME NEW n \in Nat, NEW b \in Nat, NEW x \in Nat, NEW s \in Nat, NEW u \in Nat, NEW w \in Nat,
         NEW e \in 0..s, n * b <= s * u, n * x <= e * w
  PROVE  n * (b + x) <= s * (u + w)
<1>1. n * (b + x) = n * b + n * x /\ s * (u + w) = s * u + s * w
  OBVIOUS
<1>2. e * w <= s * w
  <2>1. PICK r \in Nat : s = e + r
    <3> PICK q : q = s - e
      OBVIOUS
    <3>1. q \in Nat /\ s = e + q
      OBVIOUS
    <3>. QED  BY <3>1
  <2>2. s * w = e * w + r * w /\ r * w \in Nat /\ e * w \in Nat
    BY <2>1
  <2>. QED  BY <2>2
<1>3. n * b \in Nat /\ n * x \in Nat /\ s * u \in Nat /\ s * w \in Nat /\ e * w \in Nat
  OBVIOUS
<1>. QED  BY <1>1, <1>2, <1>3

LEMMA RoomKept ==
  ASSUME GrayInv, RoomInv, DiffusedPixel
  PROVE  RoomInv'
<1>1. /\ effect.name = "diffusion" /\ effect' = effect /\ picture' = picture /\ Places' = Places
      /\ effect.kernel \in DOMAIN Kernels /\ TheKernel' = TheKernel
  BY DiffusedFacts DEF Places, TheKernel
<1>2. PICK s \in Nat : s = Step(effect.number) - 1 /\ OldShade - NewShade \in 0..s
  <2>1. PICK t \in 1..255 : t = Step(effect.number)
    BY DiffusedFacts
  <2>2. t - 1 \in Nat
    OBVIOUS
  <2>. QED  BY <2>1, <2>2, DiffusedFacts
<1>3. PICK n \in Nat : n = TheKernel.denominator
  BY <1>1, KernelsPositive DEF TheKernel
<1>4. PICK e \in 0..s : e = OldShade - NewShade
  BY <1>2
<1>5. PICK f : f = TheKernel.targets
  OBVIOUS
<1>6. ASSUME NEW p \in Places
      PROVE  n * (buffer'[p] - picture.data[p]) <= s * Sum(f, Heard(p)')
  <2>1. PICK b \in Nat, v \in 0..255 : b = buffer[p] - v /\ v = picture.data[p] /\ buffer[p] = b + v
    <3>1. PICK y \in Nat, v \in 0..255 : y = buffer[p] /\ v = picture.data[p] /\ v <= y
      BY PictureFacts DEF GrayInv, Places
    <3> PICK z : z = y - v
      OBVIOUS
    <3>2. v <= y
      BY <3>1
    <3>3. z \in Nat /\ y = z + v
      BY ONLY y \in Nat, v \in 0..255, <3>2, z = y - v
    <3>. QED  BY <3>1, <3>3
  <2>2. PICK x \in Nat : x = Passed(p) /\ buffer'[p] = buffer[p] + x
    BY PassedBelow, DiffusedFacts
  <2>3. PICK H : H = Heard(p)
    OBVIOUS
  <2>4. PICK u \in Nat : u = Sum(f, H)
    BY <1>1, <1>5, <2>3, HeardSum
  <2>5. n * b <= s * u
    BY <1>1, <1>2, <1>3, <1>5, <2>1, <2>3, <2>4 DEF RoomInv
  <2>6. buffer'[p] - v = b + x
    BY <2>1, <2>2
  <2>7. CASE Away(p, pixel) \in DOMAIN f
    <3>1. PICK d : d = Away(p, pixel)
      OBVIOUS
    <3>2. PICK w \in Nat : w = f[d] /\ n * x <= e * w
      BY <1>3, <1>4, <1>5, <2>2, <2>7, <3>1, PassedBelow
    <3>3. d \notin H /\ Heard(p)' = H \cup {d}
      BY <1>5, <2>3, <2>7, <3>1, HeardNext
    <3>4. IsFiniteSet(H) /\ \A c \in H \cup {d} : f[c] \in Int
      <4>1. \A c \in DOMAIN f : f[c] \in Nat
        BY <1>1, <1>5, KernelsPositive DEF TheKernel
      <4>2. H \in SUBSET DOMAIN f
        BY <1>5, <2>3 DEF Heard
      <4>. QED  BY <1>1, <2>3, <2>7, <3>1, <4>1, <4>2, HeardSum
    <3>5. Sum(f, H \cup {d}) = u + w
      BY <2>4, <3>2, <3>3, <3>4, SumWith
    <3>6. n * (b + x) <= s * (u + w)
      BY <2>5, <3>2, RoomFor
    <3>. QED  BY <2>1, <2>6, <3>3, <3>5, <3>6
  <2>8. CASE Away(p, pixel) \notin DOMAIN f
    <3>1. x = 0 /\ Heard(p)' = H
      BY <1>5, <2>2, <2>3, <2>8, PassedBelow, HeardNext
    <3>. QED  BY <2>1, <2>4, <2>5, <2>6, <3>1
  <2>. QED  BY <2>7, <2>8
<1>. QED  BY <1>1, <1>2, <1>3, <1>5, <1>6 DEF RoomInv

LEMMA RoomStep ==
  ASSUME GrayInv, RoomInv, [Next]_vars
  PROVE  RoomInv'
<1>1. CASE OrderedPixel
  BY <1>1 DEF OrderedPixel, RoomInv
<1>2. CASE DiffusedPixel
  BY <1>2, RoomKept
<1>3. CASE UNCHANGED vars
  BY <1>3 DEF vars, RoomInv, Places, PixelCount, TheKernel, Heard, Away, Row, Col
<1>4. CASE Done
  BY <1>3, <1>4 DEF Done
<1>. QED  BY <1>1, <1>2, <1>3, <1>4 DEF Next

LEMMA RoomMeans ==
  ASSUME GrayInv, LightInv, RoomInv
  PROVE  TypeOK
<1>1. effect \in Effects /\ pixel \in 0..PixelCount /\ result \in [Places -> 0..255]
      /\ picture.data \in [Places -> 0..255]
  BY PictureFacts DEF GrayInv, LightInv
<1>2. PICK t \in 1..255 : t = Step(effect.number)
  <2>1. effect.number \in 2..256
    BY <1>1, SizesArePowers, LevelsHaveStep DEF Effects, PowersOfTwo
  <2>. QED  BY <2>1, StepPositive
<1>3. ASSUME NEW p \in Places PROVE buffer[p] \in 0..(254 + t)
  <2>1. PICK y \in Nat, v \in 0..255 : y = buffer[p] /\ v = picture.data[p] /\ v <= y
    BY <1>1 DEF GrayInv, Places
  <2>2. CASE effect.name = "ordered"
    BY <1>2, <2>1, <2>2 DEF RoomInv
  <2>3. CASE effect.name = "diffusion"
    <3>1. effect.kernel \in DOMAIN Kernels
      BY <1>1, <2>3, EffectParameters
    <3>2. PICK n \in Nat \ {0}, u \in Nat :
            n = TheKernel.denominator /\ u = Sum(TheKernel.targets, Heard(p)) /\ u <= n
      BY <3>1, KernelsPositive, HeardSum DEF TheKernel
    <3>3. PICK b \in Nat : b = y - v
      BY <2>1
    <3>4. n * b <= (t - 1) * u
      BY <1>2, <2>1, <2>3, <3>2, <3>3 DEF RoomInv
    <3>5. b <= t - 1
      <4>1. PICK s \in Nat : s = t - 1
        OBVIOUS
      <4>2. s * u <= s * n
        BY <3>2
      <4>3. n * b <= n * s
        BY <3>4, <4>1, <4>2
      <4>4. b <= s
        BY <4>3
      <4>. QED  BY <4>1, <4>4
    <3>6. y <= 254 + t
      BY <2>1, <3>3, <3>5
    <3>. QED  BY <2>1, <3>6
  <2>. QED  BY <1>1, <2>2, <2>3, EffectParameters
<1>4. buffer \in [Places -> 0..(254 + t)]
  BY <1>3 DEF GrayInv, Places
<1>. QED  BY <1>1, <1>2, <1>4 DEF TypeOK, Places

\* Whatever the picture, the shades written are from 0 to 255, and no sample of the copy
\* that the diffusion works on ever comes to 255 and a whole step.
THEOREM BufferHasRoom == Spec => []TypeOK
<1>1. Init => GrayInv /\ LightInv /\ RoomInv
  BY GrayInit, LightInit, RoomInit
<1>2. GrayInv /\ ShadesAsAsked /\ LightInv /\ RoomInv /\ [Next]_vars
        => (GrayInv /\ ShadesAsAsked /\ LightInv /\ RoomInv)'
  BY GrayStep, LightStep, RoomStep
<1>3. GrayInv /\ LightInv /\ RoomInv => TypeOK
  BY RoomMeans
<1>. QED  BY <1>1, <1>2, <1>3, GrayInit, PTL DEF Spec

-----------------------------------------------------------------------------
(***************************************************************************)
(* The ordered dithering.  Each number below n*n is in one place of the    *)
(* matrix of size n, so that a tile of one shade has a white pixel for     *)
(* each number whose threshold the shade exceeds.                          *)
(***************************************************************************)
\* Six sizes: the recursion is written out.
LEMMA MatricesAre ==
  /\ BayerMatrix[2] = TwoByTwo
  /\ \A n \in PowersOfTwo \ {2} : BayerMatrix[n] = Doubled(n, BayerMatrix[n \div 2])
<1> DEFINE m4 == Doubled(4, TwoByTwo)
           m8 == Doubled(8, m4)
           m16 == Doubled(16, m8)
           m32 == Doubled(32, m16)
           m64 == Doubled(64, m32)
           Is(f) == f = [n \in PowersOfTwo |-> IF n = 2 THEN TwoByTwo ELSE Doubled(n, f[n \div 2])]
           g == [n \in PowersOfTwo |->
                   CASE n = 2 -> TwoByTwo [] n = 4 -> m4 [] n = 8 -> m8 [] n = 16 -> m16
                     [] n = 32 -> m32 [] OTHER -> m64]
<1>1. /\ g[2] = TwoByTwo /\ g[4] = m4 /\ g[8] = m8 /\ g[16] = m16 /\ g[32] = m32 /\ g[64] = m64
  <2> HIDE DEF m4, m8, m16, m32, m64
  <2>. QED  BY DEF PowersOfTwo
<1>2. \A n \in PowersOfTwo : g[n] = IF n = 2 THEN TwoByTwo ELSE Doubled(n, g[n \div 2])
  <2> TAKE n \in PowersOfTwo
  <2> HIDE DEF g
  <2>1. n \in {2, 4, 8, 16, 32, 64}
    BY DEF PowersOfTwo
  <2>2. 4 \div 2 = 2 /\ 8 \div 2 = 4 /\ 16 \div 2 = 8 /\ 32 \div 2 = 16 /\ 64 \div 2 = 32
    OBVIOUS
  <2>3. CASE n = 2
    BY <1>1, <2>3
  <2>4. CASE n = 4
    BY <1>1, <2>2, <2>4
  <2>5. CASE n = 8
    BY <1>1, <2>2, <2>5
  <2>6. CASE n = 16
    BY <1>1, <2>2, <2>6
  <2>7. CASE n = 32
    BY <1>1, <2>2, <2>7
  <2>8. CASE n = 64
    BY <1>1, <2>2, <2>8
  <2>. QED  BY <2>1, <2>3, <2>4, <2>5, <2>6, <2>7, <2>8
<1>3. Is(g)
  <2> HIDE DEF m4, m8, m16, m32, m64
  <2>1. g = [n \in PowersOfTwo |-> g[n]]
    OBVIOUS
  <2> HIDE DEF g
  <2>. QED  BY <1>2, <2>1
<1>4. Is(BayerMatrix)
  <2>1. BayerMatrix = CHOOSE f : Is(f)
    BY Zenon DEF BayerMatrix
  <2> HIDE DEF Is
  <2>. QED  BY <1>3, <2>1, Zenon
<1>5. \A n \in PowersOfTwo : BayerMatrix[n] = IF n = 2 THEN TwoByTwo ELSE Doubled(n, BayerMatrix[n \div 2])
  BY ONLY <1>4
<1>6. 2 \in PowersOfTwo
  BY DEF PowersOfTwo
<1>. QED  BY ONLY <1>5, <1>6, Zenon

\* Each of the first F numbers is in one place of the matrix M.
Numbers(n, M, F) ==
  /\ F \in Nat
  /\ \A r, c \in 0..(n - 1) : M[r][c] \in 0..(F - 1)
  /\ \A r, c, s, d \in 0..(n - 1) : M[r][c] = M[s][d] => r = s /\ c = d
  /\ \A k \in 0..(F - 1) : \E r, c \in 0..(n - 1) : M[r][c] = k
Numbered(n, b) == Numbers(n, b.matrix, b.constant_factor)

LEMMA TwoByTwoNumbers == Numbered(2, TwoByTwo) /\ TwoByTwo.constant_factor = 2 * 2
<1>1. /\ TwoByTwo.constant_factor = 4
      /\ TwoByTwo.matrix = [r \in 0..1 |-> [c \in 0..1 |-> Quadrant(r = 1, c = 1)]]
  BY DEF TwoByTwo
<1>2. \A r, c \in 0..1 : TwoByTwo.matrix[r][c] = (IF r = 1 THEN (IF c = 1 THEN 1 ELSE 3) ELSE (IF c = 1 THEN 2 ELSE 0))
  BY <1>1 DEF Quadrant
<1>3. /\ TwoByTwo.matrix[0][0] = 0 /\ TwoByTwo.matrix[0][1] = 2
      /\ TwoByTwo.matrix[1][0] = 3 /\ TwoByTwo.matrix[1][1] = 1
  BY <1>2
<1>4. 0..(2 - 1) = {0, 1} /\ 0..(4 - 1) = {0, 1, 2, 3}
  OBVIOUS
<1>5. PICK M : M = TwoByTwo.matrix
  OBVIOUS
<1>6. Numbers(2, M, 4)
  BY ONLY <1>3, <1>4, <1>5 DEF Numbers
<1>. QED  BY ONLY <1>1, <1>5, <1>6 DEF Numbered

LEMMA NumbersDoubled ==
  ASSUME NEW h \in Nat \ {0}, NEW n, n = 2 * h, NEW sub, Numbered(h, sub), NEW b, b = Doubled(n, sub)
  PROVE  Numbered(n, b) /\ b.constant_factor = 4 * sub.constant_factor
<1>0. n \div 2 = h
  OBVIOUS
<1> PICK F \in Nat : F = sub.constant_factor
  BY DEF Numbered, Numbers
<1>1. PICK S : F = sub.constant_factor /\ S = sub.matrix /\ Numbers(h, S, F)
  BY DEF Numbered
<1>2. b.constant_factor = 4 * F
  BY <1>1 DEF Doubled
<1>3. PICK M : M = b.matrix
  OBVIOUS
<1>4. \A r, c \in 0..(n - 1) :
        M[r][c] = 4 * S[r % h][c % h]
                    + (IF r >= h THEN (IF c >= h THEN 1 ELSE 3) ELSE (IF c >= h THEN 2 ELSE 0))
  <2>1. M = [r \in 0..(n - 1) |-> [c \in 0..(n - 1) |-> 4 * S[r % h][c % h] + Quadrant(r >= h, c >= h)]]
    BY <1>0, <1>1, <1>3 DEF Doubled
  <2>. QED  BY ONLY <2>1 DEF Quadrant
<1>5. /\ \A r, c \in 0..(h - 1) : S[r][c] \in 0..(F - 1)
      /\ \A r, c, s, d \in 0..(h - 1) : S[r][c] = S[s][d] => r = s /\ c = d
      /\ \A k \in 0..(F - 1) : \E r, c \in 0..(h - 1) : S[r][c] = k
  BY <1>1 DEF Numbers
\* A row, or column, is known by the one of the smaller matrix and its half.
<1>6. /\ \A r \in 0..(n - 1) : r % h \in 0..(h - 1) /\ r = (r % h) + (IF r >= h THEN h ELSE 0)
      /\ \A r \in 0..(h - 1) : /\ r \in 0..(n - 1) /\ r % h = r /\ ~(r >= h)
                               /\ r + h \in 0..(n - 1) /\ (r + h) % h = r /\ r + h >= h
  <2>1. ASSUME NEW r \in 0..(n - 1)
        PROVE  r % h \in 0..(h - 1) /\ r = (r % h) + (IF r >= h THEN h ELSE 0)
    <3>1. CASE r >= h
      <4>1. r - h \in 0..(h - 1)
        BY <3>1
      <4>2. r % h = r - h
        BY <4>1
      <4>. QED  BY <3>1, <4>1, <4>2
    <3>2. CASE r < h
      BY <3>2
    <3>. QED  BY <3>1, <3>2
  <2>2. ASSUME NEW r \in 0..(h - 1)
        PROVE  /\ r \in 0..(n - 1) /\ r % h = r /\ ~(r >= h)
               /\ r + h \in 0..(n - 1) /\ (r + h) % h = r /\ r + h >= h
    OBVIOUS
  <2>. QED  BY <2>1, <2>2
<1>7. ASSUME NEW r \in 0..(n - 1), NEW c \in 0..(n - 1)
      PROVE  \E a \in 0..(F - 1), q \in 0..3 :
               /\ a = S[r % h][c % h] /\ M[r][c] = 4 * a + q
               /\ q = (IF r >= h THEN (IF c >= h THEN 1 ELSE 3) ELSE (IF c >= h THEN 2 ELSE 0))
  <2>1. PICK a \in 0..(F - 1) : a = S[r % h][c % h]
    BY <1>5, <1>6
  <2>2. PICK q \in 0..3 : q = (IF r >= h THEN (IF c >= h THEN 1 ELSE 3) ELSE (IF c >= h THEN 2 ELSE 0))
    OBVIOUS
  <2>. QED  BY <1>4, <2>1, <2>2
<1>8. \A r, c \in 0..(n - 1) : M[r][c] \in 0..(4 * F - 1)
  BY <1>7
<1>9. ASSUME NEW r \in 0..(n - 1), NEW c \in 0..(n - 1), NEW s \in 0..(n - 1), NEW d \in 0..(n - 1),
             M[r][c] = M[s][d]
      PROVE  r = s /\ c = d
  <2>1. PICK a \in 0..(F - 1), q \in 0..3 :
          /\ a = S[r % h][c % h] /\ M[r][c] = 4 * a + q
          /\ q = (IF r >= h THEN (IF c >= h THEN 1 ELSE 3) ELSE (IF c >= h THEN 2 ELSE 0))
    BY ONLY <1>7, r \in 0..(n - 1), c \in 0..(n - 1), Zenon
  <2>2. PICK k \in 0..(F - 1), p \in 0..3 :
          /\ k = S[s % h][d % h] /\ M[s][d] = 4 * k + p
          /\ p = (IF s >= h THEN (IF d >= h THEN 1 ELSE 3) ELSE (IF d >= h THEN 2 ELSE 0))
    BY ONLY <1>7, s \in 0..(n - 1), d \in 0..(n - 1), Zenon
  <2>3. a = k /\ q = p
    <3>1. 4 * a + q = 4 * k + p
      BY <1>9, <2>1, <2>2
    <3>. QED  BY <3>1
  <2>4. r % h = s % h /\ c % h = d % h
    <3>1. PICK r0 \in 0..(h - 1), c0 \in 0..(h - 1), s0 \in 0..(h - 1), d0 \in 0..(h - 1) :
            r0 = r % h /\ c0 = c % h /\ s0 = s % h /\ d0 = d % h
      BY <1>6
    <3>2. S[r0][c0] = S[s0][d0]
      BY <2>1, <2>2, <2>3, <3>1
    <3>3. r0 = s0 /\ c0 = d0
      BY ONLY <1>5, <3>1, <3>2
    <3>. QED  BY <3>1, <3>3
  <2>5. (r >= h <=> s >= h) /\ (c >= h <=> d >= h)
    BY ONLY <2>1, <2>2, <2>3
  <2>6. /\ r = (r % h) + (IF r >= h THEN h ELSE 0) /\ s = (s % h) + (IF s >= h THEN h ELSE 0)
        /\ c = (c % h) + (IF c >= h THEN h ELSE 0) /\ d = (d % h) + (IF d >= h THEN h ELSE 0)
    BY <1>6
  <2>. QED  BY ONLY <2>4, <2>5, <2>6
<1>10. ASSUME NEW k \in 0..(4 * F - 1)
       PROVE  \E r, c \in 0..(n - 1) : M[r][c] = k
  <2>1. PICK a \in 0..(F - 1), q \in 0..3 : k = 4 * a + q
    <3>1. k \div 4 \in 0..(F - 1) /\ k % 4 \in 0..3 /\ k = 4 * (k \div 4) + (k % 4)
      OBVIOUS
    <3>. QED  BY <3>1
  <2>2. PICK r \in 0..(h - 1), c \in 0..(h - 1) : S[r][c] = a
    BY <1>5
  <2>3. PICK s \in 0..(n - 1) : s % h = r /\ (s >= h <=> q \in {1, 3})
    <3>1. CASE q \in {1, 3}
      <4>1. r + h \in 0..(n - 1) /\ (r + h) % h = r /\ r + h >= h
        BY <1>6
      <4>. QED  BY <3>1, <4>1
    <3>2. CASE q \notin {1, 3}
      <4>1. r \in 0..(n - 1) /\ r % h = r /\ ~(r >= h)
        BY <1>6
      <4>. QED  BY <3>2, <4>1
    <3>. QED  BY <3>1, <3>2
  <2>4. PICK d \in 0..(n - 1) : d % h = c /\ (d >= h <=> q \in {1, 2})
    <3>1. CASE q \in {1, 2}
      <4>1. c + h \in 0..(n - 1) /\ (c + h) % h = c /\ c + h >= h
        BY <1>6
      <4>. QED  BY <3>1, <4>1
    <3>2. CASE q \notin {1, 2}
      <4>1. c \in 0..(n - 1) /\ c % h = c /\ ~(c >= h)
        BY <1>6
      <4>. QED  BY <3>2, <4>1
    <3>. QED  BY <3>1, <3>2
  <2>5. M[s][d] = 4 * S[r][c] + (IF s >= h THEN (IF d >= h THEN 1 ELSE 3) ELSE (IF d >= h THEN 2 ELSE 0))
    BY <1>4, <2>3, <2>4
  <2>6. (IF s >= h THEN (IF d >= h THEN 1 ELSE 3) ELSE (IF d >= h THEN 2 ELSE 0)) = q
    BY <2>3, <2>4
  <2>. QED  BY <2>1, <2>2, <2>5, <2>6
<1>11. Numbers(n, M, 4 * F)
  BY <1>1, <1>8, <1>9, <1>10 DEF Numbers
<1>. QED  BY <1>1, <1>2, <1>3, <1>11 DEF Numbered

\* For every size of the page.
LEMMA MatrixNumbers ==
  ASSUME NEW n \in PowersOfTwo
  PROVE  Numbered(n, BayerMatrix[n]) /\ BayerMatrix[n].constant_factor = n * n
<1> DEFINE Right(m) == Numbered(m, BayerMatrix[m]) /\ BayerMatrix[m].constant_factor = m * m
<1>1. Right(2)
  BY MatricesAre, TwoByTwoNumbers
<1>2. ASSUME NEW h \in {2, 4, 8, 16, 32}, Right(h)
      PROVE  Right(2 * h)
  <2>1. h \in Nat \ {0} /\ 2 * h \in PowersOfTwo \ {2} /\ (2 * h) \div 2 = h
    BY DEF PowersOfTwo
  <2>2. BayerMatrix[2 * h] = Doubled(2 * h, BayerMatrix[h])
    BY <2>1, MatricesAre
  <2>3. /\ Numbered(2 * h, BayerMatrix[2 * h])
        /\ BayerMatrix[2 * h].constant_factor = 4 * BayerMatrix[h].constant_factor
    <3>1. PICK m, sub, b : m = 2 * h /\ sub = BayerMatrix[h] /\ b = BayerMatrix[2 * h]
      OBVIOUS
    <3>2. h \in Nat \ {0} /\ Numbered(h, sub) /\ b = Doubled(m, sub)
      BY <1>2, <2>1, <2>2, <3>1
    <3>3. Numbered(m, b) /\ b.constant_factor = 4 * sub.constant_factor
      BY ONLY <3>1, <3>2, NumbersDoubled
    <3>. QED  BY <3>1, <3>3
  <2>4. 4 * (h * h) = (2 * h) * (2 * h)
    OBVIOUS
  <2>. QED  BY <1>2, <2>3, <2>4
<1> HIDE DEF Right
<1>3. Right(4) /\ Right(8) /\ Right(16) /\ Right(32) /\ Right(64)
  <2>1. 2 * 2 = 4 /\ 2 * 4 = 8 /\ 2 * 8 = 16 /\ 2 * 16 = 32 /\ 2 * 32 = 64
    OBVIOUS
  <2>2. Right(4)
    BY <1>1, <1>2, <2>1
  <2>3. Right(8)
    BY <1>2, <2>1, <2>2
  <2>4. Right(16)
    BY <1>2, <2>1, <2>3
  <2>5. Right(32)
    BY <1>2, <2>1, <2>4
  <2>6. Right(64)
    BY <1>2, <2>1, <2>5
  <2>. QED  BY <2>2, <2>3, <2>4, <2>5, <2>6
<1>4. Right(n)
  BY <1>1, <1>3 DEF PowersOfTwo
<1>. QED  BY <1>4 DEF Right

\* A set that is told apart by the numbers below K has K elements.
LEMMA NumberedSet ==
  ASSUME NEW W, NEW K \in Nat, NEW f \in [W -> 0..(K - 1)],
         \A p, q \in W : f[p] = f[q] => p = q, \A k \in 0..(K - 1) : \E p \in W : f[p] = k
  PROVE  Cardinality(W) = K
<1> PICK N : N = 0..(K - 1)
  OBVIOUS
<1> DEFINE g == [k \in N |-> CHOOSE p \in W : f[p] = k]
<1>1. \A k \in N : g[k] \in W /\ f[g[k]] = k
  OBVIOUS
<1>2. g \in [N -> W]
  BY <1>1
<1>3. \A k, l \in N : g[k] = g[l] => k = l
  BY <1>1
<1>4. \A p \in W : f[p] \in N /\ g[f[p]] = p
  BY <1>1
<1> HIDE DEF g
<1>5. g \in Bijection(N, W)
  BY <1>2, <1>3, <1>4 DEF Bijection, Injection, Surjection, IsInjective
<1>6. ExistsBijection(N, W)
  BY <1>5 DEF ExistsBijection
<1>7. IsFiniteSet(N) /\ Cardinality(N) = K
  BY FS_Interval
<1>. QED  BY <1>6, <1>7, FS_Bijection

\* The thresholds that a value exceeds are those of the first numbers.
LEMMA Exceeded ==
  ASSUME NEW V \in Nat, NEW k \in Nat
  PROVE  (V + 254) \div 255 \in Nat /\ (V > k * 255 <=> k < (V + 254) \div 255)
OBVIOUS

LEMMA Quotient ==
  ASSUME NEW n \in Nat \ {0}, NEW q \in Nat, NEW r \in 0..(n - 1)
  PROVE  q * n + r \in Nat /\ (q * n + r) \div n = q /\ (q * n + r) % n = r
<1>1. PICK m \in Nat : m = q * n
  OBVIOUS
<1>2. PICK p \in Nat : p = m + r
  OBVIOUS
<1>3. p \in Nat /\ p = n * (p \div n) + (p % n) /\ p \div n \in Nat /\ p % n \in 0..(n - 1)
  OBVIOUS
<1>4. p \div n = q
  <2>1. PICK d \in Nat : d = p \div n
    BY <1>3
  <2>2. n * q <= p /\ p < n * q + n /\ n * d <= p /\ p < n * d + n
    BY <1>1, <1>2, <1>3, <2>1
  <2>3. ~(d < q)
    <3> SUFFICES ASSUME d < q PROVE FALSE
      OBVIOUS
    <3>1. PICK e \in Nat : q = d + 1 + e
      <4>1. q - d - 1 \in Nat /\ q = d + 1 + (q - d - 1)
        OBVIOUS
      <4>. QED  BY <4>1
    <3>2. n * q = n * d + n + n * e /\ n * e \in Nat
      BY <3>1
    <3>. QED  BY <2>2, <3>2
  <2>4. ~(q < d)
    <3> SUFFICES ASSUME q < d PROVE FALSE
      OBVIOUS
    <3>1. PICK e \in Nat : d = q + 1 + e
      <4>1. d - q - 1 \in Nat /\ d = q + 1 + (d - q - 1)
        OBVIOUS
      <4>. QED  BY <4>1
    <3>2. n * d = n * q + n + n * e /\ n * e \in Nat
      BY <3>1
    <3>. QED  BY <2>2, <3>2
  <2>. QED  BY <2>1, <2>3, <2>4
<1>. QED  BY <1>1, <1>2, <1>3, <1>4

\* A row of a tile that is whole is a row of the picture.
LEMMA InTile ==
  ASSUME NEW n \in Nat \ {0}, NEW h \in Nat, NEW t \in 0..(h \div n - 1), NEW r \in 0..(n - 1)
  PROVE  t * n + r \in 0..(h - 1)
<1>1. PICK d \in Nat : d = h \div n /\ n * d <= h
  OBVIOUS
<1>2. PICK e \in Nat : d = t + 1 + e
  <2>1. d - t - 1 \in Nat /\ d = t + 1 + (d - t - 1)
    BY <1>1
  <2>. QED  BY <2>1
<1>3. n * d = t * n + n + n * e /\ n * e \in Nat /\ t * n \in Nat
  BY <1>2
<1>. QED  BY <1>1, <1>3

\* The pixels of a tile, and that a shade is dithered over them.
Tile(T, n, w, h, t, u) ==
  T = {p \in 0..(w * h - 1) : (p \div w) \div n = t /\ (p % w) \div n = u}
Dithered(out, T, v, n, w) ==
  \A p \in T : out[p] = IF v * BayerMatrix[n].constant_factor
                             > BayerMatrix[n].matrix[(p \div w) % n][(p % w) % n] * 255
                        THEN 255 ELSE 0

\* The white pixels of a tile, and how many there should be.
White(W, T, out) == W = {p \in T : out[p] = 255}
AsMany(W, v, n) == Cardinality(W) = (v * n * n + 254) \div 255

LEMMA TileTone ==
  ASSUME NEW n \in PowersOfTwo, NEW w \in Nat \ {0}, NEW h \in Nat \ {0}, NEW v \in 0..255,
         NEW t \in 0..(h \div n - 1), NEW u \in 0..(w \div n - 1),
         NEW T, Tile(T, n, w, h, t, u), NEW out, Dithered(out, T, v, n, w),
         NEW W, White(W, T, out)
  PROVE  AsMany(W, v, n)
<1>0. n \in Nat \ {0}
  BY DEF PowersOfTwo
<1> PICK F \in Nat : F = n * n
  BY <1>0
<1>1. PICK M : M = BayerMatrix[n].matrix /\ BayerMatrix[n].constant_factor = F /\ Numbers(n, M, F)
  BY MatrixNumbers DEF Numbered
<1>2. PICK V \in Nat : V = v * F
  OBVIOUS
<1> PICK K \in Nat : K = (V + 254) \div 255
  OBVIOUS
<1>3. K = (v * n * n + 254) \div 255
  <2>1. v * n * n = v * (n * n)
    BY <1>0
  <2>. QED  BY <1>2, <2>1
<1>4. K <= F
  <2>1. V <= 255 * F
    <3>1. PICK e \in Nat : e = 255 - v
      OBVIOUS
    <3>2. 255 * F = v * F + e * F /\ e * F \in Nat
      BY <3>1
    <3>. QED  BY <1>2, <3>2
  <2>. QED  BY <2>1
<1>5. ASSUME NEW p \in T
      PROVE  /\ p \in Nat /\ p \div w \in Nat /\ p % w \in Nat
             /\ (p \div w) \div n = t /\ (p % w) \div n = u
             /\ (p \div w) % n \in 0..(n - 1) /\ (p % w) % n \in 0..(n - 1)
  <2>1. p \in 0..(w * h - 1) /\ (p \div w) \div n = t /\ (p % w) \div n = u
    BY DEF Tile
  <2>2. p \div w \in 0..(h - 1) /\ p % w \in 0..(w - 1)
    BY ONLY <2>1, PlaceInGrid
  <2>3. p \div w \in Nat /\ p % w \in Nat
    BY ONLY <2>2
  <2>4. \A a \in Nat : a % n \in 0..(n - 1)
    BY <1>0
  <2>5. p \in Nat
    <3>1. w * h \in Nat
      OBVIOUS
    <3>. QED  BY ONLY <2>1, <3>1
  <2>. QED  BY ONLY <2>1, <2>3, <2>4, <2>5
<1> PICK At : At = [p \in T |-> M[(p \div w) % n][(p % w) % n]]
  OBVIOUS
<1>6. \A p \in T : At[p] \in Nat /\ At[p] \in 0..(F - 1) /\ (out[p] = 255 <=> At[p] \in 0..(K - 1))
  <2> TAKE p \in T
  <2>1. PICK r \in 0..(n - 1), c \in 0..(n - 1) : r = (p \div w) % n /\ c = (p % w) % n
    BY <1>5
  <2>2. PICK k \in Nat : k = M[r][c] /\ k \in 0..(F - 1)
    <3>1. M[r][c] \in 0..(F - 1)
      BY ONLY <1>1, <2>1 DEF Numbers
    <3>2. 0..(F - 1) \subseteq Nat
      OBVIOUS
    <3>. QED  BY ONLY <3>1, <3>2
  <2>3. At[p] = k
    BY <2>1, <2>2
  <2>4. out[p] = IF V > k * 255 THEN 255 ELSE 0
    <3>1. out[p] = IF v * BayerMatrix[n].constant_factor
                        > BayerMatrix[n].matrix[(p \div w) % n][(p % w) % n] * 255
                   THEN 255 ELSE 0
      BY DEF Dithered
    <3>. QED  BY ONLY <1>1, <1>2, <2>1, <2>2, <3>1
  <2>5. V > k * 255 <=> k < K
    BY Exceeded
  <2>. QED  BY <2>2, <2>3, <2>4, <2>5
<1>7. ASSUME NEW p \in T, NEW q \in T, At[p] = At[q]
      PROVE  p = q
  <2>1. PICK r \in 0..(n - 1), c \in 0..(n - 1) : r = (p \div w) % n /\ c = (p % w) % n
    BY <1>5
  <2>2. PICK s \in 0..(n - 1), d \in 0..(n - 1) : s = (q \div w) % n /\ d = (q % w) % n
    BY <1>5
  <2>3. M[r][c] = M[s][d]
    BY <1>7, <2>1, <2>2
  <2>4. r = s /\ c = d
    BY ONLY <1>1, <2>1, <2>2, <2>3 DEF Numbers
  <2>5. p \div w = q \div w /\ p % w = q % w
    <3>1. PICK a \in Nat, b \in Nat : a = p \div w /\ b = p % w
      BY <1>5
    <3>2. PICK x \in Nat, y \in Nat : x = q \div w /\ y = q % w
      BY <1>5
    <3>3. a \div n = x \div n /\ a % n = x % n /\ b \div n = y \div n /\ b % n = y % n
      BY <1>5, <2>1, <2>2, <2>4, <3>1, <3>2
    <3>4. a = x /\ b = y
      BY ONLY <3>3, PlacesDiffer, <1>0, a \in Nat, x \in Nat, b \in Nat, y \in Nat
    <3>. QED  BY <3>1, <3>2, <3>4
  <2>. QED  BY <1>5, <2>5, PlacesDiffer
<1>8. ASSUME NEW k \in 0..(F - 1)
      PROVE  \E p \in T : At[p] = k
  <2>1. PICK r \in 0..(n - 1), c \in 0..(n - 1) : M[r][c] = k
    BY <1>1 DEF Numbers
  <2>2. PICK x \in 0..(h - 1), y \in 0..(w - 1) : x = t * n + r /\ y = u * n + c
    <3>1. t * n + r \in 0..(h - 1)
      BY <1>0, <2>1, InTile
    <3>2. u * n + c \in 0..(w - 1)
      BY <1>0, <2>1, InTile
    <3>. QED  BY ONLY <3>1, <3>2
  <2>3. x \div n = t /\ x % n = r /\ y \div n = u /\ y % n = c
    <3>1. t \in Nat /\ u \in Nat
      OBVIOUS
    <3>. QED  BY ONLY <1>0, <2>1, <2>2, <3>1, Quotient
  <2>4. PICK p : p = x * w + y /\ p \in Nat /\ p \div w = x /\ p % w = y
    <3>1. x \in Nat /\ w \in Nat \ {0} /\ y \in 0..(w - 1)
      OBVIOUS
    <3>2. x * w + y \in Nat /\ (x * w + y) \div w = x /\ (x * w + y) % w = y
      BY ONLY <3>1, Quotient
    <3>. QED  BY ONLY <3>2
  <2>5. p \in 0..(w * h - 1)
    <3>1. PICK e \in Nat : h = x + 1 + e
      <4>1. h - x - 1 \in Nat /\ h = x + 1 + (h - x - 1)
        OBVIOUS
      <4>. QED  BY <4>1
    <3>2. w * h = x * w + w + w * e /\ w * e \in Nat /\ w * h \in Nat
      BY <3>1
    <3>. QED  BY <2>4, <3>2
  <2>6. p \in T
    BY <2>3, <2>4, <2>5 DEF Tile
  <2>. QED  BY <2>1, <2>3, <2>4, <2>6
<1>9. Cardinality(W) = K
  <2>0. W = {p \in T : out[p] = 255}
    BY DEF White
  <2>1. PICK f : f = [p \in W |-> At[p]]
    OBVIOUS
  <2>2. f \in [W -> 0..(K - 1)] /\ \A p \in W : f[p] = At[p] /\ p \in T
    BY <1>6, <2>0, <2>1
  <2>3. \A p, q \in W : f[p] = f[q] => p = q
    BY ONLY <1>7, <2>2
  <2>4. ASSUME NEW k \in 0..(K - 1) PROVE \E p \in W : f[p] = k
    <3>1. k \in 0..(F - 1)
      BY <1>4
    <3>2. PICK p \in T : At[p] = k
      BY <1>8, <3>1
    <3>3. p \in W
      BY <1>6, <2>0, <3>2
    <3>. QED  BY <2>2, <3>2, <3>3
  <2>. QED  BY ONLY K \in Nat, <2>2, <2>3, <2>4, NumberedSet
<1>. QED  BY <1>3, <1>9 DEF AsMany

\* What has been written is what the matrix says.
Toned(p) ==
  LET n == effect.number
  IN  IF picture.data[p] * BayerMatrix[n].constant_factor
           > BayerMatrix[n].matrix[Row(p) % n][Col(p) % n] * 255
      THEN 255 ELSE 0
ToneInv == effect.name = "ordered" => \A p \in 0..(PixelCount - 1) : p < pixel => result[p] = Toned(p)

LEMMA OrderedSize ==
  ASSUME effect \in Effects, effect.name = "ordered"
  PROVE  effect.number \in PowersOfTwo /\ Bayer[effect.number] = BayerMatrix[effect.number]
<1>1. effect.number \in Sizes
  BY DEF Effects
<1>. QED  BY <1>1, SizesArePowers DEF Bayer

LEMMA ToneStep ==
  ASSUME GrayInv, ToneInv, [Next]_vars
  PROVE  ToneInv'
<1>1. CASE OrderedPixel
  <2>1. /\ UNCHANGED <<picture, effect>> /\ pixel' = pixel + 1 /\ effect.name = "ordered"
        /\ pixel \in Nat /\ effect \in Effects /\ DOMAIN result = 0..(PixelCount - 1)
    BY <1>1 DEF OrderedPixel, GrayInv
  <2>2. result' = [result EXCEPT ![pixel] = Toned(pixel)]
    BY <1>1, <2>1, OrderedSize DEF OrderedPixel, Toned
  <2>3. \A p : Toned(p)' = Toned(p)
    BY <2>1 DEF Toned, Row, Col
  <2>4. PixelCount' = PixelCount
    BY <2>1 DEF PixelCount
  <2>5. ASSUME NEW p \in 0..(PixelCount - 1), p < pixel + 1
        PROVE  result'[p] = Toned(p)
    <3>1. CASE p = pixel
      BY <2>1, <2>2, <3>1
    <3>2. CASE p # pixel
      <4>1. p < pixel
        BY <2>1, <2>5, <3>2
      <4>. QED  BY <2>1, <2>2, <3>2, <4>1 DEF ToneInv
    <3>. QED  BY <3>1, <3>2
  <2>. QED  BY <2>1, <2>3, <2>4, <2>5 DEF ToneInv
<1>2. CASE DiffusedPixel
  <2>1. effect' = effect /\ effect.name = "diffusion"
    BY <1>2 DEF DiffusedPixel
  <2>. QED  BY <2>1 DEF ToneInv
<1>3. CASE UNCHANGED vars
  BY <1>3 DEF vars, ToneInv, Toned, PixelCount, Row, Col
<1>4. CASE Done
  BY <1>3, <1>4 DEF Done
<1>. QED  BY <1>1, <1>2, <1>3, <1>4 DEF Next

\* The ordered dithering keeps the tone of every whole tile of one shade, in pictures of any
\* size and for every size of the matrix that the page has (ordered_dithering.cpp).
THEOREM TonesAreKept == Spec => []ToneKept
<1>1. Init => ToneInv
  BY PicturesAreGray DEF Init, ToneInv
<1>2. GrayInv /\ ToneInv => ToneKept
  <2> SUFFICES ASSUME GrayInv, ToneInv, effect.name = "ordered", pixel = PixelCount
               PROVE  ToneKept
    BY DEF ToneKept
  <2>0. PICK w \in Nat \ {0}, h \in Nat \ {0} : w = picture.width /\ h = picture.height
    BY PicturesAreGray DEF GrayInv
  <2>1. PICK data : data = picture.data /\ data \in [0..(w * h - 1) -> 0..255]
    BY <2>0, PicturesAreGray DEF GrayInv
  <2>2. PICK n \in PowersOfTwo : n = effect.number
    BY OrderedSize DEF GrayInv
  <2>3. PICK P, out : P = 0..(w * h - 1) /\ PixelCount = w * h /\ out = result /\ DOMAIN out = P
    BY <2>0 DEF PixelCount, GrayInv
  <2>4. ASSUME NEW p \in P
        PROVE  out[p] = IF data[p] * BayerMatrix[n].constant_factor
                             > BayerMatrix[n].matrix[(p \div w) % n][(p % w) % n] * 255
                        THEN 255 ELSE 0
    <3>1. p < pixel
      BY <2>3
    <3>2. out[p] = Toned(p)
      BY <2>3, <3>1 DEF ToneInv
    <3>. QED  BY <2>0, <2>1, <2>2, <3>2 DEF Toned, Row, Col
  <2>5. ASSUME NEW t \in 0..(h \div n - 1), NEW u \in 0..(w \div n - 1), NEW T,
               T = {p \in P : (p \div w) \div n = t /\ (p % w) \div n = u},
               NEW v \in {data[p] : p \in T}, \A p \in T : data[p] = v,
               NEW W, W = {p \in T : out[p] = 255}
        PROVE  Cardinality(W) = (v * n * n + 254) \div 255
    <3>1. v \in 0..255
      BY <2>1, <2>3, <2>5
    <3>2. Dithered(out, T, v, n, w)
      BY <2>4, <2>5 DEF Dithered
    <3>3. Tile(T, n, w, h, t, u)
      BY <2>3, <2>5 DEF Tile
    <3>4. White(W, T, out)
      BY <2>5 DEF White
    <3>5. AsMany(W, v, n)
      BY ONLY <3>1, <3>2, <3>3, <3>4, TileTone
    <3>. QED  BY <3>5 DEF AsMany
  <2>6. \A p : Row(p) = p \div w /\ Col(p) = p % w
    BY <2>0 DEF Row, Col
  <2>7. \A t \in (0..(picture.height \div effect.number - 1)) \X (0..(picture.width \div effect.number - 1)) :
        \A v \in {picture.data[p] : p \in {p \in DOMAIN result : /\ Row(p) \div effect.number = t[1]
                                                                /\ Col(p) \div effect.number = t[2]}} :
          (\A p \in {p \in DOMAIN result : /\ Row(p) \div effect.number = t[1]
                                           /\ Col(p) \div effect.number = t[2]} : picture.data[p] = v)
          => Cardinality({q \in {p \in DOMAIN result : /\ Row(p) \div effect.number = t[1]
                                                       /\ Col(p) \div effect.number = t[2]} : result[q] = 255})
               = (v * effect.number * effect.number + 254) \div 255
    <3> TAKE t \in (0..(picture.height \div effect.number - 1)) \X (0..(picture.width \div effect.number - 1))
    <3>1. PICK T : T = {p \in DOMAIN result : /\ Row(p) \div effect.number = t[1]
                                              /\ Col(p) \div effect.number = t[2]}
      OBVIOUS
    <3>2. T = {p \in P : (p \div w) \div n = t[1] /\ (p % w) \div n = t[2]}
      BY <2>2, <2>3, <2>6, <3>1
    <3>3. t[1] \in 0..(h \div n - 1) /\ t[2] \in 0..(w \div n - 1)
      BY <2>0, <2>2
    <3>4. ASSUME NEW v \in {picture.data[p] : p \in T}, \A p \in T : picture.data[p] = v
          PROVE  Cardinality({q \in T : result[q] = 255}) = (v * effect.number * effect.number + 254) \div 255
      <4>1. PICK W : W = {q \in T : result[q] = 255}
        OBVIOUS
      <4>2. W = {q \in T : out[q] = 255} /\ v \in {data[p] : p \in T} /\ \A p \in T : data[p] = v
        BY <2>1, <2>3, <3>4, <4>1
      <4>3. Cardinality(W) = (v * n * n + 254) \div 255
        BY ONLY <2>5, <3>2, <3>3, <4>2
      <4>. QED  BY <2>2, <4>1, <4>3
    <3>. QED  BY ONLY <3>1, <3>4
  <2>. QED  BY ONLY <2>7, Zenon DEF ToneKept
<1>. QED  BY <1>1, <1>2, ToneStep, GrayInit, GrayStep, PTL DEF Spec
=============================================================================
