----------------------------- MODULE Dithering -----------------------------
(***************************************************************************)
(* The integer arithmetic of transform/effects/ordered_dithering.cpp and   *)
(* floyd_steinberg.cpp: from 256 shades to a few, pixel after pixel.  One  *)
(* channel is modelled; the three colours are treated alike, and apart.    *)
(***************************************************************************)
EXTENDS ImageEffects

CONSTANTS Pictures,   \* [width, height, data]: samples 0..255, indexed from 0
          Sizes,      \* n of OrderedDithering
          Levels      \* levels of FloydSteinberg

ASSUME PicturesAreGray ==
  \A p \in Pictures : /\ p.width \in Nat \ {0} /\ p.height \in Nat \ {0}
                      /\ p.data \in [0..(p.width * p.height - 1) -> 0..255]
PowersOfTwo == {2, 4, 8, 16, 32, 64}
ASSUME SizesArePowers == Sizes \subseteq PowersOfTwo
ASSUME LevelsHaveStep == Levels \subseteq 2..256

VARIABLES
  picture,   \* src
  effect,    \* which effect, and its parameter
  pixel,     \* the loops' place: the pixel to be handled next
  buffer,    \* FloydSteinberg's copy of src, with the errors passed on
  result     \* dst, as far as it is written

vars == <<picture, effect, pixel, buffer, result>>

Effects == {[name |-> "ordered", kernel |-> "none", number |-> n] : n \in Sizes}
  \cup {[name |-> "diffusion", kernel |-> k, number |-> l] : k \in DOMAIN Kernels, l \in Levels}

PixelCount == picture.width * picture.height
Row(p) == p \div picture.width
Col(p) == p % picture.width

Init ==
  /\ picture \in Pictures /\ effect \in Effects
  /\ pixel = 0 /\ buffer = picture.data
  /\ result = [p \in 0..(PixelCount - 1) |-> 0]

-----------------------------------------------------------------------------
(***************************************************************************)
(* Ordered dithering.                                                      *)
(***************************************************************************)

\* A slip: the lower quadrants in the order of the upper ones.
QuadrantTwice(lower, right) == IF right THEN 2 ELSE 0
\* What a quadrant adds, in the matrix of size 2 and in every doubling.
Quadrant(lower, right) ==
  IF lower THEN (IF right THEN 1 ELSE 3) ELSE (IF right THEN 2 ELSE 0)

TwoByTwo ==
  [matrix |-> [r \in 0..1 |-> [c \in 0..1 |-> Quadrant(r = 1, c = 1)]], constant_factor |-> 4]
Doubled(n, sub_matrix) ==
  LET half == n \div 2
  IN  [matrix |-> [r \in 0..(n - 1) |-> [c \in 0..(n - 1) |->
                     4 * sub_matrix.matrix[r % half][c % half] + Quadrant(r >= half, c >= half)]],
       constant_factor |-> 4 * sub_matrix.constant_factor]

\* build_bayer_matrix(n), from the matrix of half the size.
BayerMatrix[n \in PowersOfTwo] ==
  IF n = 2 THEN TwoByTwo ELSE Doubled(n, BayerMatrix[n \div 2])

Bayer == [n \in Sizes |-> BayerMatrix[n]]

OrderedPixel ==
  /\ effect.name = "ordered" /\ pixel < PixelCount
  /\ LET n == effect.number
         threshold == Bayer[n].matrix[Row(pixel) % n][Col(pixel) % n] * 255
     IN  result' = [result EXCEPT ![pixel] =
           IF picture.data[pixel] * Bayer[n].constant_factor > threshold THEN 255 ELSE 0]
  /\ pixel' = pixel + 1
  /\ UNCHANGED <<picture, effect, buffer>>

-----------------------------------------------------------------------------
(***************************************************************************)
(* Error diffusion.                                                        *)
(***************************************************************************)
\* A slip: dividing by the levels, not by the steps between them.
StepPerLevel(levels) == 255 \div (IF levels < 2 THEN 2 ELSE levels)
Step(levels) == 255 \div ((IF levels < 2 THEN 2 ELSE levels) - 1)

\* A slip: the nearest shade, above or below.
NearestShade(old, step) == Clamp(((old + step \div 2) \div step) * step, 0, 255)
Shade(old, step) == Clamp((old \div step) * step, 0, 255)

\* A slip: a share rounded up.
ShareRoundedUp(error, numerator, denominator) ==
  (error * numerator + denominator - 1) \div denominator
Share(error, numerator, denominator) == (error * numerator) \div denominator

DiffusedPixel ==
  /\ effect.name = "diffusion" /\ pixel < PixelCount
  /\ LET k == Kernels[effect.kernel]
         old == Clamp(buffer[pixel], 0, 255)
         new == Shade(old, Step(effect.number))
         from(p) == <<Row(p) - Row(pixel), Col(p) - Col(pixel)>>
         there == Targets(picture, effect.kernel, Row(pixel), Col(pixel))
     IN  /\ result' = [result EXCEPT ![pixel] = new]
         /\ buffer' = [p \in DOMAIN buffer |->
              IF <<Row(p), Col(p)>> \in there
              THEN buffer[p] + Share(old - new, k.targets[from(p)], k.denominator)
              ELSE buffer[p]]
  /\ pixel' = pixel + 1
  /\ UNCHANGED <<picture, effect>>

Done == pixel = PixelCount /\ UNCHANGED vars

Next == OrderedPixel \/ DiffusedPixel \/ Done

Spec == Init /\ [][Next]_vars

-----------------------------------------------------------------------------
(***************************************************************************)
(* Properties.                                                             *)
(***************************************************************************)
\* Each variable has its type; what is written are shades, and an error never takes a
\* sample of the buffer below 0 or to 255 and a whole step above.
TypeOK ==
  /\ picture.data \in [0..(PixelCount - 1) -> 0..255] /\ effect \in Effects
  /\ pixel \in 0..PixelCount
  /\ result \in [0..(PixelCount - 1) -> 0..255]
  /\ buffer \in [0..(PixelCount - 1) -> 0..(254 + Step(effect.number))]

Sum(f, S) == FoldFunctionOnSet(+, 0, f, S)

\* No light is created: at every pixel, what was written and what is left in the buffer
\* together are at most the light of the picture.
NoLightCreated ==
  effect.name = "diffusion" =>
    Sum(result, 0..(pixel - 1)) + Sum(buffer, pixel..(PixelCount - 1))
      <= Sum(picture.data, 0..(PixelCount - 1))

\* As many shades are used as levels were asked for, black among them, evenly spaced.
ShadesAsAsked ==
  effect.name = "diffusion" /\ effect.number \in 2..16 =>
    /\ \A p \in 0..(pixel - 1) : result[p] \in {s * Step(effect.number) : s \in 0..(effect.number - 1)}
    /\ \A p \in 0..(pixel - 1) : picture.data[p] = 255 =>
         result[p] = (effect.number - 1) * Step(effect.number)

\* Tone is kept: over a whole tile of one shade v, the matrix lets as many of its n*n
\* pixels be white as v is of 255, rounded up.
ToneKept ==
  effect.name = "ordered" /\ pixel = PixelCount =>
    LET n == effect.number
        tiles == (0..(picture.height \div n - 1)) \X (0..(picture.width \div n - 1))
        inTile(t) == {p \in DOMAIN result : Row(p) \div n = t[1] /\ Col(p) \div n = t[2]}
    IN  \A t \in tiles : \A v \in {picture.data[p] : p \in inTile(t)} :
          (\A p \in inTile(t) : picture.data[p] = v) =>
            Cardinality({p \in inTile(t) : result[p] = 255}) = (v * n * n + 254) \div 255
=============================================================================
