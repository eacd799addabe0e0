--------------------------- MODULE TransformProofs ---------------------------
(***************************************************************************)
(* Theorems about the task that makes an answer (Pipeline), for pictures   *)
(* and sounds of any size, any header size and any chunk size: what        *)
(* Reverse makes of a sound (and of a mono sound with an odd number of     *)
(* frames, which is not its reverse), how Pixelate's blocks cover a        *)
(* picture, what the encoder's loop, with libsndfile's writes and seeks    *)
(* through the callbacks, leaves in the file and in the answer, what the   *)
(* constructor reads from a page's text, the invariant of a whole task,    *)
(* which pixels the errors of a diffusion come from, and that a task       *)
(* implements what Transform promises.                                     *)
(***************************************************************************)
EXTENDS Pipeline, SequenceTheorems, FiniteSetTheorems, WellFoundedInduction, TLAPS

\* Sounds of F frames and C channels, with samples in S.
Audios(F, C, S) == [frames : {F}, channels : {C}, data : [0..(F * C - 1) -> S]]

\* Sample c of frame f is at f*C+c, and nowhere else.
LEMMA PlaceOf ==
  ASSUME NEW C \in Nat \ {0}, NEW f \in Nat, NEW c \in 0..(C - 1)
  PROVE  (f * C + c) \div C = f /\ (f * C + c) % C = c
OBVIOUS

LEMMA PlaceIn ==
  ASSUME NEW F \in Nat, NEW C \in Nat \ {0}, NEW f \in 0..(F - 1), NEW c \in 0..(C - 1)
  PROVE  f * C + c \in 0..(F * C - 1)
<1>1. (f + 1) * C <= F * C
  OBVIOUS
<1>2. f * C \in Nat /\ (f + 1) * C = f * C + C /\ F * C \in Nat
  OBVIOUS
<1>. QED  BY <1>1, <1>2

\* The loop puts every frame but a middle one where it belongs.
LEMMA SwappedAt ==
  ASSUME NEW F \in Nat, NEW C \in Nat \ {0}, NEW S,
         NEW src \in Audios(F, C, S), NEW dst \in Audios(F, C, S),
         NEW f \in 0..(F - 1), NEW c \in 0..(C - 1)
  PROVE  /\ f # F - 1 - f =>
              Swapped(src, dst)[f * C + c] = src.data[(F - 1 - f) * C + c]
         /\ f = F - 1 - f => Swapped(src, dst)[f * C + c] = dst.data[f * C + c]
<1> DEFINE k == f * C + c
           half == 0..(F \div 2 - 1)
<1>1. k \in 0..(F * C - 1) /\ k \div C = f /\ k % C = c
  BY PlaceOf, PlaceIn
<1>2. DOMAIN dst.data = 0..(F * C - 1) /\ src.frames = F /\ src.channels = C
  BY DEF Audios
<1>3. f # F - 1 - f => f \in half \/ F - 1 - f \in half
  OBVIOUS
<1>4. f = F - 1 - f => f \notin half
  OBVIOUS
<1> HIDE DEF k, half
<1>5. Swapped(src, dst)[k] = IF f \in half \/ F - 1 - f \in half
                             THEN src.data[(F - 1 - f) * C + c] ELSE dst.data[k]
  BY <1>1, <1>2 DEF Swapped, half
<1>. QED  BY <1>3, <1>4, <1>5 DEF k

\* Reverse (reverse.cpp) reverses every sound with an even number of frames, and every one
\* with two or three channels, whatever the other buffer held before.
THEOREM SoundsReversed ==
  ASSUME NEW F \in Nat, NEW C \in Nat \ {0}, F % 2 = 0 \/ C \in {2, 3}, NEW S,
         NEW src \in Audios(F, C, S), NEW dst \in Audios(F, C, S),
         NEW f \in 0..(F - 1), NEW c \in 0..(C - 1)
  PROVE  ReverseSound(src, dst).data[f * C + c] = src.data[(F - 1 - f) * C + c]
<1> DEFINE k == f * C + c
<1>1. k \in 0..(F * C - 1)
  BY PlaceIn
<1>2. /\ DOMAIN dst.data = 0..(F * C - 1) /\ src.frames = F /\ src.channels = C
      /\ \A x : [dst EXCEPT !.data = x].data = x
  BY DEF Audios
<1>3. CASE F % 2 = 0
  <2>1. ReverseSound(src, dst).data = Swapped(src, dst)
    BY <1>2, <1>3 DEF ReverseSound
  <2>2. f # F - 1 - f
    BY <1>3
  <2>. QED  BY <2>1, <2>2, SwappedAt
<1>4. CASE F % 2 # 0
  <2> DEFINE index == (F * C) \div 2 - 1
  <2>1. C \in {2, 3}
    BY <1>4
  <2>2. ReverseSound(src, dst).data = MiddleCopied(src, Swapped(src, dst))
    BY <1>2, <1>4 DEF ReverseSound
  <2>3. index = (F \div 2) * C
    BY <1>4, <2>1
  <2>4. DOMAIN Swapped(src, dst) = 0..(F * C - 1)
    BY <1>2 DEF Swapped
  <2>5. ReverseSound(src, dst).data[k] = IF k \in index..(index + C - 1) THEN src.data[k]
                                         ELSE Swapped(src, dst)[k]
    <3> HIDE DEF k, index
    <3>. QED  BY <1>1, <1>2, <2>2, <2>4 DEF MiddleCopied, index
  <2>6. CASE f = F - 1 - f
    <3>1. k \in index..(index + C - 1)
      BY <2>1, <2>3, <2>6
    <3>. QED  BY <2>5, <2>6, <3>1
  <2>7. CASE f # F - 1 - f
    <3>1. k \notin index..(index + C - 1)
      BY <1>4, <2>1, <2>3, <2>7
    <3>2. Swapped(src, dst)[k] = src.data[(F - 1 - f) * C + c]
      BY <2>7, SwappedAt
    <3> HIDE DEF k, index
    <3>3. ReverseSound(src, dst).data[k] = src.data[(F - 1 - f) * C + c]
      BY <2>5, <3>1, <3>2
    <3>. QED  BY <3>3 DEF k
  <2>. QED  BY <2>6, <2>7
<1>. QED  BY <1>3, <1>4

\* A mono sound with an odd number of frames is not reversed: the frame before the middle
\* stays where it was, and in the middle is what the other buffer held (reverse.cpp:18).
THEOREM OddMonoNotReversed ==
  ASSUME NEW m \in Nat \ {0}, NEW S,
         NEW src \in Audios(2 * m + 1, 1, S), NEW dst \in Audios(2 * m + 1, 1, S)
  PROVE  /\ ReverseSound(src, dst).data[m - 1] = src.data[m - 1]
         /\ ReverseSound(src, dst).data[m] = dst.data[m]
<1> DEFINE F == 2 * m + 1
<1>1. F \in Nat /\ F % 2 # 0 /\ (F * 1) \div 2 - 1 = m - 1
      /\ m - 1 \in 0..(F * 1 - 1) /\ m \in 0..(F * 1 - 1)
  OBVIOUS
<1>2. /\ DOMAIN dst.data = 0..(F * 1 - 1) /\ src.frames = F /\ src.channels = 1
      /\ \A x : [dst EXCEPT !.data = x].data = x
  BY DEF Audios
<1>3. Swapped(src, dst)[m] = dst.data[m]
  <2>1. m \div 1 = m /\ F - 1 - m = m /\ m \notin 0..(F \div 2 - 1)
    OBVIOUS
  <2> HIDE DEF F
  <2>. QED  BY <1>1, <1>2, <2>1 DEF Swapped
<1>4. DOMAIN Swapped(src, dst) = 0..(F * 1 - 1)
  BY <1>2 DEF Swapped
<1> HIDE DEF F
<1>5. ReverseSound(src, dst).data = MiddleCopied(src, Swapped(src, dst))
  BY <1>1, <1>2 DEF ReverseSound
<1>6. (m - 1) + 1 - 1 = m - 1 /\ m \notin (m - 1)..(m - 1)
  OBVIOUS
<1>. QED  BY <1>1, <1>2, <1>3, <1>4, <1>5, <1>6 DEF MiddleCopied

-----------------------------------------------------------------------------
(***************************************************************************)
(* The blocks of Pixelate, whole and partial, cover a picture.             *)
(***************************************************************************)

\* The blocks' columns, or rows, are those of the picture, and each is in one block.
LEMMA InOneSpan ==
  ASSUME NEW extent \in Nat, NEW size \in Nat \ {0}, NEW x \in 0..(extent - 1)
  PROVE  /\ x \div size \in BlockNumbers(extent, size)
         /\ \A n \in BlockNumbers(extent, size) : x \in Span(n, extent, size) <=> n = x \div size
<1> DEFINE q == x \div size
           last == (extent + size - 1) \div size
<1>1. q \in Nat /\ size * q <= x /\ x < size * q + size
  OBVIOUS
<1>2. last \in Nat /\ extent + size - 1 < size * last + size
  OBVIOUS
<1>3. q <= last - 1
  <2>1. size * q < size * last
    BY <1>1, <1>2
  <2> HIDE DEF q, last
  <2>2. CASE q >= last
    <3>1. size * q >= size * last
      BY <1>1, <1>2, <2>2
    <3>. QED  BY <1>1, <1>2, <2>1, <3>1
  <2>. QED  BY <1>1, <1>2, <2>2
<1>4. ASSUME NEW n \in Nat
      PROVE  x \in Span(n, extent, size) <=> n = q
  <2> HIDE DEF q, last
  <2>1. x \in Span(n, extent, size) <=> size * n <= x /\ x < size * n + size
    BY <1>4 DEF Span, AtMost
  <2>2. CASE n < q
    <3>1. size * n + size <= size * q
      <4>1. size * (n + 1) <= size * q
        BY <1>1, <2>2
      <4>. QED  BY <4>1
    <3>. QED  BY <1>1, <2>1, <2>2, <3>1
  <2>3. CASE n > q
    <3>1. size * q + size <= size * n
      <4>1. size * (q + 1) <= size * n
        BY <1>1, <2>3
      <4>. QED  BY <4>1, <1>1
    <3>. QED  BY <1>1, <2>1, <2>3, <3>1
  <2>. QED  BY <1>1, <2>1, <2>2, <2>3
<1>5. \A n \in BlockNumbers(extent, size) : n \in Nat
  BY <1>2 DEF BlockNumbers
<1>6. q \in BlockNumbers(extent, size)
  BY <1>1, <1>3 DEF BlockNumbers
<1>. QED  BY <1>4, <1>5, <1>6

\* How many columns, or rows, a block has: `size', or what is left at the edge.
LEMMA SpanSize ==
  ASSUME NEW extent \in Nat, NEW size \in Nat \ {0}, NEW n \in BlockNumbers(extent, size)
  PROVE  /\ n \in Nat /\ size * n < extent
         /\ IsFiniteSet(Span(n, extent, size))
         /\ Cardinality(Span(n, extent, size)) = AtMost(size, extent - size * n)
<1> DEFINE last == (extent + size - 1) \div size
           from == size * n
           to == AtMost(from + size, extent) - 1
<1>1. last \in Nat /\ size * last <= extent + size - 1
  OBVIOUS
<1>2. n \in Nat /\ n + 1 <= last
  BY <1>1 DEF BlockNumbers
<1>3. from \in Nat /\ from < extent
  <2> HIDE DEF last
  <2>1. size * (n + 1) <= size * last
    BY <1>1, <1>2
  <2>2. size * (n + 1) = size * n + size /\ size * n \in Nat
    BY <1>2
  <2>. QED  BY <1>1, <2>1, <2>2
<1> HIDE DEF from
<1>4. to \in Int /\ to - from + 1 = AtMost(size, extent - from) /\ from <= to
  BY <1>3 DEF AtMost
<1>5. IsFiniteSet(from..to) /\ Cardinality(from..to) = to - from + 1
  BY <1>3, <1>4, FS_Interval
<1>6. Span(n, extent, size) = from..to
  BY DEF Span, from
<1>. QED  BY <1>2, <1>3, <1>4, <1>5, <1>6 DEF from

\* What Pixelate divides a block's sum by is the number of its pixels, at the edges too.
LEMMA AreaOfBlock ==
  ASSUME NEW img, img.width \in Nat, img.height \in Nat, NEW size \in Nat \ {0},
         NEW i \in BlockNumbers(img.width, size), NEW j \in BlockNumbers(img.height, size)
  PROVE  BlockArea(img, size, i, j) = Cardinality(Block(img, size, i, j))
<1> PICK w \in Nat, h \in Nat : w = img.width /\ h = img.height
  OBVIOUS
<1>1. /\ i \in Nat /\ size * i < w /\ IsFiniteSet(Span(i, w, size))
      /\ Cardinality(Span(i, w, size)) = AtMost(size, w - size * i)
  BY SpanSize
<1>2. /\ j \in Nat /\ size * j < h /\ IsFiniteSet(Span(j, h, size))
      /\ Cardinality(Span(j, h, size)) = AtMost(size, h - size * j)
  BY SpanSize
<1>3. Cardinality(Block(img, size, i, j)) = AtMost(size, w - size * i) * AtMost(size, h - size * j)
  BY <1>1, <1>2, FS_Product DEF Block
<1>4. BlockArea(img, size, i, j) = AtMost(size, w - size * i) * AtMost(size, h - size * j)
  <2> PICK x \in Nat, y \in Nat : x = size * i /\ y = size * j
    BY <1>1, <1>2
  <2>1. CASE x + size >= w \/ y + size >= h
    BY <2>1 DEF BlockArea
  <2>2. CASE ~(x + size >= w \/ y + size >= h)
    <3>1. AtMost(size, w - x) = size /\ AtMost(size, h - y) = size
      BY <2>2 DEF AtMost
    <3>. QED  BY <2>2, <3>1 DEF BlockArea
  <2>. QED  BY <2>1, <2>2
<1>. QED  BY <1>3, <1>4

\* The block of a pixel: the only one it is in, with the pixels of its columns and rows.
OnlyBlock(img, w, h, size, x, y, here) ==
  /\ here \in Blocks(img, size)
  /\ \A b \in Blocks(img, size) : b \subseteq (0..(w - 1)) \X (0..(h - 1))
  /\ \A b \in Blocks(img, size) : <<x, y>> \in b => b = here
  /\ \A a \in 0..(w - 1), b \in 0..(h - 1) :
       <<a, b>> \in here <=> a \div size = x \div size /\ b \div size = y \div size

LEMMA BlockOfPixel ==
  ASSUME NEW w \in Nat \ {0}, NEW h \in Nat \ {0}, NEW size \in Nat \ {0},
         NEW x \in 0..(w - 1), NEW y \in 0..(h - 1),
         NEW img, img.width = w, img.height = h
  PROVE  OnlyBlock(img, w, h, size, x, y, Block(img, size, x \div size, y \div size))
<1> PICK here : here = Block(img, size, x \div size, y \div size)
  OBVIOUS
<1> DEFINE i == x \div size
           j == y \div size
<1>1. /\ i \in BlockNumbers(w, size)
      /\ \A n \in BlockNumbers(w, size) : x \in Span(n, w, size) <=> n = i
  BY InOneSpan
<1>2. /\ j \in BlockNumbers(h, size)
      /\ \A n \in BlockNumbers(h, size) : y \in Span(n, h, size) <=> n = j
  BY InOneSpan
<1>3. ASSUME NEW a \in 0..(w - 1) PROVE a \in Span(i, w, size) <=> a \div size = i
  <2>1. \A n \in BlockNumbers(w, size) : a \in Span(n, w, size) <=> n = a \div size
    BY InOneSpan
  <2> HIDE DEF i
  <2>. QED  BY <1>1, <2>1
<1>4. ASSUME NEW b \in 0..(h - 1) PROVE b \in Span(j, h, size) <=> b \div size = j
  <2>1. \A n \in BlockNumbers(h, size) : b \in Span(n, h, size) <=> n = b \div size
    BY InOneSpan
  <2> HIDE DEF j
  <2>. QED  BY <1>2, <2>1
<1>5. ASSUME NEW extent \in Nat, NEW n \in BlockNumbers(extent, size)
      PROVE  Span(n, extent, size) \subseteq 0..(extent - 1)
  <2>1. n \in Nat /\ size * n \in Nat
    BY SpanSize
  <2> PICK m \in Nat : m = size * n
    BY <2>1
  <2>. QED  BY DEF Span, AtMost
<1>6. here = Span(i, w, size) \X Span(j, h, size)
  BY DEF Block
<1> HIDE DEF i, j
<1>7. here \in Blocks(img, size)
  BY <1>1, <1>2 DEF Blocks, i, j
<1>8. ASSUME NEW b \in Blocks(img, size)
      PROVE  b \subseteq (0..(w - 1)) \X (0..(h - 1)) /\ (<<x, y>> \in b => b = here)
  <2>1. PICK m \in BlockNumbers(w, size), n \in BlockNumbers(h, size) :
          b = Span(m, w, size) \X Span(n, h, size)
    BY DEF Blocks, Block
  <2>2. b \subseteq (0..(w - 1)) \X (0..(h - 1))
    BY <1>5, <2>1
  <2>3. <<x, y>> \in b => m = i /\ n = j
    BY <1>1, <1>2, <2>1
  <2>. QED  BY <1>6, <2>1, <2>2, <2>3
<1>9. \A a \in 0..(w - 1), b \in 0..(h - 1) :
        <<a, b>> \in here <=> a \div size = i /\ b \div size = j
  BY <1>3, <1>4, <1>6
<1>. QED  BY <1>7, <1>8, <1>9 DEF i, j, OnlyBlock

\* The blocks of Pixelate, for pictures and blocks of any size.
THEOREM PixelsInBlocks ==
  ASSUME A.width \in Nat, A.height \in Nat,
         effects # << >> => Head(effects).number \in Nat \ {0}
  PROVE  MeansOverPixels
<1> SUFFICES ASSUME Loaded, effects # << >>, Head(effects).name = "pixelate",
                    NEW size, size = Head(effects).number
             PROVE  /\ \A x \in 0..(A.width - 1), y \in 0..(A.height - 1) :
                         Cardinality({b \in Blocks(A, size) : <<x, y>> \in b}) = 1
                    /\ \A i \in BlockNumbers(A.width, size), j \in BlockNumbers(A.height, size) :
                         BlockArea(A, size, i, j) = Cardinality(Block(A, size, i, j))
  BY DEF MeansOverPixels
<1>0. size \in Nat \ {0}
  OBVIOUS
<1> PICK img : img = A
  OBVIOUS
<1>1. ASSUME NEW x \in 0..(A.width - 1), NEW y \in 0..(A.height - 1)
      PROVE  Cardinality({b \in Blocks(A, size) : <<x, y>> \in b}) = 1
  <2>1. PICK w \in Nat \ {0}, h \in Nat \ {0} : w = img.width /\ h = img.height
    BY <1>1
  <2>2. PICK here : here = Block(img, size, x \div size, y \div size)
    OBVIOUS
  <2>3. x \in 0..(w - 1) /\ y \in 0..(h - 1)
    BY <1>1, <2>1
  <2>4. OnlyBlock(img, w, h, size, x, y, here)
    BY ONLY <1>0, <2>1, <2>2, <2>3, BlockOfPixel
  <2>5. {b \in Blocks(img, size) : <<x, y>> \in b} = {here}
    <3>1. <<x, y>> \in here
      BY ONLY <2>3, <2>4 DEF OnlyBlock
    <3>2. here \in Blocks(img, size) /\ \A b \in Blocks(img, size) : <<x, y>> \in b => b = here
      BY <2>4 DEF OnlyBlock
    <3>. QED  BY <3>1, <3>2
  <2>. QED  BY <2>5, FS_Singleton
<1>2. ASSUME NEW i \in BlockNumbers(A.width, size), NEW j \in BlockNumbers(A.height, size)
      PROVE  BlockArea(A, size, i, j) = Cardinality(Block(A, size, i, j))
  <2>1. img.width \in Nat /\ img.height \in Nat
        /\ i \in BlockNumbers(img.width, size) /\ j \in BlockNumbers(img.height, size)
    BY <1>2
  <2>. QED  BY <1>0, <2>1, AreaOfBlock
<1>. QED  BY <1>1, <1>2

-----------------------------------------------------------------------------
(***************************************************************************)
(* The encoder: from where the effects are applied to the answer, with     *)
(* chunks of any size, each written whole or in part.                      *)
(***************************************************************************)

\* The first n samples of the sound in the buffer.
Samples(n) == [i \in 1..n |-> A.data[i - 1]]

\* The effects are applied, and what they made is a sound.
SoundMade(F, C, S) ==
  EncodingDue /\ upload.type = "audio" /\ A \in Audios(F, C, S)

Encoded(F, C) ==
  pc \in {"encode", "close"} =>
    /\ framesLeft \in 0..F
    /\ current = (F - framesLeft) * C
    /\ ctx.position = HeaderSize + current
    /\ ctx.buffer = Header \o Samples(current)

EncoderInv(F, C, S) ==
  /\ upload.type = "audio" /\ effects = << >> /\ A \in Audios(F, C, S)
  /\ pc \in {"apply", "encode", "close", "done", "thrown"}
  /\ Encoded(F, C)
  /\ pc = "close" => failed
  /\ pc = "done" /\ ~failed => output = Header \o Samples(F * C)

\* A resize to a length that is there already.
LEMMA ResizedNot ==
  ASSUME NEW V, NEW s \in Seq(V), NEW n \in 0..Len(s)
  PROVE  Resized(s, n) = s
<1>1. Resized(s, n) = s \o [i \in 1..0 |-> {}]
  <2>1. (IF n > Len(s) THEN n - Len(s) ELSE 0) = 0
    OBVIOUS
  <2>. QED  BY <2>1 DEF Resized
<1>2. [i \in 1..0 |-> {}] = << >>
  OBVIOUS
<1>. QED  BY <1>1, <1>2

\* Functions on 1..n are sequences.
LEMMA IsSequence ==
  ASSUME NEW V, NEW n \in Nat, NEW f, f = [i \in 1..n |-> f[i]], \A i \in 1..n : f[i] \in V
  PROVE  f \in Seq(V) /\ Len(f) = n
<1>1. \A g \in [1..n -> V] : g \in Seq(V) /\ Len(g) = n
  OBVIOUS
<1>2. f \in [1..n -> V]
  OBVIOUS
<1>. QED  BY <1>1, <1>2

\* A write at the end of a file.
LEMMA Appended ==
  ASSUME NEW V, NEW b \in Seq(V), NEW units \in Seq(V), NEW c,
         c.buffer = b, c.position = Len(b)
  PROVE  WriteUnits(c, units) = [position |-> Len(b) + Len(units), buffer |-> b \o units]
<1> DEFINE n == Len(units)
           W == V \cup {{}}
           zeros == [i \in 1..n |-> {}]
           grown == b \o zeros
           written == [i \in DOMAIN grown |->
                         IF i \in (Len(b) + 1)..(Len(b) + n) THEN units[i - Len(b)] ELSE grown[i]]
<1>1. n \in Nat /\ Len(b) \in Nat /\ b \in Seq(W) /\ units \in Seq(W)
  OBVIOUS
<1>2. zeros \in Seq(W) /\ Len(zeros) = n
  BY <1>1
<1>3. Resized(b, Len(b) + n) = grown
  <2>1. (IF Len(b) + n > Len(b) THEN Len(b) + n - Len(b) ELSE 0) = n
    BY <1>1
  <2>. QED  BY <2>1 DEF Resized
<1>4. WriteUnits(c, units) = [position |-> Len(b) + n, buffer |-> written]
  BY <1>3 DEF WriteUnits
<1> HIDE DEF zeros, W, n
<1>5. /\ grown \in Seq(W) /\ Len(grown) = Len(b) + n /\ DOMAIN grown = 1..(Len(b) + n)
      /\ \A i \in 1..Len(b) : grown[i] = b[i]
  BY <1>1, <1>2
<1> HIDE DEF grown
<1>6. b \o units \in Seq(W) /\ Len(b \o units) = Len(b) + n
      /\ \A i \in 1..(Len(b) + n) :
           (b \o units)[i] = IF i \in (Len(b) + 1)..(Len(b) + n) THEN units[i - Len(b)] ELSE b[i]
  BY <1>1 DEF n
<1>7. \A i \in 1..(Len(b) + n) : written[i] = (b \o units)[i]
  BY <1>1, <1>5, <1>6
<1>8. written \in Seq(W) /\ Len(written) = Len(b) + n
  <2>1. \A i \in 1..(Len(b) + n) : written[i] \in W
    <3>1. \A i \in 1..(Len(b) + n) : (b \o units)[i] \in W
      BY <1>6, <1>1
    <3>. QED  BY <3>1, <1>7
  <2>2. written = [i \in 1..(Len(b) + n) |-> written[i]]
    BY <1>5
  <2>3. Len(b) + n \in Nat
    BY <1>1
  <2> HIDE DEF written
  <2>. QED  BY <2>1, <2>2, <2>3, IsSequence
<1>9. written = b \o units
  <2> HIDE DEF written
  <2>. QED  BY <1>6, <1>7, <1>8, SeqEqual
<1>. QED  BY <1>4, <1>9 DEF n

LEMMA AppendedTo ==
  ASSUME NEW V, NEW h \in Seq(V), NEW s \in Seq(V), NEW units \in Seq(V), NEW c,
         c.buffer = h \o s, c.position = Len(h) + Len(s)
  PROVE  WriteUnits(c, units) =
           [position |-> Len(h) + Len(s) + Len(units), buffer |-> h \o (s \o units)]
<1>1. h \o s \in Seq(V) /\ Len(h \o s) = Len(h) + Len(s)
  BY ConcatProperties
<1>2. (h \o s) \o units = h \o (s \o units)
  BY ConcatAssociative
<1>3. PICK b : b = h \o s
  OBVIOUS
<1>4. WriteUnits(c, units) = [position |-> Len(b) + Len(units), buffer |-> b \o units]
  BY <1>1, <1>3, Appended
<1>. QED  BY <1>1, <1>2, <1>3, <1>4

\* Writing the header of a file that has one already changes nothing, and the position
\* is where it was.
LEMMA HeaderRewritten ==
  ASSUME NEW V, HeaderUnit \in V, NEW c, c.buffer \in Seq(V), c.position = Len(c.buffer),
         Len(c.buffer) >= HeaderSize, \A i \in 1..HeaderSize : c.buffer[i] = HeaderUnit
  PROVE  WithHeader(c) = [position |-> c.position, buffer |-> c.buffer]
<1> DEFINE start == WriteSeek(c, 0, "SET")
           written == WriteUnits(start, Header)
<1>0. HeaderSize \in Nat \ {0} /\ Len(c.buffer) \in Nat
  BY HeaderSizePositive
<1>1. start = [position |-> 0, buffer |-> c.buffer]
  BY <1>0, ResizedNot DEF WriteSeek, Destination
<1>2. Len(Header) = HeaderSize /\ \A i \in 1..HeaderSize : Header[i] = HeaderUnit
  BY <1>0 DEF Header
<1>3. Resized(start.buffer, start.position + Len(Header)) = c.buffer
  BY <1>0, <1>1, <1>2, ResizedNot
<1>4. written.position = HeaderSize /\ written.buffer = c.buffer
  <2> HIDE DEF start
  <2>1. written = [position |-> HeaderSize,
                   buffer |-> [i \in DOMAIN c.buffer |->
                     IF i \in 1..HeaderSize THEN Header[i] ELSE c.buffer[i]]]
    <3>1. start.position = 0 /\ start.position + Len(Header) = HeaderSize
      BY <1>0, <1>1, <1>2
    <3>2. written = [position |-> 0 + Len(Header),
                     buffer |-> [i \in DOMAIN c.buffer |->
                       IF i \in (0 + 1)..(0 + Len(Header)) THEN Header[i - 0] ELSE c.buffer[i]]]
      BY <1>3, <3>1 DEF WriteUnits
    <3>3. \A i \in DOMAIN c.buffer :
            (IF i \in (0 + 1)..(0 + Len(Header)) THEN Header[i - 0] ELSE c.buffer[i])
              = (IF i \in 1..HeaderSize THEN Header[i] ELSE c.buffer[i])
      BY <1>0, <1>2
    <3> HIDE DEF written
    <3>. QED  BY <1>0, <1>2, <3>2, <3>3
  <2>2. [i \in DOMAIN c.buffer |-> IF i \in 1..HeaderSize THEN Header[i] ELSE c.buffer[i]]
          = c.buffer
    BY <1>2
  <2>. QED  BY <2>1, <2>2
<1>5. WriteSeek(written, c.position, "SET") = [position |-> c.position, buffer |-> c.buffer]
  BY <1>0, <1>4, ResizedNot DEF WriteSeek, Destination
<1>. QED  BY <1>0, <1>5 DEF WithHeader

\* The first header of a new file.
LEMMA HeaderWritten == WithHeader(NoFile) = [position |-> HeaderSize, buffer |-> Header]
<1> DEFINE V == {HeaderUnit}
<1>1. Header \in Seq(V) /\ Len(Header) = HeaderSize /\ HeaderSize \in Nat
  BY HeaderSizePositive DEF Header
<1>2. << >> \in Seq(V) /\ Len(<< >>) = 0 /\ 0 \in 0..Len(<< >>)
  OBVIOUS
<1>3. WriteSeek(NoFile, 0, "SET") = NoFile
  <2>1. Resized(<< >>, 0) = << >>
    BY DEF Resized
  <2>. QED  BY <2>1 DEF WriteSeek, Destination, NoFile
<1>4. PICK c : c = NoFile /\ c.buffer = << >> /\ c.position = Len(<< >>)
  <2>1. NoFile.buffer = << >> /\ NoFile.position = Len(<< >>)
    BY <1>2 DEF NoFile
  <2>. QED  BY <2>1
<1>5. WriteUnits(c, Header) = [position |-> Len(<< >>) + Len(Header), buffer |-> << >> \o Header]
  BY ONLY <1>1, <1>2, <1>4, Appended
<1>6. << >> \o Header = Header /\ Len(<< >>) + Len(Header) = HeaderSize
  BY <1>1
<1>7. NoFile.position = 0
  BY DEF NoFile
<1>. QED  BY <1>3, <1>4, <1>5, <1>6, <1>7 DEF WithHeader

\* The samples up to the n-th and the next m are those up to n+m.
LEMMA MoreSamples ==
  ASSUME NEW S, NEW data, NEW n \in Nat, NEW m \in Nat,
         \A i \in 0..(n + m - 1) : data[i] \in S
  PROVE  /\ [i \in 1..n |-> data[i - 1]] \in Seq(S)
         /\ [i \in 1..m |-> data[n + i - 1]] \in Seq(S)
         /\ Len([i \in 1..m |-> data[n + i - 1]]) = m
         /\ [i \in 1..n |-> data[i - 1]] \o [i \in 1..m |-> data[n + i - 1]]
              = [i \in 1..(n + m) |-> data[i - 1]]
<1> DEFINE first == [i \in 1..n |-> data[i - 1]]
           next == [i \in 1..m |-> data[n + i - 1]]
           all == [i \in 1..(n + m) |-> data[i - 1]]
<1>1. first \in Seq(S) /\ Len(first) = n /\ \A i \in 1..n : first[i] = data[i - 1]
  OBVIOUS
<1>2. next \in Seq(S) /\ Len(next) = m /\ \A i \in 1..m : next[i] = data[n + i - 1]
  OBVIOUS
<1>3. all \in Seq(S) /\ Len(all) = n + m /\ \A i \in 1..(n + m) : all[i] = data[i - 1]
  OBVIOUS
<1> HIDE DEF first, next, all
<1>4. first \o next \in Seq(S) /\ Len(first \o next) = n + m
  BY <1>1, <1>2, ConcatProperties
<1>5. \A i \in 1..(n + m) : (first \o next)[i] = all[i]
  <2> TAKE i \in 1..(n + m)
  <2>1. (first \o next)[i] = IF i <= n THEN first[i] ELSE next[i - n]
    BY <1>1, <1>2, ConcatProperties
  <2>2. CASE i <= n
    BY <1>1, <1>3, <2>1, <2>2
  <2>3. CASE ~(i <= n)
    <3>1. i - n \in 1..m /\ n + (i - n) - 1 = i - 1
      BY <2>3
    <3>2. next[i - n] = data[i - 1]
      BY <1>2, <3>1
    <3>. QED  BY <1>3, <2>1, <2>3, <3>2
  <2>. QED  BY <2>2, <2>3
<1>6. first \o next = all
  BY <1>3, <1>4, <1>5, SeqEqual
<1>. QED  BY <1>1, <1>2, <1>6 DEF first, next, all

\* The steps of the encoder, one by one.
LEMMA OpenEncoderStep ==
  ASSUME NEW F \in Nat, NEW C \in Nat \ {0}, NEW S, EncoderInv(F, C, S), OpenEncoder
  PROVE  EncoderInv(F, C, S)'
<1>1. A' = A /\ A.frames = F
  BY DEF OpenEncoder, EncoderInv, Audios
<1>2. ctx'.position = HeaderSize /\ ctx'.buffer = Header
  BY HeaderWritten DEF OpenEncoder
<1>3. framesLeft' = F /\ current' = 0 /\ pc' = "encode"
  BY <1>1 DEF OpenEncoder
<1>4. Header \o Samples(0) = Header
  <2>1. Samples(0) = << >>
    BY DEF Samples
  <2>2. Header \in Seq({HeaderUnit})
    BY HeaderSizePositive DEF Header
  <2>. QED  BY <2>1, <2>2
<1>5. Samples(0)' = Samples(0)
  BY <1>1 DEF Samples
<1>6. Encoded(F, C)'
  <2>1. (F - F) * C = 0 /\ HeaderSize + 0 = HeaderSize /\ F \in 0..F
    BY HeaderSizePositive
  <2>. QED  BY <1>2, <1>3, <1>4, <1>5, <2>1 DEF Encoded
<1>. QED  BY <1>1, <1>3, <1>6 DEF OpenEncoder, EncoderInv

LEMMA WriteChunkStep ==
  ASSUME NEW F \in Nat, NEW C \in Nat \ {0}, NEW S, EncoderInv(F, C, S), WriteChunk
  PROVE  EncoderInv(F, C, S)'
<1>1. /\ A' = A /\ pc = "encode" /\ pc' = "encode" /\ Encoded(F, C)
      /\ A.frames = F /\ A.channels = C /\ A.data \in [0..(F * C - 1) -> S]
  BY DEF WriteChunk, EncoderInv, Audios
<1>2. /\ framesLeft \in 0..F /\ current = (F - framesLeft) * C
      /\ ctx.position = HeaderSize + current /\ ctx.buffer = Header \o Samples(current)
  BY <1>1 DEF Encoded
<1>3. PICK w \in 1..FramesAsked :
        /\ ctx' = WriteUnits(ctx, [i \in 1..(w * C) |-> A.data[current + i - 1]])
        /\ framesLeft' = framesLeft - w
        /\ current' = current + w * C
  BY <1>1 DEF WriteChunk, LeftAfter, AfterWritten
<1>4. w \in 1..framesLeft
  BY <1>2, <1>3, ChunkPositive DEF FramesAsked, AtMost
<1>5. /\ framesLeft' \in 0..F /\ current' = (F - framesLeft') * C
      /\ current \in Nat /\ current' \in Nat /\ w * C \in Nat
      /\ current' <= F * C
  <2> PICK l \in 0..F : l = framesLeft
    BY <1>2
  <2>1. /\ (F - l) * C + w * C = (F - (l - w)) * C
        /\ (F - l) * C \in Nat /\ w * C \in Nat /\ (F - (l - w)) * C \in Nat
        /\ (F - (l - w)) * C <= F * C
    BY <1>4
  <2>. QED  BY <1>2, <1>3, <1>4, <2>1
<1> DEFINE n == current
           m == w * C
           units == [i \in 1..m |-> A.data[n + i - 1]]
           V == S \cup {HeaderUnit}
<1>6. n \in Nat /\ m \in Nat /\ \A i \in 0..(n + m - 1) : A.data[i] \in S
  <2>1. n + m <= F * C
    BY <1>3, <1>5
  <2>2. F * C \in Nat /\ n \in Nat /\ m \in Nat
    BY <1>5
  <2> HIDE DEF n, m
  <2>3. \A i \in 0..(n + m - 1) : i \in 0..(F * C - 1)
    BY <2>1, <2>2
  <2>. QED  BY <1>1, <2>2, <2>3
<1>7. /\ Samples(n) \in Seq(S) /\ units \in Seq(S) /\ Len(units) = m
      /\ Samples(n) \o units = Samples(n + m)
  <2> DEFINE data == A.data
  <2>1. \A i \in 0..(n + m - 1) : data[i] \in S
    BY <1>6
  <2> HIDE DEF data, n, m
  <2>2. /\ [i \in 1..n |-> data[i - 1]] \in Seq(S)
        /\ [i \in 1..m |-> data[n + i - 1]] \in Seq(S)
        /\ Len([i \in 1..m |-> data[n + i - 1]]) = m
        /\ [i \in 1..n |-> data[i - 1]] \o [i \in 1..m |-> data[n + i - 1]]
             = [i \in 1..(n + m) |-> data[i - 1]]
    BY ONLY <1>6, <2>1, MoreSamples
  <2>. QED  BY <2>2 DEF Samples, data
<1>8. Header \in Seq(V) /\ Samples(n) \in Seq(V) /\ units \in Seq(V)
  <2> HIDE DEF n, m, units
  <2>1. Header \in Seq(V)
    BY HeaderSizePositive DEF Header
  <2>. QED  BY <1>7, <2>1
<1>9. Len(Header) = HeaderSize /\ Len(Samples(n)) = n
  BY <1>6, HeaderSizePositive DEF Header, Samples
<1>10. ctx' = [position |-> HeaderSize + n + m, buffer |-> Header \o Samples(n + m)]
  <2>1. PICK h, s, u, c : h = Header /\ s = Samples(n) /\ u = units /\ c = ctx
    OBVIOUS
  <2>2. ctx' = WriteUnits(c, u)
    BY <1>3, <2>1
  <2> HIDE DEF n, m, units, V
  <2>3. /\ h \in Seq(V) /\ s \in Seq(V) /\ u \in Seq(V) /\ c.buffer = h \o s
        /\ Len(h) = HeaderSize /\ Len(s) = n /\ Len(u) = m
        /\ c.position = Len(h) + Len(s)
    BY <1>2, <1>7, <1>8, <1>9, <2>1 DEF n
  <2>4. WriteUnits(c, u) = [position |-> Len(h) + Len(s) + Len(u), buffer |-> h \o (s \o u)]
    BY ONLY <2>3, AppendedTo
  <2>5. h \o (s \o u) = Header \o Samples(n + m)
    BY <1>7, <2>1
  <2>. QED  BY <2>2, <2>3, <2>4, <2>5
<1>11. ctx'.buffer = Header \o Samples(n + m) /\ ctx'.position = HeaderSize + (n + m)
  BY <1>6, <1>10, HeaderSizePositive
<1>12. current' = n + m
  BY <1>3
<1>13. Encoded(F, C)'
  <2> HIDE DEF n, m, units, V
  <2>1. \A k : k = n + m => [i \in 1..k |-> A'.data[i - 1]] = Samples(n + m)
    BY <1>1 DEF Samples
  <2>2. [i \in 1..current' |-> A'.data[i - 1]] = Samples(n + m)
    BY <1>12, <2>1
  <2>. QED  BY <1>5, <1>11, <1>12, <2>2 DEF Encoded, Samples
<1>. QED  BY <1>1, <1>13 DEF WriteChunk, EncoderInv

\* When the loop is left the position is at the file's end, and the header rewritten then
\* leaves the file as it was.
LEMMA FileClosed ==
  ASSUME NEW F \in Nat, NEW C \in Nat \ {0}, NEW S, EncoderInv(F, C, S),
         pc \in {"encode", "close"}
  PROVE  /\ WithHeader(ctx) = [position |-> ctx.position, buffer |-> ctx.buffer]
         /\ ctx.position = Len(ctx.buffer)
<1>1. Encoded(F, C) /\ A.data \in [0..(F * C - 1) -> S]
  BY DEF EncoderInv, Audios
<1>2. /\ framesLeft \in 0..F /\ current = (F - framesLeft) * C
      /\ ctx.position = HeaderSize + current /\ ctx.buffer = Header \o Samples(current)
  BY <1>1 DEF Encoded
<1>3. current \in Nat /\ current <= F * C /\ F * C \in Nat
  <2> PICK l \in 0..F : l = framesLeft
    BY <1>2
  <2>1. (F - l) * C \in Nat /\ (F - l) * C <= F * C /\ F * C \in Nat
    OBVIOUS
  <2>. QED  BY <1>2, <2>1
<1>4. PICK n \in Nat : n = current /\ n <= F * C
  BY <1>3
<1> DEFINE V == S \cup {HeaderUnit}
<1>5. Samples(n) \in Seq(V) /\ Len(Samples(n)) = n
  <2>1. \A i \in 1..n : A.data[i - 1] \in V
    <3>1. \A i \in 1..n : i - 1 \in 0..(F * C - 1)
      BY <1>3, <1>4
    <3>. QED  BY <1>1, <3>1
  <2> HIDE DEF V
  <2>. QED  BY <2>1 DEF Samples
<1>6. /\ Header \in Seq(V) /\ Len(Header) = HeaderSize
      /\ \A i \in 1..HeaderSize : Header[i] = HeaderUnit
  BY HeaderSizePositive DEF Header
<1>7. /\ WithHeader(ctx) = [position |-> ctx.position, buffer |-> ctx.buffer]
      /\ ctx.position = Len(ctx.buffer)
  <2>1. PICK h, s, c : h = Header /\ s = Samples(n) /\ c = ctx
    OBVIOUS
  <2>2. /\ h \in Seq(V) /\ s \in Seq(V) /\ Len(h) = HeaderSize /\ Len(s) = n
        /\ c.buffer = h \o s /\ c.position = HeaderSize + n
        /\ \A i \in 1..HeaderSize : h[i] = HeaderUnit
    BY <1>2, <1>4, <1>5, <1>6, <2>1
  <2>3. HeaderUnit \in V
    OBVIOUS
  <2> HIDE DEF V
  <2>4. /\ c.buffer \in Seq(V) /\ Len(c.buffer) = HeaderSize + n
        /\ \A i \in 1..HeaderSize : c.buffer[i] = HeaderUnit
    <3>1. /\ h \o s \in Seq(V) /\ Len(h \o s) = Len(h) + Len(s)
          /\ \A i \in 1..(Len(h) + Len(s)) :
               (h \o s)[i] = IF i <= Len(h) THEN h[i] ELSE s[i - Len(h)]
      BY ONLY <2>2, ConcatProperties
    <3>2. \A i \in 1..HeaderSize : i \in 1..(HeaderSize + n) /\ i <= HeaderSize
      BY HeaderSizePositive
    <3>. QED  BY <2>2, <3>1, <3>2
  <2>5. c.position = Len(c.buffer) /\ Len(c.buffer) >= HeaderSize
    BY <2>2, <2>4, HeaderSizePositive
  <2>6. WithHeader(c) = [position |-> c.position, buffer |-> c.buffer]
    BY <2>3, <2>4, <2>5, HeaderRewritten
  <2>. QED  BY <2>1, <2>5, <2>6
<1>. QED  BY <1>7

LEMMA CloseEncoderStep ==
  ASSUME NEW F \in Nat, NEW C \in Nat \ {0}, NEW S, EncoderInv(F, C, S), CloseEncoder
  PROVE  EncoderInv(F, C, S)'
<1>1. /\ A' = A /\ pc \in {"encode", "close"} /\ pc' = "done" /\ failed' = failed
      /\ Encoded(F, C)
      /\ pc = "close" => failed
      /\ pc = "encode" => framesLeft <= 0
      /\ ctx' = WithHeader(ctx) /\ output' = ctx'.buffer
  BY DEF CloseEncoder, EncoderInv, Audios
<1>2. /\ framesLeft \in 0..F /\ current = (F - framesLeft) * C
      /\ ctx.buffer = Header \o Samples(current)
  BY <1>1 DEF Encoded
<1>3. WithHeader(ctx).buffer = ctx.buffer
  BY <1>1, FileClosed
<1>4. ~failed => current = F * C
  <2>1. ~failed => framesLeft = 0
    BY <1>1, <1>2
  <2>. QED  BY <1>2, <2>1
<1>5. ~failed => output' = Header \o Samples(F * C)
  BY <1>1, <1>2, <1>3, <1>4
<1>6. \A k : [i \in 1..k |-> A'.data[i - 1]] = [i \in 1..k |-> A.data[i - 1]]
  BY <1>1
<1>7. Samples(F * C)' = Samples(F * C)
  BY <1>6 DEF Samples
<1>8. Encoded(F, C)'
  BY <1>1 DEF Encoded
<1>. QED  BY <1>1, <1>5, <1>7, <1>8 DEF CloseEncoder, EncoderInv

\* Every step keeps it; those before the effects are applied, and those for pictures, do
\* not happen any more.
LEMMA EncoderStep ==
  ASSUME NEW F \in Nat, NEW C \in Nat \ {0}, NEW S, EncoderInv(F, C, S), [Next]_vars
  PROVE  EncoderInv(F, C, S)'
<1>1. pc \notin {"construct", "load"} /\ effects = << >> /\ upload.type # "image"
  BY DEF EncoderInv
<1>2. CASE UNCHANGED vars
  BY <1>2 DEF vars, codecVars, EncoderInv, Encoded, Samples
<1>3. CASE ThrowAtConstruction \/ Construct \/ ThrowAtLoad \/ LoadImage \/ LoadAudio
  BY <1>1, <1>3 DEF ThrowAtConstruction, Construct, ThrowAtLoad, LoadImage, LoadAudio
<1>4. CASE Apply \/ EncodeImage \/ EncodeOtherImage
  BY <1>1, <1>4 DEF Apply, EncodeImage, EncodeOtherImage
<1>5. CASE EncoderFails
  BY <1>5 DEF EncoderFails, EncodingDue, Throw, EncoderInv, Encoded
<1>6. CASE OpenEncoder
  BY <1>6, OpenEncoderStep
<1>7. CASE WriteChunk
  BY <1>7, WriteChunkStep
<1>8. CASE WriteFails
  <2>1. /\ pc = "encode" /\ pc' = "close" /\ failed'
        /\ UNCHANGED <<upload, effects, A, ctx, framesLeft, current>>
    BY <1>8 DEF WriteFails, AfterWriteFailure, codecVars
  <2>2. Encoded(F, C)'
    BY <2>1 DEF EncoderInv, Encoded, Samples
  <2>. QED  BY <2>1, <2>2 DEF EncoderInv
<1>9. CASE CloseEncoder
  BY <1>9, CloseEncoderStep
<1>10. CASE Ended
  BY <1>2, <1>10 DEF Ended
<1>. QED  BY <1>2, <1>3, <1>4, <1>5, <1>6, <1>7, <1>8, <1>9, <1>10 DEF Next

\* What the encoder's loop makes of any sound, in chunks of any size and however short
\* the library writes them: at every moment the file is the header and the first frames, as
\* many as are no longer left.
THEOREM FramesInOrder ==
  ASSUME NEW F \in Nat, NEW C \in Nat \ {0}, NEW S
  PROVE  SoundMade(F, C, S) /\ [][Next]_vars => []EncodedInOrder
<1>1. SoundMade(F, C, S) => EncoderInv(F, C, S)
  BY DEF SoundMade, EncodingDue, EncoderInv, Encoded
<1>2. EncoderInv(F, C, S) /\ [Next]_vars => EncoderInv(F, C, S)'
  BY EncoderStep
<1>3. EncoderInv(F, C, S) => EncodedInOrder
  <2> SUFFICES ASSUME EncoderInv(F, C, S), pc \in {"encode", "close"}
               PROVE  ctx.buffer = Header \o Samples((A.frames - framesLeft) * A.channels)
    BY DEF EncodedInOrder, Samples
  <2>1. A.frames = F /\ A.channels = C
    BY DEF EncoderInv, Audios
  <2>. QED  BY <2>1 DEF EncoderInv, Encoded
<1>. QED  BY <1>1, <1>2, <1>3, PTL

\* An answer given without a failure of the library is the header and the whole sound: what
\* the header rewritten at the end, and the position put back, leave in the file.
WholeSound(F, C) == pc = "done" /\ ~failed => output = Header \o Samples(F * C)

THEOREM AnswerIsWhole ==
  ASSUME NEW F \in Nat, NEW C \in Nat \ {0}, NEW S
  PROVE  SoundMade(F, C, S) /\ [][Next]_vars => []WholeSound(F, C)
<1>1. SoundMade(F, C, S) => EncoderInv(F, C, S)
  BY DEF SoundMade, EncodingDue, EncoderInv, Encoded
<1>2. EncoderInv(F, C, S) /\ [Next]_vars => EncoderInv(F, C, S)'
  BY EncoderStep
<1>3. EncoderInv(F, C, S) => WholeSound(F, C)
  BY DEF EncoderInv, WholeSound
<1>. QED  BY <1>1, <1>2, <1>3, PTL

-----------------------------------------------------------------------------
(***************************************************************************)
(* What the decoder leaves in the first buffer.                            *)
(***************************************************************************)

Marks == SUBSET (Nat \X Nat)

\* Every sample that the file holds is in its place, and silence stands for the others.
LEMMA DecodedAt ==
  ASSUME NEW u, u.held \in Nat, NEW C \in Nat \ {0}, u.shape.channels = C,
         NEW N \in Nat, NEW k \in 0..(N - 1)
  PROVE  DecodedData(SoundFile(u), N)[k]
           = IF k < u.held THEN {<<k \div C, k % C>>} ELSE {}
<1> DEFINE V == {HeaderUnit} \cup Marks
           body == [j \in 1..u.held |-> {<<(j - 1) \div C, (j - 1) % C>>}]
           file == Header \o body
           behind == ReadSeek(AfterRead([position |-> 0, buffer |-> file], HeaderSize), HeaderSize, "SET")
           last == IF HeaderSize + N < HeaderSize + u.held THEN HeaderSize + N
                   ELSE HeaderSize + u.held
           units == SubSeq(file, HeaderSize + 1, last)
<1>1. PICK h \in Nat : h = u.held
  OBVIOUS
<1>2. /\ Header \in Seq(V) /\ Len(Header) = HeaderSize /\ HeaderSize \in Nat
  <2>1. Header \in Seq({HeaderUnit}) /\ Len(Header) = HeaderSize /\ HeaderSize \in Nat
    BY HeaderSizePositive DEF Header
  <2>. QED  BY <2>1
<1>3. body \in Seq(V) /\ Len(body) = h
  <2>1. \A j \in 1..h : (j - 1) \div C \in Nat /\ (j - 1) % C \in Nat
    OBVIOUS
  <2>2. \A j \in 1..h : {<<(j - 1) \div C, (j - 1) % C>>} \in V
    BY <2>1 DEF Marks
  <2> HIDE DEF V
  <2>3. body = [j \in 1..h |-> body[j]] /\ \A j \in 1..h : body[j] \in V
    BY <1>1, <2>2
  <2> HIDE DEF body
  <2>. QED  BY <2>3, IsSequence
<1>4. /\ file \in Seq(V) /\ Len(file) = HeaderSize + h
      /\ \A j \in 1..h : file[HeaderSize + j] = body[j]
  <2> HIDE DEF V, body
  <2>1. /\ file \in Seq(V) /\ Len(file) = Len(Header) + Len(body)
        /\ \A i \in 1..(Len(Header) + Len(body)) :
             file[i] = IF i <= Len(Header) THEN Header[i] ELSE body[i - Len(Header)]
    BY <1>2, <1>3, ConcatProperties
  <2>2. \A j \in 1..h : /\ HeaderSize + j \in 1..(HeaderSize + h) /\ ~(HeaderSize + j <= HeaderSize)
                        /\ HeaderSize + j - HeaderSize = j
    BY <1>2
  <2> HIDE DEF file
  <2>. QED  BY <1>2, <1>3, <2>1, <2>2
<1>5. SoundFile(u) = file
  BY DEF SoundFile
<1> HIDE DEF file, V
<1>6. behind.position = HeaderSize /\ behind.buffer = file
  BY <1>2, <1>4 DEF ReadSeek, AfterRead, Destination
<1>7. ReadUnits(behind, N) = units
  <2> HIDE DEF behind
  <2>. QED  BY <1>1, <1>4, <1>6 DEF ReadUnits
<1>8. DecodedData(SoundFile(u), N)[k] = IF k < Len(units) THEN units[k + 1] ELSE {}
  <2> HIDE DEF units
  <2>. QED  BY <1>5, <1>7 DEF DecodedData
<1>9. /\ Len(units) = IF N < h THEN N ELSE h
      /\ \A j \in 1..Len(units) : units[j] = file[HeaderSize + j]
  <2>1. last \in Nat /\ last <= Len(file) /\ last = HeaderSize + (IF N < h THEN N ELSE h)
    BY <1>1, <1>2, <1>4
  <2> HIDE DEF last
  <2>2. HeaderSize + 1 \in 1..(Len(file) + 1) /\ last \in 0..Len(file)
    BY <1>2, <1>4, <2>1
  <2>3. /\ Len(units) = IF HeaderSize + 1 <= last THEN last - (HeaderSize + 1) + 1 ELSE 0
        /\ \A j \in 1..(last - (HeaderSize + 1) + 1) : units[j] = file[(HeaderSize + 1) + j - 1]
    BY <1>2, <1>4, <2>2, SubSeqProperties
  <2>4. PICK n \in Nat : n = (IF N < h THEN N ELSE h)
    OBVIOUS
  <2>5. HeaderSize \in Nat /\ last = HeaderSize + n
    BY <1>2, <2>1, <2>4
  <2>6. /\ last - (HeaderSize + 1) + 1 = n
        /\ (IF HeaderSize + 1 <= last THEN last - (HeaderSize + 1) + 1 ELSE 0) = n
        /\ \A j \in 1..n : (HeaderSize + 1) + j - 1 = HeaderSize + j
    BY ONLY <2>4, <2>5
  <2> HIDE DEF units
  <2>7. Len(units) = n /\ \A j \in 1..n : units[j] = file[HeaderSize + j]
    BY ONLY <2>3, <2>6
  <2>. QED  BY ONLY <2>4, <2>7
<1> HIDE DEF units
<1>10. k < Len(units) <=> k < h
  BY <1>9
<1>11. k < h => units[k + 1] = {<<k \div C, k % C>>}
  <2> SUFFICES ASSUME k < h PROVE units[k + 1] = {<<k \div C, k % C>>}
    OBVIOUS
  <2>1. k + 1 \in 1..Len(units) /\ k + 1 \in 1..h /\ k + 1 - 1 = k
    BY <1>9
  <2>2. body[k + 1] = {<<k \div C, k % C>>}
    BY <1>1, <2>1
  <2> HIDE DEF body
  <2>. QED  BY <1>4, <1>9, <2>1, <2>2
<1>. QED  BY <1>1, <1>8, <1>10, <1>11

LEMMA DecodedIsSound ==
  ASSUME NEW u, u.held \in Nat, u.shape.frames \in Nat, u.shape.channels \in Nat \ {0}
  PROVE  DecodedAudio(u) \in Audios(u.shape.frames, u.shape.channels, Marks)
<1>1. PICK F \in Nat, C \in Nat \ {0}, h \in Nat :
        F = u.shape.frames /\ C = u.shape.channels /\ h = u.held
  OBVIOUS
<1> DEFINE N == F * C
           data == DecodedData(SoundFile(u), N)
<1>2. N \in Nat
  OBVIOUS
<1>3. \A k \in 0..(N - 1) : data[k] = IF k < h THEN {<<k \div C, k % C>>} ELSE {}
  <2> HIDE DEF N
  <2>. QED  BY <1>1, <1>2, DecodedAt
<1>4. \A k \in 0..(N - 1) : data[k] \in Marks
  <2>1. \A k \in 0..(N - 1) : k \div C \in Nat /\ k % C \in Nat
    <3> HIDE DEF N
    <3>. QED  BY <1>2
  <2>2. {} \in Marks /\ \A a, b \in Nat : {<<a, b>>} \in Marks
    BY DEF Marks
  <2> HIDE DEF data, N
  <2>3. SUFFICES ASSUME NEW k \in 0..(N - 1) PROVE data[k] \in Marks
    OBVIOUS
  <2>4. PICK a \in Nat, b \in Nat : a = k \div C /\ b = k % C
    BY <2>1
  <2>5. data[k] = IF k < h THEN {<<a, b>>} ELSE {}
    BY <1>3, <2>4
  <2>. QED  BY <2>2, <2>5
<1>5. data \in [0..(N - 1) -> Marks]
  <2>1. data = [k \in 0..(N - 1) |-> data[k]]
    BY DEF DecodedData
  <2> HIDE DEF data, N
  <2>. QED  BY <1>4, <2>1
<1>6. DecodedAudio(u) = [frames |-> F, channels |-> C, data |-> data]
  BY <1>1 DEF DecodedAudio
<1> HIDE DEF data
<1>. QED  BY <1>1, <1>5, <1>6 DEF Audios

-----------------------------------------------------------------------------
(***************************************************************************)
(* Recursions are known by their least counterexamples.                    *)
(***************************************************************************)
LEMMA LeastOf ==
  ASSUME NEW T \in SUBSET Nat, T # {}
  PROVE  \E m \in T : \A n \in T : m <= n
<1> DEFINE R == OpToRel(<, Nat)
<1>1. IsWellFoundedOn(R, Nat)
  BY NatLessThanWellFounded
<1>2. \A x, y \in Nat : <<x, y>> \in R <=> x < y
  BY DEF OpToRel
<1> HIDE DEF R
<1>3. PICK m \in T : \A n \in T : ~(<<n, m>> \in R)
  BY <1>1, WFMin
<1>4. \A n \in T : ~(n < m)
  BY <1>2, <1>3
<1>. QED  BY <1>4

\* A claim that passes from each number to the next holds of all up to N.
LEMMA UpTo ==
  ASSUME NEW N \in Nat, NEW G, 0 \in G, \A n \in 0..(N - 1) : n \in G => n + 1 \in G
  PROVE  \A n \in 0..N : n \in G
<1> DEFINE Bad == {n \in Nat : n <= N /\ n \notin G}
<1>1. Bad = {}
  <2> SUFFICES ASSUME Bad # {} PROVE FALSE
    OBVIOUS
  <2>1. PICK m \in Bad : \A n \in Bad : m <= n
    BY LeastOf
  <2>2. m - 1 \in 0..(N - 1) /\ m - 1 \notin Bad
    BY <2>1
  <2>. QED  BY <2>2
<1>. QED  BY <1>1

-----------------------------------------------------------------------------
(***************************************************************************)
(* The text of a pipeline: what join() puts together, the constructor's    *)
(* loops over find() take apart.                                           *)
(***************************************************************************)
\* A claim that passes from each number to the one before holds of all from N down to 1.
LEMMA DownFrom ==
  ASSUME NEW N \in Nat \ {0}, NEW G, N \in G, \A n \in 1..(N - 1) : n + 1 \in G => n \in G
  PROVE  \A n \in 1..N : n \in G
<1> DEFINE H == {k \in Nat : N - k \in G}
<1>1. 0 \in H
  OBVIOUS
<1>2. ASSUME NEW k \in 0..((N - 1) - 1), k \in H PROVE k + 1 \in H
  <2>1. PICK n \in 1..(N - 1) : n = N - (k + 1)
    OBVIOUS
  <2>2. n + 1 = N - k
    BY <2>1
  <2>. QED  BY <1>2, <2>1, <2>2
<1>3. \A k \in 0..(N - 1) : k \in H
  <2> HIDE DEF H
  <2>. QED  BY <1>1, <1>2, UpTo
<1> TAKE n \in 1..N
<1>4. N - n \in 0..(N - 1) /\ N - (N - n) = n
  OBVIOUS
<1>. QED  BY <1>3, <1>4

\* What Find returns: 0 if the word is not there, the first place otherwise.
FirstAt(end, text, word, start) ==
  \/ end = 0 /\ \A i \in start..Len(text) : text[i] # word
  \/ /\ end \in start..Len(text) /\ text[end] = word
     /\ \A i \in start..(end - 1) : text[i] # word

LEMMA FindIs ==
  ASSUME NEW V, NEW text \in Seq(V), NEW word, NEW start \in Nat \ {0}
  PROVE  FirstAt(Find(text, word, start), text, word, start)
<1> PICK n \in Nat : n = Len(text)
  OBVIOUS
<1> PICK I : I = {i \in start..n : text[i] = word}
  OBVIOUS
<1>1. Find(text, word, start) = IF I # {} THEN CHOOSE x \in I : \A y \in I : x <= y ELSE 0
  BY DEF Find, SelectInSubSeq, Min
<1>2. CASE I = {}
  BY <1>1, <1>2 DEF FirstAt
<1>3. CASE I # {}
  <2>1. PICK m \in I : \A y \in I : m <= y
    <3>1. I \in SUBSET Nat
      OBVIOUS
    <3>. QED  BY <1>3, <3>1, LeastOf
  <2>2. PICK e : e = CHOOSE x \in I : \A y \in I : x <= y
    OBVIOUS
  <2>3. e \in I /\ \A y \in I : e <= y
    BY <2>1, <2>2
  <2>4. Find(text, word, start) = e
    BY <1>1, <1>3, <2>2
  <2>5. e \in start..n /\ text[e] = word
    BY <2>3
  <2>6. \A i \in start..(e - 1) : text[i] # word
    BY <2>3
  <2>. QED  BY <2>4, <2>5, <2>6 DEF FirstAt
<1>. QED  BY <1>2, <1>3

\* Behind p, the words s are found up to the separator that begins r, or to the end.
FoundIn(t, sep, a, s, b, r) ==
  /\ Find(t, sep, a + 1) = IF r = << >> THEN 0 ELSE a + b + 1
  /\ SubSeq(t, a + 1, a + b) = s

LEMMA FindBehind ==
  ASSUME NEW V, NEW p \in Seq(V), NEW s \in Seq(V), NEW r \in Seq(V), NEW sep,
         \A i \in 1..Len(s) : s[i] # sep, r = << >> \/ r[1] = sep,
         NEW t, t = (p \o s) \o r
  PROVE  FoundIn(t, sep, Len(p), s, Len(s), r)
<1> PICK a \in Nat, b \in Nat, c \in Nat : a = Len(p) /\ b = Len(s) /\ c = Len(r)
  OBVIOUS
<1>1. /\ t \in Seq(V) /\ Len(t) = a + b + c
      /\ \A i \in 1..b : t[a + i] = s[i]
      /\ c > 0 => t[a + b + 1] = r[1]
      /\ r = << >> <=> c = 0
  <2>1. /\ p \o s \in Seq(V) /\ Len(p \o s) = a + b
        /\ \A i \in 1..(a + b) : (p \o s)[i] = IF i <= a THEN p[i] ELSE s[i - a]
    BY ConcatProperties
  <2>2. /\ t \in Seq(V) /\ Len(t) = a + b + c
        /\ \A i \in 1..(a + b + c) : t[i] = IF i <= a + b THEN (p \o s)[i] ELSE r[i - (a + b)]
    BY <2>1, ConcatProperties
  <2>3. ASSUME NEW i \in 1..b PROVE t[a + i] = s[i]
    <3>1. t[a + i] = (p \o s)[a + i]
      BY <2>2
    <3>2. (p \o s)[a + i] = s[i]
      <4>1. a + i \in 1..(a + b) /\ ~(a + i <= a) /\ (a + i) - a = i
        OBVIOUS
      <4>. QED  BY <2>1, <4>1
    <3>. QED  BY <3>1, <3>2
  <2>4. c > 0 => t[a + b + 1] = r[1]
    <3>1. c > 0 => a + b + 1 \in 1..(a + b + c) /\ (a + b + 1) - (a + b) = 1
      OBVIOUS
    <3>. QED  BY <2>2, <3>1
  <2>5. r = << >> <=> c = 0
    OBVIOUS
  <2>. QED  BY <2>2, <2>3, <2>4, <2>5
<1>2. \A i \in (a + 1)..(a + b) : t[i] = s[i - a] /\ i - a \in 1..b
  <2> TAKE i \in (a + 1)..(a + b)
  <2>1. i - a \in 1..b /\ a + (i - a) = i
    OBVIOUS
  <2>. QED  BY <1>1, <2>1
<1>3. \A i \in (a + 1)..(a + b) : t[i] # sep
  BY <1>2
<1>4. PICK e : e = Find(t, sep, a + 1)
  OBVIOUS
<1>5. \/ e = 0 /\ \A i \in (a + 1)..(a + b + c) : t[i] # sep
      \/ /\ e \in (a + 1)..(a + b + c) /\ t[e] = sep
         /\ \A i \in (a + 1)..(e - 1) : t[i] # sep
  <2>1. a + 1 \in Nat \ {0}
    OBVIOUS
  <2>2. t \in Seq(V) /\ Len(t) = a + b + c
    BY <1>1
  <2>3. \/ e = 0 /\ \A i \in (a + 1)..Len(t) : t[i] # sep
        \/ /\ e \in (a + 1)..Len(t) /\ t[e] = sep
           /\ \A i \in (a + 1)..(e - 1) : t[i] # sep
    <3> PICK st \in Nat \ {0} : st = a + 1
      BY <2>1
    <3>1. t \in Seq(V)
      BY <2>2
    <3>2. FirstAt(Find(t, sep, st), t, sep, st)
      BY ONLY <3>1, FindIs
    <3>. QED  BY <1>4, <3>2 DEF FirstAt
  <2>. QED  BY ONLY <2>2, <2>3
<1>6. e = IF r = << >> THEN 0 ELSE a + b + 1
  <2>1. CASE r = << >>
    <3>1. c = 0
      BY <1>1, <2>1
    <3>. QED  BY <1>3, <1>5, <2>1, <3>1
  <2>2. CASE r # << >>
    <3>1. c > 0 /\ t[a + b + 1] = sep
      BY <1>1, <2>2
    <3>2. a + b + 1 \in (a + 1)..(a + b + c)
      BY <3>1
    <3>3. e \in (a + 1)..(a + b + c) /\ t[e] = sep /\ \A i \in (a + 1)..(e - 1) : t[i] # sep
      BY <1>5, <3>1, <3>2
    <3>4. ~(e <= a + b)
      BY <1>3, <3>3
    <3>5. ~(e > a + b + 1)
      <4>1. e > a + b + 1 => a + b + 1 \in (a + 1)..(e - 1)
        BY <3>3
      <4>. QED  BY <3>1, <3>3, <4>1
    <3>. QED  BY <2>2, <3>3, <3>4, <3>5
  <2>. QED  BY <2>1, <2>2
<1>7. SubSeq(t, a + 1, a + b) = s
  <2>1. \A i \in (a + 1)..(a + b) : t[i] \in V
    <3>1. \A i \in 1..b : s[i] \in V
      BY ElementOfSeq
    <3>. QED  BY <1>2, <3>1
  <2> PICK u : u = SubSeq(t, a + 1, a + b)
    OBVIOUS
  <2>2. /\ u \in Seq(V) /\ Len(u) = (IF a + 1 <= a + b THEN (a + b) - (a + 1) + 1 ELSE 0)
        /\ \A i \in 1..((a + b) - (a + 1) + 1) : u[i] = t[(a + 1) + i - 1]
    <3>1. a + 1 \in Int /\ a + b \in Int
      OBVIOUS
    <3>. QED  BY <2>1, <3>1, SubSeqProperties
  <2>3. Len(u) = b
    BY <2>2
  <2>4. \A i \in 1..b : u[i] = s[i]
    <3> TAKE i \in 1..b
    <3>1. i \in 1..((a + b) - (a + 1) + 1) /\ (a + 1) + i - 1 = a + i
      OBVIOUS
    <3>. QED  BY <1>1, <2>2, <3>1
  <2>. QED  BY <2>2, <2>3, <2>4, SeqEqual
<1>. QED  BY <1>4, <1>6, <1>7 DEF FoundIn

\* The recursion of Joined.
Glued(x, separator, y) == x \o <<separator>> \o y
JoinStep(j, parts, separator, n) ==
  CASE n = 0 -> << >>
    [] n = 1 -> parts[1]
    [] OTHER -> j[n - 1] \o <<separator>> \o parts[n]
Joins(j, parts, separator, N) ==
  j = [n \in 0..N |-> CASE n = 0 -> << >>
                        [] n = 1 -> parts[1]
                        [] OTHER -> j[n - 1] \o <<separator>> \o parts[n]]

LEMMA JoinCases ==
  ASSUME NEW j, NEW parts, NEW sep
  PROVE  /\ JoinStep(j, parts, sep, 0) = << >> /\ JoinStep(j, parts, sep, 1) = parts[1]
         /\ \A n \in Nat \ {0, 1} : JoinStep(j, parts, sep, n) = Glued(j[n - 1], sep, parts[n])
<1>1. JoinStep(j, parts, sep, 0) = << >>
  BY DEF JoinStep
<1>2. JoinStep(j, parts, sep, 1) = parts[1]
  BY DEF JoinStep
<1>3. ASSUME NEW n \in Nat \ {0, 1}
      PROVE  JoinStep(j, parts, sep, n) = Glued(j[n - 1], sep, parts[n])
  BY DEF JoinStep, Glued
<1>. QED  BY <1>1, <1>2, <1>3

LEMMA JoinExists ==
  ASSUME NEW parts, NEW sep, NEW N \in Nat
  PROVE  \E j : Joins(j, parts, sep, N)
<1> DEFINE G == {m \in Nat : \E j : Joins(j, parts, sep, m)}
<1>1. 0 \in G
  <2> PICK j : j = [n \in 0..0 |-> << >>]
    OBVIOUS
  <2>1. j = [n \in 0..0 |-> JoinStep(j, parts, sep, n)]
    BY DEF JoinStep
  <2>2. Joins(j, parts, sep, 0)
    BY <2>1 DEF Joins, JoinStep
  <2>. QED  BY <2>2
<1>2. ASSUME NEW m \in 0..(N - 1), m \in G PROVE m + 1 \in G
  <2>1. PICK j : Joins(j, parts, sep, m)
    BY <1>2
  <2>2. j = [n \in 0..m |-> JoinStep(j, parts, sep, n)]
    BY <2>1 DEF Joins, JoinStep
  <2>3. \A n \in 0..m : j[n] = JoinStep(j, parts, sep, n)
    BY <2>2
  <2> DEFINE h == [n \in 0..(m + 1) |-> JoinStep(j, parts, sep, n)]
  <2>4. \A n \in 0..m : h[n] = j[n]
    <3>1. \A n \in 0..m : n \in 0..(m + 1)
      OBVIOUS
    <3>. QED  BY <2>3, <3>1
  <2>5. \A n \in 0..(m + 1) : JoinStep(j, parts, sep, n) = JoinStep(h, parts, sep, n)
    <3>1. \A n \in 0..(m + 1) : n \notin {0, 1} => n - 1 \in 0..m
      OBVIOUS
    <3> HIDE DEF h
    <3>2. \A n \in 0..(m + 1) : n \notin {0, 1} => h[n - 1] = j[n - 1]
      BY <2>4, <3>1
    <3>. QED  BY <3>2 DEF JoinStep
  <2>6. h = [n \in 0..(m + 1) |-> JoinStep(h, parts, sep, n)]
    BY <2>5
  <2> HIDE DEF h
  <2>7. Joins(h, parts, sep, m + 1)
    BY <2>6 DEF Joins, JoinStep
  <2>. QED  BY <2>7
<1>3. \A m \in 0..N : m \in G
  <2> HIDE DEF G
  <2>. QED  BY <1>1, <1>2, UpTo
<1>. QED  BY <1>3

LEMMA JoinedIs ==
  ASSUME NEW parts, Len(parts) \in Nat, NEW sep
  PROVE  \E j : /\ Joined(parts, sep) = j[Len(parts)]
                /\ \A n \in 0..Len(parts) : j[n] = JoinStep(j, parts, sep, n)
<1> DEFINE j == CHOOSE j : Joins(j, parts, sep, Len(parts))
<1>1. Joins(j, parts, sep, Len(parts))
  BY JoinExists
<1>2. Joined(parts, sep) = j[Len(parts)]
  BY DEF Joined, Joins
<1> HIDE DEF j
<1>3. j = [n \in 0..Len(parts) |-> JoinStep(j, parts, sep, n)]
  BY <1>1 DEF Joins, JoinStep
<1>4. \A n \in 0..Len(parts) : j[n] = JoinStep(j, parts, sep, n)
  BY <1>3
<1>. QED  BY <1>2, <1>4

\* The recursion of Pieces.
PieceStep(g, text, separator, skipped, start) ==
  IF start > Len(text) THEN << >>
  ELSE LET end == Find(text, separator, start)
           piece == SubSeq(text, start, IF end = 0 THEN Len(text) ELSE end - 1)
       IN  (IF piece \in skipped THEN << >> ELSE <<piece>>)
             \o (IF end = 0 THEN << >> ELSE g[end + 1])
Splits(g, text, separator, skipped, low) ==
  g = [start \in low..(Len(text) + 2) |->
         IF start > Len(text) THEN << >>
         ELSE LET end == Find(text, separator, start)
                  piece == SubSeq(text, start, IF end = 0 THEN Len(text) ELSE end - 1)
              IN  (IF piece \in skipped THEN << >> ELSE <<piece>>)
                    \o (IF end = 0 THEN << >> ELSE g[end + 1])]

LEMMA SplitExists ==
  ASSUME NEW V, NEW text \in Seq(V), NEW sep, NEW skipped
  PROVE  \E g : Splits(g, text, sep, skipped, 1)
<1> PICK L \in Nat : L = Len(text)
  OBVIOUS
<1> DEFINE G == {m \in Nat : \E g : Splits(g, text, sep, skipped, m)}
<1>1. L + 2 \in G
  <2> PICK g : g = [n \in (L + 2)..(L + 2) |-> << >>]
    OBVIOUS
  <2>1. \A n \in (L + 2)..(L + 2) : PieceStep(g, text, sep, skipped, n) = << >>
    <3>1. \A n \in (L + 2)..(L + 2) : n > Len(text)
      OBVIOUS
    <3>. QED  BY <3>1 DEF PieceStep
  <2>2. g = [n \in (L + 2)..(L + 2) |-> PieceStep(g, text, sep, skipped, n)]
    BY <2>1
  <2>3. Splits(g, text, sep, skipped, L + 2)
    BY <2>2 DEF Splits, PieceStep
  <2>. QED  BY <2>3
<1>2. ASSUME NEW m \in 1..((L + 2) - 1), m + 1 \in G PROVE m \in G
  <2>1. PICK g : Splits(g, text, sep, skipped, m + 1)
    BY <1>2
  <2>2. g = [n \in (m + 1)..(L + 2) |-> PieceStep(g, text, sep, skipped, n)]
    BY <2>1 DEF Splits, PieceStep
  <2>3. \A n \in (m + 1)..(L + 2) : g[n] = PieceStep(g, text, sep, skipped, n)
    BY <2>2
  <2> DEFINE h == [n \in m..(L + 2) |-> PieceStep(g, text, sep, skipped, n)]
  <2>4. \A n \in (m + 1)..(L + 2) : h[n] = g[n]
    <3>1. \A n \in (m + 1)..(L + 2) : n \in m..(L + 2)
      OBVIOUS
    <3>. QED  BY <2>3, <3>1
  <2>5. ASSUME NEW n \in m..(L + 2)
        PROVE  PieceStep(g, text, sep, skipped, n) = PieceStep(h, text, sep, skipped, n)
    <3> HIDE DEF h
    <3>1. CASE n > L
      BY <3>1 DEF PieceStep
    <3>2. CASE ~(n > L)
      <4>1. PICK e : e = Find(text, sep, n)
        OBVIOUS
      <4>2. FirstAt(e, text, sep, n)
        <5>1. n \in Nat \ {0}
          OBVIOUS
        <5>. QED  BY <4>1, <5>1, FindIs
      <4>3. e # 0 => e + 1 \in (m + 1)..(L + 2)
        BY <4>2 DEF FirstAt
      <4>4. e # 0 => g[e + 1] = h[e + 1]
        BY <2>4, <4>3
      <4>. QED  BY <4>1, <4>4 DEF PieceStep
    <3>. QED  BY <3>1, <3>2
  <2>6. h = [n \in m..(L + 2) |-> PieceStep(h, text, sep, skipped, n)]
    BY <2>5
  <2> HIDE DEF h
  <2>7. Splits(h, text, sep, skipped, m)
    BY <2>6 DEF Splits, PieceStep
  <2>. QED  BY <2>7
<1>3. \A m \in 1..(L + 2) : m \in G
  <2> HIDE DEF G
  <2> PICK N \in Nat \ {0} : N = L + 2
    OBVIOUS
  <2>1. N \in G /\ \A m \in 1..(N - 1) : m + 1 \in G => m \in G
    BY <1>1, <1>2
  <2>. QED  BY <2>1, DownFrom
<1>. QED  BY <1>3

LEMMA PiecesIs ==
  ASSUME NEW V, NEW text \in Seq(V), NEW sep, NEW skipped
  PROVE  \E g : /\ Pieces(text, sep, skipped) = g[1]
                /\ \A n \in 1..(Len(text) + 2) : g[n] = PieceStep(g, text, sep, skipped, n)
<1> DEFINE g == CHOOSE g : Splits(g, text, sep, skipped, 1)
<1>1. Splits(g, text, sep, skipped, 1)
  BY SplitExists
<1>2. Pieces(text, sep, skipped) = g[1]
  BY DEF Pieces, Splits
<1> HIDE DEF g
<1>3. g = [n \in 1..(Len(text) + 2) |-> PieceStep(g, text, sep, skipped, n)]
  BY <1>1 DEF Splits, PieceStep
<1>4. \A n \in 1..(Len(text) + 2) : g[n] = PieceStep(g, text, sep, skipped, n)
  BY <1>3
<1>. QED  BY <1>2, <1>4

NextIs(found, g, length, a, s, b, r) ==
  /\ found = <<s>> \o (IF r = << >> THEN << >> ELSE g[a + b + 2])
  /\ length = a + b + Len(r)

\* The piece s between p and r is found, kept, and the search goes on behind its separator.
LEMMA NextPiece ==
  ASSUME NEW V, NEW p \in Seq(V), NEW s \in Seq(V), NEW r \in Seq(V), NEW sep, NEW skipped,
         s # << >>, s \notin skipped, \A i \in 1..Len(s) : s[i] # sep, r = << >> \/ r[1] = sep,
         NEW g, NEW text, text = (p \o s) \o r
  PROVE  NextIs(PieceStep(g, text, sep, skipped, Len(p) + 1), g, Len(text), Len(p), s, Len(s), r)
<1> PICK a \in Nat, b \in Nat, c \in Nat : a = Len(p) /\ b = Len(s) /\ c = Len(r)
  OBVIOUS
<1>1. /\ Find(text, sep, a + 1) = IF r = << >> THEN 0 ELSE a + b + 1
      /\ SubSeq(text, a + 1, a + b) = s
  <2>1. FoundIn(text, sep, Len(p), s, Len(s), r)
    BY FindBehind
  <2>. QED  BY <2>1 DEF FoundIn
<1>2. Len(text) = a + b + c
  <2>1. p \o s \in Seq(V) /\ Len(p \o s) = a + b
    BY ConcatProperties
  <2>. QED  BY <2>1, ConcatProperties
<1>3. b > 0 /\ (r = << >> => c = 0)
  OBVIOUS
<1>4. ~(a + 1 > Len(text))
  BY <1>2, <1>3
<1>5. CASE r = << >>
  <2>1. Len(text) = a + b /\ Find(text, sep, a + 1) = 0
    BY <1>1, <1>2, <1>3, <1>5
  <2>2. SubSeq(text, a + 1, Len(text)) = s
    BY <1>1, <2>1
  <2>3. PieceStep(g, text, sep, skipped, a + 1) = <<s>> \o << >>
    BY <1>4, <2>1, <2>2 DEF PieceStep
  <2>. QED  BY <1>2, <1>5, <2>3 DEF NextIs
<1>6. CASE r # << >>
  <2>1. PICK e \in Nat : e = a + b + 1
    OBVIOUS
  <2>2. Find(text, sep, a + 1) = e /\ e # 0 /\ e - 1 = a + b /\ e + 1 = a + b + 2
    BY <1>1, <1>6, <2>1
  <2>3. SubSeq(text, a + 1, e - 1) = s
    BY <1>1, <2>2
  <2>4. PieceStep(g, text, sep, skipped, a + 1) = <<s>> \o g[e + 1]
    BY <1>4, <2>2, <2>3 DEF PieceStep
  <2>. QED  BY <1>2, <1>6, <2>2, <2>4 DEF NextIs
<1>. QED  BY <1>5, <1>6

LEMMA OneWord ==
  ASSUME NEW V, NEW w \in V
  PROVE  <<w>> \in Seq(V) /\ Len(<<w>>) = 1 /\ <<w>>[1] = w
OBVIOUS

LEMMA TwoWords ==
  ASSUME NEW V, NEW w \in V, NEW x \in V, NEW p, p = <<w, x>>
  PROVE  p \in Seq(V) /\ Len(p) = 2 /\ p[1] = w /\ p[2] = x
OBVIOUS

Regroups(V, x, sep, y, r) ==
  \E v : v \in Seq(V) /\ v # << >> /\ v[1] = sep /\ Glued(x, sep, y) \o r = x \o v

LEMMA Regrouped ==
  ASSUME NEW V, NEW x, x \in Seq(V), NEW y, y \in Seq(V), NEW r, r \in Seq(V), NEW sep, sep \in V
  PROVE  Regroups(V, x, sep, y, r)
<1>1. PICK o : o = <<sep>> /\ o \in Seq(V) /\ Len(o) = 1 /\ o[1] = sep
  BY OneWord
<1>2. PICK w : w = y \o r
  OBVIOUS
<1>2a. w \in Seq(V)
  BY ONLY <1>2, y \in Seq(V), r \in Seq(V), ConcatProperties
<1>2b. Len(w) \in Nat
  BY ONLY <1>2a
<1>3. PICK v : v = o \o w
  OBVIOUS
<1>4. /\ v \in Seq(V) /\ Len(v) = 1 + Len(w)
      /\ \A i \in 1..(1 + Len(w)) : v[i] = IF i <= 1 THEN o[i] ELSE w[i - 1]
  BY ONLY <1>1, <1>2a, <1>3, ConcatProperties
<1>5. v[1] = sep /\ v # << >>
  BY ONLY <1>1, <1>2b, <1>4
<1>6. PICK z : z = x \o o
  OBVIOUS
<1>6a. z \in Seq(V)
  BY ONLY <1>1, <1>6, x \in Seq(V), ConcatProperties
<1>7. (z \o y) \o r = z \o (y \o r)
  BY ONLY <1>6a, y \in Seq(V), r \in Seq(V), ConcatAssociative
<1>8. (x \o o) \o w = x \o (o \o w)
  BY ONLY <1>1, <1>2a, x \in Seq(V), ConcatAssociative
<1>9. Glued(x, sep, y) = z \o y
  BY ONLY <1>1, <1>6 DEF Glued
<1>10. Glued(x, sep, y) \o r = x \o v
  BY ONLY <1>2, <1>3, <1>6, <1>7, <1>8, <1>9
<1>. QED  BY ONLY <1>4, <1>5, <1>10 DEF Regroups

Resplit(V, parts, sep, skipped, tail) ==
  /\ Joined(parts, sep) \in Seq(V) /\ Joined(parts, sep) # << >>
  /\ Pieces(Joined(parts, sep) \o tail, sep, skipped) = parts

\* What is joined, with or without a separator behind it, falls into the same pieces again.
LEMMA JoinSplit ==
  ASSUME NEW V, NEW parts, parts \in Seq(Seq(V)), parts # << >>, NEW sep, sep \in V, NEW skipped,
         \A n \in 1..Len(parts) : /\ parts[n] # << >> /\ parts[n] \notin skipped
                                  /\ \A i \in 1..Len(parts[n]) : parts[n][i] # sep,
         NEW tail, tail \in {<< >>, <<sep>>}
  PROVE  Resplit(V, parts, sep, skipped, tail)
<1> PICK N \in Nat \ {0} : N = Len(parts)
  <2>1. Len(parts) \in Nat /\ Len(parts) # 0
    OBVIOUS
  <2>. QED  BY <2>1
<1>0. PICK j : /\ Joined(parts, sep) = j[N]
               /\ \A n \in 0..N : j[n] = JoinStep(j, parts, sep, n)
  BY JoinedIs
<1>1. \A n \in 1..N : parts[n] \in Seq(V) /\ parts[n] # << >> /\ Len(parts[n]) \in Nat
  <2> TAKE n \in 1..N
  <2>1. parts[n] \in Seq(V)
    BY ElementOfSeq
  <2>. QED  BY <2>1
<1> DEFINE Pre(n) == IF n = 1 THEN << >> ELSE j[n - 1] \o <<sep>>
<1>2. \A n \in 0..N : j[n] \in Seq(V)
  <2> DEFINE G == {n \in 0..N : j[n] \in Seq(V)}
  <2>1. 0 \in G
    <3>1. 0 \in 0..N
      OBVIOUS
    <3>2. j[0] = << >>
      BY ONLY <1>0, <3>1, JoinCases
    <3>3. << >> \in Seq(V)
      OBVIOUS
    <3>. QED  BY <3>1, <3>2, <3>3
  <2>2. ASSUME NEW n \in 0..(N - 1), n \in G PROVE n + 1 \in G
    <3>1. n + 1 \in 1..N /\ n + 1 \in 0..N /\ (n + 1) - 1 = n
      OBVIOUS
    <3>2. j[n + 1] = JoinStep(j, parts, sep, n + 1) /\ parts[n + 1] \in Seq(V) /\ j[n] \in Seq(V)
      BY <1>0, <1>1, <2>2, <3>1
    <3>3. CASE n = 0
      <4>1. j[n + 1] = JoinStep(j, parts, sep, 1)
        BY ONLY <3>2, <3>3, n \in 0..(N - 1)
      <4>2. JoinStep(j, parts, sep, 1) = parts[1]
        BY ONLY JoinCases
      <4>3. j[n + 1] = parts[n + 1]
        BY ONLY <3>1, <3>3, <4>1, <4>2
      <4>. QED  BY ONLY <3>1, <3>2, <4>3
    <3>4. CASE n # 0
      <4>1. j[n + 1] = j[n] \o <<sep>> \o parts[n + 1]
        <5>1. PICK m \in Nat \ {0, 1} : m = n + 1 /\ m - 1 = n
          BY <3>4
        <5>2. JoinStep(j, parts, sep, m) = Glued(j[m - 1], sep, parts[m])
          BY ONLY JoinCases, m \in Nat \ {0, 1}
        <5>. QED  BY ONLY <3>2, <5>1, <5>2 DEF Glued
      <4>2. j[n] \o <<sep>> \in Seq(V)
        BY <3>2, ConcatProperties
      <4>3. (j[n] \o <<sep>>) \o parts[n + 1] \in Seq(V)
        BY <3>2, <4>2, ConcatProperties
      <4>. QED  BY <3>1, <4>1, <4>3
    <3>. QED  BY <3>3, <3>4
  <2>3. \A n \in 0..N : n \in G
    <3> HIDE DEF G
    <3>. QED  BY <2>1, <2>2, UpTo
  <2>. QED  BY <2>3
<1>3. \A n \in 1..N : Pre(n) \in Seq(V) /\ j[n] = Pre(n) \o parts[n]
  <2> TAKE n \in 1..N
  <2>1. j[n] = JoinStep(j, parts, sep, n) /\ n # 0 /\ n - 1 \in 0..N
    BY <1>0
  <2>2. CASE n = 1
    <3>1. j[n] = parts[n] /\ parts[n] \in Seq(V)
      BY <1>1, <2>1, <2>2, JoinCases
    <3>2. parts[n] = << >> \o parts[n]
      BY <3>1, ConcatEmptySeq
    <3>. QED  BY <2>2, <3>1, <3>2
  <2>3. CASE n # 1
    <3>1. j[n] = j[n - 1] \o <<sep>> \o parts[n]
      <4>1. PICK m \in Nat \ {0, 1} : m = n
        BY <2>3
      <4>2. JoinStep(j, parts, sep, m) = Glued(j[m - 1], sep, parts[m])
        BY ONLY JoinCases, m \in Nat \ {0, 1}
      <4>. QED  BY ONLY <2>1, <4>1, <4>2 DEF Glued
    <3>2. j[n - 1] \o <<sep>> \in Seq(V)
      BY <1>2, <2>1, ConcatProperties
    <3>. QED  BY <2>3, <3>1, <3>2
  <2>. QED  BY <2>2, <2>3
<1>3a. \A n \in 1..(N - 1) : Pre(n + 1) = j[n] \o <<sep>>
  <2> TAKE n \in 1..(N - 1)
  <2>1. n + 1 # 1 /\ (n + 1) - 1 = n
    OBVIOUS
  <2>. QED  BY <2>1
<1>3b. Pre(1) = << >>
  OBVIOUS
<1> HIDE DEF Pre
<1>4. PICK T : T = j[N] \o tail
  OBVIOUS
<1>5. T \in Seq(V) /\ tail \in Seq(V) /\ j[N] \in Seq(V)
  <2>1. tail \in Seq(V) /\ j[N] \in Seq(V)
    <3>1. << >> \in Seq(V) /\ <<sep>> \in Seq(V) /\ N \in 0..N
      BY OneWord
    <3>. QED  BY <1>2, <3>1
  <2>. QED  BY <1>4, <2>1, ConcatProperties
<1> DEFINE Rest(n, r) == /\ r \in Seq(V) /\ T = j[n] \o r
                         /\ n = N => r = tail
                         /\ n < N => r # << >> /\ r[1] = sep
<1>6. \A n \in 1..N : \E r : Rest(n, r)
  <2> DEFINE G == {n \in 1..N : \E r : Rest(n, r)}
  <2>1. N \in G
    <3>1. Rest(N, tail)
      BY <1>4, <1>5
    <3>. QED  BY <3>1
  <2>2. ASSUME NEW n \in 1..(N - 1), n + 1 \in G PROVE n \in G
    <3>1. n + 1 \in 1..N /\ n + 1 \in 0..N /\ n \in 0..N /\ n \in 1..N /\ n < N
      OBVIOUS
    <3>2. PICK r : r \in Seq(V) /\ T = j[n + 1] \o r
      BY <2>2
    <3> HIDE DEF Rest
    <3>3. PICK x, y : /\ x = j[n] /\ y = parts[n + 1] /\ x \in Seq(V) /\ y \in Seq(V)
                      /\ j[n + 1] = (x \o <<sep>>) \o y
      BY <1>1, <1>2, <1>3, <1>3a, <3>1
    <3>4. PICK v : v \in Seq(V) /\ v # << >> /\ v[1] = sep /\ T = x \o v
      <4>1. \E v : v \in Seq(V) /\ v # << >> /\ v[1] = sep /\ Glued(x, sep, y) \o r = x \o v
        <5>1. x \in Seq(V) /\ y \in Seq(V) /\ r \in Seq(V)
          BY <3>2, <3>3
        <5>2. Regroups(V, x, sep, y, r)
          BY ONLY <5>1, sep \in V, Regrouped
        <5>. QED  BY ONLY <5>2 DEF Regroups
      <4>. QED  BY ONLY <3>2, <3>3, <4>1 DEF Glued
    <3>5. Rest(n, v)
      BY <3>1, <3>3, <3>4 DEF Rest
    <3>. QED  BY <3>1, <3>5
  <2>3. \A n \in 1..N : n \in G
    <3> HIDE DEF G
    <3>. QED  BY <2>1, <2>2, DownFrom
  <2>. QED  BY <2>3
<1>7. PICK g : /\ Pieces(T, sep, skipped) = g[1]
               /\ \A n \in 1..(Len(T) + 2) : g[n] = PieceStep(g, T, sep, skipped, n)
  BY ONLY <1>5, PiecesIs
<1>8. ASSUME NEW n \in 1..N
      PROVE  g[Len(Pre(n)) + 1] = <<parts[n]>> \o (IF n = N THEN << >> ELSE g[Len(Pre(n + 1)) + 1])
  <2>1. PICK r : Rest(n, r)
    BY <1>6
  <2>2. PICK p, s : /\ p = Pre(n) /\ s = parts[n] /\ p \in Seq(V) /\ s \in Seq(V) /\ j[n] = p \o s
    BY <1>1, <1>3
  <2>3. PICK a \in Nat, b \in Nat, c \in Nat : a = Len(p) /\ b = Len(s) /\ c = Len(r)
    BY <2>1, <2>2
  <2>4. /\ s # << >> /\ s \notin skipped /\ \A i \in 1..Len(s) : s[i] # sep
        /\ r \in Seq(V) /\ (r = << >> \/ r[1] = sep) /\ T = (p \o s) \o r
    BY <2>1, <2>2
  <2>5. /\ PieceStep(g, T, sep, skipped, a + 1) = <<s>> \o (IF r = << >> THEN << >> ELSE g[a + b + 2])
        /\ Len(T) = a + b + c
    <3>1. NextIs(PieceStep(g, T, sep, skipped, Len(p) + 1), g, Len(T), Len(p), s, Len(s), r)
      BY ONLY <2>2, <2>4, NextPiece
    <3>. QED  BY ONLY <2>3, <3>1 DEF NextIs
  <2>6. b > 0
    BY <2>2, <2>3, <2>4
  <2>7. g[a + 1] = PieceStep(g, T, sep, skipped, a + 1)
    BY <1>7, <2>5, <2>6
  <2>8. CASE n < N
    <3>1. r # << >>
      BY <2>1, <2>8
    <3>2. Pre(n + 1) = j[n] \o <<sep>>
      <4>1. n \in 1..(N - 1)
        BY ONLY <2>8, n \in 1..N, N \in Nat
      <4>. QED  BY ONLY <1>3a, <4>1
    <3>3. Len(j[n]) = a + b /\ j[n] \in Seq(V)
      BY <2>2, <2>3, ConcatProperties
    <3>4. Len(j[n] \o <<sep>>) = a + b + 1
      BY <3>3, ConcatProperties
    <3>5. Len(Pre(n + 1)) + 1 = a + b + 2
      BY <3>2, <3>4
    <3>6. g[a + 1] = <<s>> \o g[a + b + 2]
      BY ONLY <2>5, <2>7, <3>1
    <3>7. g[Len(p) + 1] = <<s>> \o g[Len(Pre(n + 1)) + 1]
      BY ONLY <2>3, <3>5, <3>6
    <3>8. n # N
      BY <2>8
    <3>. QED  BY ONLY <2>2, <3>7, <3>8
  <2>9. CASE n = N
    <3>1. r = tail
      BY <2>1, <2>9
    <3>2. r # << >> => g[a + b + 2] = << >>
      <4> SUFFICES ASSUME r # << >> PROVE g[a + b + 2] = << >>
        OBVIOUS
      <4>1. c = 1
        BY <2>3, <3>1
      <4>2. a + b + 2 \in 1..(Len(T) + 2) /\ a + b + 2 > Len(T)
        BY <2>5, <4>1
      <4>3. g[a + b + 2] = PieceStep(g, T, sep, skipped, a + b + 2)
        BY <1>7, <4>2
      <4>. QED  BY <4>2, <4>3 DEF PieceStep
    <3>3. g[a + 1] = <<s>> \o << >>
      BY <2>5, <2>7, <3>2
    <3>. QED  BY <2>2, <2>3, <2>9, <3>3
  <2>. QED  BY <2>8, <2>9
<1>9. \A n \in 1..N : g[Len(Pre(n)) + 1] = SubSeq(parts, n, N)
  <2> DEFINE G == {n \in 1..N : g[Len(Pre(n)) + 1] = SubSeq(parts, n, N)}
  <2>1. N \in G
    <3>1. SubSeq(parts, N, N) = <<parts[N]>> \o SubSeq(parts, N + 1, N)
      BY SubSeqRecursiveFirst
    <3>2. SubSeq(parts, N + 1, N) = << >>
      BY SubSeqEmpty
    <3>. QED  BY <1>8, <3>1, <3>2
  <2>2. ASSUME NEW n \in 1..(N - 1), n + 1 \in G PROVE n \in G
    <3>1. n \in 1..N /\ n # N /\ N \in n..N
      OBVIOUS
    <3>2. g[Len(Pre(n)) + 1] = <<parts[n]>> \o SubSeq(parts, n + 1, N)
      BY <1>8, <2>2, <3>1
    <3>3. SubSeq(parts, n, N) = <<parts[n]>> \o SubSeq(parts, n + 1, N)
      BY <3>1, SubSeqRecursiveFirst
    <3>. QED  BY <3>1, <3>2, <3>3
  <2>3. \A n \in 1..N : n \in G
    <3> HIDE DEF G
    <3>. QED  BY <2>1, <2>2, DownFrom
  <2>. QED  BY <2>3
<1>10. Pieces(T, sep, skipped) = parts
  <2>1. Len(Pre(1)) + 1 = 1 /\ 1 \in 1..N
    BY <1>3b
  <2>2. g[1] = SubSeq(parts, 1, N)
    BY <1>9, <2>1
  <2>. QED  BY <1>7, <2>2, SubSeqFull
<1>11. j[N] # << >>
  <2>1. N \in 1..N
    OBVIOUS
  <2>2. PICK p, s : p \in Seq(V) /\ s \in Seq(V) /\ s # << >> /\ j[N] = p \o s
    BY <1>1, <1>3, <2>1
  <2>. QED  BY <2>2, ConcatEqualIffEmpty
<1>. QED  BY <1>0, <1>4, <1>5, <1>10, <1>11 DEF Resplit

\* Every word but the one between effects.
Words == (STRING \cup DOMAIN Kernels \cup {BeforeParams, BetweenParams}
            \cup {ToString(n) : n \in 0..MaxNumber}) \ {BetweenEffects}

LEMMA KernelNames == DOMAIN Kernels = {"floyd", "atkinson", "jarvis"}
BY DEF Kernels

LEMMA Punctuation ==
  /\ BetweenEffects # BeforeParams /\ BetweenEffects # BetweenParams /\ BeforeParams # BetweenParams
  /\ \A v \in DOMAIN Kernels : v \notin Separators
<1>1. BetweenEffects # BeforeParams /\ BetweenEffects # BetweenParams /\ BeforeParams # BetweenParams
  BY Zenon DEF BetweenEffects, BeforeParams, BetweenParams
<1>2. "floyd" \notin Separators /\ "atkinson" \notin Separators /\ "jarvis" \notin Separators
  BY Zenon DEF BetweenEffects, BeforeParams, BetweenParams, Separators
<1>. QED  BY <1>1, <1>2, KernelNames

LEMMA NumberRead ==
  ASSUME NEW n \in 0..MaxNumber
  PROVE  Stoi(ToString(n)) = n /\ ToString(n) \in Words \ {BetweenParams, BeforeParams}
<1>1. \A m \in 0..MaxNumber : ToString(m) = ToString(n) => m = n
  BY NumbersAreWords
<1>2. Stoi(ToString(n)) = n
  BY <1>1 DEF Stoi
<1>3. ToString(n) \notin Separators
  BY NumbersAreWords
<1>. QED  BY <1>2, <1>3 DEF Words, Separators

\* Blocks are not empty, and an effect without a number has none.
LEMMA NumbersFit ==
  ASSUME NEW e \in PageEffects
  PROVE  /\ e.name = "pixelate" => e.number > 0
         /\ e.name \notin WithNumber \cup {"error_diffusion"} => e.number = 0
<1>1. e.number \in (IF e.name \in DOMAIN PageNumbers THEN PageNumbers[e.name] ELSE {0})
  BY DEF PageEffects
<1>2. /\ DOMAIN PageNumbers = WithNumber \cup {"error_diffusion"}
      /\ PageNumbers["pixelate"] = 2..64
  BY DEF PageNumbers, WithNumber
<1>3. ASSUME e.name = "pixelate"
      PROVE  e.number > 0
  <2>1. e.number \in 2..64
    BY <1>1, <1>2, <1>3 DEF WithNumber
  <2>. QED  BY <2>1
<1>. QED  BY <1>1, <1>2, <1>3

LEMMA ParamsWritten ==
  ASSUME NEW e \in PageEffects
  PROVE  /\ PageParams(e) \in Seq(Words)
         /\ \A i \in 1..Len(PageParams(e)) : PageParams(e)[i] \notin {BetweenParams, BeforeParams}
<1> PICK n \in 0..MaxNumber, v \in STRING : n = e.number /\ v = e.variant
  BY DEF PageEffects
<1> PICK t : t = ToString(n)
  OBVIOUS
<1>1. t \in Words /\ t \notin {BetweenParams, BeforeParams}
  BY NumberRead
<1>2. CASE e.name \in WithNumber
  <2>1. PageParams(e) = <<t>>
    BY <1>2 DEF PageParams, WithNumber
  <2>. QED  BY <1>1, <2>1
<1>3. CASE e.name = "error_diffusion"
  <2>1. v \in DOMAIN Kernels
    BY <1>3 DEF PageEffects
  <2>2. v \in Words /\ v \notin {BetweenParams, BeforeParams}
    BY <2>1, Punctuation DEF Words, Separators
  <2>3. PageParams(e) = <<v, t>>
    BY <1>3 DEF PageParams, WithNumber
  <2>. QED  BY <1>1, <2>2, <2>3
<1>4. CASE e.name \notin WithNumber \cup {"error_diffusion"}
  <2>1. PageParams(e) = << >>
    BY <1>4 DEF PageParams
  <2>. QED  BY <2>1
<1>. QED  BY <1>2, <1>3, <1>4

\* An effect's text has no ";", and its name and parameters are read from it as written.
LEMMA EffectRead ==
  ASSUME NEW e \in PageEffects
  PROVE  /\ PageText(e) \in Seq(Words) /\ PageText(e) # << >>
         /\ EffectName(PageText(e)) = e.name /\ EffectParams(PageText(e)) = PageParams(e)
<1> PICK name : name = e.name
  OBVIOUS
<1>1. name \in Words /\ name # BeforeParams
  BY DEF PageEffects, Words, Separators
<1>2. PICK params : /\ params = PageParams(e) /\ params \in Seq(Words)
                    /\ \A i \in 1..Len(params) : params[i] \notin {BetweenParams, BeforeParams}
  BY ParamsWritten
<1>3. PICK text : text = PageText(e)
  OBVIOUS
<1>4. CASE params = << >>
  <2>1. text = <<name>>
    BY <1>2, <1>3, <1>4 DEF PageText
  <2>2. text \in Seq(Words) /\ Len(text) = 1 /\ text[1] = name
    BY ONLY <1>1, <2>1, OneWord
  <2>3. FirstAt(Colon(text), text, BeforeParams, 1)
    <3>1. 1 \in Nat \ {0}
      OBVIOUS
    <3>. QED  BY <2>2, <3>1, FindIs DEF Colon
  <2>4. Colon(text) = 0
    BY <1>1, <2>2, <2>3 DEF FirstAt
  <2>5. EffectName(text) = name
    <3>1. text # << >> /\ Head(text) = name
      BY <2>1
    <3>. QED  BY <2>4, <3>1 DEF EffectName, Word
  <2>6. EffectParams(text) = << >>
    BY <2>4 DEF EffectParams
  <2>7. text # << >>
    BY <2>1
  <2>. QED  BY <1>2, <1>3, <1>4, <2>2, <2>5, <2>6, <2>7
<1>5. CASE params # << >>
  <2>1. PICK N \in Nat \ {0} : N = Len(params)
    <3>1. Len(params) \in Nat /\ Len(params) # 0
      BY <1>2, <1>5
    <3>. QED  BY <3>1
  <2>2. PICK parts : parts = [i \in 1..N |-> <<params[i]>>]
    OBVIOUS
  <2>3. ASSUME NEW i \in 1..N
        PROVE  /\ parts[i] = <<params[i]>> /\ parts[i] \in Seq(Words) /\ Len(parts[i]) = 1
               /\ parts[i] # << >> /\ parts[i][1] = params[i] /\ params[i] \notin {BetweenParams, BeforeParams}
               /\ Word(parts[i]) = params[i]
    <3>1. PICK w \in Words : w = params[i] /\ w \notin {BetweenParams, BeforeParams}
      BY <1>2, <2>1
    <3>2. parts[i] = <<w>>
      BY <2>2, <3>1
    <3>3. Word(<<w>>) = w
      BY DEF Word
    <3>. QED  BY ONLY <3>1, <3>2, <3>3, OneWord
  <2>4. parts \in Seq(Seq(Words)) /\ Len(parts) = N /\ DOMAIN parts = 1..N
    BY <2>2, <2>3
  <2>5. PICK J : J = Joined(parts, BetweenParams)
    OBVIOUS
  <2>6. J \in Seq(Words) /\ J # << >> /\ Pieces(J \o << >>, BetweenParams, {<< >>}) = parts
    <3>1. BetweenParams \in Words /\ parts # << >>
      BY <2>4, Punctuation DEF Words
    <3>2. \A n \in 1..N : /\ parts[n] # << >> /\ parts[n] \notin {<< >>}
                          /\ \A i \in 1..Len(parts[n]) : parts[n][i] # BetweenParams
      BY <2>3
    <3>3. PICK none, skipped : none = << >> /\ skipped = {<< >>}
      OBVIOUS
    <3>4. \A n \in 1..Len(parts) : /\ parts[n] # << >> /\ parts[n] \notin skipped
                                  /\ \A i \in 1..Len(parts[n]) : parts[n][i] # BetweenParams
      BY <2>4, <3>2, <3>3
    <3>5. none \in {<< >>, <<BetweenParams>>}
      BY <3>3
    <3>6. Resplit(Words, parts, BetweenParams, skipped, none)
      BY ONLY <2>4, <3>1, <3>4, <3>5, JoinSplit
    <3>. QED  BY <2>5, <3>3, <3>6 DEF Resplit
  <2>7. J \o << >> = J
    BY <2>6, ConcatEmptySeq
  <2>8. PICK front : /\ front = <<name, BeforeParams>> /\ front \in Seq(Words) /\ Len(front) = 2
                     /\ front[1] = name /\ front[2] = BeforeParams
    <3>1. BeforeParams \in Words
      BY Punctuation DEF Words
    <3>2. PICK p : p = <<name, BeforeParams>>
      OBVIOUS
    <3>. QED  BY <1>1, <3>1, <3>2, TwoWords
  <2>9. text = front \o J
    <3>1. DOMAIN params = 1..N
      BY <1>2, <2>1
    <3>. QED  BY <1>2, <1>3, <1>5, <2>2, <2>5, <2>8, <3>1 DEF PageText
  <2>10. PICK M \in Nat \ {0} : M = Len(J)
    <3>1. Len(J) \in Nat /\ Len(J) # 0
      BY <2>6
    <3>. QED  BY <3>1
  <2>11. /\ text \in Seq(Words) /\ Len(text) = 2 + M
         /\ \A i \in 1..(2 + M) : text[i] = IF i <= 2 THEN front[i] ELSE J[i - 2]
    BY ONLY <2>6, <2>8, <2>9, <2>10, ConcatProperties
  <2>12. text[1] = name /\ text[2] = BeforeParams
    BY <2>8, <2>11
  <2>13. Colon(text) = 2
    <3>1. 1 \in Nat \ {0}
      OBVIOUS
    <3>2. FirstAt(Colon(text), text, BeforeParams, 1)
      BY <2>11, <3>1, FindIs DEF Colon
    <3>3. PICK c : c = Colon(text)
      OBVIOUS
    <3>4. \/ c = 0 /\ \A i \in 1..(2 + M) : text[i] # BeforeParams
          \/ /\ c \in 1..(2 + M) /\ text[c] = BeforeParams
             /\ \A i \in 1..(c - 1) : text[i] # BeforeParams
      BY <2>11, <3>2, <3>3 DEF FirstAt
    <3>5. 2 \in 1..(2 + M)
      OBVIOUS
    <3>6. c \in 1..(2 + M) /\ c # 1 /\ ~(c > 2)
      BY ONLY <1>1, <2>12, <3>4, <3>5, M \in Nat \ {0}
    <3>. QED  BY <3>3, <3>6
  <2>14. EffectName(text) = name
    <3>1. SubSeq(text, 1, 1) = <<name>>
      <4>1. 1 \in 1..Len(text) /\ 1 \in 1..1
        BY <2>11
      <4>2. SubSeq(text, 1, 1) = <<text[1]>> \o SubSeq(text, 2, 1)
        BY ONLY <2>11, <4>1, SubSeqRecursiveFirst
      <4>3. SubSeq(text, 2, 1) = << >>
        BY SubSeqEmpty
      <4>4. <<name>> \in Seq(Words)
        BY <1>1, OneWord
      <4>5. <<name>> \o << >> = <<name>>
        BY <4>4, ConcatEmptySeq
      <4>. QED  BY <2>12, <4>2, <4>3, <4>5
    <3>2. Word(<<name>>) = name
      BY DEF Word
    <3>3. Colon(text) - 1 = 1 /\ Colon(text) # 0
      BY <2>13
    <3>. QED  BY <3>1, <3>2, <3>3 DEF EffectName
  <2>15. SubSeq(text, 3, Len(text)) = J
    <3>1. SubSeq(front \o J, 3, 2 + M) = SubSeq(J, 1, M)
      <4>1. PICK a, b : a = 3 /\ b = 2 + M
        OBVIOUS
      <4>2. a \in (Len(front) + 1)..(Len(front) + Len(J)) /\ b \in (Len(front) + 1)..(Len(front) + Len(J))
        BY <2>8, <2>10, <4>1
      <4>3. a - Len(front) = 1 /\ b - Len(front) = M
        BY <2>8, <4>1
      <4>4. SubSeq(front \o J, a, b) = SubSeq(J, a - Len(front), b - Len(front))
        BY ONLY <2>6, <2>8, <4>2, SubSeqOfConcat2
      <4>. QED  BY <4>1, <4>3, <4>4
    <3>2. SubSeq(J, 1, M) = J
      BY <2>6, <2>10, SubSeqFull
    <3>. QED  BY <2>9, <2>11, <3>1, <3>2
  <2>16. EffectParams(text) = params
    <3>1. EffectParams(text) = [i \in DOMAIN parts |-> Word(parts[i])]
      <4>1. Colon(text) + 1 = 3 /\ Colon(text) # 0
        BY <2>13
      <4>. QED  BY <2>6, <2>7, <2>15, <4>1 DEF EffectParams
    <3>2. params = [i \in 1..N |-> params[i]]
      BY <1>2, <2>1
    <3>. QED  BY <2>3, <2>4, <3>1, <3>2
  <2>17. text # << >>
    BY <2>11
  <2>. QED  BY <1>2, <1>3, <2>11, <2>14, <2>16, <2>17
<1>. QED  BY <1>4, <1>5

\* From its name and parameters the effect is made that was chosen.
LEMMA EffectMade ==
  ASSUME NEW e \in PageEffects, NEW type \in DOMAIN Known, e.name \in Known[type]
  PROVE  MakeEffect(e.name, PageParams(e)) = e
<1> PICK name \in STRING, n \in 0..MaxNumber, v \in STRING :
      name = e.name /\ n = e.number /\ v = e.variant
  BY DEF PageEffects
<1> PICK t : t = ToString(n)
  OBVIOUS
<1>1. e = [name |-> name, number |-> n, variant |-> v]
  BY DEF PageEffects
<1>2. Stoi(t) = n
  BY NumberRead
<1>3. name \in {"grayscale", "sepia", "pixelate", "invert", "blur", "ordered_dithering",
                "error_diffusion", "reverse", "normalize"}
  BY DEF Known
<1>4. CASE name \in {"pixelate", "blur", "ordered_dithering"}
  <2>1. PageParams(e) = <<t>>
    BY <1>4 DEF PageParams, WithNumber
  <2>2. v = ""
    BY <1>4 DEF PageEffects
  <2>3. MakeEffect(name, <<t>>) = [name |-> name, number |-> n, variant |-> ""]
    BY <1>2, <1>4 DEF MakeEffect
  <2>. QED  BY <1>1, <2>1, <2>2, <2>3
<1>5. CASE name = "error_diffusion"
  <2>1. PageParams(e) = <<v, t>>
    BY <1>5 DEF PageParams, WithNumber
  <2>2. v \in {"floyd", "atkinson", "jarvis"}
    BY <1>5, KernelNames DEF PageEffects
  <2>3. PICK p : p = <<v, t>> /\ Len(p) = 2 /\ p[1] = v /\ p[2] = t
    <3> PICK p, V : p = <<v, t>> /\ V = {v, t}
      OBVIOUS
    <3>. QED  BY TwoWords
  <2>4. MakeEffect(name, p) = [name |-> name, number |-> n, variant |-> v]
    BY <1>2, <1>5, <2>2, <2>3 DEF MakeEffect
  <2>. QED  BY <1>1, <2>1, <2>3, <2>4
<1>6. CASE name \in {"grayscale", "sepia", "invert", "reverse", "normalize"}
  <2>1. n = 0 /\ v = ""
    BY <1>6, NumbersFit DEF PageEffects, WithNumber
  <2>2. MakeEffect(name, PageParams(e)) = [name |-> name, number |-> 0, variant |-> ""]
    BY <1>6 DEF MakeEffect
  <2>. QED  BY <1>1, <2>1, <2>2
<1>. QED  BY <1>3, <1>4, <1>5, <1>6

\* The constructor reads from a text that the page writes the effects that were chosen.
LEMMA TextRead ==
  ASSUME NEW u \in Uploads, u.chosen # << >>
  PROVE  /\ PipelineText(u) # << >> /\ DOMAIN Segments(u) = DOMAIN u.chosen
         /\ \A i \in DOMAIN u.chosen :
              /\ u.chosen[i] \in PageEffects
              /\ EffectName(Segments(u)[i]) = u.chosen[i].name
              /\ EffectParams(Segments(u)[i]) = PageParams(u.chosen[i])
<1>1. PICK s : /\ s = u.chosen /\ s \in Seq(PageEffects)
               /\ \A i \in DOMAIN s : s[i] \in PageEffects
  BY UploadsTyped
<1>2. PICK N \in Nat \ {0} : N = Len(s) /\ DOMAIN s = 1..N
  <2>1. Len(s) \in Nat /\ Len(s) # 0 /\ DOMAIN s = 1..Len(s)
    BY <1>1
  <2>. QED  BY <2>1
<1>3. PICK parts : parts = [i \in DOMAIN s |-> PageText(s[i])]
  OBVIOUS
<1>4. ASSUME NEW i \in 1..N
      PROVE  /\ parts[i] = PageText(s[i]) /\ parts[i] \in Seq(Words) /\ parts[i] # << >>
             /\ EffectName(parts[i]) = s[i].name /\ EffectParams(parts[i]) = PageParams(s[i])
  <2>1. s[i] \in PageEffects /\ parts[i] = PageText(s[i])
    BY <1>1, <1>2, <1>3
  <2>. QED  BY ONLY <2>1, EffectRead
<1> PICK V : V = Words \cup {BetweenEffects}
  OBVIOUS
<1>5. ASSUME NEW i \in 1..N
      PROVE  parts[i] \in Seq(V) /\ \A k \in 1..Len(parts[i]) : parts[i][k] # BetweenEffects
  <2> PICK p : p = parts[i] /\ p \in Seq(Words)
    BY <1>4
  <2>1. \A k \in 1..Len(p) : p[k] \in Words
    OBVIOUS
  <2>2. p \in Seq(V)
    BY SeqMonotonic
  <2>. QED  BY <2>1, <2>2 DEF Words
<1>6. parts \in Seq(Seq(V)) /\ Len(parts) = N /\ DOMAIN parts = 1..N
  BY <1>2, <1>3, <1>5
<1>7. PICK tail : tail = (IF u.trailing THEN <<BetweenEffects>> ELSE << >>) /\ tail \in {<< >>, <<BetweenEffects>>}
  OBVIOUS
<1>8. PICK J : J = Joined(parts, BetweenEffects)
  OBVIOUS
<1>9. PipelineText(u) = J \o tail
  BY <1>1, <1>3, <1>7, <1>8 DEF PipelineText
<1>10. J \in Seq(V) /\ J # << >> /\ Pieces(J \o tail, BetweenEffects, {}) = parts
  <2>1. BetweenEffects \in V /\ parts # << >>
    BY <1>6
  <2>2. PICK skipped : skipped = {}
    OBVIOUS
  <2>3. \A n \in 1..Len(parts) : /\ parts[n] # << >> /\ parts[n] \notin skipped
                                /\ \A i \in 1..Len(parts[n]) : parts[n][i] # BetweenEffects
    BY <1>4, <1>5, <1>6, <2>2
  <2>4. Resplit(V, parts, BetweenEffects, skipped, tail)
    BY ONLY <1>6, <1>7, <2>1, <2>3, JoinSplit
  <2>. QED  BY <1>8, <2>2, <2>4 DEF Resplit
<1>11. Segments(u) = parts
  BY <1>9, <1>10 DEF Segments
<1>12. J \o tail # << >>
  <2>1. tail \in Seq(V)
    <3>1. << >> \in Seq(V) /\ <<BetweenEffects>> \in Seq(V)
      BY OneWord
    <3>. QED  BY <1>7, <3>1
  <2>. QED  BY <1>10, <2>1, ConcatEqualIffEmpty
<1>. QED  BY <1>1, <1>2, <1>4, <1>6, <1>9, <1>11, <1>12

\* An empty text, or ";" alone, is refused.
LEMMA EmptyText ==
  ASSUME NEW u \in Uploads, u.chosen = << >>, u.type \in DOMAIN Known
  PROVE  ConstructorThrows(u)
<1>1. PICK parts : parts = [i \in DOMAIN u.chosen |-> PageText(u.chosen[i])]
  OBVIOUS
<1>2. parts = << >> /\ Len(parts) = 0
  BY <1>1
<1>3. Joined(parts, BetweenEffects) = << >>
  <2>1. PICK j : /\ Joined(parts, BetweenEffects) = j[Len(parts)]
                 /\ \A n \in 0..Len(parts) : j[n] = JoinStep(j, parts, BetweenEffects, n)
    <3>1. Len(parts) \in Nat
      BY <1>2
    <3>. QED  BY ONLY <3>1, JoinedIs
  <2>. QED  BY <1>2, <2>1, JoinCases
<1>4. CASE ~u.trailing
  <2>1. PipelineText(u) = << >> \o << >>
    BY <1>1, <1>3, <1>4 DEF PipelineText
  <2>. QED  BY <2>1 DEF ConstructorThrows
<1>5. CASE u.trailing
  <2> PICK V : V = {BetweenEffects}
    OBVIOUS
  <2>1. PICK t : t = <<BetweenEffects>> /\ t \in Seq(V) /\ Len(t) = 1 /\ t[1] = BetweenEffects
    BY OneWord
  <2>2. PipelineText(u) = t
    <3>1. PipelineText(u) = << >> \o t
      BY <1>1, <1>3, <1>5, <2>1 DEF PipelineText
    <3>. QED  BY ONLY <2>1, <3>1, ConcatEmptySeq
  <2> PICK kept : kept = {}
    OBVIOUS
  <2>3. PICK g : /\ Pieces(t, BetweenEffects, kept) = g[1]
                 /\ \A n \in 1..(Len(t) + 2) : g[n] = PieceStep(g, t, BetweenEffects, kept, n)
    <3>1. t \in Seq(V)
      BY <2>1
    <3>. QED  BY ONLY <3>1, PiecesIs
  <2>4. Find(t, BetweenEffects, 1) = 1
    <3>1. 1 \in Nat \ {0}
      OBVIOUS
    <3>2. FirstAt(Find(t, BetweenEffects, 1), t, BetweenEffects, 1)
      BY <2>1, <3>1, FindIs
    <3>. QED  BY <2>1, <3>2 DEF FirstAt
  <2>5. SubSeq(t, 1, 1 - 1) = << >>
    BY SubSeqEmpty
  <2>6. PieceStep(g, t, BetweenEffects, kept, 1) = g[1] /\ PieceStep(g, t, BetweenEffects, kept, 2) = g[2]
    <3>1. 1 \in 1..(Len(t) + 2) /\ 2 \in 1..(Len(t) + 2)
      BY <2>1
    <3>. QED  BY <2>3, <3>1
  <2>7. g[2] = << >>
    BY <2>1, <2>6 DEF PieceStep
  <2>8. g[1] = <<<< >>>> \o << >>
    BY <2>1, <2>4, <2>5, <2>6, <2>7 DEF PieceStep
  <2>9. Segments(u) = <<<< >>>>
    BY <2>2, <2>3, <2>8 DEF Segments
  <2>10. EffectName(<< >>) = ""
    <3>1. PICK t0 : t0 = << >> /\ t0 \in Seq(V) /\ Len(t0) = 0
      BY EmptySeq
    <3>2. FirstAt(Find(t0, BeforeParams, 1), t0, BeforeParams, 1)
      <4>1. 1 \in Nat \ {0}
        OBVIOUS
      <4>. QED  BY <3>1, <4>1, FindIs
    <3>3. Colon(t0) = 0
      BY <3>1, <3>2 DEF FirstAt, Colon
    <3>. QED  BY <3>1, <3>3 DEF EffectName, Word
  <2>11. "" \notin Known[u.type]
    <3>1. PICK K : K = Known[u.type]
      OBVIOUS
    <3>2. \/ K = {"grayscale", "sepia", "pixelate", "invert", "blur", "ordered_dithering", "error_diffusion"}
          \/ K = {"reverse", "normalize"}
      BY <3>1 DEF Known
    <3>3. /\ "" \notin {"grayscale", "sepia", "pixelate", "invert", "blur", "ordered_dithering", "error_diffusion"}
          /\ "" \notin {"reverse", "normalize"}
      BY ONLY Zenon
    <3>. QED  BY ONLY <3>1, <3>2, <3>3, Zenon
  <2>12. 1 \in DOMAIN Segments(u) /\ Segments(u)[1] = << >>
    BY <2>9
  <2>. QED  BY <2>10, <2>11, <2>12 DEF ConstructorThrows
<1>. QED  BY <1>4, <1>5

\* From the text that the page writes for any list of its effects the constructor makes these
\* effects, and it throws only where there are none or one that it does not know
\* (frontend.html's pipelineStr, pipeline.cpp's loops over find()).
THEOREM PageIsUnderstood == TextsUnderstood
<1> SUFFICES ASSUME NEW u \in Uploads, u.type \in DOMAIN Known
             PROVE  /\ ConstructorThrows(u) <=> Refused(u)
                    /\ ~ConstructorThrows(u) => Constructed(u) = u.chosen
  BY DEF TextsUnderstood
<1>1. CASE u.chosen = << >>
  BY <1>1, EmptyText DEF Refused
<1>2. CASE u.chosen # << >>
  <2>1. /\ PipelineText(u) # << >> /\ DOMAIN Segments(u) = DOMAIN u.chosen
        /\ \A i \in DOMAIN u.chosen :
             /\ u.chosen[i] \in PageEffects
             /\ EffectName(Segments(u)[i]) = u.chosen[i].name
             /\ EffectParams(Segments(u)[i]) = PageParams(u.chosen[i])
    BY <1>2, TextRead
  <2>2. ConstructorThrows(u) <=> Refused(u)
    BY <1>2, <2>1 DEF ConstructorThrows, Refused
  <2>3. ASSUME ~ConstructorThrows(u) PROVE Constructed(u) = u.chosen
    <3>1. \A i \in DOMAIN u.chosen :
            MakeEffect(EffectName(Segments(u)[i]), EffectParams(Segments(u)[i])) = u.chosen[i]
      <4> TAKE i \in DOMAIN u.chosen
      <4>1. PICK e : e = u.chosen[i] /\ e \in PageEffects
        BY <2>1
      <4>2. e.name \in Known[u.type]
        BY <1>2, <2>2, <2>3, <4>1 DEF Refused
      <4>3. MakeEffect(e.name, PageParams(e)) = e
        BY <4>1, <4>2, EffectMade
      <4>. QED  BY <2>1, <4>1, <4>3
    <3>2. Constructed(u) = [i \in DOMAIN u.chosen |-> u.chosen[i]]
      BY <2>1, <3>1 DEF Constructed
    <3>3. u.chosen = [i \in DOMAIN u.chosen |-> u.chosen[i]]
      <4>1. PICK s, S : s = u.chosen /\ s \in Seq(S)
        BY UploadsTyped
      <4>2. s = [i \in DOMAIN s |-> s[i]]
        BY ONLY <4>1
      <4>. QED  BY <4>1, <4>2
    <3>. QED  BY <3>2, <3>3
  <2>. QED  BY <2>2, <2>3
<1>. QED  BY <1>1, <1>2

-----------------------------------------------------------------------------
(***************************************************************************)
(* Effects keep the dimensions of what they are applied to.                *)
(***************************************************************************)

Effects == [name : STRING, number : Nat, variant : STRING]
EffectsFor(type) ==
  {e \in Effects : /\ type \in DOMAIN Known /\ e.name \in Known[type]
                   /\ e.name = "pixelate" => e.number > 0
                   /\ e.name = "error_diffusion" => e.variant \in DOMAIN Kernels}

\* A buffer with the dimensions of the upload.
Source(u) == IF u.type = "image" THEN DecodedImage(u) ELSE DecodedAudio(u)
Fits(u, X) ==
  /\ X = [Source(u) EXCEPT !.data = X.data]
  /\ DOMAIN X.data = DOMAIN Source(u).data
  /\ u.type = "audio" => X \in Audios(u.shape.frames, u.shape.channels, Marks)

LEMMA KnownTypes ==
  /\ DOMAIN Known = {"image", "audio"}
  /\ Known["audio"] = {"reverse", "normalize"}
  /\ Known["image"] = {"grayscale", "sepia", "pixelate", "invert", "blur", "ordered_dithering",
                       "error_diffusion"}
BY DEF Known

\* An effect writes into its destination's samples, and no more of it.
LEMMA AppliedWrites ==
  ASSUME NEW e, NEW src, NEW dst,
         e.name \in {"grayscale", "sepia", "pixelate", "invert", "blur", "ordered_dithering",
                     "error_diffusion", "reverse", "normalize"}
  PROVE  \E d : Applied(e, src, dst) = [dst EXCEPT !.data = d] /\ DOMAIN d = DOMAIN dst.data
<1> DEFINE Writes(X) == \E d : X = [dst EXCEPT !.data = d] /\ DOMAIN d = DOMAIN dst.data
<1>0. ASSUME NEW d, DOMAIN d = DOMAIN dst.data PROVE Writes([dst EXCEPT !.data = d])
  BY <1>0
<1>1. ASSUME NEW colour PROVE Writes(PerPixel(src, dst, colour))
  <2> DEFINE d == [i \in DOMAIN dst.data |->
                     IF i % src.channels \in Colours THEN colour[i]
                     ELSE IF src.channels = 4 THEN src.data[i] ELSE dst.data[i]]
  <2>1. PerPixel(src, dst, colour) = [dst EXCEPT !.data = d] /\ DOMAIN d = DOMAIN dst.data
    BY DEF PerPixel
  <2> HIDE DEF d, Writes
  <2>. QED  BY <1>0, <2>1
<1> HIDE DEF Writes
<1>2. Writes(GrayScale(src, dst)) /\ Writes(Sepia(src, dst))
  BY <1>1 DEF GrayScale, Sepia, MixColours
<1>3. Writes(Invert(src, dst)) /\ Writes(OrderedDithering(src, dst))
  BY <1>1 DEF Invert, OrderedDithering
<1>4. Writes(ErrorDiffusion(src, dst, e.variant))
  BY <1>1 DEF ErrorDiffusion
<1>5. Writes(Pixelate(src, dst, e.number))
  <2> DEFINE Places(block, c) == {PixelAt(src, p[1], p[2]) + c : p \in block}
             Written(i) == {bc \in Blocks(src, e.number) \X Colours : i \in Places(bc[1], bc[2])}
             d == [i \in DOMAIN dst.data |->
                     IF Written(i) = {} THEN dst.data[i]
                     ELSE UNION {From(src.data, Places(bc[1], bc[2])) : bc \in Written(i)}]
  <2>1. Pixelate(src, dst, e.number) = [dst EXCEPT !.data = d]
    BY DEF Pixelate
  <2>2. DOMAIN d = DOMAIN dst.data
    OBVIOUS
  <2> HIDE DEF d
  <2>. QED  BY <1>0, <2>1, <2>2
<1>6. Writes(GaussianBlur(src, dst, e.number))
  BY <1>0 DEF GaussianBlur
<1>7. Writes(Normalize(src, dst))
  BY <1>0 DEF Normalize
<1>8. Writes(ReverseSound(src, dst))
  <2>1. DOMAIN Swapped(src, dst) = DOMAIN dst.data
    BY DEF Swapped
  <2>2. DOMAIN MiddleCopied(src, Swapped(src, dst)) = DOMAIN dst.data
    BY <2>1 DEF MiddleCopied
  <2>. QED  BY <1>0, <2>1, <2>2 DEF ReverseSound
<1>9. Writes(Applied(e, src, dst))
  <2>1. CASE e.name \in {"grayscale", "sepia"}
    BY <1>2, <2>1 DEF Applied
  <2>2. CASE e.name \in {"invert", "ordered_dithering"}
    BY <1>3, <2>2 DEF Applied
  <2>3. CASE e.name = "error_diffusion"
    BY <1>4, <2>3 DEF Applied
  <2>4. CASE e.name = "pixelate"
    BY <1>5, <2>4 DEF Applied
  <2>5. CASE e.name = "blur"
    BY <1>6, <2>5 DEF Applied
  <2>6. CASE e.name = "normalize"
    BY <1>7, <2>6 DEF Applied
  <2>7. CASE e.name = "reverse"
    BY <1>8, <2>7 DEF Applied
  <2>. QED  BY <2>1, <2>2, <2>3, <2>4, <2>5, <2>6, <2>7
<1>. QED  BY <1>9 DEF Writes

\* What an effect makes of a sound is a sound of as many frames and channels.
LEMMA SoundApplied ==
  ASSUME NEW F \in Nat, NEW C \in Nat \ {0}, NEW S, NEW e, e.name \in {"reverse", "normalize"},
         NEW src \in Audios(F, C, S), NEW dst \in Audios(F, C, S)
  PROVE  Applied(e, src, dst) \in Audios(F, C, S)
<1>1. /\ src.data \in [0..(F * C - 1) -> S] /\ dst.data \in [0..(F * C - 1) -> S]
      /\ src.frames = F /\ src.channels = C
      /\ \A d \in [0..(F * C - 1) -> S] : [dst EXCEPT !.data = d] \in Audios(F, C, S)
  BY DEF Audios
<1>2. CASE e.name = "normalize"
  <2> DEFINE d == [k \in DOMAIN dst.data |-> src.data[k]]
  <2>1. d \in [0..(F * C - 1) -> S]
    BY <1>1
  <2>2. Applied(e, src, dst) = [dst EXCEPT !.data = d]
    BY <1>2 DEF Applied, Normalize
  <2> HIDE DEF d
  <2>. QED  BY <1>1, <2>1, <2>2
<1>3. CASE e.name = "reverse"
  <2>1. Swapped(src, dst) \in [0..(F * C - 1) -> S]
    <3> DEFINE half == 0..(F \div 2 - 1)
    <3>1. Swapped(src, dst) =
            [k \in 0..(F * C - 1) |->
               IF k \div C \in half \/ F - 1 - (k \div C) \in half
               THEN src.data[(F - 1 - (k \div C)) * C + (k % C)] ELSE dst.data[k]]
      BY <1>1 DEF Swapped
    <3>2. ASSUME NEW k \in 0..(F * C - 1)
          PROVE  (F - 1 - (k \div C)) * C + (k % C) \in 0..(F * C - 1)
      <4>1. PICK f \in Int, c \in Int : f = k \div C /\ c = k % C
        OBVIOUS
      <4>2. f \in 0..(F - 1) /\ c \in 0..(C - 1)
        <5>1. k = f * C + c /\ c \in 0..(C - 1) /\ f \in Nat
          BY <4>1
        <5>2. CASE f >= F
          <6>1. f * C >= F * C
            BY <5>1, <5>2
          <6>. QED  BY <5>1, <6>1
        <5>. QED  BY <5>1, <5>2
      <4>3. F - 1 - f \in 0..(F - 1)
        BY <4>2
      <4>4. (F - 1 - f) * C + c \in 0..(F * C - 1)
        BY <4>2, <4>3, PlaceIn
      <4>. QED  BY <4>1, <4>4
    <3> HIDE DEF half
    <3>. QED  BY <1>1, <3>1, <3>2
  <2>2. MiddleCopied(src, Swapped(src, dst)) \in [0..(F * C - 1) -> S]
    BY <1>1, <2>1 DEF MiddleCopied
  <2>3. Applied(e, src, dst) = ReverseSound(src, dst)
    BY <1>3 DEF Applied
  <2>. QED  BY <1>1, <2>1, <2>2, <2>3 DEF ReverseSound
<1>. QED  BY <1>2, <1>3

LEMMA SourceHasData ==
  ASSUME NEW u
  PROVE  "data" \in DOMAIN Source(u)
BY DEF Source, DecodedImage, DecodedAudio

\* Anything written into the samples of a buffer that fits fits too.
LEMMA Rewritten ==
  ASSUME NEW u, NEW X, X = [Source(u) EXCEPT !.data = X.data],
         DOMAIN X.data = DOMAIN Source(u).data, NEW d, DOMAIN d = DOMAIN X.data
  PROVE  /\ [X EXCEPT !.data = d].data = d
         /\ [X EXCEPT !.data = d] = [Source(u) EXCEPT !.data = d]
<1> PICK D : D = Source(u) /\ "data" \in DOMAIN D
  BY SourceHasData
<1>. QED  OBVIOUS

LEMMA AppliedFits ==
  ASSUME NEW u \in Uploads, NEW e \in EffectsFor(u.type), NEW src, NEW dst,
         Fits(u, src), Fits(u, dst)
  PROVE  Fits(u, Applied(e, src, dst))
<1>1. u.type \in {"image", "audio"} /\ e.name \in Known[u.type]
  BY KnownTypes DEF EffectsFor
<1>2. PICK d : Applied(e, src, dst) = [dst EXCEPT !.data = d] /\ DOMAIN d = DOMAIN dst.data
  BY <1>1, KnownTypes, AppliedWrites
<1>3. /\ Applied(e, src, dst).data = d
      /\ Applied(e, src, dst) = [Source(u) EXCEPT !.data = d]
      /\ DOMAIN d = DOMAIN Source(u).data
  BY <1>2, Rewritten DEF Fits
<1>4. u.type = "audio" => Applied(e, src, dst) \in Audios(u.shape.frames, u.shape.channels, Marks)
  <2> SUFFICES ASSUME u.type = "audio"
               PROVE  Applied(e, src, dst) \in Audios(u.shape.frames, u.shape.channels, Marks)
    OBVIOUS
  <2>1. PICK F \in Nat, C \in Nat \ {0} : F = u.shape.frames /\ C = u.shape.channels
    BY UploadsTyped
  <2>2. src \in Audios(F, C, Marks) /\ dst \in Audios(F, C, Marks)
    BY <2>1 DEF Fits
  <2>3. e.name \in {"reverse", "normalize"}
    BY <1>1, KnownTypes
  <2>. QED  BY <2>1, <2>2, <2>3, SoundApplied
<1>. QED  BY <1>3, <1>4 DEF Fits

-----------------------------------------------------------------------------
(***************************************************************************)
(* A task from its text to its end: the inductive invariant of Spec.       *)
(***************************************************************************)

\* Why a task may throw though no library failed.
WithReason ==
  \/ ~upload.readable \/ upload.type \notin DOMAIN Known
  \/ Refused(upload)
  \/ upload.type = "image" /\ upload.format \notin {"jpg", "jpeg", "png"}

Staged ==
  /\ upload \in Uploads /\ failed \in BOOLEAN /\ effects \in Seq(Effects)
  /\ pc \in {"construct", "load", "apply", "encode", "close", "done", "thrown"}
  /\ pc \in {"construct", "load"} => A = NoBuffer /\ B = NoBuffer
  /\ pc \in {"construct", "load", "apply"} => ctx = NoFile /\ framesLeft = 0

EffectsMade ==
  /\ effects \in Seq(EffectsFor(upload.type))
  /\ pc = "load" /\ upload.type \in DOMAIN Known => effects = upload.chosen

BuffersFit ==
  /\ pc \in {"apply", "encode", "close", "done"} => Loaded
  /\ Loaded => upload.type \in DOMAIN Known /\ Fits(upload, A) /\ Fits(upload, B)

EncoderRuns ==
  /\ pc \in {"encode", "close"} => upload.type = "audio"
  /\ pc \in {"encode", "close", "done"} /\ upload.type = "audio" =>
       EncoderInv(upload.shape.frames, upload.shape.channels, Marks)
  /\ ctx.position \in 0..Len(ctx.buffer)

Ends ==
  /\ pc # "done" => output = NoAnswer
  /\ pc = "thrown" /\ ~failed => WithReason

TaskInv == Staged /\ EffectsMade /\ BuffersFit /\ EncoderRuns /\ Ends

LEMMA TaskInit == Init => TaskInv
<1> SUFFICES ASSUME Init PROVE TaskInv
  OBVIOUS
<1> USE DEF Init
<1>1. Staged
  <2>1. << >> \in Seq(Effects)
    OBVIOUS
  <2>. QED  BY <2>1 DEF Staged
<1>2. EffectsMade
  <2>1. << >> \in Seq(EffectsFor(upload.type))
    OBVIOUS
  <2>. QED  BY <2>1 DEF EffectsMade
<1>3. BuffersFit
  BY DEF BuffersFit, Loaded
<1>4. EncoderRuns
  <2>1. ctx.position = 0 /\ Len(ctx.buffer) = 0
    BY DEF NoFile
  <2>. QED  BY <2>1 DEF EncoderRuns
<1>5. Ends
  BY DEF Ends
<1>. QED  BY <1>1, <1>2, <1>3, <1>4, <1>5 DEF TaskInv

\* A step that throws.
LEMMA ThrowStep ==
  ASSUME TaskInv, Throw, failed' \in BOOLEAN, failed' \/ WithReason, pc \notin {"thrown", "done"}
  PROVE  TaskInv'
<1>1. pc' = "thrown" /\ UNCHANGED <<upload, effects, A, B, ctx, framesLeft, current, output>>
  BY DEF Throw, codecVars
<1>2. Staged'
  BY <1>1 DEF TaskInv, Staged
<1>3. EffectsMade'
  BY <1>1 DEF TaskInv, EffectsMade
<1>4. BuffersFit'
  BY <1>1 DEF TaskInv, BuffersFit, Loaded
<1>5. EncoderRuns'
  BY <1>1 DEF TaskInv, EncoderRuns
<1>6. Ends'
  BY <1>1 DEF TaskInv, Ends, WithReason
<1>. QED  BY <1>2, <1>3, <1>4, <1>5, <1>6 DEF TaskInv

LEMMA ChosenAreKnown ==
  ASSUME NEW u \in Uploads, u.type \in DOMAIN Known, ~Refused(u)
  PROVE  u.chosen \in Seq(EffectsFor(u.type)) /\ u.chosen \in Seq(Effects) /\ u.chosen # << >>
<1>0. PageEffects \subseteq Effects
  <2>1. 0..MaxNumber \subseteq Nat
    OBVIOUS
  <2>. QED  BY <2>1 DEF PageEffects, Effects
<1>1. PICK s : /\ s = u.chosen /\ s \in Seq(Effects)
               /\ \A i \in DOMAIN s : /\ s[i].name = "pixelate" => s[i].number > 0
                                      /\ s[i].name = "error_diffusion" => s[i].variant \in DOMAIN Kernels
  <2>1. PICK s : s = u.chosen /\ s \in Seq(PageEffects)
    BY UploadsTyped
  <2>2. \A i \in DOMAIN s : s[i] \in PageEffects
    BY ONLY <2>1
  <2>3. s \in Seq(Effects)
    BY ONLY <1>0, <2>1, SeqMonotonic
  <2>4. ASSUME NEW i \in DOMAIN s
        PROVE  /\ s[i].name = "pixelate" => s[i].number > 0
               /\ s[i].name = "error_diffusion" => s[i].variant \in DOMAIN Kernels
    <3>1. PICK e \in PageEffects : e = s[i]
      BY <2>2
    <3>2. /\ e.name = "pixelate" => e.number > 0
          /\ e.name = "error_diffusion" => e.variant \in DOMAIN Kernels
      BY ONLY <3>1, NumbersFit DEF PageEffects
    <3>. QED  BY ONLY <3>1, <3>2, Zenon
  <2>. QED  BY ONLY <2>1, <2>3, <2>4
<1>2. s # << >> /\ \A i \in 1..Len(s) : s[i].name \in Known[u.type]
  BY <1>1 DEF Refused
<1>3. \A i \in 1..Len(s) : s[i] \in EffectsFor(u.type)
  <2> TAKE i \in 1..Len(s)
  <2>1. i \in DOMAIN s /\ s[i] \in Effects
    BY ONLY i \in 1..Len(s), <1>1
  <2>2. PICK e \in Effects : e = s[i]
    BY ONLY <2>1
  <2>3. e.name \in Known[u.type]
    BY ONLY <1>2, <2>2, i \in 1..Len(s)
  <2>4. s[i].name = "pixelate" => s[i].number > 0
    BY ONLY <1>1, <2>1
  <2>5. s[i].name = "error_diffusion" => s[i].variant \in DOMAIN Kernels
    BY ONLY <1>1, <2>1
  <2>6. e.name = "pixelate" => e.number > 0
    BY ONLY <2>2, <2>4
  <2>7. e.name = "error_diffusion" => e.variant \in DOMAIN Kernels
    BY ONLY <2>2, <2>5
  <2>. QED  BY <2>2, <2>3, <2>6, <2>7 DEF EffectsFor
<1>4. s \in Seq(EffectsFor(u.type))
  BY <1>1, <1>3
<1>. QED  BY <1>1, <1>2, <1>4

LEMMA ConstructStep ==
  ASSUME TaskInv, Construct
  PROVE  TaskInv'
<1>1. /\ pc = "construct" /\ pc' = "load" /\ ~ConstructorThrows(upload)
      /\ effects' = Constructed(upload)
      /\ UNCHANGED <<upload, A, B, ctx, framesLeft, current, failed, output>>
  BY DEF Construct, codecVars
<1>2. upload \in Uploads
  BY DEF TaskInv, Staged
<1>3. /\ upload.type \in DOMAIN Known => effects' = upload.chosen /\ ~Refused(upload)
      /\ upload.type \notin DOMAIN Known => effects' = << >>
  <2>1. upload.type \notin DOMAIN Known => Constructed(upload) = << >>
    BY DEF Constructed
  <2>. QED  BY <1>1, <1>2, <2>1, PageIsUnderstood DEF TextsUnderstood
<1>4. effects' \in Seq(EffectsFor(upload.type)) /\ effects' \in Seq(Effects)
  <2>1. << >> \in Seq(EffectsFor(upload.type)) /\ << >> \in Seq(Effects)
    OBVIOUS
  <2>. QED  BY <1>2, <1>3, <2>1, ChosenAreKnown
<1>5. Staged'
  BY <1>1, <1>4 DEF TaskInv, Staged
<1>6. EffectsMade'
  BY <1>1, <1>3, <1>4 DEF EffectsMade
<1>7. BuffersFit'
  BY <1>1 DEF TaskInv, Staged, BuffersFit, Loaded
<1>8. EncoderRuns'
  BY <1>1 DEF TaskInv, EncoderRuns
<1>9. Ends'
  BY <1>1 DEF TaskInv, Ends
<1>. QED  BY <1>5, <1>6, <1>7, <1>8, <1>9 DEF TaskInv

\* The two decoders leave buffers that fit.
LEMMA ImageFits ==
  ASSUME NEW u \in Uploads, u.type = "image"
  PROVE  /\ Fits(u, DecodedImage(u)) /\ Fits(u, Blank(DecodedImage(u)))
         /\ DecodedImage(u) # NoBuffer
<1>1. PICK D : D = DecodedImage(u)
  OBVIOUS
<1>2. PICK w, h, c, d : D = [width |-> w, height |-> h, channels |-> c, data |-> d]
  BY <1>1 DEF DecodedImage
<1>3. Source(u) = D
  BY <1>1 DEF Source
<1>4. [D EXCEPT !.data = D.data] = D /\ D # NoBuffer
  BY <1>2 DEF NoBuffer
<1>5. PICK b : b = [i \in DOMAIN D.data |-> {}]
  OBVIOUS
<1>6. /\ Blank(D) = [D EXCEPT !.data = b] /\ [D EXCEPT !.data = b].data = b
      /\ DOMAIN b = DOMAIN D.data
  BY <1>2, <1>5 DEF Blank
<1>. QED  BY <1>1, <1>3, <1>4, <1>5, <1>6 DEF Fits

LEMMA SoundFits ==
  ASSUME NEW u \in Uploads, u.type = "audio"
  PROVE  /\ Fits(u, DecodedAudio(u)) /\ Fits(u, Blank(DecodedAudio(u)))
         /\ DecodedAudio(u) # NoBuffer
<1>1. PICK D : D = DecodedAudio(u)
  OBVIOUS
<1>2. PICK F \in Nat, C \in Nat \ {0} : F = u.shape.frames /\ C = u.shape.channels
  BY UploadsTyped
<1>3. D \in Audios(F, C, Marks)
  BY <1>1, <1>2, UploadsTyped, DecodedIsSound
<1>4. PICK d \in [0..(F * C - 1) -> Marks] : D = [frames |-> F, channels |-> C, data |-> d]
  BY <1>3 DEF Audios
<1>5. Source(u) = D
  BY <1>1 DEF Source
<1>6. [D EXCEPT !.data = D.data] = D /\ D # NoBuffer
  BY <1>4 DEF NoBuffer
<1>7. PICK b : b = [i \in DOMAIN D.data |-> {}]
  OBVIOUS
<1>8. b \in [0..(F * C - 1) -> Marks] /\ DOMAIN b = DOMAIN D.data
  BY <1>4, <1>7 DEF Marks
<1>9. Blank(D) = [D EXCEPT !.data = b] /\ [D EXCEPT !.data = b].data = b
      /\ [D EXCEPT !.data = b] \in Audios(F, C, Marks)
  BY <1>4, <1>7, <1>8 DEF Blank, Audios
<1>. QED  BY <1>1, <1>2, <1>3, <1>5, <1>6, <1>8, <1>9 DEF Fits

LEMMA LoadStep ==
  ASSUME TaskInv, LoadImage \/ LoadAudio
  PROVE  TaskInv'
<1>1. /\ pc = "load" /\ pc' = "apply" /\ upload.type \in {"image", "audio"}
      /\ UNCHANGED <<upload, effects, ctx, framesLeft, current, failed, output>>
  BY DEF LoadImage, LoadAudio, codecVars
<1>2. upload \in Uploads
  BY DEF TaskInv, Staged
<1>3. Fits(upload, A') /\ Fits(upload, B') /\ A' # NoBuffer
  BY <1>2, ImageFits, SoundFits DEF LoadImage, LoadAudio
<1>4. Staged'
  BY <1>1 DEF TaskInv, Staged
<1>5. EffectsMade'
  BY <1>1 DEF TaskInv, EffectsMade
<1>6. BuffersFit'
  BY <1>1, <1>3, KnownTypes DEF BuffersFit, Loaded
<1>7. EncoderRuns'
  BY <1>1 DEF TaskInv, EncoderRuns
<1>8. Ends'
  BY <1>1 DEF TaskInv, Ends
<1>. QED  BY <1>4, <1>5, <1>6, <1>7, <1>8 DEF TaskInv

\* A buffer that fits is not the one of the beginning.
LEMMA FitsLoaded ==
  ASSUME NEW u, u.type \in DOMAIN Known, NEW X, Fits(u, X)
  PROVE  X # NoBuffer
<1>1. PICK D : D = Source(u)
  OBVIOUS
<1>2. "width" \in DOMAIN D \/ "frames" \in DOMAIN D
  BY <1>1 DEF Source, DecodedImage, DecodedAudio
<1>3. DOMAIN X = DOMAIN D
  BY <1>1 DEF Fits
<1>4. DOMAIN NoBuffer = {"channels", "data"}
  BY DEF NoBuffer
<1>. QED  BY <1>2, <1>3, <1>4

\* How long a file is that holds n samples.
LEMMA FileLength ==
  ASSUME NEW data, NEW n \in Nat
  PROVE  Len(Header \o [i \in 1..n |-> data[i - 1]]) = HeaderSize + n
<1> DEFINE V == {data[i] : i \in 0..(n - 1)} \cup {HeaderUnit}
           s == [i \in 1..n |-> data[i - 1]]
<1>1. \A i \in 1..n : i - 1 \in 0..(n - 1)
  OBVIOUS
<1>2. \A i \in 1..n : data[i - 1] \in V
  BY <1>1
<1>3. Header \in Seq(V) /\ Len(Header) = HeaderSize
  <2>1. HeaderUnit \in V
    OBVIOUS
  <2> HIDE DEF V
  <2>. QED  BY <2>1, HeaderSizePositive DEF Header
<1> HIDE DEF V
<1>4. s \in Seq(V) /\ Len(s) = n
  BY <1>2
<1> HIDE DEF s
<1>5. Len(Header \o s) = Len(Header) + Len(s)
  BY <1>3, <1>4, ConcatProperties
<1>. QED  BY <1>3, <1>4, <1>5 DEF s

LEMMA ApplyStep ==
  ASSUME TaskInv, Apply
  PROVE  TaskInv'
<1>1. /\ pc = "apply" /\ pc' = "apply" /\ effects # << >> /\ effects' = Tail(effects)
      /\ A' = Applied(Head(effects), A, B) /\ B' = A
      /\ UNCHANGED <<upload, ctx, framesLeft, current, failed, output>>
  BY DEF Apply, codecVars
<1>2. upload \in Uploads /\ Fits(upload, A) /\ Fits(upload, B) /\ upload.type \in DOMAIN Known
  BY <1>1 DEF TaskInv, Staged, BuffersFit
<1>3. effects \in Seq(EffectsFor(upload.type)) /\ effects \in Seq(Effects)
  BY <1>1 DEF TaskInv, Staged, EffectsMade
<1>4. Head(effects) \in EffectsFor(upload.type)
  BY <1>1, <1>3
<1>5. Tail(effects) \in Seq(EffectsFor(upload.type)) /\ Tail(effects) \in Seq(Effects)
  BY <1>1, <1>3
<1>6. Fits(upload, A')
  BY <1>1, <1>2, <1>4, AppliedFits
<1>7. Loaded'
  BY <1>2, <1>6, FitsLoaded DEF Loaded
<1>8. Staged'
  BY <1>1, <1>5 DEF TaskInv, Staged
<1>9. EffectsMade'
  BY <1>1, <1>5 DEF EffectsMade
<1>10. BuffersFit'
  BY <1>1, <1>2, <1>6, <1>7 DEF BuffersFit
<1>11. EncoderRuns'
  BY <1>1 DEF TaskInv, EncoderRuns
<1>12. Ends'
  BY <1>1 DEF TaskInv, Ends
<1>. QED  BY <1>8, <1>9, <1>10, <1>11, <1>12 DEF TaskInv

\* The end of a task for a picture.
LEMMA ImageEndStep ==
  ASSUME TaskInv, EncodeImage \/ EncodeOtherImage
  PROVE  TaskInv'
<1>1. /\ pc = "apply" /\ pc' \in {"done", "thrown"} /\ upload.type = "image"
      /\ pc' = "thrown" => output' = output /\ upload.format \notin {"jpg", "jpeg", "png"}
      /\ UNCHANGED <<upload, effects, A, B, ctx, framesLeft, current, failed>>
  BY DEF EncodeImage, EncodeOtherImage, EncodingDue, codecVars
<1>2. Staged'
  BY <1>1 DEF TaskInv, Staged
<1>3. EffectsMade'
  BY <1>1 DEF TaskInv, EffectsMade
<1>4. BuffersFit'
  BY <1>1 DEF TaskInv, BuffersFit, Loaded
<1>5. EncoderRuns'
  BY <1>1 DEF TaskInv, EncoderRuns
<1>6. Ends'
  BY <1>1 DEF TaskInv, Ends, WithReason
<1>. QED  BY <1>2, <1>3, <1>4, <1>5, <1>6 DEF TaskInv

\* The encoder's steps for a sound, from EncoderInv, which they keep.
LEMMA SoundSteps ==
  ASSUME TaskInv, OpenEncoder \/ WriteChunk \/ WriteFails \/ CloseEncoder
  PROVE  TaskInv'
<1>1. /\ pc \in {"apply", "encode", "close"} /\ pc' \in {"encode", "close", "done"}
      /\ pc # pc' \/ pc = "encode"
      /\ pc' # "done" => output' = output
      /\ UNCHANGED <<upload, effects, A, B>> /\ failed' \in {failed, TRUE}
  BY DEF OpenEncoder, WriteChunk, WriteFails, CloseEncoder, EncodingDue, AfterWriteFailure
<1>2. upload \in Uploads /\ upload.type = "audio" /\ Fits(upload, A)
  BY <1>1 DEF OpenEncoder, WriteChunk, WriteFails, CloseEncoder, TaskInv, Staged, BuffersFit,
              EncoderRuns
<1>3. PICK F \in Nat, C \in Nat \ {0} : F = upload.shape.frames /\ C = upload.shape.channels
  BY <1>2, UploadsTyped
<1>4. EncoderInv(F, C, Marks)
  <2>1. CASE OpenEncoder
    <3>1. EncodingDue /\ A \in Audios(F, C, Marks)
      BY <1>2, <1>3, <2>1 DEF OpenEncoder, Fits
    <3>. QED  BY <1>2, <3>1 DEF EncoderInv, EncodingDue, Encoded
  <2>2. CASE ~OpenEncoder
    <3>1. pc \in {"encode", "close"}
      BY <2>2 DEF WriteChunk, WriteFails, CloseEncoder
    <3>. QED  BY <1>2, <1>3, <3>1 DEF TaskInv, EncoderRuns
  <2>. QED  BY <2>1, <2>2
<1>5. EncoderInv(F, C, Marks)'
  BY <1>4, EncoderStep DEF Next
<1>6. ctx'.position \in 0..Len(ctx'.buffer)
  <2>1. CASE OpenEncoder
    <3>1. ctx' = [position |-> HeaderSize, buffer |-> Header]
      BY <2>1, HeaderWritten DEF OpenEncoder
    <3>2. Len(Header) = HeaderSize
      BY HeaderSizePositive DEF Header
    <3>. QED  BY <3>1, <3>2, HeaderSizePositive
  <2>2. CASE WriteChunk \/ WriteFails
    <3>1. pc' \in {"encode", "close"}
      BY <2>2 DEF WriteChunk, WriteFails, AfterWriteFailure, EncoderRuns, TaskInv
    <3>0. PICK l \in 0..F : l = framesLeft'
      BY <1>5, <3>1 DEF EncoderInv, Encoded
    <3>2. PICK n : /\ n = (F - l) * C /\ ctx'.position = HeaderSize + n
                   /\ ctx'.buffer = Header \o [i \in 1..n |-> A'.data[i - 1]]
      BY <1>5, <3>0, <3>1 DEF EncoderInv, Encoded, Samples
    <3>3. n \in Nat
      BY <3>2
    <3>4. Len(ctx'.buffer) = HeaderSize + n
      BY <3>2, <3>3, FileLength
    <3>. QED  BY <3>2, <3>3, <3>4, HeaderSizePositive
  <2>3. CASE CloseEncoder
    <3>1. ctx' = WithHeader(ctx)
      BY <2>3 DEF CloseEncoder
    <3>2. WithHeader(ctx) = [position |-> ctx.position, buffer |-> ctx.buffer]
      BY <1>4, <2>3, FileClosed DEF CloseEncoder
    <3>3. ctx.position \in 0..Len(ctx.buffer)
      BY DEF TaskInv, EncoderRuns
    <3>. QED  BY <3>1, <3>2, <3>3
  <2>. QED  BY <2>1, <2>2, <2>3
<1>7. Staged'
  BY <1>1 DEF TaskInv, Staged
<1>8. EffectsMade'
  BY <1>1 DEF TaskInv, EffectsMade
<1>9. BuffersFit'
  BY <1>1 DEF TaskInv, BuffersFit, Loaded
<1>10. EncoderRuns'
  BY <1>1, <1>2, <1>3, <1>5, <1>6 DEF EncoderRuns
<1>11. Ends'
  BY <1>1 DEF TaskInv, Ends
<1>. QED  BY <1>7, <1>8, <1>9, <1>10, <1>11 DEF TaskInv

\* Every step keeps the invariant.
LEMMA TaskStep ==
  ASSUME TaskInv, [Next]_vars
  PROVE  TaskInv'
<1>0. upload \in Uploads
  BY DEF TaskInv, Staged
<1>1. CASE UNCHANGED vars
  <2>1. EncoderInv(upload.shape.frames, upload.shape.channels, Marks)
          => EncoderInv(upload.shape.frames, upload.shape.channels, Marks)'
    BY <1>1 DEF vars, codecVars, EncoderInv, Encoded, Samples
  <2>. QED  BY <1>1, <2>1 DEF vars, codecVars, TaskInv, Staged, EffectsMade, BuffersFit, Loaded,
                              EncoderRuns, Ends, WithReason
<1>2. CASE ThrowAtConstruction
  <2>1. pc = "construct" /\ ConstructorThrows(upload) /\ Throw /\ failed' = failed
    BY <1>2 DEF ThrowAtConstruction
  <2>2. WithReason
    BY <1>0, <2>1, PageIsUnderstood DEF WithReason, TextsUnderstood
  <2>. QED  BY <2>1, <2>2, ThrowStep DEF TaskInv, Staged
<1>3. CASE Construct
  BY <1>3, ConstructStep
<1>4. CASE ThrowAtLoad
  BY <1>4, ThrowStep DEF ThrowAtLoad, WithReason, TaskInv, Staged
<1>5. CASE LoadImage \/ LoadAudio
  BY <1>5, LoadStep
<1>6. CASE Apply
  BY <1>6, ApplyStep
<1>7. CASE EncodeImage \/ EncodeOtherImage
  BY <1>7, ImageEndStep
<1>8. CASE EncoderFails
  BY <1>8, ThrowStep DEF EncoderFails, EncodingDue
<1>9. CASE OpenEncoder \/ WriteChunk \/ WriteFails \/ CloseEncoder
  BY <1>9, SoundSteps
<1>10. CASE Ended
  BY <1>1, <1>10 DEF Ended
<1>. QED  BY <1>1, <1>2, <1>3, <1>4, <1>5, <1>6, <1>7, <1>8, <1>9, <1>10 DEF Next

LEMMA AlwaysTask == Spec => []TaskInv
<1>1. TaskInv /\ [Next]_vars => TaskInv'
  BY TaskStep
<1>. QED  BY <1>1, TaskInit, PTL DEF Spec

\* Each variable has its type: the buffers keep the dimensions of the upload through every
\* effect and swap (pipeline.cpp's process), and the position in the file written and the
\* encoder's pointer stay inside what they point into (audio_io.cpp).
THEOREM TaskTypes == Spec => []TypeOK
<1>1. TaskInv => TypeOK
  <2> SUFFICES ASSUME TaskInv PROVE TypeOK
    OBVIOUS
  <2> PICK u : u = upload
    OBVIOUS
  <2>1. /\ upload \in Uploads /\ failed \in BOOLEAN
        /\ pc \in {"construct", "load", "apply", "encode", "close", "done", "thrown"}
        /\ ctx.position \in 0..Len(ctx.buffer)
    BY DEF TaskInv, Staged, EncoderRuns
  <2>2. ASSUME Loaded
        PROVE  /\ A \in (IF upload.type = "image" THEN {[DecodedImage(upload) EXCEPT !.data = A.data]}
                         ELSE {[DecodedAudio(upload) EXCEPT !.data = A.data]})
               /\ B = [A EXCEPT !.data = B.data]
               /\ DOMAIN A.data = DOMAIN B.data
    <3>1. Fits(u, A) /\ Fits(u, B)
      BY <2>2 DEF TaskInv, BuffersFit
    <3>2. A = [Source(u) EXCEPT !.data = A.data] /\ B = [Source(u) EXCEPT !.data = B.data]
          /\ DOMAIN A.data = DOMAIN Source(u).data /\ DOMAIN B.data = DOMAIN A.data
      BY <3>1 DEF Fits
    <3>3. [A EXCEPT !.data = B.data] = [Source(u) EXCEPT !.data = B.data]
      BY <3>2, Rewritten
    <3>4. Source(u) = IF upload.type = "image" THEN DecodedImage(upload) ELSE DecodedAudio(upload)
      BY DEF Source
    <3>. QED  BY <3>2, <3>3, <3>4
  <2>3. ASSUME pc \in {"encode", "close"}
        PROVE  framesLeft \in 0..A.frames /\ current \in 0..(A.frames * A.channels)
    <3>1. PICK F \in Nat, C \in Nat \ {0} : EncoderInv(F, C, Marks)
      BY <2>1, <2>3, UploadsTyped DEF TaskInv, EncoderRuns
    <3>2. /\ A.frames = F /\ A.channels = C /\ framesLeft \in 0..F
          /\ current = (F - framesLeft) * C
      BY <2>3, <3>1 DEF EncoderInv, Encoded, Audios
    <3>3. \A l \in 0..F : (F - l) * C \in 0..(F * C)
      OBVIOUS
    <3>. QED  BY <3>2, <3>3
  <2>. QED  BY <2>1, <2>2, <2>3 DEF TypeOK
<1>. QED  BY <1>1, AlwaysTask, PTL

\* While the encoder's loop runs, the file is the header and the first frames, of every
\* sound that a task may come to encode (audio_io.cpp).
THEOREM AlwaysInOrder == Spec => []EncodedInOrder
<1>1. TaskInv => EncodedInOrder
  <2> SUFFICES ASSUME TaskInv, pc \in {"encode", "close"}
               PROVE  ctx.buffer = Header \o Samples((A.frames - framesLeft) * A.channels)
    BY DEF EncodedInOrder, Samples
  <2>1. PICK F, C : EncoderInv(F, C, Marks)
    BY DEF TaskInv, EncoderRuns
  <2>2. A.frames = F /\ A.channels = C
    BY <2>1 DEF EncoderInv, Audios
  <2>. QED  BY <2>1, <2>2 DEF EncoderInv, Encoded
<1>. QED  BY <1>1, AlwaysTask, PTL

\* Unless a library fails, a sound's answer holds every frame, and a task throws only for what
\* is wrong with the request (pipeline.cpp, audio_io.cpp).
THEOREM ThrownForAReason == Spec => []OnlyForAReason
<1>1. TaskInv => OnlyForAReason
  <2> SUFFICES ASSUME TaskInv, ~failed PROVE OnlyForAReason
    BY DEF OnlyForAReason
  <2>1. ASSUME pc = "done", upload.type = "audio"
        PROVE  Len(output) = HeaderSize + upload.shape.frames * upload.shape.channels
    <3>1. PICK F \in Nat, C \in Nat \ {0} :
            F = upload.shape.frames /\ C = upload.shape.channels /\ EncoderInv(F, C, Marks)
      BY <2>1, UploadsTyped DEF TaskInv, Staged, EncoderRuns
    <3>2. output = Header \o Samples(F * C)
      BY <2>1, <3>1 DEF EncoderInv
    <3>3. Len(output) = HeaderSize + F * C
      <4>1. PICK n \in Nat : n = F * C
        OBVIOUS
      <4>2. Len(Header \o Samples(n)) = HeaderSize + n
        BY FileLength DEF Samples
      <4>. QED  BY <3>2, <4>1, <4>2
    <3>. QED  BY <3>1, <3>3
  <2>2. pc = "thrown" => WithReason
    BY DEF TaskInv, Ends
  <2>. QED  BY <2>1, <2>2 DEF OnlyForAReason, WithReason
<1>. QED  BY <1>1, AlwaysTask, PTL

\* In every state Pixelate may be applied in, its blocks cover the picture, none twice, and
\* what a block's sum is divided by is the number of its pixels (pixelate.cpp).
THEOREM AlwaysMeans == Spec => []MeansOverPixels
<1>1. TaskInv => MeansOverPixels
  <2> SUFFICES ASSUME TaskInv, Loaded, effects # << >>, Head(effects).name = "pixelate"
               PROVE  MeansOverPixels
    BY DEF MeansOverPixels
  <2>1. PICK e : e = Head(effects) /\ e \in EffectsFor(upload.type) /\ e.name = "pixelate"
    BY DEF TaskInv, EffectsMade
  <2>2. Head(effects).number \in Nat \ {0}
    BY <2>1 DEF EffectsFor, Effects
  <2>3. upload \in Uploads /\ upload.type = "image" /\ Fits(upload, A)
    BY <2>1, KnownTypes DEF EffectsFor, TaskInv, Staged, BuffersFit
  <2>4. A.width = upload.shape.width /\ A.height = upload.shape.height
    BY <2>3 DEF Fits, Source, DecodedImage
  <2>5. upload.shape.width \in Nat /\ upload.shape.height \in Nat
    BY <2>3, UploadsTyped
  <2>. QED  BY <2>2, <2>4, <2>5, PixelsInBlocks
<1>. QED  BY <1>1, AlwaysTask, PTL

\* A task comes to its end: each step goes on to a later stage, or leaves fewer effects or
\* fewer frames to do, also with short writes and failures (pipeline.cpp, audio_io.cpp).
THEOREM TasksEnd == Spec => GetsToEnd
<1>1. TaskInv /\ [Next]_vars
        => [\/ Stage' < Stage
            \/ Stage' = Stage /\ Len(effects') + framesLeft' < Len(effects) + framesLeft]_vars
  <2> SUFFICES ASSUME TaskInv, Next
               PROVE  \/ Stage' < Stage
                      \/ Stage' = Stage /\ Len(effects') + framesLeft' < Len(effects) + framesLeft
                      \/ UNCHANGED vars
    OBVIOUS
  <2>1. CASE ThrowAtConstruction \/ Construct \/ ThrowAtLoad \/ LoadImage \/ LoadAudio
    BY <2>1 DEF ThrowAtConstruction, Construct, ThrowAtLoad, LoadImage, LoadAudio, Throw, Stage
  <2>2. CASE EncodeImage \/ EncodeOtherImage \/ EncoderFails \/ OpenEncoder
    BY <2>2 DEF EncodeImage, EncodeOtherImage, EncoderFails, OpenEncoder, EncodingDue, Throw, Stage
  <2>3. CASE WriteFails \/ CloseEncoder
    BY <2>3 DEF WriteFails, CloseEncoder, AfterWriteFailure, Stage
  <2>4. CASE Apply
    <3>1. /\ pc = "apply" /\ pc' = pc /\ effects # << >> /\ effects' = Tail(effects)
          /\ framesLeft' = framesLeft /\ framesLeft = 0 /\ effects \in Seq(Effects)
      BY <2>4 DEF Apply, codecVars, TaskInv, Staged
    <3>2. Len(effects') < Len(effects) /\ Len(effects') \in Nat /\ Len(effects) \in Nat
      BY <3>1
    <3>. QED  BY <3>1, <3>2 DEF Stage
  <2>5. CASE WriteChunk
    <3>1. /\ pc = "encode" /\ pc' = pc /\ effects' = effects /\ effects \in Seq(Effects)
          /\ framesLeft > 0 /\ \E w \in 1..FramesAsked : framesLeft' = framesLeft - w
      BY <2>5 DEF WriteChunk, LeftAfter, TaskInv, Staged
    <3>2. PICK F \in Nat, C \in Nat \ {0} : EncoderInv(F, C, Marks)
      BY <3>1, UploadsTyped DEF TaskInv, Staged, EncoderRuns
    <3>3. framesLeft \in Nat /\ Len(effects) \in Nat
      BY <3>1, <3>2 DEF EncoderInv, Encoded
    <3>4. PICK w \in Nat \ {0} : framesLeft' = framesLeft - w
      BY <3>1
    <3>5. Len(effects') + framesLeft' < Len(effects) + framesLeft
      BY <3>1, <3>3, <3>4
    <3>. QED  BY <3>1, <3>5 DEF Stage
  <2>6. CASE Ended
    BY <2>6 DEF Ended
  <2>. QED  BY <2>1, <2>2, <2>3, <2>4, <2>5, <2>6 DEF Next
<1>. QED  BY <1>1, AlwaysTask, PTL DEF Spec, GetsToEnd

-----------------------------------------------------------------------------
(***************************************************************************)
(* The refinement: what the buffers hold, by places, is what Transform     *)
(* makes of the medium, effect by effect.                                  *)
(***************************************************************************)

\* The two effects on sounds do what Transform says of them.
LEMMA SoundEffects ==
  ASSUME NEW u, u.shape.type = "audio", NEW F \in Nat, NEW C \in Nat \ {0},
         u.shape.frames = F, u.shape.channels = C,
         NEW S, NEW src \in Audios(F, C, S), NEW dst \in Audios(F, C, S),
         NEW e, \/ e.name = "normalize"
                \/ e.name = "reverse" /\ (F % 2 = 0 \/ C \in {2, 3})
  PROVE  MediumOf(u, Applied(e, src, dst)) = Promise!Effect(e, MediumOf(u, src))
<1> DEFINE P == (0..(F - 1)) \X (0..(C - 1))
           m == MediumOf(u, src)
           Origin(p) == IF e.name = "reverse" THEN <<F - 1 - p[1], p[2]>> ELSE p
<1>1. PICK Z : Z = Applied(e, src, dst) /\ Z \in Audios(F, C, S)
  BY SoundApplied
<1>2. m = [shape |-> u.shape, at |-> [p \in P |-> src.data[p[1] * C + p[2]]]]
  <2>1. src.frames = F /\ src.channels = C
    BY DEF Audios
  <2>. QED  BY <2>1 DEF MediumOf
<1>3. MediumOf(u, Z) = [shape |-> u.shape, at |-> [p \in P |-> Z.data[p[1] * C + p[2]]]]
  <2>1. Z.frames = F /\ Z.channels = C
    BY <1>1 DEF Audios
  <2>. QED  BY <2>1 DEF MediumOf
<1>4. ASSUME NEW p \in P
      PROVE  Origin(p) \in P /\ Z.data[p[1] * C + p[2]] = src.data[Origin(p)[1] * C + Origin(p)[2]]
  <2>1. PICK f \in 0..(F - 1), c \in 0..(C - 1) : p = <<f, c>> /\ p[1] = f /\ p[2] = c
    OBVIOUS
  <2>2. CASE e.name = "reverse"
    <3>1. Z.data[f * C + c] = src.data[(F - 1 - f) * C + c]
      BY <1>1, <2>2, SoundsReversed DEF Applied
    <3>. QED  BY <2>1, <2>2, <3>1
  <2>3. CASE e.name = "normalize"
    <3>1. f * C + c \in 0..(F * C - 1)
      BY PlaceIn
    <3>2. Z.data[f * C + c] = src.data[f * C + c]
      BY <1>1, <2>3, <3>1 DEF Applied, Normalize, Audios
    <3>. QED  BY <2>1, <2>3, <3>2
  <2>. QED  BY <2>2, <2>3
<1>5. ASSUME NEW p \in P
      PROVE  Promise!OfSound(e, u.shape, p[1], p[2]) = {Origin(p)}
  <2>1. PICK f \in 0..(F - 1), c \in 0..(C - 1) : p = <<f, c>> /\ p[1] = f /\ p[2] = c
    OBVIOUS
  <2>2. CASE e.name = "reverse"
    BY <2>1, <2>2 DEF Promise!OfSound
  <2>3. CASE e.name = "normalize"
    BY <2>1, <2>3 DEF Promise!OfSound
  <2>. QED  BY <2>2, <2>3
<1>6. Promise!Effect(e, m) =
        [shape |-> u.shape,
         at |-> [p \in P |-> UNION {m.at[q] : q \in Promise!OfSound(e, u.shape, p[1], p[2])}]]
  <2> DEFINE at == [p \in P |-> src.data[p[1] * C + p[2]]]
  <2>1. DOMAIN at = P /\ m = [shape |-> u.shape, at |-> at]
    BY <1>2
  <2> HIDE DEF at, m
  <2>2. m.shape = u.shape /\ DOMAIN m.at = P /\ \A a : [m EXCEPT !.at = a] = [shape |-> u.shape, at |-> a]
    BY <2>1
  <2> HIDE DEF P
  <2>. QED  BY <2>2 DEF Promise!Effect
<1>7. ASSUME NEW p \in P
      PROVE  UNION {m.at[q] : q \in Promise!OfSound(e, u.shape, p[1], p[2])}
               = Z.data[p[1] * C + p[2]]
  <2>1. {m.at[q] : q \in Promise!OfSound(e, u.shape, p[1], p[2])} = {m.at[Origin(p)]}
    BY <1>5
  <2>2. m.at[Origin(p)] = src.data[Origin(p)[1] * C + Origin(p)[2]]
    BY <1>2, <1>4
  <2>3. Z.data[p[1] * C + p[2]] = m.at[Origin(p)]
    BY <1>4, <2>2
  <2> HIDE DEF m, Origin, P
  <2>. QED  BY <2>1, <2>3
<1>. QED  BY <1>1, <1>3, <1>6, <1>7

\* The index of channel c of a pixel: no other sample has it.
LEMMA SampleIndex ==
  ASSUME NEW w \in Nat \ {0}, NEW h \in Nat \ {0}, NEW C \in Nat \ {0},
         NEW x \in 0..(w - 1), NEW y \in 0..(h - 1), NEW c \in 0..(C - 1)
  PROVE  /\ x + w * y \in 0..(w * h - 1)
         /\ (x + w * y) % w = x /\ (x + w * y) \div w = y
         /\ (x + w * y) * C + c \in 0..(w * h * C - 1)
         /\ ((x + w * y) * C + c) \div C = x + w * y
         /\ ((x + w * y) * C + c) % C = c
<1>1. /\ (y * w + x) \div w = y /\ (y * w + x) % w = x /\ y * w + x \in 0..(h * w - 1)
  BY PlaceOf, PlaceIn
<1>2. PICK n \in 0..(w * h - 1) : n = x + w * y /\ n = y * w + x
  BY <1>1
<1>3. /\ (n * C + c) \div C = n /\ (n * C + c) % C = c
  BY PlaceOf
<1>4. n * C + c \in 0..((w * h) * C - 1)
  <2>1. PICK N \in Nat : N = w * h
    OBVIOUS
  <2>2. n \in 0..(N - 1)
    BY <2>1
  <2>3. n * C + c \in 0..(N * C - 1)
    BY <2>2, PlaceIn
  <2>. QED  BY <2>1, <2>3
<1>. QED  BY <1>1, <1>2, <1>3, <1>4

\* A buffer that holds a picture of the upload, and the places of its samples.
IsPicture(u, X) ==
  /\ X.width = u.shape.width /\ X.height = u.shape.height /\ X.channels = u.shape.channels
  /\ DOMAIN X.data = 0..(u.shape.width * u.shape.height * u.shape.channels - 1)

Spots(u) ==
  (0..(u.shape.width - 1)) \X (0..(u.shape.height - 1)) \X (0..(u.shape.channels - 1))

SampleAt(u, X, x, y, c) == X.data[(x + u.shape.width * y) * u.shape.channels + c]

LEMMA PictureFits ==
  ASSUME NEW u \in Uploads, u.type = "image", NEW X, Fits(u, X)
  PROVE  IsPicture(u, X)
<1>1. PICK w \in Nat, h \in Nat, C \in Nat :
        w = u.shape.width /\ h = u.shape.height /\ C = u.shape.channels
  BY UploadsTyped
<1>2. PICK d : d = Source(u).data
  OBVIOUS
<1>2a. Source(u) = [width |-> w, height |-> h, channels |-> C, data |-> d]
  BY <1>1, <1>2 DEF Source, DecodedImage
<1>2b. DOMAIN d = 0..(w * h * C - 1)
  BY <1>1, <1>2 DEF Source, DecodedImage
<1>3. DOMAIN X.data = DOMAIN d
  BY <1>2 DEF Fits
<1>4. X = [[width |-> w, height |-> h, channels |-> C, data |-> d] EXCEPT !.data = X.data]
  BY <1>2a DEF Fits
<1>. QED  BY <1>1, <1>2b, <1>3, <1>4 DEF IsPicture

LEMMA PictureMedium ==
  ASSUME NEW u, u.shape.type = "image", NEW X, IsPicture(u, X)
  PROVE  MediumOf(u, X) =
           [shape |-> u.shape, at |-> [p \in Spots(u) |-> SampleAt(u, X, p[1], p[2], p[3])]]
BY DEF MediumOf, IsPicture, Spots, SampleAt, PixelAt

\* A sample of Z is what Transform says that e makes of X there.
DependsAs(u, X, Z, e, x, y, c) ==
  LET Q == Promise!OfPicture(e, u.shape, x, y, c)
  IN  /\ Q \subseteq Spots(u)
      /\ SampleAt(u, Z, x, y, c) = UNION {SampleAt(u, X, q[1], q[2], q[3]) : q \in Q}

LEMMA PictureShape ==
  ASSUME NEW u \in Uploads, u.type = "image"
  PROVE  /\ u.shape.type = "image" /\ u.shape.width \in Nat \ {0} /\ u.shape.height \in Nat \ {0}
         /\ u.shape.channels \in Nat \ {0} /\ u.shape.channels \in {3, 4}
<1>1. u.shape.type = "image" /\ u.shape \notin [type : {"audio"}, frames : Nat, channels : Nat \ {0}]
  BY UploadsTyped
<1>2. u.shape \in [type : {"image"}, width : Nat \ {0}, height : Nat \ {0}, channels : {3, 4}]
  BY <1>1, UploadsTyped
<1>. QED  BY <1>1, <1>2

\* It is enough to know each sample that an effect writes.
LEMMA PictureEffect ==
  ASSUME NEW u, u.shape.type = "image", NEW X, IsPicture(u, X), NEW Z, IsPicture(u, Z), NEW e,
         \A x \in 0..(u.shape.width - 1), y \in 0..(u.shape.height - 1), c \in 0..(u.shape.channels - 1) :
           DependsAs(u, X, Z, e, x, y, c)
  PROVE  MediumOf(u, Z) = Promise!Effect(e, MediumOf(u, X))
<1> DEFINE m == MediumOf(u, X)
           P == Spots(u)
           at == [p \in P |-> SampleAt(u, X, p[1], p[2], p[3])]
<1>1. m = [shape |-> u.shape, at |-> at] /\ DOMAIN at = P
  BY PictureMedium
<1>2. MediumOf(u, Z) = [shape |-> u.shape, at |-> [p \in P |-> SampleAt(u, Z, p[1], p[2], p[3])]]
  BY PictureMedium
<1> HIDE DEF m, at
<1>3. m.shape = u.shape /\ m.at = at /\ DOMAIN m.at = P /\ \A a : [m EXCEPT !.at = a] = [shape |-> u.shape, at |-> a]
  BY <1>1
<1>4. Promise!Effect(e, m) =
        [shape |-> u.shape,
         at |-> [p \in P |-> UNION {m.at[q] : q \in Promise!OfPicture(e, u.shape, p[1], p[2], p[3])}]]
  <2> HIDE DEF P
  <2>1. m.shape.type = "image"
    BY <1>3
  <2>. QED  BY ONLY <1>3, <2>1 DEF Promise!Effect
<1>5. ASSUME NEW p \in P
      PROVE  SampleAt(u, Z, p[1], p[2], p[3]) =
               UNION {m.at[q] : q \in Promise!OfPicture(e, u.shape, p[1], p[2], p[3])}
  <2>1. /\ p[1] \in 0..(u.shape.width - 1) /\ p[2] \in 0..(u.shape.height - 1)
        /\ p[3] \in 0..(u.shape.channels - 1)
    BY DEF Spots
  <2>2. PICK Q : Q = Promise!OfPicture(e, u.shape, p[1], p[2], p[3])
    OBVIOUS
  <2>3. /\ Q \subseteq P
        /\ SampleAt(u, Z, p[1], p[2], p[3]) = UNION {SampleAt(u, X, q[1], q[2], q[3]) : q \in Q}
    BY <2>1, <2>2 DEF DependsAs
  <2>4. {m.at[q] : q \in Q} = {SampleAt(u, X, q[1], q[2], q[3]) : q \in Q}
    <3>1. \A q \in P : m.at[q] = SampleAt(u, X, q[1], q[2], q[3])
      BY <1>3 DEF at
    <3> HIDE DEF P
    <3>. QED  BY <2>3, <3>1
  <2>. QED  BY <2>2, <2>3, <2>4
<1>. QED  BY <1>2, <1>4, <1>5 DEF m

LEMMA DataWritten ==
  ASSUME NEW u, NEW dst, Fits(u, dst)
  PROVE  \A d : [dst EXCEPT !.data = d].data = d
<1> PICK D : D = Source(u) /\ "data" \in DOMAIN D
  BY SourceHasData
<1>. QED  BY DEF Fits

\* What a per-pixel loop leaves in a sample.
LEMMA PerPixelAt ==
  ASSUME NEW u \in Uploads, u.type = "image", NEW src, Fits(u, src), NEW dst, Fits(u, dst),
         NEW colour,
         NEW x \in 0..(u.shape.width - 1), NEW y \in 0..(u.shape.height - 1),
         NEW c \in 0..(u.shape.channels - 1)
  PROVE  SampleAt(u, PerPixel(src, dst, colour), x, y, c)
           = IF c = 3 THEN SampleAt(u, src, x, y, c)
             ELSE colour[(x + u.shape.width * y) * u.shape.channels + c]
<1>1. PICK w \in Nat \ {0}, h \in Nat \ {0}, C \in Nat \ {0} :
        w = u.shape.width /\ h = u.shape.height /\ C = u.shape.channels /\ C \in {3, 4}
  BY PictureShape
<1>2. PICK k : k = (x + w * y) * C + c
  OBVIOUS
<1>3. k \in 0..(w * h * C - 1) /\ k % C = c
  <2>1. x \in 0..(w - 1) /\ y \in 0..(h - 1) /\ c \in 0..(C - 1)
    BY <1>1
  <2>. QED  BY <1>2, <2>1, SampleIndex
<1>4. src.channels = C /\ DOMAIN dst.data = 0..(w * h * C - 1)
  BY <1>1, PictureFits DEF IsPicture
<1> DEFINE d == [i \in DOMAIN dst.data |->
                   IF i % src.channels \in Colours THEN colour[i]
                   ELSE IF src.channels = 4 THEN src.data[i] ELSE dst.data[i]]
<1>5. d[k] = IF c \in 0..2 THEN colour[k] ELSE IF C = 4 THEN src.data[k] ELSE dst.data[k]
  BY <1>3, <1>4 DEF Colours
<1>6. PerPixel(src, dst, colour).data = d
  BY DataWritten DEF PerPixel
<1> HIDE DEF d
<1>7. PerPixel(src, dst, colour).data[k] = IF c = 3 THEN src.data[k] ELSE colour[k]
  BY <1>1, <1>5, <1>6
<1>. QED  BY <1>1, <1>2, <1>7 DEF SampleAt

LEMMA PointEffects ==
  ASSUME NEW u \in Uploads, u.type = "image", NEW src, Fits(u, src), NEW dst, Fits(u, dst),
         NEW e \in EffectsFor(u.type),
         e.name \in {"invert", "ordered_dithering", "grayscale", "sepia"}
  PROVE  MediumOf(u, Applied(e, src, dst)) = Promise!Effect(e, MediumOf(u, src))
<1>1. PICK w \in Nat \ {0}, h \in Nat \ {0}, C \in Nat \ {0} :
        w = u.shape.width /\ h = u.shape.height /\ C = u.shape.channels /\ C \in {3, 4}
  BY PictureShape
<1>2. PICK Z : Z = Applied(e, src, dst) /\ IsPicture(u, Z) /\ IsPicture(u, src)
  BY AppliedFits, PictureFits
<1>3. u.shape.type = "image"
  BY PictureShape
<1>4. ASSUME NEW x \in 0..(u.shape.width - 1), NEW y \in 0..(u.shape.height - 1),
             NEW c \in 0..(u.shape.channels - 1)
      PROVE  DependsAs(u, src, Z, e, x, y, c)
  <2>1. PICK k : k = (x + w * y) * C + c
    OBVIOUS
  <2>2. k \in 0..(w * h * C - 1) /\ k % C = c
    <3>1. x \in 0..(w - 1) /\ y \in 0..(h - 1) /\ c \in 0..(C - 1)
      BY <1>1
    <3>. QED  BY <2>1, <3>1, SampleIndex
  <2>3. x \in 0..(u.shape.width - 1) /\ y \in 0..(u.shape.height - 1) /\ c \in 0..(u.shape.channels - 1)
    BY <1>1
  <2>4. PICK Q : Q = Promise!OfPicture(e, u.shape, x, y, c)
    OBVIOUS
  <2>5. CASE c = 3 \/ e.name \in {"invert", "ordered_dithering"}
    <3>1. Q = {<<x, y, c>>}
      <4>1. CASE c = 3
        <5>1. e.name # "blur"
          OBVIOUS
        <5>. QED  BY <2>4, <4>1, <5>1 DEF Promise!OfPicture
      <4>2. CASE c # 3 /\ e.name \in {"invert", "ordered_dithering"}
        BY <2>4, <4>2 DEF Promise!OfPicture
      <4>. QED  BY <2>5, <4>1, <4>2
    <3>2. SampleAt(u, Z, x, y, c) = SampleAt(u, src, x, y, c)
      <4>1. CASE e.name \in {"invert", "ordered_dithering"}
        <5>0. PICK colour : colour = src.data
          OBVIOUS
        <5>1. Z = PerPixel(src, dst, colour)
          <6>1. CASE e.name = "invert"
            BY <1>2, <5>0, <6>1 DEF Applied, Invert
          <6>2. CASE e.name = "ordered_dithering"
            BY <1>2, <5>0, <6>2 DEF Applied, OrderedDithering
          <6>. QED  BY <4>1, <6>1, <6>2
        <5>2. SampleAt(u, Z, x, y, c) =
                IF c = 3 THEN SampleAt(u, src, x, y, c)
                ELSE colour[(x + u.shape.width * y) * u.shape.channels + c]
          BY <2>3, <5>1, PerPixelAt
        <5>. QED  BY <5>0, <5>2 DEF SampleAt
      <4>2. CASE c = 3 /\ e.name \in {"grayscale", "sepia"}
        <5>1. Z = MixColours(src, dst)
          <6>1. CASE e.name = "grayscale"
            BY <1>2, <6>1 DEF Applied, GrayScale
          <6>2. CASE e.name = "sepia"
            BY <1>2, <6>2 DEF Applied, Sepia
          <6>. QED  BY <4>2, <6>1, <6>2
        <5>. QED  BY <2>3, <4>2, <5>1, PerPixelAt DEF MixColours
      <4>. QED  BY <2>5, <4>1, <4>2
    <3>3. <<x, y, c>> \in Spots(u)
      BY <2>3 DEF Spots
    <3>4. {SampleAt(u, src, q[1], q[2], q[3]) : q \in Q} = {SampleAt(u, src, x, y, c)}
      BY <3>1
    <3>. QED  BY <2>4, <3>1, <3>2, <3>3, <3>4 DEF DependsAs
  <2>6. CASE c # 3 /\ e.name \in {"grayscale", "sepia"}
    <3>1. Q = {<<x, y, j>> : j \in 0..2}
      <4>1. CASE e.name = "grayscale"
        BY <2>4, <2>6, <4>1 DEF Promise!OfPicture, Promise!Colours
      <4>2. CASE e.name = "sepia"
        BY <2>4, <2>6, <4>2 DEF Promise!OfPicture, Promise!Colours
      <4>. QED  BY <2>6, <4>1, <4>2
    <3>2. Z = MixColours(src, dst)
      <4>1. CASE e.name = "grayscale"
        BY <1>2, <4>1 DEF Applied, GrayScale
      <4>2. CASE e.name = "sepia"
        BY <1>2, <4>2 DEF Applied, Sepia
      <4>. QED  BY <2>6, <4>1, <4>2
    <3> DEFINE colour == [i \in DOMAIN dst.data |->
                            From(src.data, {i - (i % src.channels) + j : j \in Colours})]
    <3>3. Z = PerPixel(src, dst, colour)
      BY <3>2 DEF MixColours
    <3>4. colour[k] = UNION {src.data[i] : i \in {k - c + j : j \in 0..2}}
      <4>1. k \in DOMAIN dst.data /\ src.channels = C
        BY <1>1, <2>2, PictureFits DEF IsPicture
      <4>2. colour[k] = From(src.data, {k - (k % src.channels) + j : j \in Colours})
        BY <4>1
      <4>3. colour[k] = From(src.data, {k - c + j : j \in 0..2})
        BY <2>2, <4>1, <4>2 DEF Colours
      <4>. QED  BY <4>3 DEF From
    <3> HIDE DEF colour
    <3>5. SampleAt(u, Z, x, y, c) = colour[k]
      BY <1>1, <2>1, <2>3, <2>6, <3>3, PerPixelAt
    <3>6. {src.data[i] : i \in {k - c + j : j \in 0..2}}
            = {SampleAt(u, src, q[1], q[2], q[3]) : q \in Q}
      <4>1. PICK n \in Nat : n = (x + w * y) * C
        BY <1>1, <2>2, <2>1
      <4>2. {k - c + j : j \in 0..2} = {n + j : j \in 0..2}
        BY <2>1, <4>1
      <4>3. \A j \in 0..2 : SampleAt(u, src, x, y, j) = src.data[n + j]
        BY <1>1, <4>1 DEF SampleAt
      <4>4. {SampleAt(u, src, q[1], q[2], q[3]) : q \in Q} = {SampleAt(u, src, x, y, j) : j \in 0..2}
        <5>1. \A q \in Q : \E j \in 0..2 : q = <<x, y, j>> /\ q[1] = x /\ q[2] = y /\ q[3] = j
          BY <3>1
        <5>2. \A j \in 0..2 : <<x, y, j>> \in Q
          BY <3>1
        <5>. QED  BY <5>1, <5>2
      <4>5. {SampleAt(u, src, x, y, j) : j \in 0..2} = {src.data[n + j] : j \in 0..2}
        BY <4>3
      <4>. QED  BY <4>2, <4>4, <4>5
    <3>7. Q \subseteq Spots(u)
      BY <1>1, <2>3, <3>1 DEF Spots
    <3>. QED  BY <2>4, <3>4, <3>5, <3>6, <3>7 DEF DependsAs
  <2>. QED  BY <2>5, <2>6
<1>. QED  BY <1>2, <1>3, <1>4, PictureEffect

\* Every sample of a picture without transparency becomes the mean of its block's.
LEMMA PixelateEffect ==
  ASSUME NEW u \in Uploads, u.type = "image", u.shape.channels = 3,
         NEW src, Fits(u, src), NEW dst, Fits(u, dst),
         NEW e \in EffectsFor(u.type), e.name = "pixelate"
  PROVE  MediumOf(u, Applied(e, src, dst)) = Promise!Effect(e, MediumOf(u, src))
<1>1. PICK w \in Nat \ {0}, h \in Nat \ {0} :
        w = u.shape.width /\ h = u.shape.height /\ u.shape.type = "image"
  BY PictureShape
<1>2. PICK Z : Z = Applied(e, src, dst) /\ IsPicture(u, Z) /\ IsPicture(u, src)
  BY AppliedFits, PictureFits
<1>3. PICK size \in Nat \ {0} : size = e.number
  BY DEF EffectsFor, Effects
<1>4. ASSUME NEW x \in 0..(u.shape.width - 1), NEW y \in 0..(u.shape.height - 1),
             NEW c \in 0..(u.shape.channels - 1)
      PROVE  DependsAs(u, src, Z, e, x, y, c)
  <2>1. x \in 0..(w - 1) /\ y \in 0..(h - 1) /\ c \in 0..2
    BY <1>1
  <2>2. PICK k, here : k = (x + w * y) * 3 + c /\ here = Block(src, size, x \div size, y \div size)
    OBVIOUS
  <2>3. \A a \in 0..(w - 1), b \in 0..(h - 1), j \in 0..2 :
          /\ (a + w * b) * 3 + j \in 0..(w * h * 3 - 1)
          /\ (a + w * b) * 3 + j = k => a = x /\ b = y /\ j = c
    <3> SUFFICES ASSUME NEW a \in 0..(w - 1), NEW b \in 0..(h - 1), NEW j \in 0..2
                 PROVE  /\ (a + w * b) * 3 + j \in 0..(w * h * 3 - 1)
                        /\ (a + w * b) * 3 + j = k => a = x /\ b = y /\ j = c
      OBVIOUS
    <3>1. /\ (a + w * b) % w = a /\ (a + w * b) \div w = b
          /\ (a + w * b) * 3 + j \in 0..(w * h * 3 - 1)
          /\ ((a + w * b) * 3 + j) \div 3 = a + w * b /\ ((a + w * b) * 3 + j) % 3 = j
      BY SampleIndex
    <3>2. /\ (x + w * y) % w = x /\ (x + w * y) \div w = y
          /\ ((x + w * y) * 3 + c) \div 3 = x + w * y /\ ((x + w * y) * 3 + c) % 3 = c
      BY <2>1, SampleIndex
    <3>. QED  BY <2>2, <3>1, <3>2
  <2>4. /\ here \in Blocks(src, size)
        /\ \A b \in Blocks(src, size) : b \subseteq (0..(w - 1)) \X (0..(h - 1))
        /\ \A b \in Blocks(src, size) : <<x, y>> \in b => b = here
        /\ \A a \in 0..(w - 1), b \in 0..(h - 1) :
             <<a, b>> \in here <=> a \div size = x \div size /\ b \div size = y \div size
    <3>1. src.width = w /\ src.height = h
      BY <1>1, <1>2 DEF IsPicture
    <3>2. /\ w \in Nat \ {0} /\ h \in Nat \ {0} /\ size \in Nat \ {0}
          /\ here = Block(src, size, x \div size, y \div size)
      BY <2>2
    <3>3. OnlyBlock(src, w, h, size, x, y, here)
      BY ONLY <2>1, <3>1, <3>2, BlockOfPixel
    <3>. QED  BY <3>3 DEF OnlyBlock
  <2> DEFINE Places(block, j) == {PixelAt(src, p[1], p[2]) + j : p \in block}
             Written(i) == {bc \in Blocks(src, size) \X Colours : i \in Places(bc[1], bc[2])}
             d == [i \in DOMAIN dst.data |->
                     IF Written(i) = {} THEN dst.data[i]
                     ELSE UNION {From(src.data, Places(bc[1], bc[2])) : bc \in Written(i)}]
  <2>5. \A a, b : PixelAt(src, a, b) = (a + w * b) * 3
    BY <1>1, <1>2 DEF IsPicture, PixelAt
  <2>6. Written(k) = {<<here, c>>}
    <3>1. k \in Places(here, c)
      <4>1. <<x, y>> \in here
        BY <2>1, <2>4
      <4>2. k = PixelAt(src, x, y) + c
        BY <2>2, <2>5
      <4>. QED  BY <4>1, <4>2
    <3>2. ASSUME NEW b \in Blocks(src, size), NEW j \in 0..2, k \in Places(b, j)
          PROVE  b = here /\ j = c
      <4>1. PICK p \in b : k = PixelAt(src, p[1], p[2]) + j
        BY <3>2
      <4>2. p[1] \in 0..(w - 1) /\ p[2] \in 0..(h - 1) /\ p = <<p[1], p[2]>>
        BY <2>4
      <4>3. p[1] = x /\ p[2] = y /\ j = c
        BY <2>3, <2>5, <4>1, <4>2
      <4>. QED  BY <2>4, <4>2, <4>3
    <3> HIDE DEF Places
    <3>3. \A bc \in Written(k) : bc = <<here, c>>
      BY <3>2 DEF Colours
    <3>4. <<here, c>> \in Written(k)
      BY <2>1, <2>4, <3>1 DEF Colours
    <3> HIDE DEF Written
    <3>. QED  BY <3>3, <3>4
  <2>7. Z.data = d
    <3>1. Z = [dst EXCEPT !.data = d]
      BY <1>2, <1>3 DEF Applied, Pixelate
    <3> HIDE DEF d
    <3>. QED  BY <3>1, DataWritten
  <2>8. k \in DOMAIN dst.data
    <3>1. DOMAIN dst.data = 0..(w * h * 3 - 1)
      BY <1>1, PictureFits DEF IsPicture
    <3>. QED  BY <2>1, <2>2, <2>3, <3>1
  <2>9. Z.data[k] = From(src.data, Places(here, c))
    <3>1. d[k] = UNION {From(src.data, Places(bc[1], bc[2])) : bc \in {<<here, c>>}}
      <4> HIDE DEF Places, Written
      <4>. QED  BY <2>6, <2>8
    <3> HIDE DEF Places, d
    <3>2. {From(src.data, Places(bc[1], bc[2])) : bc \in {<<here, c>>}} = {From(src.data, Places(here, c))}
      OBVIOUS
    <3>. QED  BY <2>7, <3>1, <3>2
  <2>10. PICK Q : Q = Promise!OfPicture(e, u.shape, x, y, c)
    OBVIOUS
  <2>11. Q = {p \in Spots(u) : /\ p[1] \div size = x \div size
                               /\ p[2] \div size = y \div size /\ p[3] = c}
    <3>1. Promise!Positions(u.shape) = Spots(u)
      BY <1>1 DEF Promise!Positions, Spots
    <3>2. c # 3
      BY <2>1
    <3>. QED  BY <1>3, <2>10, <3>1, <3>2 DEF Promise!OfPicture
  <2>12. {SampleAt(u, src, q[1], q[2], q[3]) : q \in Q} = {src.data[i] : i \in Places(here, c)}
    <3>1. ASSUME NEW q \in Q
          PROVE  \E i \in Places(here, c) : SampleAt(u, src, q[1], q[2], q[3]) = src.data[i]
      <4>1. /\ q[1] \in 0..(w - 1) /\ q[2] \in 0..(h - 1) /\ q[3] = c
            /\ q[1] \div size = x \div size /\ q[2] \div size = y \div size
        BY <1>1, <2>11 DEF Spots
      <4>2. <<q[1], q[2]>> \in here
        BY <2>4, <4>1
      <4>3. SampleAt(u, src, q[1], q[2], q[3]) = src.data[PixelAt(src, q[1], q[2]) + c]
        BY <1>1, <2>5, <4>1 DEF SampleAt
      <4>. QED  BY <4>2, <4>3
    <3>2. ASSUME NEW i \in Places(here, c)
          PROVE  \E q \in Q : SampleAt(u, src, q[1], q[2], q[3]) = src.data[i]
      <4>1. PICK p \in here : i = PixelAt(src, p[1], p[2]) + c
        BY <3>2
      <4>2. p[1] \in 0..(w - 1) /\ p[2] \in 0..(h - 1) /\ p = <<p[1], p[2]>>
        BY <2>4
      <4>3. p[1] \div size = x \div size /\ p[2] \div size = y \div size
        BY <2>4, <4>2
      <4>4. <<p[1], p[2], c>> \in Q
        BY <1>1, <2>11, <4>2, <4>3 DEF Spots
      <4>5. SampleAt(u, src, p[1], p[2], c) = src.data[i]
        BY <1>1, <2>5, <4>1 DEF SampleAt
      <4>. QED  BY <4>4, <4>5
    <3> HIDE DEF Places
    <3>. QED  BY <3>1, <3>2
  <2>13. SampleAt(u, Z, x, y, c) = Z.data[k]
    BY <1>1, <2>2 DEF SampleAt
  <2>14. SampleAt(u, Z, x, y, c) = UNION {SampleAt(u, src, q[1], q[2], q[3]) : q \in Q}
    <3> HIDE DEF Places
    <3>. QED  BY <2>9, <2>12, <2>13 DEF From
  <2>15. Q \subseteq Spots(u)
    BY <2>11
  <2>. QED  BY <2>10, <2>14, <2>15 DEF DependsAs
<1>. QED  BY <1>1, <1>2, <1>4, PictureEffect

\* Clamping a window at the edges leaves the window's part inside.
LEMMA Clamped ==
  ASSUME NEW extent \in Nat \ {0}, NEW x \in 0..(extent - 1), NEW r \in Nat, NEW k \in (-r)..r
  PROVE  Clamp(x + k, 0, extent - 1) \in (0..(extent - 1)) \cap ((x - r)..(x + r))
BY DEF Clamp, AtMost

Reaches(extent, x, r, a) == \E k \in (-r)..r : Clamp(x + k, 0, extent - 1) = a

LEMMA ClampReaches ==
  ASSUME NEW extent \in Nat \ {0}, NEW x \in 0..(extent - 1), NEW r \in Nat,
         NEW a \in (0..(extent - 1)) \cap ((x - r)..(x + r))
  PROVE  Reaches(extent, x, r, a)
<1>1. a - x \in (-r)..r /\ x + (a - x) = a
  OBVIOUS
<1>2. Clamp(a, 0, extent - 1) = a
  BY DEF Clamp, AtMost
<1>. QED  BY <1>1, <1>2 DEF Reaches

\* The two passes, along the rows and along the columns, make of each sample the mean of a
\* square of them, as far as it is in the picture.
LEMMA BlurEffect ==
  ASSUME NEW u \in Uploads, u.type = "image", NEW src, Fits(u, src), NEW dst, Fits(u, dst),
         NEW e \in EffectsFor(u.type), e.name = "blur"
  PROVE  MediumOf(u, Applied(e, src, dst)) = Promise!Effect(e, MediumOf(u, src))
<1>1. PICK w \in Nat \ {0}, h \in Nat \ {0}, C \in Nat \ {0} :
        w = u.shape.width /\ h = u.shape.height /\ C = u.shape.channels
  BY PictureShape
<1>2. PICK Z : Z = Applied(e, src, dst) /\ IsPicture(u, Z) /\ IsPicture(u, src)
  BY AppliedFits, PictureFits
<1>3. PICK r \in Nat : r = e.number
  BY DEF EffectsFor, Effects
<1>4. u.shape.type = "image"
  BY PictureShape
<1>5. /\ src.width = w /\ src.height = h /\ src.channels = C
      /\ DOMAIN src.data = 0..(w * h * C - 1) /\ DOMAIN dst.data = 0..(w * h * C - 1)
  BY <1>1, PictureFits DEF IsPicture
<1>6. w \in Nat \ {0} /\ h \in Nat \ {0} /\ r \in Nat
  OBVIOUS
<1>7. ASSUME NEW x \in 0..(u.shape.width - 1), NEW y \in 0..(u.shape.height - 1),
             NEW c \in 0..(u.shape.channels - 1)
      PROVE  DependsAs(u, src, Z, e, x, y, c)
  <2>1. x \in 0..(w - 1) /\ y \in 0..(h - 1) /\ c \in 0..(C - 1)
    BY <1>1
  <2> DEFINE Col(i) == (i \div C) % w
             Row(i) == (i \div C) \div w
             I(a, b) == (a + w * b) * C + c
             window == (-r)..r
             temp == [i \in 0..(w * h * C - 1) |-> From(src.data,
                        {(Row(i) * w + Clamp(Col(i) + k, 0, w - 1)) * C + (i % C) : k \in window})]
             d == [i \in 0..(w * h * C - 1) |-> From(temp,
                     {(Clamp(Row(i) + k, 0, h - 1) * w + Col(i)) * C + (i % C) : k \in window})]
  <2>2. \A a \in 0..(w - 1), b \in 0..(h - 1) :
          /\ I(a, b) \in 0..(w * h * C - 1) /\ Col(I(a, b)) = a /\ Row(I(a, b)) = b
          /\ I(a, b) % C = c
    <3> SUFFICES ASSUME NEW a \in 0..(w - 1), NEW b \in 0..(h - 1)
                 PROVE  /\ I(a, b) \in 0..(w * h * C - 1) /\ Col(I(a, b)) = a /\ Row(I(a, b)) = b
                        /\ I(a, b) % C = c
      OBVIOUS
    <3>1. /\ (a + w * b) % w = a /\ (a + w * b) \div w = b
          /\ (a + w * b) * C + c \in 0..(w * h * C - 1)
          /\ ((a + w * b) * C + c) \div C = a + w * b /\ ((a + w * b) * C + c) % C = c
      BY <2>1, SampleIndex
    <3>. QED  BY <3>1
  <2>3. \A a \in 0..(w - 1), b \in 0..(h - 1) : (b * w + a) * C + c = I(a, b)
    OBVIOUS
  <2>4. /\ \A k \in window : Clamp(x + k, 0, w - 1) \in 0..(w - 1)
        /\ \A k \in window : Clamp(y + k, 0, h - 1) \in 0..(h - 1)
    BY <2>1, Clamped
  <2>5. Z.data = d
    <3>1. Z = GaussianBlur(src, dst, r)
      BY <1>2, <1>3 DEF Applied
    <3>2. Z = [dst EXCEPT !.data = d]
      BY <1>5, <3>1 DEF GaussianBlur
    <3> HIDE DEF d
    <3>. QED  BY <3>2, DataWritten
  <2>6. ASSUME NEW b \in 0..(h - 1)
        PROVE  temp[I(x, b)] = UNION {src.data[I(Clamp(x + k, 0, w - 1), b)] : k \in window}
    <3>1. temp[I(x, b)] = From(src.data, {(b * w + Clamp(x + k, 0, w - 1)) * C + c : k \in window})
      <4>1. PICK i \in 0..(w * h * C - 1) : i = I(x, b) /\ Col(i) = x /\ Row(i) = b /\ i % C = c
        <5> HIDE DEF temp, Row, Col, I
        <5>. QED  BY <2>1, <2>2, <2>6
      <4>2. temp[i] = From(src.data,
              {(Row(i) * w + Clamp(Col(i) + k, 0, w - 1)) * C + (i % C) : k \in window})
        OBVIOUS
      <4> HIDE DEF temp, Row, Col, I, window
      <4>. QED  BY <4>1, <4>2
    <3>2. \A k \in window : (b * w + Clamp(x + k, 0, w - 1)) * C + c = I(Clamp(x + k, 0, w - 1), b)
      <4> HIDE DEF I, window
      <4>. QED  BY <2>3, <2>4
    <3> HIDE DEF temp, I, window
    <3>. QED  BY <3>1, <3>2 DEF From
  <2>7. Z.data[I(x, y)] = UNION {temp[I(x, Clamp(y + k, 0, h - 1))] : k \in window}
    <3>1. d[I(x, y)] = From(temp, {(Clamp(y + k, 0, h - 1) * w + x) * C + c : k \in window})
      <4>1. PICK i \in 0..(w * h * C - 1) : i = I(x, y) /\ Col(i) = x /\ Row(i) = y /\ i % C = c
        BY <2>1, <2>2
      <4> HIDE DEF temp
      <4>2. d[i] = From(temp,
              {(Clamp(Row(i) + k, 0, h - 1) * w + Col(i)) * C + (i % C) : k \in window})
        OBVIOUS
      <4> HIDE DEF d, Row, Col, I, window
      <4>. QED  BY <4>1, <4>2
    <3>2. \A k \in window : (Clamp(y + k, 0, h - 1) * w + x) * C + c = I(x, Clamp(y + k, 0, h - 1))
      <4> HIDE DEF I, window
      <4>. QED  BY <2>1, <2>3, <2>4
    <3> HIDE DEF temp, I, window, d
    <3>. QED  BY <2>5, <3>1, <3>2 DEF From
  <2>8. PICK Q : Q = Promise!OfPicture(e, u.shape, x, y, c)
    OBVIOUS
  <2>9. Q = {p \in Spots(u) : p[1] \in (x - r)..(x + r) /\ p[2] \in (y - r)..(y + r) /\ p[3] = c}
    <3>1. Promise!Positions(u.shape) = Spots(u)
      BY <1>4 DEF Promise!Positions, Spots
    <3>. QED  BY <1>3, <2>8, <3>1 DEF Promise!OfPicture
  <2>10. \A a, b : SampleAt(u, src, a, b, c) = src.data[I(a, b)]
    BY <1>1 DEF SampleAt
  <2>11. SampleAt(u, Z, x, y, c) = Z.data[I(x, y)]
    BY <1>1 DEF SampleAt
  <2>12. ASSUME NEW k \in window, NEW l \in window
         PROVE  <<Clamp(x + k, 0, w - 1), Clamp(y + l, 0, h - 1), c>> \in Q
    <3>1. /\ Clamp(x + k, 0, w - 1) \in (0..(w - 1)) \cap ((x - r)..(x + r))
          /\ Clamp(y + l, 0, h - 1) \in (0..(h - 1)) \cap ((y - r)..(y + r))
      BY <2>1, Clamped
    <3>. QED  BY <1>1, <2>1, <2>9, <3>1 DEF Spots
  <2>13. ASSUME NEW q \in Q
         PROVE  \E k \in window, l \in window :
                  q[1] = Clamp(x + k, 0, w - 1) /\ q[2] = Clamp(y + l, 0, h - 1) /\ q[3] = c
    <3>1. /\ q[1] \in (0..(w - 1)) \cap ((x - r)..(x + r))
          /\ q[2] \in (0..(h - 1)) \cap ((y - r)..(y + r)) /\ q[3] = c
      BY <1>1, <2>9 DEF Spots
    <3>2. PICK a, b : a = q[1] /\ b = q[2]
      OBVIOUS
    <3>3. \E k \in window : Clamp(x + k, 0, w - 1) = a
      <4>1. a \in (0..(w - 1)) \cap ((x - r)..(x + r))
        BY <3>1, <3>2
      <4>2. Reaches(w, x, r, a)
        BY ONLY <1>6, <2>1, <4>1, ClampReaches
      <4>. QED  BY <4>2 DEF Reaches
    <3>4. \E l \in window : Clamp(y + l, 0, h - 1) = b
      <4>1. b \in (0..(h - 1)) \cap ((y - r)..(y + r))
        BY <3>1, <3>2
      <4>2. Reaches(h, y, r, b)
        BY ONLY <1>6, <2>1, <4>1, ClampReaches
      <4>. QED  BY <4>2 DEF Reaches
    <3>. QED  BY <3>1, <3>2, <3>3, <3>4
  <2>14. SampleAt(u, Z, x, y, c) = UNION {SampleAt(u, src, q[1], q[2], q[3]) : q \in Q}
    <3> HIDE DEF temp, I, window, d
    <3>1. ASSUME NEW v, v \in SampleAt(u, Z, x, y, c)
          PROVE  \E q \in Q : v \in SampleAt(u, src, q[1], q[2], q[3])
      <4>1. PICK l \in window : v \in temp[I(x, Clamp(y + l, 0, h - 1))]
        BY <2>7, <2>11, <3>1
      <4>2. PICK k \in window : v \in src.data[I(Clamp(x + k, 0, w - 1), Clamp(y + l, 0, h - 1))]
        BY <2>4, <2>6, <4>1
      <4>. QED  BY <2>10, <2>12, <4>2
    <3>2. ASSUME NEW q \in Q, NEW v, v \in SampleAt(u, src, q[1], q[2], q[3])
          PROVE  v \in SampleAt(u, Z, x, y, c)
      <4>1. PICK k \in window, l \in window :
              q[1] = Clamp(x + k, 0, w - 1) /\ q[2] = Clamp(y + l, 0, h - 1) /\ q[3] = c
        BY <2>13
      <4>2. v \in src.data[I(Clamp(x + k, 0, w - 1), Clamp(y + l, 0, h - 1))]
        BY <2>10, <3>2, <4>1
      <4>3. v \in temp[I(x, Clamp(y + l, 0, h - 1))]
        BY <2>4, <2>6, <4>2
      <4>. QED  BY <2>7, <2>11, <4>3
    <3>. QED  BY <3>1, <3>2
  <2>15. Q \subseteq Spots(u)
    BY <2>9
  <2>. QED  BY <2>8, <2>14, <2>15 DEF DependsAs
<1>. QED  BY <1>2, <1>4, <1>7, PictureEffect

-----------------------------------------------------------------------------
(***************************************************************************)
(* The error diffusion, which works on one buffer from pixel to pixel, and *)
(* the pixels whose error reaches one.  Both are recursions.               *)
(***************************************************************************)
\* The buffer after 0 to m pixels.
After(g, src, kernel, m) ==
  g = [n \in 0..m |-> IF n = 0 THEN src.data ELSE PassedOn(src, kernel, g[n - 1], n - 1)]

LEMMA AfterExists ==
  ASSUME NEW src, NEW kernel, NEW N \in Nat
  PROVE  \E g : After(g, src, kernel, N)
<1> DEFINE G == {m \in Nat : \E g : After(g, src, kernel, m)}
<1>1. 0 \in G
  <2> PICK g : g = [n \in 0..0 |-> src.data]
    OBVIOUS
  <2>1. g = [n \in 0..0 |-> IF n = 0 THEN src.data ELSE PassedOn(src, kernel, g[n - 1], n - 1)]
    OBVIOUS
  <2>. QED  BY <2>1 DEF After
<1>2. ASSUME NEW m \in 0..(N - 1), m \in G PROVE m + 1 \in G
  <2>1. PICK g : After(g, src, kernel, m)
    BY <1>2
  <2>2. \A n \in 0..m : g[n] = IF n = 0 THEN src.data ELSE PassedOn(src, kernel, g[n - 1], n - 1)
    BY <2>1 DEF After
  <2> DEFINE h == [n \in 0..(m + 1) |-> IF n = 0 THEN src.data ELSE PassedOn(src, kernel, g[n - 1], n - 1)]
  <2>3. \A n \in 0..m : h[n] = g[n]
    <3>1. \A n \in 0..m : n \in 0..(m + 1)
      OBVIOUS
    <3>. QED  BY <2>2, <3>1
  <2>4. \A n \in 0..(m + 1) : n # 0 => h[n - 1] = g[n - 1]
    <3>1. \A n \in 0..(m + 1) : n # 0 => n - 1 \in 0..m
      OBVIOUS
    <3> HIDE DEF h
    <3>. QED  BY <2>3, <3>1
  <2>5. h = [n \in 0..(m + 1) |-> IF n = 0 THEN src.data ELSE PassedOn(src, kernel, h[n - 1], n - 1)]
    <3>1. \A n \in 0..(m + 1) :
            (IF n = 0 THEN src.data ELSE PassedOn(src, kernel, g[n - 1], n - 1))
              = (IF n = 0 THEN src.data ELSE PassedOn(src, kernel, h[n - 1], n - 1))
      BY <2>4
    <3>. QED  BY <3>1
  <2> HIDE DEF h
  <2>6. After(h, src, kernel, m + 1)
    BY <2>5 DEF After
  <2>. QED  BY <2>6
<1>3. \A m \in 0..N : m \in G
  <2> HIDE DEF G
  <2>. QED  BY <1>1, <1>2, UpTo
<1>. QED  BY <1>3

LEMMA DiffusedIs ==
  ASSUME NEW src, NEW kernel, NEW N \in Nat, N = src.width * src.height
  PROVE  After(Diffused(src, kernel), src, kernel, N)
<1> DEFINE g == CHOOSE g : After(g, src, kernel, N)
<1>1. After(g, src, kernel, N)
  BY AfterExists
<1>2. Diffused(src, kernel) = g
  BY DEF Diffused, After
<1>. QED  BY <1>1, <1>2

\* Whether the error of pixel q goes to pixel n.
Sends(pic, kernel, q, n) ==
  LET Place(i) == <<i \div pic.width, i % pic.width>>
  IN  Place(n) \in Promise!Targets(pic, kernel, Place(q)[1], Place(q)[2])

\* The pixels whose error reaches each of the first m.
Reached(g, pic, kernel, m) ==
  g = [n \in 0..(m - 1) |->
         {n} \cup UNION {g[q] : q \in {q \in 0..(n - 1) : Sends(pic, kernel, q, n)}}]

LEMMA ReachedExists ==
  ASSUME NEW pic, NEW kernel, NEW N \in Nat
  PROVE  \E g : Reached(g, pic, kernel, N)
<1> DEFINE G == {m \in Nat : \E g : Reached(g, pic, kernel, m)}
           Sources(n) == {q \in 0..(n - 1) : Sends(pic, kernel, q, n)}
<1>1. 0 \in G
  <2> PICK g : g = [n \in {} |-> {}]
    OBVIOUS
  <2>1. 0..(0 - 1) = {}
    OBVIOUS
  <2>2. g = [n \in 0..(0 - 1) |->
         {n} \cup UNION {g[q] : q \in {q \in 0..(n - 1) : Sends(pic, kernel, q, n)}}]
    BY <2>1
  <2>. QED  BY <2>2 DEF Reached
<1>2. ASSUME NEW m \in 0..(N - 1), m \in G PROVE m + 1 \in G
  <2>1. PICK g : Reached(g, pic, kernel, m)
    BY <1>2
  <2>2. \A n \in 0..(m - 1) : g[n] = {n} \cup UNION {g[q] : q \in Sources(n)}
    BY <2>1 DEF Reached
  <2> DEFINE h == [n \in 0..m |-> {n} \cup UNION {g[q] : q \in Sources(n)}]
  <2>3. \A n \in 0..(m - 1) : h[n] = g[n]
    <3>1. \A n \in 0..(m - 1) : n \in 0..m
      OBVIOUS
    <3>. QED  BY <2>2, <3>1
  <2>4. \A n \in 0..m : \A q \in Sources(n) : h[q] = g[q]
    <3>1. \A n \in 0..m : \A q \in Sources(n) : q \in 0..(m - 1)
      OBVIOUS
    <3> HIDE DEF h
    <3>. QED  BY <2>3, <3>1
  <2>5. \A n \in 0..m : {g[q] : q \in Sources(n)} = {h[q] : q \in Sources(n)}
    <3> HIDE DEF h, Sources
    <3>. QED  BY <2>4
  <2>6. h = [n \in 0..m |-> {n} \cup UNION {h[q] : q \in Sources(n)}]
    <3> HIDE DEF Sources
    <3>1. \A n \in 0..m : {n} \cup UNION {g[q] : q \in Sources(n)} = {n} \cup UNION {h[q] : q \in Sources(n)}
      BY <2>5
    <3>. QED  BY <3>1
  <2> HIDE DEF h
  <2>7. 0..((m + 1) - 1) = 0..m
    OBVIOUS
  <2>8. h = [n \in 0..((m + 1) - 1) |->
         {n} \cup UNION {h[q] : q \in {q \in 0..(n - 1) : Sends(pic, kernel, q, n)}}]
    BY <2>6, <2>7
  <2>9. Reached(h, pic, kernel, m + 1)
    BY <2>8 DEF Reached
  <2>. QED  BY <2>9
<1>3. \A m \in 0..N : m \in G
  <2> HIDE DEF G
  <2>. QED  BY <1>1, <1>2, UpTo
<1>. QED  BY <1>3

LEMMA SameTargets ==
  \A pic, kernel, r, c : Promise!Targets(pic, kernel, r, c) = Targets(pic, kernel, r, c)
<1>1. Promise!Kernels = Kernels
  BY DEF Promise!Kernels, Kernels
<1>. QED  BY <1>1 DEF Promise!Targets, Targets

LEMMA ReachingIs ==
  ASSUME NEW pic, NEW kernel, pic.width * pic.height \in Nat
  PROVE  Reached(Promise!Reaching(pic, kernel), pic, kernel, pic.width * pic.height)
<1> DEFINE g == CHOOSE g : Reached(g, pic, kernel, pic.width * pic.height)
<1>1. Reached(g, pic, kernel, pic.width * pic.height)
  BY ReachedExists
<1>2. Promise!Reaching(pic, kernel) = g
  BY DEF Promise!Reaching, Reached, Sends
<1>. QED  BY <1>1, <1>2

LEMMA SendsIs ==
  ASSUME NEW pic, NEW kernel, NEW q, NEW n
  PROVE  Sends(pic, kernel, q, n)
           <=> <<n \div pic.width, n % pic.width>> \in Targets(pic, kernel, q \div pic.width, q % pic.width)
<1>1. Sends(pic, kernel, q, n)
        <=> <<n \div pic.width, n % pic.width>>
              \in Promise!Targets(pic, kernel, q \div pic.width, q % pic.width)
  BY DEF Sends
<1>. QED  BY <1>1, SameTargets

\* A kernel sends errors to pixels that come later in reading order only.
LEMMA KernelsForward ==
  ASSUME NEW k \in DOMAIN Kernels, NEW d \in DOMAIN Kernels[k].targets
  PROVE  d \in Int \X Int /\ (d[1] > 0 \/ (d[1] = 0 /\ d[2] > 0))
<1>1. DOMAIN Kernels = {"floyd", "atkinson", "jarvis"}
  BY DEF Kernels
<1>2. CASE k = "floyd"
  BY <1>2 DEF Kernels
<1>3. CASE k = "atkinson"
  BY <1>3 DEF Kernels
<1>4. CASE k = "jarvis"
  <2>1. DOMAIN Kernels[k].targets = ({0} \X (1..2)) \cup ((1..2) \X (-2..2))
    BY <1>4 DEF Kernels
  <2>. QED  BY <2>1
<1>. QED  BY <1>1, <1>2, <1>3, <1>4

LEMMA ReadingOrder ==
  ASSUME NEW w \in Nat \ {0}, NEW q \in Nat, NEW p \in Nat,
         \/ q \div w < p \div w
         \/ q \div w = p \div w /\ q % w < p % w
  PROVE  q < p
<1> PICK r \in Nat, s \in Nat, c \in 0..(w - 1), b \in 0..(w - 1) :
      r = q \div w /\ s = p \div w /\ c = q % w /\ b = p % w
  OBVIOUS
<1>1. q = w * r + c /\ p = w * s + b
  OBVIOUS
<1>2. CASE r < s
  <2>1. PICK t \in Nat : s = r + 1 + t
    <3>1. s - r - 1 \in Nat /\ s = r + 1 + (s - r - 1)
      BY <1>2
    <3>. QED  BY <3>1
  <2>2. w * s = w * r + w + w * t /\ w * t \in Nat /\ w * r \in Nat
    BY <2>1
  <2>. QED  BY <1>1, <2>2
<1>3. CASE r = s /\ c < b
  BY <1>1, <1>3
<1>. QED  BY <1>2, <1>3

LEMMA SendsForward ==
  ASSUME NEW pic, pic.width \in Nat \ {0}, NEW kernel \in DOMAIN Kernels, NEW q \in Nat, NEW p \in Nat,
         Sends(pic, kernel, q, p)
  PROVE  q < p
<1>1. PICK w \in Nat \ {0} : w = pic.width
  OBVIOUS
<1>2. PICK d \in DOMAIN Kernels[kernel].targets :
        <<p \div w, p % w>> = <<(q \div w) + d[1], (q % w) + d[2]>>
  BY <1>1, SendsIs DEF Targets
<1>3. PICK x \in Int, y \in Int : d = <<x, y>> /\ (x > 0 \/ (x = 0 /\ y > 0))
  <2>1. d \in Int \X Int /\ (d[1] > 0 \/ (d[1] = 0 /\ d[2] > 0))
    BY KernelsForward
  <2>. QED  BY <2>1
<1>4. p \div w = (q \div w) + x /\ p % w = (q % w) + y
  BY <1>2, <1>3
<1>5. (q \div w) \in Nat /\ (q % w) \in Nat
  OBVIOUS
<1>6. q \div w < p \div w \/ (q \div w = p \div w /\ q % w < p % w)
  BY <1>3, <1>4, <1>5
<1>. QED  BY <1>6, ReadingOrder

\* The pixels that have sent something to p, directly or through others, when the first n
\* have been handled.
Sent(g, pic, kernel, n, p) ==
  {p} \cup UNION {g[q] : q \in {q \in 0..(n - 1) : Sends(pic, kernel, q, p)}}

\* The end of what is sent to a pixel: when its turn comes, and no more after that.
LEMMA SentAll ==
  ASSUME NEW pic, pic.width \in Nat \ {0}, NEW kernel \in DOMAIN Kernels, NEW N \in Nat,
         NEW g, Reached(g, pic, kernel, N), NEW p \in 0..(N - 1)
  PROVE  /\ g[p] = Sent(g, pic, kernel, p, p)
         /\ g[p] = Sent(g, pic, kernel, N, p)
<1>1. g[p] = Sent(g, pic, kernel, p, p)
  BY DEF Reached, Sent
<1>2. {q \in 0..(N - 1) : Sends(pic, kernel, q, p)} = {q \in 0..(p - 1) : Sends(pic, kernel, q, p)}
  <2>1. \A q \in 0..(N - 1) : Sends(pic, kernel, q, p) => q \in 0..(p - 1)
    <3> SUFFICES ASSUME NEW q \in 0..(N - 1), Sends(pic, kernel, q, p) PROVE q \in 0..(p - 1)
      OBVIOUS
    <3>1. q < p
      BY SendsForward
    <3>. QED  BY <3>1
  <2>2. \A q \in 0..(p - 1) : q \in 0..(N - 1)
    OBVIOUS
  <2>. QED  BY <2>1, <2>2
<1>. QED  BY <1>1, <1>2 DEF Sent

LEMMA SentNext ==
  ASSUME NEW pic, NEW kernel, NEW g, NEW n \in Nat, NEW p
  PROVE  /\ Sends(pic, kernel, n, p) =>
              Sent(g, pic, kernel, n + 1, p) = Sent(g, pic, kernel, n, p) \cup g[n]
         /\ ~Sends(pic, kernel, n, p) => Sent(g, pic, kernel, n + 1, p) = Sent(g, pic, kernel, n, p)
<1>1. \A q : q \in 0..((n + 1) - 1) <=> q \in 0..(n - 1) \/ q = n
  OBVIOUS
<1>. QED  BY <1>1 DEF Sent

\* Only pixels of the picture reach one.
LEMMA ReachedIn ==
  ASSUME NEW pic, NEW kernel, NEW N \in Nat, NEW g, Reached(g, pic, kernel, N)
  PROVE  \A n \in 0..(N - 1) : g[n] \subseteq 0..(N - 1)
<1> DEFINE Bad == {n \in Nat : n < N /\ ~(g[n] \subseteq 0..(N - 1))}
<1>1. Bad = {}
  <2> SUFFICES ASSUME Bad # {} PROVE FALSE
    OBVIOUS
  <2>1. PICK m \in Bad : \A n \in Bad : m <= n
    BY LeastOf
  <2>2. m \in 0..(N - 1) /\ \A q \in 0..(m - 1) : g[q] \subseteq 0..(N - 1)
    <3> SUFFICES ASSUME NEW q \in 0..(m - 1) PROVE g[q] \subseteq 0..(N - 1)
      OBVIOUS
    <3>1. q \in Nat /\ q < N /\ ~(m <= q)
      OBVIOUS
    <3>. QED  BY <2>1, <3>1
  <2>3. g[m] = {m} \cup UNION {g[q] : q \in {q \in 0..(m - 1) : Sends(pic, kernel, q, m)}}
    BY <2>2 DEF Reached
  <2>4. g[m] \subseteq 0..(N - 1)
    BY <2>2, <2>3
  <2>. QED  BY <2>4
<1>. QED  BY <1>1

\* A buffer of N pixels and C channels of which the first n have passed on their errors.
Holds(b, src, g, pic, kernel, N, C, n) ==
  /\ DOMAIN b = DOMAIN src.data
  /\ \A p \in 0..(N - 1) : \A c \in Colours :
       b[p * C + c] = UNION {src.data[q * C + c] : q \in Sent(g, pic, kernel, n, p)}

LEMMA HoldsFirst ==
  ASSUME NEW src, NEW g, NEW pic, NEW kernel, NEW N, NEW C
  PROVE  Holds(src.data, src, g, pic, kernel, N, C, 0)
<1>1. \A p : Sent(g, pic, kernel, 0, p) = {p}
  <2>1. 0..(0 - 1) = {}
    OBVIOUS
  <2>. QED  BY <2>1 DEF Sent
<1>. QED  BY <1>1 DEF Holds

\* A pixel passes its samples on to the pixels it sends to.
LEMMA HoldsNext ==
  ASSUME NEW w \in Nat \ {0}, NEW h \in Nat \ {0}, NEW C \in Nat \ {0}, C \in {3, 4},
         NEW N \in Nat, N = w * h,
         NEW pic, pic.width = w, pic.height = h, pic.channels = C, NEW kernel \in DOMAIN Kernels,
         NEW src, src.width = w, src.height = h, src.channels = C,
         DOMAIN src.data = 0..(N * C - 1),
         NEW g, Reached(g, pic, kernel, N),
         NEW n \in 0..(N - 1), NEW b, Holds(b, src, g, pic, kernel, N, C, n)
  PROVE  Holds(PassedOn(src, kernel, b, n), src, g, pic, kernel, N, C, n + 1)
<1>3. n \in 0..(N - 1) /\ n \in Nat
  OBVIOUS
<1> DEFINE there == Targets(src, kernel, n \div w, n % w)
           reached == {(w * p[1] + p[2]) * C + c : p \in there, c \in Colours}
           after == [i \in DOMAIN b |->
                       IF i \in reached THEN b[i] \cup b[n * C + (i % C)] ELSE b[i]]
<1>4. PassedOn(src, kernel, b, n) = after
  BY DEF PassedOn
<1>5. DOMAIN b = 0..(N * C - 1) /\ DOMAIN b = DOMAIN src.data
  BY DEF Holds
<1>6. there = Targets(pic, kernel, n \div w, n % w)
  BY DEF Targets
<1>7. ASSUME NEW t \in there
      PROVE  \E r \in 0..(h - 1), c \in 0..(w - 1) : t = <<r, c>>
  <2>1. t \in (0..src.height - 1) \X (0..src.width - 1)
    BY <1>7 DEF Targets
  <2>. QED  BY <2>1
<1>8. ASSUME NEW p \in 0..(N - 1), NEW c \in 0..2
      PROVE  p * C + c \in reached <=> Sends(pic, kernel, n, p)
  <2>0. c \in 0..(C - 1) /\ p \in Nat
    OBVIOUS
  <2>1. (p * C + c) \div C = p /\ (p * C + c) % C = c
    BY <2>0, PlaceOf
  <2>2. Sends(pic, kernel, n, p) <=> <<p \div w, p % w>> \in there
    BY <1>6, SendsIs
  <2>3. ASSUME p * C + c \in reached PROVE <<p \div w, p % w>> \in there
    <3> HIDE DEF there
    <3>1. PICK t \in there, j \in 0..2 : p * C + c = (w * t[1] + t[2]) * C + j
      BY <2>3 DEF Colours
    <3>2. PICK r \in 0..(h - 1), k \in 0..(w - 1) : t = <<r, k>>
      BY <1>7
    <3>2a. r \in Nat /\ k \in Nat /\ r * w + k \in Nat
      BY ONLY r \in 0..(h - 1), k \in 0..(w - 1), w \in Nat \ {0}
    <3>3. PICK q \in Nat : q = r * w + k
      BY <3>2a
    <3>4. p * C + c = q * C + j
      <4>1. w * r + k = r * w + k
        BY ONLY <3>2a, w \in Nat \ {0}
      <4>2. t[1] = r /\ t[2] = k
        BY ONLY <3>2
      <4>. QED  BY ONLY <3>1, <3>3, <4>1, <4>2
    <3>5. j \in 0..(C - 1)
      BY ONLY C \in {3, 4}, j \in 0..2
    <3>6. (q * C + j) \div C = q
      BY ONLY <3>5, q \in Nat, C \in Nat \ {0}, PlaceOf
    <3>7. p = q
      BY <2>1, <3>4, <3>6
    <3>8. (r * w + k) \div w = r /\ (r * w + k) % w = k
      BY ONLY <3>2a, k \in 0..(w - 1), w \in Nat \ {0}, PlaceOf
    <3>. QED  BY <3>2, <3>3, <3>7, <3>8
  <2>4. ASSUME <<p \div w, p % w>> \in there PROVE p * C + c \in reached
    <3>1. PICK t \in there : t = <<p \div w, p % w>> /\ t[1] = p \div w /\ t[2] = p % w
      BY <2>4
    <3>2. w * (p \div w) + (p % w) = p
      BY ONLY <2>0, w \in Nat \ {0}
    <3>3. p * C + c = (w * t[1] + t[2]) * C + c
      BY <3>1, <3>2
    <3> HIDE DEF there
    <3>. QED  BY <3>3 DEF Colours
  <2>. QED  BY <2>2, <2>3, <2>4
<1> HIDE DEF reached, there
<1>9. ASSUME NEW p \in 0..(N - 1), NEW c \in 0..2
      PROVE  after[p * C + c] = UNION {src.data[q * C + c] : q \in Sent(g, pic, kernel, n + 1, p)}
  <2>0. c \in 0..(C - 1) /\ p \in Nat
    OBVIOUS
  <2>1. PICK i : i = p * C + c
    OBVIOUS
  <2>2. i \in DOMAIN b /\ i % C = c
    <3>1. p * C + c \in 0..(N * C - 1)
      BY <2>0, PlaceIn
    <3>2. (p * C + c) % C = c
      BY <2>0, PlaceOf
    <3>. QED  BY <1>5, <2>1, <3>1, <3>2
  <2>3. after[i] = IF Sends(pic, kernel, n, p) THEN b[i] \cup b[n * C + c] ELSE b[i]
    <3>1. i \in reached <=> Sends(pic, kernel, n, p)
      BY <1>8, <2>1
    <3>. QED  BY <2>2, <3>1
  <2>4. \A m \in 0..(N - 1) :
          b[m * C + c] = UNION {src.data[q * C + c] : q \in Sent(g, pic, kernel, n, m)}
    BY ONLY c \in 0..2, Holds(b, src, g, pic, kernel, N, C, n) DEF Holds, Colours
  <2>5. Sent(g, pic, kernel, n, n) = g[n]
    BY ONLY <1>3, kernel \in DOMAIN Kernels, pic.width = w, w \in Nat \ {0}, N \in Nat,
            Reached(g, pic, kernel, N), SentAll
  <2>6. b[n * C + c] = UNION {src.data[q * C + c] : q \in g[n]}
    BY <1>3, <2>4, <2>5
  <2>7. b[i] = UNION {src.data[q * C + c] : q \in Sent(g, pic, kernel, n, p)}
    BY <2>1, <2>4
  <2>8. CASE Sends(pic, kernel, n, p)
    <3>1. Sent(g, pic, kernel, n + 1, p) = Sent(g, pic, kernel, n, p) \cup g[n]
      BY ONLY <1>3, <2>8, SentNext
    <3>2. \A U, V : UNION {src.data[q * C + c] : q \in U \cup V}
                      = (UNION {src.data[q * C + c] : q \in U}) \cup UNION {src.data[q * C + c] : q \in V}
      OBVIOUS
    <3> HIDE DEF after
    <3>. QED  BY <2>1, <2>3, <2>6, <2>7, <2>8, <3>1, <3>2
  <2>9. CASE ~Sends(pic, kernel, n, p)
    <3>1. Sent(g, pic, kernel, n + 1, p) = Sent(g, pic, kernel, n, p)
      BY ONLY <1>3, <2>9, SentNext
    <3> HIDE DEF after
    <3>. QED  BY <2>1, <2>3, <2>7, <2>9, <3>1
  <2>. QED  BY <2>8, <2>9
<1>10. DOMAIN after = DOMAIN src.data
  BY <1>5
<1> HIDE DEF after
<1>11. Holds(after, src, g, pic, kernel, N, C, n + 1)
  BY ONLY <1>9, <1>10 DEF Holds, Colours
<1>. QED  BY <1>4, <1>11

\* What the diffusion has made of the buffer in the end.
LEMMA HoldsAll ==
  ASSUME NEW w \in Nat \ {0}, NEW h \in Nat \ {0}, NEW C \in Nat \ {0}, C \in {3, 4},
         NEW N \in Nat, N = w * h,
         NEW pic, pic.width = w, pic.height = h, pic.channels = C, NEW kernel \in DOMAIN Kernels,
         NEW src, src.width = w, src.height = h, src.channels = C,
         DOMAIN src.data = 0..(N * C - 1),
         NEW g, Reached(g, pic, kernel, N)
  PROVE  Holds(Diffused(src, kernel)[N], src, g, pic, kernel, N, C, N)
<1>2. PICK after : after = Diffused(src, kernel)
  OBVIOUS
<1>3. \A n \in 0..N : after[n] = IF n = 0 THEN src.data ELSE PassedOn(src, kernel, after[n - 1], n - 1)
  BY <1>2, DiffusedIs DEF After
<1> DEFINE G == {n \in Nat : Holds(after[n], src, g, pic, kernel, N, C, n)}
<1>4. 0 \in G
  <2>1. after[0] = src.data
    BY <1>3
  <2>. QED  BY <2>1, HoldsFirst
<1>5. ASSUME NEW n \in 0..(N - 1), n \in G PROVE n + 1 \in G
  <2>1. n + 1 \in 0..N /\ n + 1 # 0 /\ (n + 1) - 1 = n
    OBVIOUS
  <2>2. after[n + 1] = PassedOn(src, kernel, after[n], n)
    BY <1>3, <2>1
  <2>3. PICK b : b = after[n] /\ Holds(b, src, g, pic, kernel, N, C, n)
    BY <1>5
  <2>4. Holds(PassedOn(src, kernel, b, n), src, g, pic, kernel, N, C, n + 1)
    BY <2>3, HoldsNext
  <2>. QED  BY <2>2, <2>3, <2>4
<1>6. \A n \in 0..N : n \in G
  <2> HIDE DEF G
  <2>. QED  BY <1>4, <1>5, UpTo
<1>. QED  BY <1>2, <1>6

LEMMA RowIn ==
  ASSUME NEW w \in Nat \ {0}, NEW h \in Nat \ {0}, NEW k \in 0..(w - 1), NEW r \in Nat,
         k + w * r < w * h
  PROVE  r \in 0..(h - 1)
<1> SUFFICES ASSUME h <= r PROVE FALSE
  OBVIOUS
<1>1. PICK t \in Nat : r = h + t
  <2> PICK q : q = r - h
    OBVIOUS
  <2>1. q \in Nat /\ r = h + q
    OBVIOUS
  <2>. QED  BY <2>1
<1>2. w * (h + t) = w * h + w * t /\ w * t \in Nat /\ w * h \in Nat
  OBVIOUS
<1>. QED  BY <1>1, <1>2

\* The error diffusion reaches every pixel that Transform says it does, and no other.
LEMMA DiffusionEffect ==
  ASSUME NEW u \in Uploads, u.type = "image", NEW src, Fits(u, src), NEW dst, Fits(u, dst),
         NEW e \in EffectsFor(u.type), e.name = "error_diffusion"
  PROVE  MediumOf(u, Applied(e, src, dst)) = Promise!Effect(e, MediumOf(u, src))
<1>1. PICK w \in Nat \ {0}, h \in Nat \ {0}, C \in Nat \ {0} :
        w = u.shape.width /\ h = u.shape.height /\ C = u.shape.channels /\ C \in {3, 4}
  BY PictureShape
<1>2. PICK Z : Z = Applied(e, src, dst) /\ IsPicture(u, Z) /\ IsPicture(u, src)
  BY AppliedFits, PictureFits
<1>3. u.shape.type = "image"
  BY PictureShape
<1>4. PICK pic, kernel : pic = u.shape /\ kernel = e.variant /\ kernel \in DOMAIN Kernels
  BY DEF EffectsFor
<1>5. PICK N \in Nat : N = w * h
  OBVIOUS
<1>6. PICK g : g = Promise!Reaching(pic, kernel)
  OBVIOUS
<1>7. Reached(g, pic, kernel, N)
  <2>1. pic.width * pic.height = N
    BY <1>1, <1>4, <1>5
  <2>2. Reached(g, pic, kernel, pic.width * pic.height)
    BY <1>6, <2>1, ReachingIs
  <2>. QED  BY <2>1, <2>2
<1>8. PICK b : b = Diffused(src, kernel)[N]
  OBVIOUS
<1>9. src.width = w /\ src.height = h /\ src.channels = C /\ DOMAIN src.data = 0..(N * C - 1)
  BY <1>1, <1>2, <1>5 DEF IsPicture
<1>10. Holds(b, src, g, pic, kernel, N, C, N)
  BY <1>1, <1>4, <1>5, <1>7, <1>8, <1>9, HoldsAll
<1>11. Z = PerPixel(src, dst, b)
  <2>1. src.width * src.height = N
    BY <1>5, <1>9
  <2>. QED  BY <1>2, <1>4, <1>8, <2>1 DEF Applied, ErrorDiffusion
<1>12. ASSUME NEW x \in 0..(u.shape.width - 1), NEW y \in 0..(u.shape.height - 1),
              NEW c \in 0..(u.shape.channels - 1)
       PROVE  DependsAs(u, src, Z, e, x, y, c)
  <2>1. x \in 0..(w - 1) /\ y \in 0..(h - 1) /\ c \in 0..(C - 1)
    BY <1>1
  <2>2. PICK Q : Q = Promise!OfPicture(e, u.shape, x, y, c)
    OBVIOUS
  <2>3. SampleAt(u, Z, x, y, c) =
          IF c = 3 THEN SampleAt(u, src, x, y, c)
          ELSE b[(x + u.shape.width * y) * u.shape.channels + c]
    BY <1>11, PerPixelAt
  <2>4. CASE c = 3
    <3>1. Q = {<<x, y, c>>}
      <4>1. e.name # "blur"
        OBVIOUS
      <4>. QED  BY <2>2, <2>4, <4>1 DEF Promise!OfPicture
    <3>2. <<x, y, c>> \in Spots(u)
      BY DEF Spots
    <3>3. {SampleAt(u, src, q[1], q[2], q[3]) : q \in Q} = {SampleAt(u, src, x, y, c)}
      BY <3>1
    <3>. QED  BY <2>2, <2>3, <2>4, <3>1, <3>2, <3>3 DEF DependsAs
  <2>5. CASE c # 3
    <3>1. PICK p \in 0..(N - 1) : p = x + w * y /\ p = y * w + x
      <4>1. x + w * y \in 0..(w * h - 1)
        BY <2>1, SampleIndex
      <4>2. x + w * y = y * w + x
        BY <2>1
      <4>. QED  BY <1>5, <4>1, <4>2
    <3>2. PICK R : R = g[p] /\ R = Sent(g, pic, kernel, N, p) /\ R \subseteq 0..(N - 1)
      <4>1. pic.width \in Nat \ {0}
        BY <1>1, <1>4
      <4>2. g[p] = Sent(g, pic, kernel, N, p)
        BY <1>4, <1>7, <4>1, SentAll
      <4>3. g[p] \subseteq 0..(N - 1)
        BY <1>7, ReachedIn
      <4>. QED  BY <4>2, <4>3
    <3>3. Q = {<<n % w, n \div w, c>> : n \in R}
      <4>1. Q = {<<n % pic.width, n \div pic.width, c>> :
                   n \in Promise!Reaching(pic, e.variant)[y * pic.width + x]}
        BY <1>4, <2>2, <2>5 DEF Promise!OfPicture
      <4>2. Promise!Reaching(pic, e.variant)[y * pic.width + x] = R
        BY <1>1, <1>4, <1>6, <3>1, <3>2
      <4>3. pic.width = w
        BY <1>1, <1>4
      <4>. QED  BY ONLY <4>1, <4>2, <4>3
    <3>4. ASSUME NEW n \in R
          PROVE  /\ <<n % w, n \div w, c>> \in Spots(u)
                 /\ SampleAt(u, src, n % w, n \div w, c) = src.data[n * C + c]
      <4>1. n \in 0..(N - 1) /\ n \in Nat
        BY <3>2
      <4>2. PICK r \in Nat, k \in 0..(w - 1) : r = n \div w /\ k = n % w /\ n = k + w * r
        <5>1. /\ n \div w \in Nat /\ n % w \in 0..(w - 1)
              /\ n = (n % w) + w * (n \div w)
          BY ONLY <4>1, w \in Nat \ {0}
        <5>. QED  BY ONLY <5>1
      <4>3. r \in 0..(h - 1)
        BY ONLY <1>5, <4>1, <4>2, r \in Nat, k \in 0..(w - 1), w \in Nat \ {0}, h \in Nat \ {0}, RowIn
      <4>. QED  BY <1>1, <2>1, <4>2, <4>3 DEF Spots, SampleAt
    <3>5. b[p * C + c] = UNION {src.data[q * C + c] : q \in R}
      <4>1. c \in Colours
        BY <1>1, <2>1, <2>5 DEF Colours
      <4>. QED  BY ONLY <1>10, <3>1, <3>2, <4>1, p \in 0..(N - 1) DEF Holds
    <3>6. {SampleAt(u, src, q[1], q[2], q[3]) : q \in Q} = {src.data[n * C + c] : n \in R}
      <4>1. {SampleAt(u, src, q[1], q[2], q[3]) : q \in Q}
              = {SampleAt(u, src, n % w, n \div w, c) : n \in R}
        <5>1. \A q \in Q : \E n \in R : q[1] = n % w /\ q[2] = n \div w /\ q[3] = c
          <6> TAKE q \in Q
          <6>1. PICK n \in R : q = <<n % w, n \div w, c>>
            BY ONLY <3>3, q \in Q
          <6>. QED  BY ONLY <6>1, n \in R
        <5>2. \A n \in R : \E q \in Q : q[1] = n % w /\ q[2] = n \div w /\ q[3] = c
          <6> TAKE n \in R
          <6>1. PICK q \in Q : q = <<n % w, n \div w, c>>
            BY ONLY <3>3, n \in R
          <6>. QED  BY ONLY <6>1, q \in Q
        <5>. QED  BY ONLY <5>1, <5>2
      <4>2. {SampleAt(u, src, n % w, n \div w, c) : n \in R} = {src.data[n * C + c] : n \in R}
        BY <3>4
      <4>. QED  BY ONLY <4>1, <4>2
    <3>7. SampleAt(u, Z, x, y, c) = b[p * C + c]
      BY <1>1, <2>3, <2>5, <3>1
    <3>8. Q \subseteq Spots(u)
      BY <3>3, <3>4
    <3>. QED  BY ONLY <2>2, <3>5, <3>6, <3>7, <3>8 DEF DependsAs
  <2>. QED  BY <2>4, <2>5
<1>. QED  BY <1>2, <1>3, <1>12, PictureEffect

\* What the decoders leave in the first buffer is the uploaded file.
LEMMA PictureDecoded ==
  ASSUME NEW u, u.shape.type = "image", u.shape.width \in Nat \ {0}, u.shape.height \in Nat \ {0},
         u.shape.channels \in Nat \ {0}
  PROVE  MediumOf(u, DecodedImage(u)) = Promise!Original(u)
<1>1. PICK w \in Nat \ {0}, h \in Nat \ {0}, C \in Nat \ {0} :
        w = u.shape.width /\ h = u.shape.height /\ C = u.shape.channels
  OBVIOUS
<1> DEFINE D == DecodedImage(u)
           d == [i \in 0..(w * h * C - 1) |-> {<<(i \div C) % w, (i \div C) \div w, i % C>>}]
<1>2. D = [width |-> w, height |-> h, channels |-> C, data |-> d]
  BY <1>1 DEF DecodedImage
<1>3. DOMAIN d = 0..(w * h * C - 1)
  OBVIOUS
<1>4. ASSUME NEW x \in 0..(w - 1), NEW y \in 0..(h - 1), NEW c \in 0..(C - 1)
      PROVE  SampleAt(u, D, x, y, c) = {<<x, y, c>>}
  <2> HIDE DEF D, d
  <2>0. PICK k : k = (x + w * y) * C + c
    OBVIOUS
  <2>1. /\ k \in 0..(w * h * C - 1) /\ k \div C = x + w * y /\ k % C = c
        /\ (x + w * y) % w = x /\ (x + w * y) \div w = y
    BY <2>0, SampleIndex
  <2> USE DEF d
  <2>2. d[k] = {<<x, y, c>>}
    BY <2>1
  <2>3. SampleAt(u, D, x, y, c) = d[k]
    <3> HIDE DEF d
    <3>. QED  BY <1>1, <1>2, <2>0 DEF SampleAt
  <2>. QED  BY <2>2, <2>3
<1> HIDE DEF d
<1>5. IsPicture(u, D)
  BY <1>1, <1>2, <1>3 DEF IsPicture
<1> HIDE DEF D
<1>6. MediumOf(u, D) = [shape |-> u.shape, at |-> [p \in Spots(u) |-> SampleAt(u, D, p[1], p[2], p[3])]]
  BY <1>5, PictureMedium
<1>7. \A p \in Spots(u) : SampleAt(u, D, p[1], p[2], p[3]) = {p}
  <2> SUFFICES ASSUME NEW p \in Spots(u) PROVE SampleAt(u, D, p[1], p[2], p[3]) = {p}
    OBVIOUS
  <2>1. PICK x \in 0..(w - 1), y \in 0..(h - 1), c \in 0..(C - 1) :
          p = <<x, y, c>> /\ p[1] = x /\ p[2] = y /\ p[3] = c
    BY <1>1 DEF Spots
  <2>. QED  BY <1>4, <2>1
<1>8. Promise!Original(u) = [shape |-> u.shape, at |-> [p \in Spots(u) |-> {p}]]
  BY DEF Promise!Original, Promise!Positions, Spots
<1>. QED  BY <1>6, <1>7, <1>8 DEF D

LEMMA SoundDecoded ==
  ASSUME NEW u, u.shape.type = "audio", u.held \in Nat, u.shape.frames \in Nat,
         u.shape.channels \in Nat \ {0}
  PROVE  MediumOf(u, DecodedAudio(u)) = Promise!Original(u)
<1>1. PICK F \in Nat, C \in Nat \ {0}, h \in Nat :
        F = u.shape.frames /\ C = u.shape.channels /\ h = u.held
  OBVIOUS
<1> DEFINE N == F * C
           d == DecodedData(SoundFile(u), N)
           P == (0..(F - 1)) \X (0..(C - 1))
<1>2. DecodedAudio(u) = [frames |-> F, channels |-> C, data |-> d]
  BY <1>1 DEF DecodedAudio
<1>3. ASSUME NEW f \in 0..(F - 1), NEW c \in 0..(C - 1)
      PROVE  d[f * C + c] = IF f * C + c >= h THEN {} ELSE {<<f, c>>}
  <2>0. PICK k : k = f * C + c
    OBVIOUS
  <2>1. k \in 0..(F * C - 1) /\ k \div C = f /\ k % C = c
    <3>1. f \in Nat
      OBVIOUS
    <3> HIDE DEF d, N, P
    <3>2. k \div C = f /\ k % C = c
      BY <2>0, <3>1, PlaceOf
    <3>. QED  BY <2>0, <3>2, PlaceIn
  <2>2. N \in Nat /\ k \in 0..(N - 1)
    BY <2>1
  <2> HIDE DEF N
  <2>3. DecodedData(SoundFile(u), N)[k] = IF k < u.held THEN {<<k \div C, k % C>>} ELSE {}
    BY <1>1, <2>2, DecodedAt
  <2>4. k \in Int
    BY <2>2
  <2> HIDE DEF d
  <2>5. d[f * C + c] = IF k < h THEN {<<f, c>>} ELSE {}
    BY <1>1, <2>0, <2>1, <2>3 DEF d
  <2>. QED  BY <2>0, <2>4, <2>5
<1> HIDE DEF d
<1>4. MediumOf(u, DecodedAudio(u)) = [shape |-> u.shape, at |-> [p \in P |-> d[p[1] * C + p[2]]]]
  BY <1>2 DEF MediumOf
<1>5. Promise!Original(u) =
        [shape |-> u.shape, at |-> [p \in P |-> IF p[1] * C + p[2] >= h THEN {} ELSE {p}]]
  BY <1>1 DEF Promise!Original, Promise!Positions
<1>6. \A p \in P : d[p[1] * C + p[2]] = IF p[1] * C + p[2] >= h THEN {} ELSE {p}
  <2> SUFFICES ASSUME NEW p \in P
               PROVE  d[p[1] * C + p[2]] = IF p[1] * C + p[2] >= h THEN {} ELSE {p}
    OBVIOUS
  <2>1. PICK f \in 0..(F - 1), c \in 0..(C - 1) : p = <<f, c>> /\ p[1] = f /\ p[2] = c
    OBVIOUS
  <2>. QED  BY <1>3, <2>1
<1>. QED  BY <1>4, <1>5, <1>6

LEMMA DecodedMedium ==
  ASSUME NEW u \in Uploads
  PROVE  MediumOf(u, Decoded(u)) = Promise!Original(u)
<1>1. CASE u.shape \in [type : {"image"}, width : Nat \ {0}, height : Nat \ {0}, channels : {3, 4}]
  <2>1. u.shape.type = "image" /\ u.shape.width \in Nat \ {0} /\ u.shape.height \in Nat \ {0}
        /\ u.shape.channels \in Nat \ {0}
    BY <1>1
  <2>. QED  BY <2>1, PictureDecoded DEF Decoded
<1>2. CASE u.shape \in [type : {"audio"}, frames : Nat, channels : Nat \ {0}]
  <2>1. u.shape.type = "audio" /\ u.shape.frames \in Nat /\ u.shape.channels \in Nat \ {0}
        /\ u.held \in Nat
    BY <1>2, UploadsTyped
  <2>. QED  BY <2>1, SoundDecoded DEF Decoded
<1>. QED  BY <1>1, <1>2, UploadsTyped

\* What a player reads in a file with the first n frames of a sound.
LEMMA FirstFramesIn ==
  ASSUME NEW u, u.shape \in [type : {"audio"}, frames : Nat, channels : Nat \ {0}],
         NEW S, NEW X \in Audios(u.shape.frames, u.shape.channels, S), NEW n \in 0..u.shape.frames
  PROVE  SoundIn(Header \o [i \in 1..(n * u.shape.channels) |-> X.data[i - 1]], u.shape.channels)
           = Promise!FirstFrames(MediumOf(u, X), n)
<1>1. PICK F \in Nat, C \in Nat \ {0} : F = u.shape.frames /\ C = u.shape.channels
  OBVIOUS
<1>2. PICK d \in [0..(F * C - 1) -> S] : X = [frames |-> F, channels |-> C, data |-> d]
  BY <1>1 DEF Audios
<1>3. PICK N \in Nat : N = n * C /\ N <= F * C
  BY <1>1
<1> DEFINE body == [i \in 1..N |-> d[i - 1]]
           file == Header \o body
           shape == [type |-> "audio", frames |-> n, channels |-> C]
           P == (0..(n - 1)) \X (0..(C - 1))
<1>4. /\ Len(file) = HeaderSize + N
      /\ \A i \in 1..N : file[HeaderSize + i] = d[i - 1]
  <2> DEFINE V == S \cup {HeaderUnit}
  <2>1. \A i \in 1..N : i - 1 \in 0..(F * C - 1)
    BY <1>3
  <2>2. body \in Seq(V) /\ Len(body) = N
    BY <2>1
  <2>3. Header \in Seq(V) /\ Len(Header) = HeaderSize
    <3>1. HeaderUnit \in V
      OBVIOUS
    <3> HIDE DEF V
    <3>. QED  BY <3>1, HeaderSizePositive DEF Header
  <2>4. \A i \in 1..N : body[i] = d[i - 1]
    OBVIOUS
  <2> HIDE DEF V, body
  <2>5. /\ file \in Seq(V) /\ Len(file) = Len(Header) + Len(body)
        /\ \A i \in 1..(Len(Header) + Len(body)) :
             file[i] = IF i <= Len(Header) THEN Header[i] ELSE body[i - Len(Header)]
    <3>1. \A a, b \in Seq(V) : /\ a \o b \in Seq(V) /\ Len(a \o b) = Len(a) + Len(b)
                               /\ \A i \in 1..(Len(a) + Len(b)) :
                                    (a \o b)[i] = IF i <= Len(a) THEN a[i] ELSE b[i - Len(a)]
      BY ONLY ConcatProperties
    <3>2. Header \in Seq(V) /\ body \in Seq(V) /\ file = Header \o body
      BY <2>2, <2>3
    <3> HIDE DEF file
    <3>. QED  BY ONLY <3>1, <3>2
  <2>6. \A i \in 1..N : /\ HeaderSize + i \in 1..(HeaderSize + N) /\ ~(HeaderSize + i <= HeaderSize)
                        /\ HeaderSize + i - HeaderSize = i
    BY HeaderSizePositive
  <2> HIDE DEF file
  <2>7. \A i \in 1..N : file[HeaderSize + i] = body[i]
    <3> SUFFICES ASSUME NEW i \in 1..N PROVE file[HeaderSize + i] = body[i]
      OBVIOUS
    <3>1. PICK j : j = HeaderSize + i
      OBVIOUS
    <3>2. j \in 1..(Len(Header) + Len(body)) /\ ~(j <= Len(Header)) /\ j - Len(Header) = i
      BY <2>2, <2>3, <2>6, <3>1
    <3>3. file[j] = body[j - Len(Header)]
      BY <2>5, <3>2
    <3>. QED  BY <3>1, <3>2, <3>3
  <2>. QED  BY <2>2, <2>3, <2>4, <2>5, <2>7
<1> HIDE DEF body, file
<1>5. (Len(file) - HeaderSize) \div C = n
  <2>1. Len(file) - HeaderSize = N
    BY <1>4, HeaderSizePositive
  <2>2. (n * C) \div C = n
    OBVIOUS
  <2>. QED  BY <1>3, <2>1, <2>2
<1>6. SoundIn(file, C) = [shape |-> shape, at |-> [p \in P |-> file[HeaderSize + p[1] * C + p[2] + 1]]]
  BY <1>5 DEF SoundIn
<1>7. Promise!FirstFrames(MediumOf(u, X), n) = [shape |-> shape, at |-> [p \in P |-> MediumOf(u, X).at[p]]]
  <2>1. MediumOf(u, X).shape = u.shape /\ [u.shape EXCEPT !.frames = n] = shape
    BY <1>1 DEF MediumOf
  <2>2. Promise!Positions(shape) = P
    BY DEF Promise!Positions
  <2> HIDE DEF shape, P
  <2>. QED  BY <2>1, <2>2 DEF Promise!FirstFrames
<1>8. ASSUME NEW p \in P
      PROVE  MediumOf(u, X).at[p] = file[HeaderSize + p[1] * C + p[2] + 1]
  <2>1. PICK f \in 0..(n - 1), c \in 0..(C - 1) : p = <<f, c>> /\ p[1] = f /\ p[2] = c
    OBVIOUS
  <2>2. f * C + c \in 0..(n * C - 1)
    BY PlaceIn
  <2>3. PICK k \in 0..(N - 1) : k = f * C + c
    BY <1>3, <2>2
  <2>4. file[HeaderSize + (k + 1)] = d[k]
    <3>1. k + 1 \in 1..N /\ k + 1 - 1 = k
      OBVIOUS
    <3>. QED  BY <1>4, <3>1
  <2>5. HeaderSize + f * C + c + 1 = HeaderSize + (k + 1)
    BY <2>3, HeaderSizePositive
  <2>6. MediumOf(u, X).at[p] = d[k]
    <3>1. MediumOf(u, X).at = [q \in (0..(F - 1)) \X (0..(C - 1)) |-> d[q[1] * C + q[2]]]
      BY <1>1, <1>2 DEF MediumOf
    <3>2. PICK m \in 0..F : m = n
      BY <1>1
    <3>3. f \in 0..(F - 1)
      BY <3>2
    <3>. QED  BY <2>1, <2>3, <3>1, <3>3
  <2>. QED  BY <2>1, <2>4, <2>5, <2>6
<1>9. Header \o [i \in 1..(n * u.shape.channels) |-> X.data[i - 1]] = file
  BY <1>1, <1>2, <1>3 DEF file, body
<1> HIDE DEF P, shape
<1>10. SoundIn(file, C) = Promise!FirstFrames(MediumOf(u, X), n)
  BY <1>6, <1>7, <1>8
<1>. QED  BY <1>1, <1>9, <1>10

\* The requests whose promise is kept: all but Pixelate on a picture with transparency, and
\* the reversal of a sound that has a middle frame where the code does not look for it.
Suited(u, e) ==
  /\ e.name = "pixelate" => u.shape.channels = 3
  /\ e.name = "reverse" => u.shape.frames % 2 = 0 \/ u.shape.channels \in {2, 3}

AllSuited(u) == \A i \in DOMAIN u.chosen : Suited(u, u.chosen[i])

LEMMA EffectMakes ==
  ASSUME NEW u \in Uploads, NEW e \in EffectsFor(u.type), Suited(u, e),
         NEW src, Fits(u, src), NEW dst, Fits(u, dst)
  PROVE  MediumOf(u, Applied(e, src, dst)) = Promise!Effect(e, MediumOf(u, src))
<1>1. u.type \in {"image", "audio"} /\ e.name \in Known[u.type]
  BY KnownTypes DEF EffectsFor
<1>2. CASE u.type = "image"
  <2>1. e.name \in {"grayscale", "sepia", "pixelate", "invert", "blur", "ordered_dithering",
                    "error_diffusion"}
    BY <1>1, <1>2, KnownTypes
  <2>2. CASE e.name \in {"grayscale", "sepia", "invert", "ordered_dithering"}
    BY <1>2, <2>2, PointEffects
  <2>3. CASE e.name = "pixelate"
    <3>1. u.shape.channels = 3
      BY <2>3 DEF Suited
    <3>. QED  BY <1>2, <2>3, <3>1, PixelateEffect
  <2>4. CASE e.name = "blur"
    BY <1>2, <2>4, BlurEffect
  <2>5. CASE e.name = "error_diffusion"
    BY <1>2, <2>5, DiffusionEffect
  <2>. QED  BY <2>1, <2>2, <2>3, <2>4, <2>5
<1>3. CASE u.type = "audio"
  <2>1. PICK F \in Nat, C \in Nat \ {0} : F = u.shape.frames /\ C = u.shape.channels
    BY <1>3, UploadsTyped
  <2>2. src \in Audios(F, C, Marks) /\ dst \in Audios(F, C, Marks)
    BY <1>3, <2>1 DEF Fits
  <2>3. u.shape.type = "audio"
    BY <1>3, UploadsTyped
  <2>4. \/ e.name = "normalize"
        \/ e.name = "reverse" /\ (F % 2 = 0 \/ C \in {2, 3})
    <3>1. e.name \in {"reverse", "normalize"}
      BY <1>1, <1>3, KnownTypes
    <3>2. CASE e.name = "reverse"
      <4>1. u.shape.frames % 2 = 0 \/ u.shape.channels \in {2, 3}
        BY <3>2 DEF Suited
      <4>. QED  BY <2>1, <3>2, <4>1
    <3>3. CASE e.name = "normalize"
      BY <3>3
    <3>. QED  BY ONLY <3>1, <3>2, <3>3
  <2>. QED  BY <2>1, <2>2, <2>3, <2>4, SoundEffects
<1>. QED  BY <1>1, <1>2, <1>3

\* What has been made of the effects: they are suited, as all the chosen ones are.
SuitedInv ==
  /\ TaskInv /\ AllSuited(upload)
  /\ \A i \in DOMAIN effects : Suited(upload, effects[i])

LEMMA SuitedStep ==
  ASSUME SuitedInv, [Next]_vars
  PROVE  SuitedInv'
<1>1. TaskInv'
  BY TaskStep DEF SuitedInv
<1>2. upload' = upload
  BY DEF Next, vars, ThrowAtConstruction, Construct, ThrowAtLoad, LoadImage, LoadAudio, Throw,
         Apply, EncodeImage, EncodeOtherImage, EncoderFails, OpenEncoder, WriteChunk, WriteFails,
         CloseEncoder, Ended
<1>3. AllSuited(upload)'
  BY <1>2 DEF SuitedInv, AllSuited, Suited
<1>4. \A i \in DOMAIN effects' : Suited(upload, effects'[i])
  <2>1. CASE Construct
    <3>1. upload \in Uploads /\ effects' = Constructed(upload) /\ ~ConstructorThrows(upload)
      BY <2>1 DEF SuitedInv, TaskInv, Staged, Construct
    <3>2. CASE upload.type \in DOMAIN Known
      <4>1. effects' = upload.chosen
        BY <3>1, <3>2, PageIsUnderstood DEF TextsUnderstood
      <4>. QED  BY <4>1 DEF SuitedInv, AllSuited
    <3>3. CASE upload.type \notin DOMAIN Known
      <4>1. effects' = << >>
        BY <3>1, <3>3 DEF Constructed
      <4>. QED  BY <4>1
    <3>. QED  BY <3>2, <3>3
  <2>2. CASE Apply
    <3>1. PICK s \in Seq(Effects) : s = effects /\ s # << >> /\ effects' = Tail(s)
      BY <2>2 DEF SuitedInv, TaskInv, Staged, Apply
    <3>2. \A i \in DOMAIN s : Suited(upload, s[i])
      BY <3>1 DEF SuitedInv
    <3>3. \A i \in DOMAIN Tail(s) : i + 1 \in DOMAIN s /\ Tail(s)[i] = s[i + 1]
      BY <3>1
    <3>. QED  BY <3>1, <3>2, <3>3
  <2>3. CASE ~(Construct \/ Apply)
    <3>1. effects' = effects
      BY <2>3 DEF Next, vars, ThrowAtConstruction, ThrowAtLoad, LoadImage, LoadAudio, Throw,
             EncodeImage, EncodeOtherImage, EncoderFails, OpenEncoder, WriteChunk, WriteFails,
             CloseEncoder, Ended
    <3>. QED  BY <3>1 DEF SuitedInv
  <2>. QED  BY <2>1, <2>2, <2>3
<1>5. (\A i \in DOMAIN effects : Suited(upload, effects[i]))'
  BY <1>2, <1>4 DEF Suited
<1>. QED  BY <1>1, <1>3, <1>5 DEF SuitedInv

\* At first the medium is the uploaded file, and every effect is still to come.
LEMMA PromiseInit == Init => Promise!Init
<1> SUFFICES ASSUME Init PROVE Promise!Init
  OBVIOUS
<1>1. upload \in Uploads /\ ~Loaded /\ output = NoAnswer
  BY DEF Init, Loaded
<1>2. MediumNow = Promise!Original(upload)
  BY <1>1, DecodedMedium DEF MediumNow
<1>. QED  BY <1>1, <1>2 DEF Promise!Init, TodoNow, AnswerNow

\* A step that touches neither the first buffer, the effects nor the output is none here.
LEMMA PromiseStutters ==
  ASSUME UNCHANGED <<upload, A, effects, output>>
  PROVE  UNCHANGED <<upload, MediumNow, TodoNow, AnswerNow>>
BY DEF MediumNow, MediumOf, Decoded, DecodedImage, DecodedAudio, DecodedData, SoundFile, TodoNow, AnswerNow, SoundIn, Loaded

LEMMA PromiseBegins ==
  ASSUME SuitedInv, Construct \/ LoadImage \/ LoadAudio
  PROVE  UNCHANGED <<upload, MediumNow, TodoNow, AnswerNow>>
<1>1. UNCHANGED <<upload, output>> /\ upload \in Uploads /\ ~Loaded
  BY DEF SuitedInv, TaskInv, Staged, Loaded, Construct, LoadImage, LoadAudio
<1>2. AnswerNow' = AnswerNow
  BY <1>1 DEF AnswerNow
<1>3. CASE Construct
  <2>1. A' = A /\ ~Loaded'
    BY <1>1, <1>3 DEF Construct, Loaded
  <2>. QED  BY <1>1, <1>2, <2>1 DEF MediumNow, TodoNow
<1>4. CASE LoadImage \/ LoadAudio
  <2>1. A' = Decoded(upload)
    BY <1>1, <1>4, UploadsTyped DEF Decoded, LoadImage, LoadAudio
  <2>2. effects' = effects /\ effects = upload.chosen
    BY <1>4, KnownTypes DEF SuitedInv, TaskInv, EffectsMade, LoadImage, LoadAudio
  <2>3. MediumNow' = MediumNow
    BY <1>1, <2>1 DEF MediumNow
  <2>4. TodoNow' = TodoNow
    BY <1>1, <2>2 DEF TodoNow
  <2>. QED  BY <1>1, <1>2, <2>3, <2>4
<1>. QED  BY <1>3, <1>4

\* An effect and the swap of the buffers are one step of the promise.
LEMMA PromiseApplies ==
  ASSUME SuitedInv, Apply
  PROVE  Promise!ApplyNext
<1>1. /\ pc = "apply" /\ effects # << >> /\ effects' = Tail(effects)
      /\ A' = Applied(Head(effects), A, B) /\ UNCHANGED <<upload, output>>
  BY DEF Apply
<1>2. /\ upload \in Uploads /\ Loaded /\ upload.type \in DOMAIN Known
      /\ Fits(upload, A) /\ Fits(upload, B)
  BY <1>1 DEF SuitedInv, TaskInv, Staged, BuffersFit
<1>3. PICK e \in EffectsFor(upload.type) : e = Head(effects) /\ Suited(upload, e)
  <2>1. PICK s \in Seq(EffectsFor(upload.type)) : s = effects /\ s # << >>
    BY <1>1 DEF SuitedInv, TaskInv, EffectsMade
  <2>2. 1 \in DOMAIN s /\ Head(s) = s[1] /\ s[1] \in EffectsFor(upload.type)
    BY <2>1
  <2>. QED  BY <2>1, <2>2 DEF SuitedInv
<1>4. PICK Z : Z = Applied(e, A, B) /\ Fits(upload, Z) /\ Z # NoBuffer
  BY <1>2, AppliedFits, FitsLoaded
<1>5. MediumOf(upload, Z) = Promise!Effect(e, MediumOf(upload, A))
  BY <1>2, <1>3, <1>4, EffectMakes
<1>6. MediumNow = MediumOf(upload, A) /\ TodoNow = effects
  BY <1>2 DEF MediumNow, TodoNow
<1>7. A' = Z /\ Loaded'
  BY <1>1, <1>3, <1>4 DEF Loaded
<1>8. MediumNow' = MediumOf(upload, Z) /\ TodoNow' = Tail(effects)
  BY <1>1, <1>7 DEF MediumNow, TodoNow
<1>9. AnswerNow' = AnswerNow
  BY <1>1 DEF AnswerNow
<1>. QED  BY <1>1, <1>3, <1>5, <1>6, <1>8, <1>9 DEF Promise!ApplyNext

\* The end of the encoding is the answer, the whole picture or the first frames of the sound;
\* a picture of a format that is not written, and a result that is taken for none, is nothing.
LEMMA PromiseAnswers ==
  ASSUME SuitedInv, EncodeImage \/ EncodeOtherImage \/ CloseEncoder
  PROVE  Promise!Answer \/ UNCHANGED <<upload, MediumNow, TodoNow, AnswerNow>>
<1>1. /\ UNCHANGED <<upload, A, effects>> /\ pc \in {"apply", "encode", "close"}
  BY DEF EncodeImage, EncodeOtherImage, CloseEncoder, EncodingDue
<1>2. /\ upload \in Uploads /\ Loaded /\ output = NoAnswer
  BY <1>1 DEF SuitedInv, TaskInv, Staged, BuffersFit, Ends
<1>3. MediumNow = MediumOf(upload, A) /\ TodoNow = effects /\ AnswerNow = NoAnswer
  BY <1>2 DEF MediumNow, TodoNow, AnswerNow
<1>4. MediumNow' = MediumNow /\ TodoNow' = TodoNow
  BY <1>1, <1>2 DEF MediumNow, TodoNow, Loaded
<1>5. CASE EncodeOtherImage
  <2>1. AnswerNow' = NoAnswer
    BY <1>1, <1>5 DEF EncodeOtherImage, AnswerNow
  <2>. QED  BY <1>1, <1>3, <1>4, <2>1
<1>6. CASE EncodeImage
  <2>1. /\ upload.type = "image" /\ upload.format \in {"jpg", "jpeg", "png"} /\ effects = << >>
        /\ output' = A
    BY <1>6 DEF EncodeImage, EncodingDue
  <2>2. AnswerNow' = NoAnswer \/ AnswerNow' = MediumOf(upload, A)
    BY <1>1, <2>1 DEF AnswerNow
  <2>3. MediumNow.shape.type = "image"
    BY <1>2, <1>3, <2>1, UploadsTyped DEF MediumOf
  <2>. QED  BY <1>1, <1>3, <1>4, <2>1, <2>2, <2>3 DEF Promise!Answer
<1>7. CASE CloseEncoder
  <2>1. /\ upload.type = "audio" /\ output' = ctx'.buffer /\ ctx' = WithHeader(ctx)
        /\ pc \in {"encode", "close"}
    BY <1>7 DEF CloseEncoder, SuitedInv, TaskInv, EncoderRuns
  <2>2. /\ upload.shape \in [type : {"audio"}, frames : Nat, channels : Nat \ {0}]
        /\ upload.shape.type = "audio"
    BY <1>2, <2>1, UploadsTyped
  <2>3. PICK F \in Nat, C \in Nat \ {0} :
          F = upload.shape.frames /\ C = upload.shape.channels /\ EncoderInv(F, C, Marks)
    BY <2>1, <2>2 DEF SuitedInv, TaskInv, EncoderRuns
  <2>4. /\ effects = << >> /\ A \in Audios(F, C, Marks) /\ framesLeft \in 0..F
        /\ ctx.buffer = Header \o Samples((F - framesLeft) * C)
    BY <2>1, <2>3 DEF EncoderInv, Encoded
  <2>5. PICK n \in 0..F : n = F - framesLeft
    BY <2>4
  <2>6. output' = Header \o [i \in 1..(n * C) |-> A.data[i - 1]]
    <3>1. WithHeader(ctx) = [position |-> ctx.position, buffer |-> ctx.buffer]
      BY <2>1, <2>3, FileClosed
    <3>2. output' = ctx.buffer
      BY <2>1, <3>1
    <3>. QED  BY <2>4, <2>5, <3>2 DEF Samples
  <2>7. SoundIn(output', C) = Promise!FirstFrames(MediumOf(upload, A), n)
    BY <2>2, <2>3, <2>4, <2>6, FirstFramesIn
  <2>8. AnswerNow' \in {NoAnswer, Promise!FirstFrames(MediumOf(upload, A), n)}
    BY <1>1, <2>1, <2>3, <2>7 DEF AnswerNow
  <2>9. MediumNow.shape = upload.shape
    BY <1>3, <2>2 DEF MediumOf
  <2>10. CASE AnswerNow' = NoAnswer
    BY <1>1, <1>3, <1>4, <2>10
  <2>11. CASE AnswerNow' = Promise!FirstFrames(MediumNow, n)
    <3>1. \E k \in 0..MediumNow.shape.frames : AnswerNow' = Promise!FirstFrames(MediumNow, k)
      BY <2>3, <2>5, <2>9, <2>11
    <3>2. MediumNow.shape.type # "image"
      BY <2>2, <2>9
    <3>. QED  BY <1>1, <1>3, <1>4, <2>4, <3>1, <3>2 DEF Promise!Answer
  <2>. QED  BY <1>3, <2>8, <2>10, <2>11
<1>. QED  BY <1>5, <1>6, <1>7

LEMMA PromiseStep ==
  ASSUME SuitedInv, [Next]_vars
  PROVE  [Promise!Next]_(Promise!vars)
<1>1. CASE Construct \/ LoadImage \/ LoadAudio
  BY <1>1, PromiseBegins DEF Promise!vars
<1>2. CASE Apply
  BY <1>2, PromiseApplies DEF Promise!Next
<1>3. CASE EncodeImage \/ EncodeOtherImage \/ CloseEncoder
  BY <1>3, PromiseAnswers DEF Promise!Next, Promise!vars
<1>4. CASE \/ ThrowAtConstruction \/ ThrowAtLoad \/ EncoderFails \/ OpenEncoder \/ WriteChunk
           \/ WriteFails \/ Ended \/ UNCHANGED vars
  <2>1. UNCHANGED <<upload, A, effects, output>>
    BY <1>4 DEF ThrowAtConstruction, ThrowAtLoad, EncoderFails, Throw, OpenEncoder, WriteChunk,
                WriteFails, Ended, vars
  <2>. QED  BY <2>1, PromiseStutters DEF Promise!vars
<1>. QED  BY <1>1, <1>2, <1>3, <1>4 DEF Next

\* The two buffers, the indices of every effect, the swaps, and the encoder's chunks and file
\* positions implement the effects applied one after the other to the uploaded medium, for
\* pictures and sounds of every size and every list of effects that is suited (pipeline.cpp,
\* effects, audio_io.cpp).
THEOREM PipelineImplements == Spec /\ AllSuited(upload) => Implements
<1>1. Init /\ AllSuited(upload) => SuitedInv
  <2> SUFFICES ASSUME Init, AllSuited(upload) PROVE SuitedInv
    OBVIOUS
  <2>1. effects = << >>
    BY DEF Init
  <2>. QED  BY <2>1, TaskInit DEF SuitedInv
<1>2. SuitedInv /\ [Next]_vars => SuitedInv'
  BY SuitedStep
<1>3. SuitedInv /\ [Next]_vars => [Promise!Next]_(Promise!vars)
  BY PromiseStep
<1>. QED  BY <1>1, <1>2, <1>3, PromiseInit, PTL DEF Spec, Implements, Promise!Spec
=============================================================================
