---------------------------- MODULE ImageEffects ----------------------------
(***************************************************************************)
(* transform/effects, the image effects: what each writes into its         *)
(* destination, by the indices it uses.                                    *)
(*                                                                         *)
(* An Image is its dimensions and a flat array of samples, interleaved by  *)
(* channel and then by column, indexed from 0.  A sample stands for what   *)
(* it was computed from: the set of the uploaded image's samples, so that  *)
(* {} is a constant.  What is computed with them (weights, thresholds) is  *)
(* left out; Dithering has the arithmetic of the two ditherings.           *)
(* Images have three or four channels: with fewer, the effects use samples *)
(* of the pixels beside, and beyond the end.                               *)
(***************************************************************************)
EXTENDS Integers, SequencesExt

Colours == 0..2

\* std::min and std::clamp.
AtMost(a, b) == IF a < b THEN a ELSE b
Clamp(n, low, high) == IF n < low THEN low ELSE AtMost(n, high)

\* What is computed from the samples at these indices.
From(data, indices) == UNION {data[i] : i \in indices}

\* The index of a pixel's first sample.
PixelAt(img, x, y) == (x + img.width * y) * img.channels

\* A per-pixel loop writes every colour, and copies the alpha channel if there is one.
PerPixel(src, dst, colour) ==
  [dst EXCEPT !.data = [i \in DOMAIN dst.data |->
     IF i % src.channels \in Colours THEN colour[i]
     ELSE IF src.channels = 4 THEN src.data[i] ELSE dst.data[i]]]

\* Each colour from the three of its pixel.
MixColours(src, dst) ==
  PerPixel(src, dst, [i \in DOMAIN dst.data |->
    From(src.data, {i - (i % src.channels) + c : c \in Colours})])

GrayScale(src, dst) == MixColours(src, dst)
Sepia(src, dst) == MixColours(src, dst)

Invert(src, dst) == PerPixel(src, dst, src.data)

\* A threshold that depends on the place only.
OrderedDithering(src, dst) == PerPixel(src, dst, src.data)

-----------------------------------------------------------------------------
(***************************************************************************)
(* Pixelate: every block of block_size is replaced by its mean.            *)
(***************************************************************************)
BlockNumbers(extent, size) == 0..((extent + size - 1) \div size - 1)

\* The columns, or rows, of the n-th block.
Span(n, extent, size) == (size * n)..(AtMost(size * n + size, extent) - 1)

Block(img, size, i, j) == Span(i, img.width, size) \X Span(j, img.height, size)
Blocks(img, size) ==
  {Block(img, size, i, j) : i \in BlockNumbers(img.width, size),
                            j \in BlockNumbers(img.height, size)}

\* A slip: forgetting the blocks that are partial at the bottom only.
BlockAreaRight(img, size, i, j) ==
  LET x0 == size * i
      y0 == size * j
  IN  IF x0 + size >= img.width
      THEN AtMost(size, img.width - x0) * AtMost(size, img.height - y0)
      ELSE size * size
\* What the sums of a block are divided by.
BlockArea(img, size, i, j) ==
  LET x0 == size * i
      y0 == size * j
  IN  IF x0 + size >= img.width \/ y0 + size >= img.height
      THEN AtMost(size, img.width - x0) * AtMost(size, img.height - y0)
      ELSE size * size

\* The alpha channel is not written.
Pixelate(src, dst, size) ==
  LET Samples(block, c) == {PixelAt(src, p[1], p[2]) + c : p \in block}
      Written(i) == {bc \in Blocks(src, size) \X Colours : i \in Samples(bc[1], bc[2])}
  IN  [dst EXCEPT !.data = [i \in DOMAIN dst.data |->
        IF Written(i) = {} THEN dst.data[i]
        ELSE UNION {From(src.data, Samples(bc[1], bc[2])) : bc \in Written(i)}]]

-----------------------------------------------------------------------------
(***************************************************************************)
(* GaussianBlur: along the rows into temp, then along the columns, the     *)
(* edge standing for what is beyond it.                                    *)
(***************************************************************************)
GaussianBlur(src, dst, radius) ==
  LET C == src.channels
      Col(i) == (i \div C) % src.width
      Row(i) == (i \div C) \div src.width
      temp == [i \in DOMAIN src.data |-> From(src.data,
                 {(Row(i) * src.width + Clamp(Col(i) + k, 0, src.width - 1)) * C + (i % C) :
                    k \in (-radius)..radius})]
  IN  [dst EXCEPT !.data = [i \in DOMAIN dst.data |-> From(temp,
         {(Clamp(Row(i) + k, 0, src.height - 1) * src.width + Col(i)) * C + (i % C) :
            k \in (-radius)..radius})]]

-----------------------------------------------------------------------------
(***************************************************************************)
(* FloydSteinberg: pixel after pixel, the error of each is added to some   *)
(* that come later, at <<rows down, columns right>>, with a numerator.     *)
(***************************************************************************)
Kernels == [
  floyd |-> [denominator |-> 16,
             targets |-> [d \in {<<0, 1>>, <<1, -1>>, <<1, 0>>, <<1, 1>>} |->
                            CASE d = <<0, 1>> -> 7 [] d = <<1, -1>> -> 3
                              [] d = <<1, 0>> -> 5 [] d = <<1, 1>> -> 1]],
  atkinson |-> [denominator |-> 8,
                targets |-> [d \in {<<0, 1>>, <<0, 2>>, <<1, -1>>, <<1, 0>>, <<1, 1>>,
                                    <<2, 0>>} |-> 1]],
  jarvis |-> [denominator |-> 48,
              targets |-> [d \in ({0} \X (1..2)) \cup ((1..2) \X (-2..2)) |->
                             LET away == IF d[2] < 0 THEN d[1] - d[2] ELSE d[1] + d[2]
                             IN  9 - 2 * away]]]

\* The pixels, as <<row, column>>, that the error of <<r, c>> goes to: those in the image.
Targets(img, kernel, r, c) ==
  {<<r + d[1], c + d[2]>> : d \in DOMAIN Kernels[kernel].targets}
    \cap ((0..img.height - 1) \X (0..img.width - 1))

\* The buffer when pixel n, whose value is final by then, has passed its error on.
PassedOn(src, kernel, buffer, n) ==
  LET there == Targets(src, kernel, n \div src.width, n % src.width)
      index(p, c) == (src.width * p[1] + p[2]) * src.channels + c
      reached == {index(p, c) : p \in there, c \in Colours}
  IN  [i \in DOMAIN buffer |->
         IF i \in reached THEN buffer[i] \cup buffer[n * src.channels + (i % src.channels)]
         ELSE buffer[i]]

\* The buffer after the first n pixels.
Diffused(src, kernel) ==
  LET buffer[n \in 0..(src.width * src.height)] ==
        IF n = 0 THEN src.data ELSE PassedOn(src, kernel, buffer[n - 1], n - 1)
  IN  buffer

ErrorDiffusion(src, dst, kernel) ==
  PerPixel(src, dst, Diffused(src, kernel)[src.width * src.height])
=============================================================================
