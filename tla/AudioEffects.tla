---------------------------- MODULE AudioEffects ----------------------------
(***************************************************************************)
(* transform/effects, the audio effects: what each writes into its         *)
(* destination, by the indices it uses.  An Audio is its number of frames  *)
(* and channels and a flat array of samples, frame after frame, indexed    *)
(* from 0.                                                                 *)
(***************************************************************************)
EXTENDS Integers

\* The for loop: frames i and frames-1-i are exchanged, for the first half of them.
Swapped(src, dst) ==
  LET C == src.channels
      other(f) == src.frames - 1 - f
      half == 0..(src.frames \div 2 - 1)
  IN  [k \in DOMAIN dst.data |->
         IF k \div C \in half \/ other(k \div C) \in half
         THEN src.data[other(k \div C) * C + (k % C)] ELSE dst.data[k]]

\* A slip: the middle frame is where it was already.
MiddleLeft(src, data) == data
\* With an odd number of frames the one in the middle is copied, from and to this index.
MiddleCopied(src, data) ==
  LET index == (src.frames * src.channels) \div 2 - 1
  IN  [k \in DOMAIN data |->
         IF k \in index..(index + src.channels - 1) THEN src.data[k] ELSE data[k]]

ReverseSound(src, dst) ==
  [dst EXCEPT !.data = IF src.frames % 2 = 0 THEN Swapped(src, dst)
                       ELSE MiddleCopied(src, Swapped(src, dst))]

\* Every sample times one gain, the inverse of the greatest: the gain is left out.
Normalize(src, dst) == [dst EXCEPT !.data = [k \in DOMAIN dst.data |-> src.data[k]]]
=============================================================================
