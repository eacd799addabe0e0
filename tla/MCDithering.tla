---------------------------- MODULE MCDithering ----------------------------
(***************************************************************************)
(* An instance of Dithering for TLC: every picture of a few shades on a    *)
(* small grid for the diffusion, and pictures of one or two shades, whole  *)
(* tiles of them, for the ordered dithering.                               *)
(***************************************************************************)
EXTENDS Dithering

Grid(w, h, shades) ==
  {[width |-> w, height |-> h, data |-> d] : d \in [0..(w * h - 1) -> shades]}
Flat(w, h, v) == [width |-> w, height |-> h, data |-> [p \in 0..(w * h - 1) |-> v]]
Halves(w, h, v) ==
  [width |-> w, height |-> h, data |-> [p \in 0..(w * h - 1) |-> IF p % w < w \div 2 THEN v ELSE 255 - v]]

SmallPictures ==
  Grid(3, 2, {0, 120, 255}) \cup Grid(2, 3, {7, 130, 250})
  \cup {Flat(4, 4, v) : v \in {0, 1, 15, 16, 17, 100, 128, 254, 255}}
  \cup {Flat(8, 8, v) : v \in {3, 4, 200}} \cup {Halves(8, 4, v) : v \in {40, 90}}
FewSizes == {4, 8}
FewLevels == {2, 3, 12, 16}
=============================================================================
