----------------------------- MODULE MCPipeline -----------------------------
(***************************************************************************)
(* An instance of Pipeline for TLC: small pictures and sounds, with the    *)
(* effects that may be chosen for them, one or two at a time.              *)
(***************************************************************************)
EXTENDS Pipeline

Plain(name) == [name |-> name, number |-> 0, variant |-> ""]
Sized(name, n) == [name |-> name, number |-> n, variant |-> ""]
Diffusion(variant) == [name |-> "error_diffusion", number |-> 2, variant |-> variant]

\* Effects that write every sample, then with Pixelate, which leaves out the alpha channel.
OnAnyPicture ==
  {Plain("grayscale"), Plain("sepia"), Plain("invert"), Sized("blur", 1), Sized("blur", 2),
   Sized("ordered_dithering", 4), Diffusion("floyd"), Diffusion("atkinson"), Diffusion("jarvis")}
OnOpaque == OnAnyPicture \cup {Sized("pixelate", 2), Sized("pixelate", 3)}
OnSound == {Plain("reverse"), Plain("normalize")}

Lists(S) == {<<e>> : e \in S} \cup {<<e, f>> : e \in S, f \in S}

Picture(w, h, c) == [type |-> "image", width |-> w, height |-> h, channels |-> c]
Sound(f, c) == [type |-> "audio", frames |-> f, channels |-> c]
Request(type, format, shape, chosen) ==
  [type |-> type, format |-> format, shape |-> shape, chosen |-> chosen,
   trailing |-> FALSE, readable |-> TRUE,
   held |-> IF type = "audio" THEN shape.frames * shape.channels ELSE 0]

Pictures ==
  {Request("image", "png", Picture(s[1], s[2], 3), l) :
     s \in {<<3, 3>>, <<3, 2>>, <<1, 3>>}, l \in Lists(OnOpaque)}
  \cup {Request("image", "png", Picture(2, 2, 4), l) : l \in Lists(OnAnyPicture)}
Sounds ==
  {Request("audio", "wav", Sound(s[1], s[2]), l) :
     s \in {<<1, 2>>, <<4, 2>>, <<5, 2>>, <<4, 1>>, <<3, 3>>},
     l \in Lists(OnSound) \cup {<<Plain("reverse"), Plain("normalize"), Plain("reverse")>>}}

\* Requests that are refused, half understood or cut short.
APicture == Request("image", "png", Picture(2, 1, 3), <<Plain("invert"), Sized("pixelate", 2)>>)
ASound == Request("audio", "wav", Sound(4, 2), <<Plain("reverse")>>)
Unusual ==
  {[APicture EXCEPT !.trailing = TRUE], [APicture EXCEPT !.readable = FALSE],
   [APicture EXCEPT !.format = "webp"], [APicture EXCEPT !.type = "application"],
   [APicture EXCEPT !.format = "jpeg"],
   [APicture EXCEPT !.chosen = << >>], [APicture EXCEPT !.chosen = << >>, !.trailing = TRUE],
   [ASound EXCEPT !.readable = FALSE], [ASound EXCEPT !.held = 5],
   [ASound EXCEPT !.format = "mpeg"],
   [ASound EXCEPT !.chosen = <<Plain("normalize"), Sized("volume", 2)>>]}

Requests == Pictures \cup Sounds \cup Unusual

ASSUME TextsAreUnderstood == TextsUnderstood
=============================================================================
