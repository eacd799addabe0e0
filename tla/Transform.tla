----------------------------- MODULE Transform -----------------------------
(***************************************************************************)
(* What the server promises whoever uploads a file: the chosen effects are *)
(* applied to it one after the other, each computing its whole result from *)
(* the result of the one before, and the answer is the last of them.  A    *)
(* medium is a picture, with a sample at every <<column, row, channel>>,   *)
(* or a sound, with a sample at every <<frame, channel>>; a sample is the  *)
(* set of the places in the uploaded file it was computed from.            *)
(***************************************************************************)
EXTENDS ImageEffects, Sequences

CONSTANTS Uploads, NoAnswer

VARIABLES upload,   \* the request
          medium,   \* what the effects applied so far have made of the file
          todo,     \* the effects still to be applied
          answer    \* what is sent back

vars == <<upload, medium, todo, answer>>

Positions(m) ==
  IF m.type = "image" THEN (0..(m.width - 1)) \X (0..(m.height - 1)) \X (0..(m.channels - 1))
  ELSE (0..(m.frames - 1)) \X (0..(m.channels - 1))

\* The file as it was uploaded: every sample is itself; silence where a sound is cut short.
Original(u) ==
  [shape |-> u.shape,
   at |-> [p \in Positions(u.shape) |->
             IF u.shape.type = "audio" /\ p[1] * u.shape.channels + p[2] >= u.held
             THEN {} ELSE {p}]]

\* Pixel n in reading order, and all pixels whose error reaches it through a kernel.
Reaching(pic, kernel) ==
  LET Place(n) == <<n \div pic.width, n % pic.width>>
      reach[n \in 0..(pic.width * pic.height - 1)] ==
        {n} \cup UNION {reach[q] : q \in {q \in 0..(n - 1) :
                          Place(n) \in Targets(pic, kernel, Place(q)[1], Place(q)[2])}}
  IN  reach

\* The samples of a picture that one of an effect's result depends on.  Transparency is
\* no colour: no effect changes it.
OfPicture(e, pic, x, y, c) ==
  IF c = 3 /\ e.name # "blur" THEN {<<x, y, c>>}
  ELSE CASE e.name \in {"invert", "ordered_dithering"} -> {<<x, y, c>>}
         [] e.name \in {"grayscale", "sepia"} -> {<<x, y, k>> : k \in Colours}
         [] e.name = "pixelate" ->
              {p \in Positions(pic) : /\ p[1] \div e.number = x \div e.number
                                      /\ p[2] \div e.number = y \div e.number
                                      /\ p[3] = c}
         [] e.name = "blur" ->
              {p \in Positions(pic) : /\ p[1] \in (x - e.number)..(x + e.number)
                                      /\ p[2] \in (y - e.number)..(y + e.number)
                                      /\ p[3] = c}
         [] e.name = "error_diffusion" ->
              {<<n % pic.width, n \div pic.width, c>> :
                 n \in Reaching(pic, e.variant)[y * pic.width + x]}

\* The sample of a sound that one of an effect's result is, but for a gain.
OfSound(e, sound, f, c) ==
  CASE e.name = "reverse" -> {<<sound.frames - 1 - f, c>>}
    [] e.name = "normalize" -> {<<f, c>>}

Effect(e, m) ==
  LET DependsOn(p) == IF m.shape.type = "image" THEN OfPicture(e, m.shape, p[1], p[2], p[3])
                      ELSE OfSound(e, m.shape, p[1], p[2])
  IN  [m EXCEPT !.at = [p \in DOMAIN m.at |-> UNION {m.at[q] : q \in DependsOn(p)}]]

-----------------------------------------------------------------------------
Init ==
  /\ upload \in Uploads
  /\ medium = Original(upload) /\ todo = upload.chosen /\ answer = NoAnswer

ApplyNext ==
  /\ todo # << >>
  /\ medium' = Effect(Head(todo), medium)
  /\ todo' = Tail(todo)
  /\ UNCHANGED <<upload, answer>>

\* A sound may be cut short where its encoder fails.
FirstFrames(m, n) ==
  LET shape == [m.shape EXCEPT !.frames = n]
  IN  [shape |-> shape, at |-> [p \in Positions(shape) |-> m.at[p]]]

Answer ==
  /\ todo = << >> /\ answer = NoAnswer
  /\ IF medium.shape.type = "image" THEN answer' = medium
     ELSE \E n \in 0..medium.shape.frames : answer' = FirstFrames(medium, n)
  /\ UNCHANGED <<upload, medium, todo>>

Next == ApplyNext \/ Answer

Spec == Init /\ [][Next]_vars
=============================================================================
