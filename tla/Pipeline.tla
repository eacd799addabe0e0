------------------------------ MODULE Pipeline ------------------------------
(***************************************************************************)
(* transform/pipeline.cpp and the encoder's loop of audio_io.cpp: what a   *)
(* compute task does with an uploaded file, from the text of the pipeline  *)
(* to the bytes of the answer or an exception.                             *)
(*                                                                         *)
(* A text is a sequence of words and of the separators ";", ":" and ",".   *)
(* Two buffers take turns: each effect reads A and writes B, and they are  *)
(* swapped; B keeps whatever an effect does not write.                     *)
(***************************************************************************)
EXTENDS ImageEffects, AudioEffects, AudioIO, TLC

CONSTANTS Uploads,      \* the requests
          CHUNK_SIZE,   \* frames the encoder is given at a time
          MaxNumber,    \* the greatest parameter
          NoAnswer

ASSUME ChunkPositive == CHUNK_SIZE \in Nat \ {0}

\* The words that hold a pipeline's text together, and a number as a word.
BetweenEffects == ";"
BeforeParams == ":"
BetweenParams == ","
Separators == {BetweenEffects, BeforeParams, BetweenParams}
ASSUME NumbersAreWords ==
  \A n \in 0..MaxNumber :
    /\ ToString(n) \notin Separators
    /\ \A m \in 0..MaxNumber : ToString(m) = ToString(n) => m = n

\* Effects that take a number; "volume" is one that the server does not know.
WithNumber == {"pixelate", "blur", "ordered_dithering", "volume"}

\* The ranges of the page's sliders.
PageNumbers ==
  [pixelate |-> 2..64, blur |-> 1..20, ordered_dithering |-> {4, 8, 16, 32, 64},
   error_diffusion |-> 2..16, volume |-> 0..4]

\* The effects of a page: their numbers are in the ranges, the kernels are these three.
PageEffects ==
  {e \in [name : STRING \ Separators, number : 0..MaxNumber, variant : STRING] :
     /\ e.number \in (IF e.name \in DOMAIN PageNumbers THEN PageNumbers[e.name] ELSE {0})
     /\ IF e.name = "error_diffusion" THEN e.variant \in DOMAIN Kernels ELSE e.variant = ""}

\* A request's effects are the page's, or unknown ones, and its file is of the type it says if
\* that is one of the two.  Of a sound of one sample Reverse would write the one before the
\* first (reverse.cpp:18), and anything may happen.
OneSample == [type |-> "audio", frames |-> 1, channels |-> 1]
ASSUME UploadsTyped ==
  \A u \in Uploads :
    /\ u.chosen \in Seq(PageEffects)
    /\ u.trailing \in BOOLEAN
    /\ u.held \in Nat
    /\ \/ u.shape \in [type : {"image"}, width : Nat \ {0}, height : Nat \ {0}, channels : {3, 4}]
       \/ u.shape \in [type : {"audio"}, frames : Nat, channels : Nat \ {0}]
    /\ u.type \in {"image", "audio"} => u.shape.type = u.type
    /\ u.shape = OneSample => \A i \in DOMAIN u.chosen : u.chosen[i].name # "reverse"

VARIABLES
  upload,      \* the request: type, format, effects chosen, the file's contents
  pc,          \* where the task stands
  effects,     \* imagePipeline or audioPipeline, from the next effect on
  A, B,        \* bufferA and bufferB
  ctx,         \* the encoder's WriteContext
  framesLeft, current,   \* frames_left and current_ptr of its loop
  failed,      \* whether a library has reported a failure
  output       \* what process() returned, once it has

codecVars == <<ctx, framesLeft, current>>
vars == <<upload, pc, effects, A, B, codecVars, failed, output>>

-----------------------------------------------------------------------------
(***************************************************************************)
(* The text of a pipeline.                                                 *)
(***************************************************************************)

Joined(parts, separator) ==
  LET joined[n \in 0..Len(parts)] ==
        CASE n = 0 -> << >>
          [] n = 1 -> parts[1]
          [] OTHER -> joined[n - 1] \o <<separator>> \o parts[n]
  IN  joined[Len(parts)]

\* How the page writes an effect: its name, its parameters.
PageParams(e) ==
  CASE e.name \in WithNumber -> <<ToString(e.number)>>
    [] e.name = "error_diffusion" -> <<e.variant, ToString(e.number)>>
    [] OTHER -> << >>
PageText(e) ==
  LET params == PageParams(e)
  IN  IF params = << >> THEN <<e.name>>
      ELSE <<e.name, BeforeParams>> \o Joined([i \in DOMAIN params |-> <<params[i]>>], BetweenParams)

\* The effects joined by ";", and one more at the end if the client puts one.
PipelineText(u) ==
  Joined([i \in DOMAIN u.chosen |-> PageText(u.chosen[i])], BetweenEffects)
    \o (IF u.trailing THEN <<BetweenEffects>> ELSE << >>)

\* std::string::find: the first place from start on, or 0.
Find(text, word, start) == SelectInSubSeq(text, start, Len(text), LAMBDA w : w = word)

\* The pieces between separators but for those skipped, as the loops over find() make
\* them: none behind a last separator, an empty one before a first.
Pieces(text, separator, skipped) ==
  LET pieces[start \in 1..(Len(text) + 2)] ==
        IF start > Len(text) THEN << >>
        ELSE LET end == Find(text, separator, start)
                 piece == SubSeq(text, start, IF end = 0 THEN Len(text) ELSE end - 1)
             IN  (IF piece \in skipped THEN << >> ELSE <<piece>>)
                   \o (IF end = 0 THEN << >> ELSE pieces[end + 1])
  IN  pieces[1]

Word(piece) == IF piece = << >> THEN "" ELSE Head(piece)

Colon(segment) == Find(segment, BeforeParams, 1)

\* The first ":" ends the name; empty parameters are skipped.
EffectName(segment) ==
  Word(IF Colon(segment) = 0 THEN segment ELSE SubSeq(segment, 1, Colon(segment) - 1))
EffectParams(segment) ==
  IF Colon(segment) = 0 THEN << >>
  ELSE LET params == Pieces(SubSeq(segment, Colon(segment) + 1, Len(segment)), BetweenParams, {<< >>})
       IN  [i \in DOMAIN params |-> Word(params[i])]

Stoi(word) == CHOOSE n \in 0..MaxNumber : ToString(n) = word

Known == [image |-> {"grayscale", "sepia", "pixelate", "invert", "blur", "ordered_dithering",
                     "error_diffusion"},
          audio |-> {"reverse", "normalize"}]

\* make_image_effect and make_audio_effect, for a name they know.
MakeEffect(name, params) ==
  CASE name \in {"pixelate", "blur", "ordered_dithering"} ->
         [name |-> name, number |-> Stoi(params[1]), variant |-> ""]
    [] name = "error_diffusion" ->
         [name |-> name, number |-> IF Len(params) > 1 THEN Stoi(params[2]) ELSE 2,
          variant |-> IF params[1] \in {"atkinson", "jarvis"} THEN params[1] ELSE "floyd"]
    [] OTHER -> [name |-> name, number |-> 0, variant |-> ""]

Segments(u) == Pieces(PipelineText(u), BetweenEffects, {})

\* An empty text, or a name that make_..._effect does not know.
ConstructorThrows(u) ==
  \/ PipelineText(u) = << >>
  \/ /\ u.type \in DOMAIN Known
     /\ \E i \in DOMAIN Segments(u) : EffectName(Segments(u)[i]) \notin Known[u.type]

Constructed(u) ==
  IF u.type \notin DOMAIN Known THEN << >>
  ELSE [i \in DOMAIN Segments(u) |->
          MakeEffect(EffectName(Segments(u)[i]), EffectParams(Segments(u)[i]))]

\* What is refused for its text: no effects, or one that is not known.
Refused(u) == u.chosen = << >> \/ \E i \in DOMAIN u.chosen : u.chosen[i].name \notin Known[u.type]

\* The constructor makes, from each text, the effects that were chosen, or it throws where
\* there are none or one that it does not know.
TextsUnderstood ==
  \A u \in Uploads : u.type \in DOMAIN Known =>
    /\ ConstructorThrows(u) <=> Refused(u)
    /\ ~ConstructorThrows(u) => Constructed(u) = u.chosen

-----------------------------------------------------------------------------
NoBuffer == [channels |-> 0, data |-> << >>]
NoFile == [position |-> 0, buffer |-> << >>]

Init ==
  /\ upload \in Uploads
  /\ pc = "construct" /\ effects = << >>
  /\ A = NoBuffer /\ B = NoBuffer
  /\ ctx = NoFile /\ framesLeft = 0 /\ current = 0
  /\ failed = FALSE /\ output = NoAnswer

Throw == pc' = "thrown" /\ UNCHANGED <<upload, effects, A, B, codecVars, output>>

ThrowAtConstruction ==
  /\ pc = "construct" /\ ConstructorThrows(upload)
  /\ Throw /\ UNCHANGED failed

Construct ==
  /\ pc = "construct" /\ ~ConstructorThrows(upload)
  /\ effects' = Constructed(upload)
  /\ pc' = "load"
  /\ UNCHANGED <<upload, A, B, codecVars, failed, output>>

\* The decoders know no such file, or the type is neither image nor audio.
ThrowAtLoad ==
  /\ pc = "load"
  /\ ~upload.readable \/ upload.type \notin DOMAIN Known
  /\ Throw /\ UNCHANGED failed

\* A slip: a second buffer without its size.
BlankUnsized(buffer) == [buffer EXCEPT !.data = << >>]
Blank(buffer) == [buffer EXCEPT !.data = [i \in DOMAIN buffer.data |-> {}]]

\* What the image decoder returns: the samples interleaved, row after row.
DecodedImage(u) ==
  LET img == u.shape
      pixel(i) == i \div img.channels
  IN  [width |-> img.width, height |-> img.height, channels |-> img.channels,
       data |-> [i \in 0..(img.width * img.height * img.channels - 1) |->
                   {<<pixel(i) % img.width, pixel(i) \div img.width, i % img.channels>>}]]

LoadImage ==
  /\ pc = "load" /\ upload.type = "image" /\ upload.readable
  /\ A' = DecodedImage(upload) /\ B' = Blank(A')
  /\ pc' = "apply"
  /\ UNCHANGED <<upload, effects, codecVars, failed, output>>

\* The units of an uploaded sound that holds `held' samples.
SoundFile(u) ==
  Header \o [k \in 1..u.held |-> {<<(k - 1) \div u.shape.channels, (k - 1) % u.shape.channels>>}]

DecodedAudio(u) ==
  [frames |-> u.shape.frames, channels |-> u.shape.channels,
   data |-> DecodedData(SoundFile(u), u.shape.frames * u.shape.channels)]

LoadAudio ==
  /\ pc = "load" /\ upload.type = "audio" /\ upload.readable
  /\ A' = DecodedAudio(upload) /\ B' = Blank(A')
  /\ pc' = "apply"
  /\ UNCHANGED <<upload, effects, codecVars, failed, output>>

-----------------------------------------------------------------------------
Applied(e, src, dst) ==
  CASE e.name = "grayscale" -> GrayScale(src, dst)
    [] e.name = "sepia" -> Sepia(src, dst)
    [] e.name = "invert" -> Invert(src, dst)
    [] e.name = "pixelate" -> Pixelate(src, dst, e.number)
    [] e.name = "blur" -> GaussianBlur(src, dst, e.number)
    [] e.name = "ordered_dithering" -> OrderedDithering(src, dst)
    [] e.name = "error_diffusion" -> ErrorDiffusion(src, dst, e.variant)
    [] e.name = "reverse" -> ReverseSound(src, dst)
    [] e.name = "normalize" -> Normalize(src, dst)

\* effect->apply and the swap.
Apply ==
  /\ pc = "apply" /\ effects # << >>
  /\ A' = Applied(Head(effects), A, B)
  /\ B' = A
  /\ effects' = Tail(effects)
  /\ UNCHANGED <<upload, pc, codecVars, failed, output>>

EncodingDue == pc = "apply" /\ effects = << >>

EncodeImage ==
  /\ EncodingDue /\ upload.type = "image" /\ upload.format \in {"jpg", "jpeg", "png"}
  /\ output' = A /\ pc' = "done"
  /\ UNCHANGED <<upload, effects, A, B, codecVars, failed>>

\* With any other format nothing is written, and `res' is not initialised: by what it
\* happens to hold, the answer is empty or the exception is thrown.
EncodeOtherImage ==
  /\ EncodingDue /\ upload.type = "image" /\ upload.format \notin {"jpg", "jpeg", "png"}
  /\ \/ pc' = "done" /\ output' = << >>
     \/ pc' = "thrown" /\ UNCHANGED output
  /\ UNCHANGED <<upload, effects, A, B, codecVars, failed>>

\* An image encoder fails, or libsndfile refuses the format or to open its file.
EncoderFails ==
  /\ EncodingDue
  /\ upload.type = "audio" \/ upload.format \in {"jpg", "jpeg", "png"}
  /\ failed' = TRUE /\ Throw

OpenEncoder ==
  /\ EncodingDue /\ upload.type = "audio"
  /\ ctx' = WithHeader(NoFile)
  /\ framesLeft' = A.frames /\ current' = 0
  /\ pc' = "encode"
  /\ UNCHANGED <<upload, effects, A, B, failed, output>>

FramesAsked == AtMost(CHUNK_SIZE, framesLeft)

\* A slip: moving on by frames in an array of samples.
AfterFrames(written) == current + written
\* A slip: counting what was asked for.
LeftAfterAsked(written) == framesLeft - FramesAsked
AfterWritten(written) == current + written * A.channels
LeftAfter(written) == framesLeft - written

WriteChunk ==
  /\ pc = "encode" /\ framesLeft > 0
  /\ \E written \in 1..FramesAsked :
       /\ ctx' = WriteUnits(ctx, [i \in 1..(written * A.channels) |-> A.data[current + i - 1]])
       /\ framesLeft' = LeftAfter(written)
       /\ current' = AfterWritten(written)
  /\ UNCHANGED <<upload, pc, effects, A, B, failed, output>>

\* A slip: trying again for ever.
AfterWriteFailureRetry == "encode"
AfterWriteFailure == "close"

\* Nothing is written: the loop is left, and what there is becomes the answer.
WriteFails ==
  /\ pc = "encode" /\ framesLeft > 0
  /\ failed' = TRUE
  /\ pc' = AfterWriteFailure
  /\ UNCHANGED <<upload, effects, A, B, codecVars, output>>

CloseEncoder ==
  /\ pc = "close" \/ (pc = "encode" /\ framesLeft <= 0)
  /\ ctx' = WithHeader(ctx)
  /\ output' = ctx'.buffer /\ pc' = "done"
  /\ UNCHANGED <<upload, effects, A, B, framesLeft, current, failed>>

Ended == pc \in {"done", "thrown"} /\ UNCHANGED vars

Next ==
  \/ ThrowAtConstruction \/ Construct
  \/ ThrowAtLoad \/ LoadImage \/ LoadAudio
  \/ Apply
  \/ EncodeImage \/ EncodeOtherImage \/ EncoderFails
  \/ OpenEncoder \/ WriteChunk \/ WriteFails \/ CloseEncoder
  \/ Ended

Spec == Init /\ [][Next]_vars

-----------------------------------------------------------------------------
(***************************************************************************)
(* Properties.                                                             *)
(***************************************************************************)

Loaded == A # NoBuffer

\* Each variable has its type: the buffers keep the dimensions of the upload, the file's
\* position and the encoder's pointer stay inside what they point into.
TypeOK ==
  /\ upload \in Uploads
  /\ pc \in {"construct", "load", "apply", "encode", "close", "done", "thrown"}
  /\ Loaded => /\ A \in (IF upload.type = "image" THEN {[DecodedImage(upload) EXCEPT !.data = A.data]}
                         ELSE {[DecodedAudio(upload) EXCEPT !.data = A.data]})
               /\ B = [A EXCEPT !.data = B.data]
               /\ DOMAIN A.data = DOMAIN B.data
  /\ ctx.position \in 0..Len(ctx.buffer)
  /\ pc \in {"encode", "close"} => /\ framesLeft \in 0..A.frames
                                  /\ current \in 0..(A.frames * A.channels)
  /\ failed \in BOOLEAN

\* At every moment the encoder's file is its header and the first frames of the sound, as
\* many as are no longer left: none twice, none left out, with chunks written short too.
EncodedInOrder ==
  pc \in {"encode", "close"} =>
    ctx.buffer = Header \o [i \in 1..((A.frames - framesLeft) * A.channels) |-> A.data[i - 1]]

\* Unless a library fails, an answer holds every frame, and a readable file of a known type
\* and format with known effects is answered.
OnlyForAReason ==
  ~failed => /\ pc = "done" /\ upload.type = "audio" =>
                  Len(output) = HeaderSize + upload.shape.frames * upload.shape.channels
             /\ pc = "thrown" => \/ ~upload.readable \/ upload.type \notin DOMAIN Known
                                \/ Refused(upload)
                                \/ /\ upload.type = "image"
                                   /\ upload.format \notin {"jpg", "jpeg", "png"}

\* The blocks of Pixelate cover an image, none twice, and a block's sum is divided by the
\* number of its pixels, at the edges too.
MeansOverPixels ==
  Loaded /\ effects # << >> /\ Head(effects).name = "pixelate" =>
    LET size == Head(effects).number
    IN  /\ \A x \in 0..(A.width - 1), y \in 0..(A.height - 1) :
             Cardinality({b \in Blocks(A, size) : <<x, y>> \in b}) = 1
        /\ \A i \in BlockNumbers(A.width, size), j \in BlockNumbers(A.height, size) :
             BlockArea(A, size, i, j) = Cardinality(Block(A, size, i, j))

\* A task comes to its end, whatever the encoder does: it is never stuck before (TLC looks
\* for deadlocks), every step goes on to a later stage, or to fewer effects or frames left.
Stage == CASE pc = "construct" -> 5 [] pc = "load" -> 4 [] pc = "apply" -> 3
           [] pc = "encode" -> 2 [] pc = "close" -> 1 [] OTHER -> 0
GetsToEnd ==
  [][\/ Stage' < Stage
     \/ Stage' = Stage /\ Len(effects') + framesLeft' < Len(effects) + framesLeft]_vars

\* What is in a buffer as a medium, by places instead of indices.
MediumOf(u, buffer) ==
  IF u.shape.type = "image"
  THEN [shape |-> u.shape,
        at |-> [p \in (0..(buffer.width - 1)) \X (0..(buffer.height - 1)) \X (0..(buffer.channels - 1)) |->
                  buffer.data[PixelAt(buffer, p[1], p[2]) + p[3]]]]
  ELSE [shape |-> u.shape,
        at |-> [p \in (0..(buffer.frames - 1)) \X (0..(buffer.channels - 1)) |->
                  buffer.data[p[1] * buffer.channels + p[2]]]]

\* What a player reads in a file that was written.
SoundIn(file, channels) ==
  LET frames == (Len(file) - HeaderSize) \div channels
  IN  [shape |-> [type |-> "audio", frames |-> frames, channels |-> channels],
       at |-> [p \in (0..(frames - 1)) \X (0..(channels - 1)) |->
                 file[HeaderSize + p[1] * channels + p[2] + 1]]]

\* What the effects applied so far have made, those still to be applied, and what is sent:
\* for a picture in a format that is not written it is no answer.
Decoded(u) == IF u.shape.type = "image" THEN DecodedImage(u) ELSE DecodedAudio(u)
MediumNow == MediumOf(upload, IF Loaded THEN A ELSE Decoded(upload))
TodoNow == IF Loaded THEN effects ELSE upload.chosen
AnswerNow ==
  IF output = NoAnswer \/ (upload.type = "image" /\ upload.format \notin {"jpg", "jpeg", "png"})
  THEN NoAnswer
  ELSE IF upload.type = "image" THEN MediumOf(upload, output)
  ELSE SoundIn(output, upload.shape.channels)

\* The two buffers, the indices and the file implement the effects applied one after the
\* other to the medium: nothing stale is in a result, and nothing from another place.
Promise == INSTANCE Transform WITH medium <- MediumNow, todo <- TodoNow, answer <- AnswerNow
Implements == Promise!Spec
=============================================================================
