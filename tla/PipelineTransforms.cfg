SPECIFICATION Spec
CONSTANTS
  Uploads <- Requests
  CHUNK_SIZE = 2
  MaxNumber = 4
  NoAnswer = NoAnswer
  HeaderUnit = HeaderUnit
  HeaderSize = 2
INVARIANTS TypeOK EncodedInOrder OnlyForAReason MeansOverPixels
PROPERTIES Implements GetsToEnd
