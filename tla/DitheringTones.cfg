SPECIFICATION Spec
CONSTANTS
  Pictures <- SmallPictures
  Sizes <- FewSizes
  Levels <- FewLevels
INVARIANTS TypeOK NoLightCreated ShadesAsAsked ToneKept
