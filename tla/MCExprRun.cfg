CONSTANTS
  CharBits = 2
  ShortBits = 3
  IntBits = 4
  LongBits = 6
  Programs <- SoundPrograms

SPECIFICATION Spec

INVARIANTS
  ResultIsC
  ReadsWritten
  FrameAccessesInBounds

PROPERTY
  Terminates
