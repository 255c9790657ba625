CONSTANTS
  CharBits = 2
  ShortBits = 3
  IntBits = 4
  LongBits = 6
  Programs <- ShadowPrograms

SPECIFICATION Spec

INVARIANT
  ResultIsC
