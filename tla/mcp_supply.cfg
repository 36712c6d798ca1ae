SPECIFICATION ReadingSpec
CONSTANTS
  Conversion <- MCConversion
  VrefMv = 3300
  NoReading = NoReading
INVARIANT MicrovoltsExact
