CONSTANTS
  Byte <- MCByte
  NUL = "nul"
  Null = Null
  Lower <- MCLower
  Upper <- MCUpper
  Limit <- MCLimit
  MaxPrealloc = 3
  StaticBuf = 2
  Formats <- MCFormats
  Maps <- MCMaps
  Ends <- MCEnds
  MaxLen = 4
  MaxText = 2
SPECIFICATION Spec
INVARIANT Sound
PROPERTY IsString RoomAsAsked
