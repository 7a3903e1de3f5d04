SPECIFICATION LruSpec
CONSTANTS
  Block = {b1, b2, b3}
  Data = {zero, d1}
  Zero = zero
  Capacity = 2
  FlushEvery = 1
  NoBlock = NoBlock
  NoReply = NoReply
INVARIANTS HoldsMostRecent
  TypeOK
  SlotsPartitioned
  MapMatchesSlots
  CleanMatchesImage
  CrashKeepsRecent
PROPERTY ImplementsDevice DurableAgainAndAgain
