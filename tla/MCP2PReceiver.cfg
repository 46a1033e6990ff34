SPECIFICATION FairSpec
CONSTANTS
  DataTypes = {DATA}
  NoType = NoType
  SeqMod = 8
  Window = 4
  Lifetime = 4
  DispatchMayRaise = FALSE
  MaxSent = 10
INVARIANTS
  InOrderExactlyOnce
  AckedIsKept
  NothingStranded
  StoreBounded
PROPERTIES
  ChannelSpec
  ChannelLive
