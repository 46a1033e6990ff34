SPECIFICATION Spec
CONSTANTS
  DataTypes = {DATA}
  NoType = NoType
  SeqMod = 8
  Window = 4
  Lifetime = 4
  DispatchMayRaise = TRUE
  MaxSent = 10
INVARIANTS
  NothingStranded
