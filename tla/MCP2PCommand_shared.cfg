SPECIFICATION Spec
CONSTANTS
  Callers = {lock_call, stream_call}
  lock_call = lock_call
  stream_call = stream_call
  NoCaller = NoCaller
  Types <- MCTypes
  Uses <- MCUses
  NoType = NoType
  SeqMod = 2
  MaxRetries = 3
INVARIANT
  OwnResult
