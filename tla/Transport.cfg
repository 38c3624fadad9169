SPECIFICATION Spec
CONSTANTS
  MaxHostnameLen = 4
  MaxCtxKeyLen = 2
  MaxCtxValLen = 9
  MaxCtxSectionLen = 34
  MaxDataLen = 4
  MinPaddingLen = 1
  MaxPaddingLen = 2
  SeqWidth = 4
  SigLen = 3
  MaxFragments = 5
  Datagrams = {1, 2, 3, 4, 5}
  Listeners = {l1, l2}
  NumShards = 2
  ShardOf <- ShardOfDatagram
  SigningKeys = {"k1", "k2"}
  TTL = 2
  MaxTime = 3
  PastCutoff = 2
  FutureCutoff = 1
  Inputs <- AllInputs
SYMMETRY Symmetry
INVARIANTS PacketsFit LineIsTrue VerifiedIsSigned NotTwice DeliveredWhole
CHECK_DEADLOCK FALSE
