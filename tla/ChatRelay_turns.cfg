CONSTANTS
  t1 = t1
  t2 = t2
  t3 = t3
  k1 = k1
  c1 = c1
  None = None
  Pending = Pending
  Turns = {t1, t2, t3}
  RawKeys = {k1}
  Canonicals = {c1}
  RawOf <- OneSession
  CanonOf <- OneCanonical
  Streaming = {t1, t2}
  Unowned = {t2, t3}
  MaxCalls = 2
SPECIFICATION FairSpec
INVARIANTS
  TypeOK
  NothingStranded
  RegistryExact
  OwnedUnlessRobbed
  ReplyFromOwnRun
  NoLostReply
PROPERTIES
  ImplementsService
  TurnEnds
