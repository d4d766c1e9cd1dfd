SPECIFICATION Spec
CONSTANTS
  Chapters = {1, 2}
  t1 = t1
  t2 = t2
  p1 = p1
  p2 = p2
  None = None
  Text <- MCText
  Payload <- MCPayload
  Touches <- MCTouches
  Outlines <- MCOutlines
SYMMETRY TextSymmetry
CONSTRAINT FewRewrites
INVARIANTS
  IInv
  FinishedIsCertified
  RecoveryIsNeverRefused
  QueueMatchesFlow
PROPERTY ImplementsAtomicCommit
