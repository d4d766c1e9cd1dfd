SPECIFICATION Spec
CONSTANTS
  None = None
  Own = Own
  Splits <- MCSplits
  MaxChapters = 2
  Guides = {"g"}
  Reports = {1}
  Worlds = {"w"}
  Answers <- MCAnswers
  Windows = {0, 1}
  Default = 0
  Requests <- MCRequests
  Books <- MCBooks
  Holds = {None}
  Raised = {"segment"}
  MaxUpgrades = 0
INVARIANTS
  AnalysedInOrder
  HeldUnlessAsked
PROPERTIES
  OnlyConfirmedIsPublished
  FoundationIsKept
  RunsEnd
