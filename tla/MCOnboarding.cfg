CONSTANTS
  Doc = {d1, d2, d3, d4}
  MaxDocuments = 2
  Need <- MCNeed
  SetupStep = {"identity_documents", "products"}
  Call = {a, b}
SPECIFICATION Spec
SYMMETRY DocsAndCalls
INVARIANT DriftIsExplained
INVARIANT LimitOverrunIsBounded
PROPERTY LiveLacksOnlyWhatWent
PROPERTY StepsForgottenOnlyByOverlap
