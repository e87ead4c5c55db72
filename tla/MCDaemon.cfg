SPECIFICATION Spec
CONSTANTS
  MaxRows = 4
  MaxRuns = 2
  ForeignSeq = {0, 1, 3}
  FromSeqs = {0, 2}
INVARIANTS
  AnswersNumbered
  OwnTranscriptReplays
  SplicesRejected
  AcceptedIsSound
