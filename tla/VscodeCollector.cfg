\* Spans in two conversations, one fault, and two removals beside pruning.
SPECIFICATION Spec
CONSTANTS
  Spans <- MCSpans
  Start <- MCStart
  Conversation <- MCConversation
  None <- MCNone
  Native = {1, 2}
  Synthesized = {3}
  LateWindow = 2
  MaxRecent = 4
  MaxFaults = 1
  MaxRemovals = 2
INVARIANTS TypeOK NothingMissed ExtractedOnce DroppedIsCovered LossIsTold
