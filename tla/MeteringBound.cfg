\* A cache write is dearer than what was held for it; one day, one request.
SPECIFICATION MeteringSpec
CONSTANTS
  gpt = gpt
  claude = claude
  new = new
  NoRate = NoRate
  Model <- MCModel
  Book <- MCBook
  TokensPerUnit = 1
  CharsPerToken = 2
  InputOverhead = 1
  Fallback <- MCFallback
  MaxRequestBody = 4
  MaxObserved = 3
  Request <- MCRequest
  Answers <- MCAnswers
  Days = 1
  MaxRequests = 1
INVARIANTS
  SafeUpperBound
CHECK_DEADLOCK FALSE
