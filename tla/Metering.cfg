\* Requests metered, priced, entered and reconciled; two days, two requests.
SPECIFICATION MeteringSpec
CONSTANTS
  gpt = gpt
  claude = claude
  new = new
  NoRate = NoRate
  Model <- MCModel
  Book <- MCBook
  TokensPerUnit = 2
  CharsPerToken = 2
  InputOverhead = 1
  Fallback <- MCFallback
  MaxRequestBody = 4
  MaxObserved = 3
  Request <- MCRequest
  Answers <- MCAnswers
  Days = 2
  MaxRequests = 2
INVARIANTS
  FaithfulStream
  ExactEntries
  ChargeWithinHold
  ReconciliationTells
CHECK_DEADLOCK FALSE
