CONSTANTS
  P = 2
  Payloads <- OneMessage
SPECIFICATION FairSpec
PROPERTY
  PayloadvReturns
