SPECIFICATION FairSpec
CONSTANTS
  Runs = {r1}
  Workers = {w1, w2}
  NoInvoice = NoInvoice
  NoRun = NoRun
  BatchLimit = 1
  MaxRetries = 4
  MaxVersion = 8
INVARIANTS
  PostedIsInvoiced
  OneInvoicePerRun
  LogIsHistory
PROPERTIES
  PostingIsAnswered
  KeepsPromise
