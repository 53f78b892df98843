SPECIFICATION Spec

CONSTANTS
  Jobs = {j1, j2}
  Workers = {w1}
  Requests = {r1, r2}
  Currencies = {USD}
  EcoCash = ECOCASH
  Deposits = {1}
  Quotes = {2}
  NoWorker = NoWorker
  NoCurrency = NoCurrency
  NoRequest = NoRequest
  MaxDisputes = 1
  MaxCollections = 2

INVARIANTS
  OneActiveJobPerWorker

CHECK_DEADLOCK FALSE
