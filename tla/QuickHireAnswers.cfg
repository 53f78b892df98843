SPECIFICATION FairSpec

CONSTANTS
  Jobs = {j1}
  Workers = {w1}
  Requests = {r1, r2}
  Currencies = {USD}
  EcoCash = ECOCASH
  Deposits = {1}
  Quotes = {2}
  NoWorker = NoWorker
  NoCurrency = NoCurrency
  NoRequest = NoRequest
  MaxDisputes = 3
  MaxCollections = 2

INVARIANTS
  DisputedHasOpenDispute

PROPERTIES
  EveryRequestFinishes

CHECK_DEADLOCK FALSE
