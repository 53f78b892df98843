SPECIFICATION ApartSpec

CONSTANTS
  Jobs = {j1, j2}
  Workers = {w1, w2}
  Requests = {r1, r2}
  Currencies = {USD, ECOCASH}
  EcoCash = ECOCASH
  Deposits = {1, 2}
  Quotes = {1, 3}
  NoWorker = NoWorker
  NoCurrency = NoCurrency
  NoRequest = NoRequest
  MaxDisputes = 1
  MaxCollections = 2

SYMMETRY Symmetry

INVARIANTS
  ApartInv
  OneCurrency
  CompletionsCounted

PROPERTIES
  ImplementsContract

CHECK_DEADLOCK FALSE
