SPECIFICATION Spec

CONSTANTS
  Jobs = {j1}
  Workers = {w1, w2}
  Requests = {r1, r2}
  Currencies = {USD, ECOCASH}
  EcoCash = ECOCASH
  Deposits = {1}
  Quotes = {2, 3}
  NoWorker = NoWorker
  NoCurrency = NoCurrency
  NoRequest = NoRequest
  MaxDisputes = 1
  MaxCollections = 2

SYMMETRY Symmetry

INVARIANTS
  StatusBackedByLedger
  SignedOffOnce
  NeverOverReleased
  EcoCashDepositsCollected
  IndInv

PROPERTIES
  ImplementsEscrow

CHECK_DEADLOCK FALSE
