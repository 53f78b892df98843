SPECIFICATION CrewSpec

CONSTANTS
  CrewOrderIds = {o1}
  Crews = {c1}
  CrewDeposits = {1}
  CrewQuotes = {3}
  NoCrew = NoCrew
  MaxCrewSlots = 2
  MaxCrewRequests = 4

INVARIANTS
  CurrencySetOnceBooked

CHECK_DEADLOCK FALSE
