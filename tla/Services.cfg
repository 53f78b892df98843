SPECIFICATION Spec

CONSTANTS
  vs = vs
  vt = vt
  vw = vw
  VetWorkers = {vs, vt, vw}
  VetSeeds = {vs}
  VetNewcomers = {vw}
  VetPlan <- Plan
  MaxVetSlots = 2
  MaxVetRequests = 4
  MIN_VOUCHES_FOR_JOURNEYMAN = 1
  MIN_VOUCHES_FOR_EXPERT = 2

  CrewOrderIds = {o1, o2}
  Crews = {c1}
  CrewDeposits = {1}
  CrewQuotes = {3}
  NoCrew = NoCrew
  MaxCrewSlots = 2
  MaxCrewRequests = 5

  mv = mv
  mw = mw
  mx = mx
  ca = ca
  cb = cb
  MatchWorkers = {mv, mw, mx}
  MatchCrews = {ca, cb}
  Suburbs = {"near", "mid", "edge", "out"}
  Km <- KmOf
  Profiles <- ProfileSet
  OpenJobs <- OpenJobSet
  Rosters <- RosterSet
  WorkersNeeded = {1, 2}
  MAX_SUGGESTIONS = 1
  MAX_CREW_CANDIDATES = 1

  MaxMessages = 3
  OwnMessages = {2}
  PageLimit = 2

  Phones = {p}
  AddressOf <- OneAddress
  MaxCodes = 2
  MaxAttempts = 2
  MaxPerAddress = 2
  MaxSignInSlots = 2
  MaxCalls = 3

  UniqueMixes <- Mixes
  MaxLosses = 2

INVARIANTS
  ServicesInv
  GradeWasEarned
  SeniorityTracesToSeeds
  CrewStatusBackedByLedger
  CrewServesOneOrder
  BuyersSeeWhoCanTakeTheJob
  NearestSuggestedFirst
  ListsMirrorEachOther
  ListedCrewsCanStaff
  OnlyStoredShown
  ShownOnceInOrder
  AccountsComeFromCodes
  AnswersMatchRows
  RegisteredWorkersHaveStanding

PROPERTIES
  GradeFollowsEvidence
  VettingRequestsEnd
  EachPayoutCovered
  CrewContractKept
  CrewRequestsEnd
  FallbackCatchesUp
  RoleIsKept
  LockoutEnds
  UniqueCallsSettle

CHECK_DEADLOCK FALSE
