CONSTANTS
  w1 = w1
  w2 = w2
  Holders <- Actors
  Identities <- LeaseIdentities
  Nonces <- LeaseNonces
  Decisions <- LeaseDecisions
  Revocable <- LeaseRevocable
  MaxTime = 2
  MaxJump = 1
  MaxLeases = 3
  MaxRestores = 1
  Processes <- Actors
  Outputs = {"o1", "o2"}
  FullKeys <- FamilyKeys
  Jobs <- SomeJobs
  Softwares = {1, 2}
  MaxChanges = 1
  MaxKills = 1
  MaxStarts = 3
  Threads <- Actors
  Raw <- RawDecisions
  OwnerKey = "owner"
  Keys = {"owner", "other"}
  Bindings <- BindingNames
  RevocableIds = {"d1"}
  Validity = 3
  Uncertainty = 1
  Horizon = 5
  MaxFaults = 1
  MaxRestarts = 1
  Family <- ResearchSymbols
  Windows <- ResearchWindows
  Requests <- ResearchRequests
  Selections <- ManyJobs
  Workers <- Actors
  MaxAttempts = 3
  MaxDeaths = 1
  LastTime = 1
SPECIFICATION ClaimsSpec
INVARIANTS LeaseSound ExportsSound TrustSound JobDirectorySound
PROPERTIES  FinishedIsFinal
SYMMETRY ActorSymmetry
CHECK_DEADLOCK FALSE
