SPECIFICATION ServicesSpec
CONSTANTS
  SettingsMessages <- MCMessages
  CardFiles <- MCFiles
  AcceptedAccounts <- MCAccounts
  MaxEvents = 2
  NetBudgets <- MCNetBudgets
  Devices = {d1, d2}
  Pages = {p}
  Tokens = {1, 2}
  Ids = {1, 2}
  Reports <- MCReports
  Seconds = {1}
  ImageTypes = {"jpg", "gif"}
  PageSize = 1
  Budgets <- MCBudgets
  People = {ada, bob}
  Administrator = ada
  Names = {"n1"}
  MaxPasswords = 4
  MaxRestarts = 1
  Starts <- MCStarts
  Bodies <- MCBodies
  Sample = 10
  MaxRounds = 288
  MaxRefinements = 120
  MaxPoints = 60
  GpsRing = 4
  Reads = 8
  LeastPerSleep = 2
  MostPerSleep = 3
CHECK_DEADLOCK FALSE
INVARIANTS ServicesTypeOK WholeMessages CompletedHasPicture FetchedWasHanded ListingAgrees
  AlwaysAdmin OwnAccounts FoundDates ZenithIsTop
PROPERTIES Boots Online OnceUnlessRace FixFound
