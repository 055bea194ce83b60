\* Two catalogs share a service with windows of two pages; a third one grows
\* while it is crawled page by page.
CONSTANTS
  r1 = r1
  r2 = r2
  r3 = r3
  eep = eep
  zakup = zakup
  lots = lots
  points = points
  adverts = adverts
  Runs = {r1, r2, r3}
  Services = {eep, zakup}
  Catalogs = {lots, points, adverts}
  ServiceOf <- MCServiceOf
  CatalogOf <- MCCatalogOf
  Concurrency <- MCConcurrency
  Resumes = {r1, r2}
  StartPage <- MCStartPage
  MaxPages <- MCMaxPages
  Size <- MCSize
  Growing = {adverts}
  Budget <- MCBudget
SPECIFICATION FairSpec
INVARIANTS
  TypeOK
  RequestsCapped
  CompletedCoversCatalog
PROPERTIES
  LeavesNoGap
  RunsEnd
CHECK_DEADLOCK FALSE
