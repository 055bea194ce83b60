\* Three sessions, four transactions of which one may fail; a transaction and
\* two exports; a notice with up to five lots in pages of two.
CONSTANTS
  c1 = c1
  c2 = c2
  NoContent = NoContent
  NoSession = NoSession
  Entities <- MCEntities
  Contents = {c1, c2}
  Batches <- MCBatches
  Revisions = TRUE
  Sessions = {s1, s2, s3}
  Budget <- MCBudget
  SourceOf <- MCSourceOf
  Combined = "combined"
  FileOrder <- MCFileOrder
  ExportBudget <- MCExportBudget
  NoticeLotIds = {1, 2, 3, 4, 5}
  PageSize = 2
  LotsBudget <- MCLotsBudget
SPECIFICATION MCSpec
INVARIANTS
  TypeOK
  ExportIsOneSnapshot
  MissesOnlyForRemoved
PROPERTIES
  PersistsAreAtomic
  TransactionsEnd
CHECK_DEADLOCK FALSE
