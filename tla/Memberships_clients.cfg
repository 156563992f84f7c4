SPECIFICATION Spec

CONSTANTS
  Sets <- MCSets
  Accounts <- MCAccounts
  MAX_MEMBERSHIP_DEPTH = 2
  Name <- MCName
  ExternalId <- MCExternalId
  NoValue = 0
  Today = 2
  Tables <- MCTables
  Menu <- MCMenu
  PageSizes = {1, 2}
  MaxTime = 2

CHECK_DEADLOCK FALSE

INVARIANTS
  TypeOK
  VerdictExact
  BlamesFirst
  WalkComplete
  PagesExact
  GraphSound
  SetHistoryIsItsMembers
