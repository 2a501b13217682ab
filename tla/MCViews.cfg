SPECIFICATION ViewsSpec
CONSTANTS
  Keys <- MCKeys
  ColumnOf <- MCColumnOf
  RawJdls <- MCRawJdls
  SourceColumns <- MCSourceColumns
  ContractFields <- MCContractFields
  NulledFields <- MCNulledFields
  ShippedPassthrough = {}
  Jobs = {1, 2}
  MaxResets = 1
  MaxRegenerations = 1
INVARIANTS
  ViewsTypeOK
  SchemaFollowsData
  FreezeNeverTrips
  RowsKeepTheirJdl
  ExitZeroAppliesAll
  StrictGate
  GapCanBeClosed
PROPERTIES
  ViewsOnlyAfterCleanCheck
