CONSTANTS
  NoFile = NoFile
  Documents <- FlowDocuments
  Flags <- MCFlags
  WithPlus <- MCWithPlus
  Countries <- MCCountries
  EnvFiles <- MCEnvFiles
  Requesters <- MCRequesters
SPECIFICATION Spec
INVARIANTS
  RecipientsRight
CHECK_DEADLOCK FALSE
