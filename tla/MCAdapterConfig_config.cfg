CONSTANTS
  NoFile = NoFile
  Documents <- BlockDocuments
  Flags <- MCFlags
  WithPlus <- MCWithPlus
  Countries <- MCCountries
  EnvFiles <- MCEnvFiles
  Requesters <- MCRequesters
SPECIFICATION Spec
INVARIANTS
  RecipientsRight
  StartsIfConfigured
CHECK_DEADLOCK FALSE
