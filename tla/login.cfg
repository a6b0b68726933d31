\* Two production and two test DCs, two keys from each, AUTH_MAX_MIGRATIONS redirects.
CONSTANTS
  DC <- DCs
  Key <- Keys
  MaxDcs = 4
  StartDc <- Starts
  MaxMigrations = 3
  NoKey = NoKey
  SaveFaults <- NoFaults
SPECIFICATION Spec

INVARIANTS StoredKeysMatch  CodeFromSameKey SameEnvironment
 
