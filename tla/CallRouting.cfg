CONSTANTS
  Files <- MCFiles
  BadJSON = BadJSON
  MaxReg = 2
  Envs = {{"badAddr", "early", "noBody", "rehome", "addParts"},
          {"noBody", "edit"},
          {"addParts"}}
SPECIFICATION Spec
CHECK_DEADLOCK FALSE
INVARIANTS
  RegistryTrue
  NeverStuck
  SentToRegistered
