\* Two lives of a process, one request at a time, one login, every way to
\* set the secret.
SPECIFICATION PSpec
CONSTANTS
  Values <- Strings
  Unset = unset
  Rejected <- Refused
  Shells <- ShellsOfOps
  Files <- FilesOfOps
  MaxBoots = 2
  Slots = {r1}
  MaxTokens = 1
INVARIANTS
  PTypeOK
  UpMeansConfigured
  KeysAgree
  AdmittedRightly
  RefusalExplained
  AnswersRecorded
PROPERTIES
  BootSettles
  EveryRequestAnswered
  SigtermEnds
