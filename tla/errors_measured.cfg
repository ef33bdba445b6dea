\* One life of a process, one request at a time.
SPECIFICATION PSpec
CONSTANTS
  Values <- Strings
  Unset = unset
  Rejected <- Refused
  Shells <- ShellsOfOps
  Files <- FilesOfOps
  MaxBoots = 1
  Slots = {r1}
  MaxTokens = 1
INVARIANT ErrorsMeasured
