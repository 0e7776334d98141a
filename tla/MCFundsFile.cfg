SPECIFICATION Spec
CONSTANTS
  Writers = {"run", "add"}
  Commands = {"add"}
  Edits = {1, 2, 3}
INVARIANTS
  NoEditIsLost
PROPERTIES
  BackupIsWhatWasReplaced
