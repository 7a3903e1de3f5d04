SPECIFICATION Spec
CONSTANTS
  Client = {c1, c2}
  Kind = {"vfs", "cd", "exit", "exit_words", "blank", "long", "bad_offset"}
  Userlist <- TwoLinesOfJake
  Login <- JakesLogins
  Nobody = Nobody
  Syncer = Syncer
  MaxWords = 2
INVARIANTS TypeOK InStep LockedWhileInside OnlyARaceMisleads

PROPERTIES Answered SyncGoesOn
CHECK_DEADLOCK FALSE
