SPECIFICATION Spec
CONSTANTS
  Groups = {g1}
  Default = default
  Users = {admin}
  Manages <- MCManages
  Columns = {mute, export}
  Keywords = keywords
  Lists = {roster}
  Foreign = announcements
  Words = {a}
  MaxList = 1
  MaxEdits = 3
  MaxTroubles = 1
  MaxQueue = 3
CHECK_DEADLOCK FALSE
INVARIANTS RestartChangesNothing ClearedFallsBack
