SPECIFICATION UsersSpec
CONSTANTS
  y22 = y22
  y2022 = y2022
  Name = Name
  aClass = aClass
  aWord = aWord
  Users = {u1, u2}
  Supers = {s}
  Fields = {"name"}
  Groups = {g}
  Qqs = {q1, q2}
  Numbers = {n}
  Codes = {c1, c2, old}
  LowerCodes = {old}
  Classes = {aClass}
  Words = {aWord}
  YearOf <- MCYearOf
  Years = {y22}
  Legacy = y2022
  None = None
  Anon = Anon
  Messages <- MCMessages
  MaxEdits = 3
  MaxTroubles = 1
  MaxQueue = 3
SYMMETRY MCSymmetry
INVARIANTS BoundIsKept CodesAreNotReused InStep Forgotten
CHECK_DEADLOCK FALSE
