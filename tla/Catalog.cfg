SPECIFICATION Spec
CONSTANTS
  NoName = NoName
  NoCatalog = NoCatalog
  Missing = Missing
  Damaged = Damaged
  City = City
  User = User
  KNOWS = KNOWS
  Latin1 = Latin1
  g = g
  social = social
  Programs <- MCPrograms
  GraphNames = {g, social}
  Length <- MCLength
  Unencodable = {Latin1}
  MAX_FAULTS = 2
INVARIANTS TypeOK AcknowledgedReads CrashKeepsCatalog
CHECK_DEADLOCK FALSE
