SPECIFICATION Spec
CONSTANTS
  drive = drive
  claw = claw
  tcp = tcp
  key = key
  NoName = NoName
  Tags <- TagSet
  Keys <- KeySet
  MaxLines = 6
  MaxLevel = 4
  MaxAgain = 3
  Sections <- SectionOrder
  Divided = 1
  Part = claw
CHECK_DEADLOCK FALSE
INVARIANTS TypeOK EndlessOnlyInside TreeRead NoDangling SectionsKept
