SPECIFICATION Spec
CONSTANTS
  Vars = {"a", "b"}
  Tools = {"tool"}
  MaxObjects = 2
  MaxItems = 2
  MaxEdits = 4
CHECK_DEADLOCK FALSE
PROPERTIES Faithful Stable
