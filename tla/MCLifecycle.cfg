SPECIFICATION Spec
CONSTANTS
  c1 = c1
  c2 = c2
  c3 = c3
  o1 = o1
  o2 = o2
  t1 = t1
  t2 = t2
  t3 = t3
  t4 = t4
  NoTree = NoTree
  NoObject = NoObject
  Call <- Calls
  Object <- Objects
  Tree <- Trees
SYMMETRY Alike
INVARIANTS Consistent LiveInUse
PROPERTIES OneTree Answered
CHECK_DEADLOCK FALSE
