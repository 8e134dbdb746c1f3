\* What the help of try says, which the code does not do.
CONSTANTS
  a = a
  f0 = f0
  f2 = f2
  Values = {a}
  Zero = Zero
  Aggregate = a
  Main = Main
  Funs <- MCFuns
  NumArgs <- MCNumArgs
  NumLocals <- MCNumLocals
  Takes = {1, 2}
  MaxStack = 3
  MaxFrames = 4
SPECIFICATION Spec
PROPERTIES
  TryRecovers
CHECK_DEADLOCK FALSE
