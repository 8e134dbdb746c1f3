\* Calls, scopes, messages, handlers and exceptions in any nesting.
CONSTANTS
  a = a
  f0 = f0
  f2 = f2
  Values = {a}
  Zero = Zero
  Aggregate = a
  Main = Main
  Funs <- MCFuns
  NumArgs <- MCNumArgs
  NumLocals <- MCNumLocals
  Takes = {1, 2}
  MaxStack = 3
  MaxFrames = 4
SPECIFICATION Spec
INVARIANTS
  CallersValuesKept
  LocalsKept
  NothingSwallowed
CHECK_DEADLOCK FALSE
