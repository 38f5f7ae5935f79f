SPECIFICATION Spec

CONSTANT MaxAttempts = 2

INVARIANTS
  TypeOK
  ChecksFirst
  HearsTheAnswer
  MeasuredAsRun

PROPERTY ImplementsOneCall

CHECK_DEADLOCK FALSE
