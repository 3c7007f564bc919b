SPECIFICATION PartSpec
CONSTANTS
  c1 = c1
  NoOne = NoOne
PROPERTY WaitingIsServed
PROPERTY HeadsSettle
PROPERTY BegunEnds
PROPERTY OperatorIsTold
CHECK_DEADLOCK FALSE
