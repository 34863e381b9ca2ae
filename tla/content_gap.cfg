SPECIFICATION Spec
CONSTANTS
  Block = 2
  Overhead = 2
  Header = 2
  Data <- MCData
  MaxLen = 5
  Ids = {1, 2}
  NoId = NoId
  Bad = Bad
  Faults = {"error"}
PROPERTY NewBytesZero
