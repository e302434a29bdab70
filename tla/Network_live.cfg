SPECIFICATION FairSpec
CONSTANTS
  A = A
  B = B
  Device = {A, B}
  Greater = A
  Starts <- AOrBoth
  Texts <- OneWay
  None = None
  MaxMinute = 1
  Faults = {"lose", "crash"}
  MaxFault = 1
  Points = {}
PROPERTY TextsSettle
