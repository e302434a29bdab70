SPECIFICATION TurnSpec
CONSTANTS
  A = A
  B = B
  Device = {A, B}
  Greater = A
  Starts <- Both
  Texts <- OneWay
  None = None
  MaxMinute = 1
  Faults = {"replay", "fail", "crash", "prekey"}
  MaxFault = 1
  Points = {}
INVARIANTS ReceiptTruth AbandonedNeverAccepted ConfirmedIsShared
