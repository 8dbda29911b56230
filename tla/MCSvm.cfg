CONSTANTS
  IntMax = 2
  StackMax = 4
  Sources <- Usual
  Loaded <- Image
SPECIFICATION MachineSpec
INVARIANTS
  Runnable
  EndsAsMeant
PROPERTY
  Ends
