SPECIFICATION Spec
CONSTANTS
  Slots = 4
  MaxChars = 5
  MaxXmit = 2
  ConsoleChars = 2
  DrainInCall = 2
INVARIANTS
  RxOn
