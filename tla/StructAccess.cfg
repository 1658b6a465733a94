\* The middle region of four, of three cells; elements as large as the sandbox's, and wider.
\* A failed range check and a stray access end the process: the system may stop.
CONSTANTS
  Modulus = 12
  RegionSize = 3
  Home = 1
  CellValues = 4
  LibraryBits = {0, 3}
  Targets = {3, 5}
  ElementCells = {1, 2}
  Counts = {0, 1, 3, 11}
  StoreTargets = {4}
  StoreValues <- MCStoreValues
  NoValue = NoValue
  Fields <- MCFields
  Link = Link
  AppPointers = {0, 3, 5, 8}
  Operands <- MCOperands
  NoPointer = NoPointer
SPECIFICATION StructSpec
CHECK_DEADLOCK FALSE
INVARIANTS StructTypeOK StraysOnlyIfTakenAway AlwaysTerminated ExactWhenQuiet EndIsJustified StoredIsRead
  ReadsWereThere StoresArePrefixes PointersComeHome
