\* Generators of every kind over lists divided into arrays in every way.
CONSTANTS
  Inputs <- MCInputs
  BlockSizes = {1, 3}
  MaxNodes = 20
  Sentinel = 999
SPECIFICATION Spec
INVARIANTS
  ProducedIsPromised
  AllIsProduced
  ReadsWhatItWrites
PROPERTIES
  Finishes
CHECK_DEADLOCK FALSE
