SPECIFICATION Spec
CONSTANTS
  Inputs <- MCInputs
  Readers = {"Raw", "Partial"}
INVARIANTS
  NoLineLostOrRepeated
  RawCommentsAreTheirOwn
PROPERTY
  EndsIfFilesOpen
