SPECIFICATION Spec
CONSTANTS
  Inputs <- MCInputs
  Readers = {"Partial"}
INVARIANT
  SentencesHaveTheirComments
