SPECIFICATION Spec
CONSTANTS
  DataSizes = {0, 1, 226, 227, 228, 239, 240, 241, 242, 249, 250, 251, 252, 253, 254, 255, 256}
INVARIANTS CommandArrives ResultsArrive EventsArrive AnswerRecognised
CHECK_DEADLOCK FALSE
