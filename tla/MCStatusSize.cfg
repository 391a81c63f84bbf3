\* Status frames of 8, 15 and 16 cells exactly as drawn.
SPECIFICATION Spec
CHECK_DEADLOCK FALSE
CONSTANTS
  TelemetryInputs = {}
  StatusInputs <- TestStatusInputs
  CellInputs = {}
  PowerInputs = {}
  RegisterInputs = {}
  EventInputs = {}
  AlarmInputs = {}
  AnswerInputs = {}
  RequestInputs = {}
  OtherChars = {}
  FrameInputs = {}
  Bursts = {}
INVARIANTS
  StatusAsDrawnIsDecoded
