\* Every cell count; telemetry frames from the smallest to the largest the bus passes on;
\* status frames up to the largest assemble() passes on, with and without bytes to spare.
SPECIFICATION Spec
CHECK_DEADLOCK FALSE
CONSTANTS
  TelemetryInputs <- MCTelemetryInputs
  StatusInputs <- MCStatusInputs
  CellInputs <- MCCellInputs
  PowerInputs <- MCPowerInputs
  RegisterInputs <- MCRegisterInputs
  EventInputs <- MCEventInputs
  AlarmInputs <- MCAlarmInputs
  AnswerInputs <- MCAnswerInputs
  RequestInputs <- MCRequestInputs
  OtherChars <- MCOtherChars
  FrameInputs <- MCFrameInputs
  Bursts <- MCBursts
INVARIANTS
  TelemetryAsDocumented
  StatusReadWhereDrawn
  StatisticsAreOfCells
  RegistersAsDocumented
  PowerIsSplit
  EventsAsDocumented
  AlarmsNamedOnce
  FieldsAreInFrame
  OnlyPaddingIsTrimmed
  TransmissionIsChecked
