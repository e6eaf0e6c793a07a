SPECIFICATION InitiatorSpec
CONSTANTS
  Input = {"newline", "~"}
  MaxFrame = 1
  MinPress = 2
  Codes = {0, 3}
  EventRoom = 2
  MaxRead = 1
  MaxTyped = 1
  MaxSaid = 1
PROPERTIES
  FallbackServed
CHECK_DEADLOCK FALSE
