SPECIFICATION Spec
CONSTANT MaxEvents = 0
PROPERTY ExitWaits
