SPECIFICATION Spec
CONSTANT Calls = {"seek", "speed", "audio", "subtitle", "resume", "pause", "stop"}
INVARIANTS
  TypeOK
  TouchAlone
  LeftRunning
  PauseKept
  NoLostWakeUp
PROPERTY GatesKept
