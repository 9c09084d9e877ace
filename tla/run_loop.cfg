SPECIFICATION RunSpec
CONSTANTS
  LobbyId = {l1}
  TimerId <- TwoTimers
  Duration = {1, 2}
  TickRate = 2
  TimerInterval = 1
  TickHook = TRUE
  MaxWrite = 2
  MaxLag = 3
  MaxStarts = 3
INVARIANTS
  RunTypeOK

  
CHECK_DEADLOCK FALSE
