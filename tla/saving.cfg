SPECIFICATION AllSpec
CONSTANTS
  Devices = {"d1", "d2"}
  Cards = {"d2"}
  HistoryLen = 2
  MaxAttempts = 2
  MaxEdits = 2
  MaxDeletes = 1
  MaxEvents = 1
  MaxActs = 3
  ConfEdits = 2
  ConfEvents = 2
  ConfActs = 3
CHECK_DEADLOCK FALSE

  
  
PROPERTIES
  EveryoneAnswered
  DevicesConverge
  SavesSettle
