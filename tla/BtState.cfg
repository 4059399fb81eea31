\* The state manager, the microstack's stop and the HAL's crash.
SPECIFICATION FairSpec
CONSTANTS
  Channel = {hci}
  MaxLives = 2
  MaxOn = 2
  MaxTraffic = 1
  MaxCrash = 2
  PipeSize = 9
INVARIANTS PostsFindAStack OnIsReal NothingLeftOver
PROPERTIES WipedOnlyInStop OffAnswered ChannelReopened
\* The HAL may stay down, and a microstack asked to stop by a user waits
\* for a dead controller.
CHECK_DEADLOCK FALSE
