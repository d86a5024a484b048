SPECIFICATION QuickSpec
CONSTANTS
  SliderValues = {0, 60}
  WebValues = {250}
  Messages = {m1}
  NoMessage = NoMessage
  kAutoDismiss = 1
  MaxNotifications = 1
  MaxQuickEvents = 4
INVARIANT BrightnessReadBack
CHECK_DEADLOCK FALSE
