SPECIFICATION Spec
CONSTANTS
  overlay = overlay
  watchdog = watchdog
  uiThread = uiThread
  Ticker <- Tickers
  Frame = uiThread
  Interval = 2
  Width = 64
  MaxClock = 5
SYMMETRY Symmetry
INVARIANTS
  ActiveIsNoOlderThanItsTick
  NoSessionAfterUnload
CHECK_DEADLOCK FALSE
