SPECIFICATION FairSpec
CONSTANTS
  l1 = l1
  l2 = l2
  Life <- Lives
  Past <- Gone
  Command = {"minimize", "restore", "fullscreen", "disconnect"}
  MaxClick = 1
  MaxTick = 1
INVARIANTS
  ObservedIsTrue
  StuckKeysAreNotDenied
PROPERTIES
  NoPhantomSession
  EveryClickIsAnswered
  ImplementsContract
