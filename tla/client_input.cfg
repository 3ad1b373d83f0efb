\* How one client's bytes become keys and controls, in any pieces.
CONSTANTS
  MaxControl = 7
  MaxRead = 9
  Byte <- AnyByte
  Input <- AnyInput
SPECIFICATION FairSpec
INVARIANTS TypeOK OnlyBeginningsWait
PROPERTIES ImplementsTypedInput HostCatchesUp
\* Nothing happens any more once a client is gone.
CHECK_DEADLOCK FALSE
