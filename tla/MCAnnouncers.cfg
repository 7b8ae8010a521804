CONSTANTS
  HostCount = 3
  PortCount = 2
  Listener = Listener
SPECIFICATION FairSpec
CHECK_DEADLOCK FALSE
INVARIANT JoinedBeforeFreed
PROPERTIES StopsUnlessPingHangs EverySocketServed
