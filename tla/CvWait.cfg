\* Three publishes: the waiter can be parked, woken and parked again.
CONSTANT MaxProgress = 3
SPECIFICATION WaitLiveSpec
INVARIANTS
  NoLostWakeup
PROPERTY PublishedIsSeen
