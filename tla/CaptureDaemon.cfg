\* Two devices and two goroutine slots: a device that comes back while its
\* old goroutine is still being stopped competes with the other device.
CONSTANTS
  Devices = {d1, d2}
  Runners = {r1, r2}
  MaxFails = 2
  NoRunner = NoRunner
SPECIFICATION FairSpec
INVARIANTS NoOrphanRunner OneActiveRunner AnnouncementsMatch
PROPERTIES StableDeviceIsServed StopsAreServed
CHECK_DEADLOCK FALSE
