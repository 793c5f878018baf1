\* Three requests of one route, one settings update.
\* All requests may end and the updates be over, so the clock alone goes on.
SPECIFICATION FairSpec
CONSTANTS
  a = a
  Requests = {r1, r2, r3}
  r3 = r3
  Routes = {a}
  RouteOf <- MCRouteOf
  Updates = {u1}
  Intervals = {2}
  MaxInterval = 2
  Cooldowns = {2}
  Timeout = 1
  r1 = r1
  r2 = r2
  u1 = u1
INVARIANTS
  NoLostWakeup
  Paced
PROPERTIES
  CooldownHeld
  WaiterReturns
CHECK_DEADLOCK FALSE
