\* Two requests of one route, one of which may be told to wait longer than the
\* first-byte timeout.
SPECIFICATION Spec
CONSTANTS
  a = a
  Requests = {r1, r2}
  Routes = {a}
  RouteOf <- MCRouteOf
  Updates = {}
  Intervals = {1}
  MaxInterval = 1
  Cooldowns = {3}
  Timeout = 2
  r1 = r1
  r2 = r2
INVARIANTS
  TicketsHaveOwners
CHECK_DEADLOCK FALSE
