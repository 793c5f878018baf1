------------------------------ MODULE Governor ------------------------------
(***************************************************************************)
(* The provider request governor (src-agent-daemon/src/governor.rs): every  *)
(* provider request of the daemon queues for a ticket of its route          *)
(* (provider, key), is sent when it is at the front, the route's interval   *)
(* has passed and no rate limit cools the route, and wakes the others.      *)
(* The waiters share one tokio Notify and each sleeps on its own timer.     *)
(*                                                                          *)
(* Time is relative: age counts up from the last send, cool, timer and left *)
(* count down, all at the same Tick, so no clock has to be bounded.         *)
(* Tickets are handed out and queued under one lock, so the VecDeque of a   *)
(* route is the set of its queued requests in the order of their tickets.   *)
(* One provider request acquires once.                                      *)
(***************************************************************************)
EXTENDS Integers, FiniteSets

CONSTANTS Requests,    \* provider requests
          Routes,      \* (provider, key) pairs
          RouteOf,     \* the route of a request
          Updates,     \* engine.rateLimit.update calls
          Intervals,   \* ticks between sends, 60 s / requests_per_minute
          MaxInterval, \* bound of Intervals: an older send does not delay
          Cooldowns,   \* ticks of a Retry-After, or of the default of 60 to 62 s
          Timeout      \* ticks RoutedProvider waits for the first byte

ASSUME RouteOfRequests == RouteOf \in [Requests -> Routes]
ASSUME IntervalsBounded ==
  /\ MaxInterval \in Nat
  /\ Intervals \subseteq 1..MaxInterval
ASSUME CooldownsNat == Cooldowns \subseteq Nat
ASSUME TimeoutNat == Timeout \in Nat

VARIABLES
  enabled, interval, \* GovernorState.settings
  age,       \* by route: ticks since last_sent, MaxInterval when long ago or never
  cool,      \* by route: ticks until cooling_until
  next,      \* next_ticket
  ticket,    \* by request: its ticket
  queued,    \* the requests whose tickets are in the queue of their route
  pc,        \* where each request is
  woken,     \* by request: its Notified future has been notified
  timer,     \* by request: ticks its sleep has left, Never when it has none
  left,      \* by request: ticks until the first-byte timeout
  cancelled, \* the waiting requests whose run was cancelled
  upd,       \* where each settings update is
  ago,       \* history, by request: ticks since its paced send, as age
  hold       \* history, by request: ticks left of the cooldown its answer asked for

vars == <<enabled, interval, age, cool, next, ticket, queued, pc, woken, timer, left,
          cancelled, upd, ago, hold>>

Never == -1

Acquiring == {"check", "wait", "unlink"}
Notifying == {"granted", "revoked", "limited"}
Labels    == {"idle", "sent", "done", "dropped"} \cup Acquiring \cup Notifying

Init ==
  /\ enabled \in BOOLEAN
  /\ interval \in Intervals
  /\ age = [rt \in Routes |-> MaxInterval]
  /\ cool = [rt \in Routes |-> 0]
  /\ next = 0
  /\ ticket = [r \in Requests |-> 0]
  /\ queued = {}
  /\ pc = [r \in Requests |-> "idle"]
  /\ woken = [r \in Requests |-> FALSE]
  /\ timer = [r \in Requests |-> Never]
  /\ left = [r \in Requests |-> Timeout]
  /\ cancelled = {}
  /\ upd = [u \in Updates |-> "idle"]
  /\ ago = [r \in Requests |-> MaxInterval]
  /\ hold = [r \in Requests |-> 0]

----------------------------------------------------------------------------
settings == <<enabled, interval>>
tickets  == <<next, ticket>>
history  == <<ago, hold>>

Goto(r, label) == pc' = [pc EXCEPT ![r] = label]

\* The front of the queue of r's route.
Front(r) ==
  /\ r \in queued
  /\ \A q \in queued : RouteOf[q] = RouteOf[r] => ticket[r] <= ticket[q]

AllowedInUncooled(rt) == interval - age[rt] \* variant: cooling_until is not asked

\* Ticks until last_sent + interval and until cooling_until, whichever is later.
AllowedIn(rt) ==
  IF interval - age[rt] > cool[rt] THEN interval - age[rt] ELSE cool[rt]

\* Every Notified that exists is notified: a waiter makes its own before it
\* looks at the state.
NotifyWaiters ==
  woken' = [r \in Requests |-> woken[r] \/ pc[r] \in {"check", "wait"}]

\* The future of acquire ends, or its select! drops what it waited on.
Forget(r) ==
  /\ woken' = [woken EXCEPT ![r] = FALSE]
  /\ timer' = [timer EXCEPT ![r] = Never]

\* The ticket leaves the queue; nobody watches the token any more.
Dequeue(r) ==
  /\ queued' = queued \ {r}
  /\ ticket' = [ticket EXCEPT ![r] = 0]
  /\ left' = [left EXCEPT ![r] = Timeout]
  /\ cancelled' = cancelled \ {r}
  /\ UNCHANGED next

----------------------------------------------------------------------------
(* acquire *)

Enter(r) ==
  /\ pc[r] = "idle"
  /\ next' = next + 1
  /\ ticket' = [ticket EXCEPT ![r] = next + 1]
  /\ queued' = queued \cup {r}
  /\ Goto(r, "check")
  /\ UNCHANGED <<settings, age, cool, woken, timer, left, cancelled, upd, history>>

BypassDisabled(r) ==
  /\ pc[r] = "check" /\ ~enabled
  /\ Dequeue(r) /\ Forget(r)
  /\ Goto(r, "granted")
  /\ UNCHANGED <<settings, age, cool, upd, history>>

SendUnrecorded(r) == \* variant: last_sent is not set
  /\ pc[r] = "check" /\ enabled /\ Front(r)
  /\ AllowedIn(RouteOf[r]) <= 0
  /\ Dequeue(r) /\ Forget(r)
  /\ ago' = [ago EXCEPT ![r] = 0]
  /\ Goto(r, "granted")
  /\ UNCHANGED <<settings, age, cool, upd, hold>>

Send(r) ==
  /\ pc[r] = "check" /\ enabled /\ Front(r)
  /\ AllowedIn(RouteOf[r]) <= 0
  /\ Dequeue(r) /\ Forget(r)
  /\ age' = [age EXCEPT ![RouteOf[r]] = 0]
  /\ ago' = [ago EXCEPT ![r] = 0]
  /\ Goto(r, "granted")
  /\ UNCHANGED <<settings, cool, upd, hold>>

\* The front sleeps until it is allowed, the others only on the Notify.
Wait(r) ==
  /\ pc[r] = "check" /\ enabled
  /\ \/ /\ Front(r) /\ AllowedIn(RouteOf[r]) > 0
        /\ timer' = [timer EXCEPT ![r] = AllowedIn(RouteOf[r])]
     \/ ~Front(r) /\ UNCHANGED timer
  /\ Goto(r, "wait")
  /\ UNCHANGED <<settings, age, cool, tickets, queued, woken, left, cancelled, upd, history>>

\* notified, or the timer: the loop starts again with a new Notified.
Wake(r) ==
  /\ pc[r] = "wait"
  /\ woken[r] \/ timer[r] = 0
  /\ Forget(r)
  /\ Goto(r, "check")
  /\ UNCHANGED <<settings, age, cool, tickets, queued, left, cancelled, upd, history>>

SeeCancel(r) ==
  /\ pc[r] = "wait" /\ r \in cancelled
  /\ Forget(r)
  /\ Goto(r, "unlink")
  /\ UNCHANGED <<settings, age, cool, tickets, queued, left, cancelled, upd, history>>

UnlinkQuietly(r) == \* variant: remove_ticket does not notify
  /\ pc[r] = "unlink"
  /\ Dequeue(r)
  /\ Goto(r, "done")
  /\ UNCHANGED <<settings, age, cool, woken, timer, upd, history>>

Unlink(r) ==
  /\ pc[r] = "unlink"
  /\ Dequeue(r)
  /\ Goto(r, "revoked")
  /\ UNCHANGED <<settings, age, cool, woken, timer, upd, history>>

\* What follows the notification: the request is sent, refused, or over.
After(label) ==
  IF label = "granted" THEN "sent" ELSE "done"

NotifyOnlyErrors(r) == \* variant: a granted ticket does not wake the next one
  /\ pc[r] \in Notifying
  /\ IF pc[r] = "granted" THEN UNCHANGED woken ELSE NotifyWaiters
  /\ Goto(r, After(pc[r]))
  /\ UNCHANGED <<settings, age, cool, tickets, queued, timer, left, cancelled, upd, history>>

\* The lock is released before notify_waiters is called.
NotifyAll(r) ==
  /\ pc[r] \in Notifying
  /\ NotifyWaiters
  /\ Goto(r, After(pc[r]))
  /\ UNCHANGED <<settings, age, cool, tickets, queued, timer, left, cancelled, upd, history>>

\* RoutedProvider's first-byte timeout covers acquire: when it fires, the
\* future is dropped at the await it is at and nothing of it runs any more.
TimeOut(r) ==
  /\ pc[r] \in Acquiring /\ left[r] = 0
  /\ Forget(r)
  /\ cancelled' = cancelled \ {r}
  /\ Goto(r, "dropped")
  /\ UNCHANGED <<settings, age, cool, tickets, queued, left, upd, history>>

----------------------------------------------------------------------------
(* The provider's answer and record_rate_limit. *)

Answer(r) ==
  /\ pc[r] = "sent"
  /\ Goto(r, "done")
  /\ UNCHANGED <<settings, age, cool, tickets, queued, woken, timer, left, cancelled,
                 upd, history>>

\* existing.max(candidate)
Cooled(old, new) == IF old > new THEN old ELSE new

RateLimited(r) ==
  /\ pc[r] = "sent"
  /\ \E d \in Cooldowns :
       /\ cool' = [cool EXCEPT ![RouteOf[r]] = Cooled(@, d)]
       /\ hold' = [hold EXCEPT ![r] = d]
  /\ Goto(r, "limited")
  /\ UNCHANGED <<settings, age, tickets, queued, woken, timer, left, cancelled, upd, ago>>

----------------------------------------------------------------------------
(* Cancellation of a run, update_settings, time. *)

Cancel(r) ==
  /\ pc[r] \in {"check", "wait"}
  /\ cancelled' = cancelled \cup {r}
  /\ UNCHANGED <<settings, age, cool, tickets, queued, pc, woken, timer, left, upd, history>>

UpdateSettings(u) ==
  /\ upd[u] = "idle"
  /\ enabled' \in BOOLEAN
  /\ interval' \in Intervals
  /\ upd' = [upd EXCEPT ![u] = "notify"]
  /\ UNCHANGED <<age, cool, tickets, queued, pc, woken, timer, left, cancelled, history>>

NotifyUpdate(u) ==
  /\ upd[u] = "notify"
  /\ NotifyWaiters
  /\ upd' = [upd EXCEPT ![u] = "done"]
  /\ UNCHANGED <<settings, age, cool, tickets, queued, pc, timer, left, cancelled, history>>

Less(n)  == IF n > 0 THEN n - 1 ELSE n
More(n)  == IF n < MaxInterval THEN n + 1 ELSE n

\* A tick is seconds and the code between two awaits is not: time passes only
\* while nobody has anything to do but to sleep or to wait for its provider.
Asleep(r) == pc[r] = "wait" /\ ~woken[r] /\ timer[r] # 0 /\ r \notin cancelled

Tick ==
  /\ \A r \in Requests : pc[r] \in Acquiring \cup Notifying => Asleep(r)
  /\ \A u \in Updates : upd[u] # "notify"
  /\ age' = [rt \in Routes |-> More(age[rt])]
  /\ cool' = [rt \in Routes |-> Less(cool[rt])]
  /\ timer' = [r \in Requests |-> Less(timer[r])]
  /\ left' = [r \in Requests |-> IF pc[r] \in Acquiring THEN Less(left[r]) ELSE left[r]]
  /\ ago' = [r \in Requests |-> More(ago[r])]
  /\ hold' = [r \in Requests |-> Less(hold[r])]
  /\ UNCHANGED <<settings, tickets, queued, pc, woken, cancelled, upd>>

----------------------------------------------------------------------------
\* The steps the runtime owes a request that has entered; its answer, its
\* timeout and its cancellation may never come.
Proceed(r) ==
  \/ BypassDisabled(r) \/ Send(r) \/ Wait(r) \/ Wake(r) \/ SeeCancel(r) \/ Unlink(r)
  \/ NotifyAll(r)

Next ==
  \/ \E r \in Requests :
       \/ Enter(r) \/ Proceed(r) \/ TimeOut(r) \/ Answer(r) \/ RateLimited(r) \/ Cancel(r)
  \/ \E u \in Updates : UpdateSettings(u) \/ NotifyUpdate(u)
  \/ Tick

Spec == Init /\ [][Next]_vars

FairSpec ==
  /\ Spec
  /\ \A r \in Requests : WF_vars(Proceed(r))
  /\ \A u \in Updates : WF_vars(NotifyUpdate(u))
  /\ WF_vars(Tick)

----------------------------------------------------------------------------
(* Correctness.                                                             *)

\* The types: no timer, age or cooldown of governor.rs runs below its end.
TypeOK ==
  /\ enabled \in BOOLEAN /\ interval \in Intervals
  /\ age \in [Routes -> 0..MaxInterval] /\ cool \in [Routes -> Nat]
  /\ next \in Nat /\ ticket \in [Requests -> Nat]
  /\ queued \subseteq Requests
  /\ pc \in [Requests -> Labels]
  /\ woken \in [Requests -> BOOLEAN]
  /\ timer \in [Requests -> Nat \cup {Never}]
  /\ left \in [Requests -> Nat]
  /\ cancelled \subseteq Requests
  /\ upd \in [Updates -> {"idle", "notify", "done"}]
  /\ ago \in [Requests -> 0..MaxInterval] /\ hold \in [Requests -> Nat]

NotificationDue ==
  \/ \E r \in Requests : pc[r] \in Notifying
  \/ \E u \in Updates : upd[u] = "notify"

\* No waiter sleeps past the moment it could be sent: one that was not woken
\* is behind another ticket, or its timer ends no later than its route is
\* free, or somebody is about to call notify_waiters.
NoLostWakeup ==
  \A r \in Requests : pc[r] = "wait" /\ ~woken[r] =>
    \/ NotificationDue
    \/ enabled /\ ~Front(r)
    \/ enabled /\ timer[r] \in 0..AllowedIn(RouteOf[r])

\* Two requests sent through the queue of a route are an interval apart.
Paced ==
  \A r, q \in Requests :
    /\ r # q /\ RouteOf[r] = RouteOf[q]
    /\ ago[r] < MaxInterval /\ ago[q] < MaxInterval
    => \E i \in Intervals : ago[r] - ago[q] >= i \/ ago[q] - ago[r] >= i

\* While the governor is enabled, nothing is sent on a route of which any
\* answer has asked to wait longer.
CooldownHeld ==
  [][\A r \in Requests :
       enabled /\ pc[r] = "check" /\ pc'[r] = "granted" =>
         \A q \in Requests : RouteOf[q] = RouteOf[r] => hold[q] = 0]_vars

Leaked == \E r \in queued : pc[r] = "dropped"

\* Every request that took a ticket is sent, refused or given up, as long as
\* no ticket of a dropped request is left in a queue.
WaiterReturns ==
  \A r \in Requests : (pc[r] = "check") ~> (pc[r] \notin Acquiring \/ Leaked)

\* The test cooldown_blocks_the_route: "A timed-out waiter must explicitly
\* cancel so its FIFO ticket is removed."  A ticket in a queue has an owner.
TicketsHaveOwners == \A r \in queued : pc[r] # "dropped"
=============================================================================
