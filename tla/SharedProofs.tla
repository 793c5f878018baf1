--------------------------- MODULE SharedProofs ---------------------------
(***************************************************************************)
(* What runs share. The provider request governor, for any set of          *)
(* requests, routes and settings updates, and any intervals, cooldowns and *)
(* timeout: no wake-up is lost, sends of a route are an interval apart,    *)
(* and nothing is sent while an answer has asked to wait. The MCP server,  *)
(* for any number of runs, requests of the user, children and calls: every *)
(* child that lives has a record that will stop it, and the answer of a    *)
(* call that waits is still to come.                                       *)
(***************************************************************************)
EXTENDS Governor, McpServers, TLAPS

(***************************************************************************)
(* Types.                                                                  *)
(***************************************************************************)

\* Until when a route is closed is a number of ticks.
LEMMA AllowedInIsInt ==
  ASSUME TypeOK, NEW rt \in Routes
  PROVE  /\ AllowedIn(rt) \in Int
         /\ AllowedIn(rt) >= cool[rt] /\ AllowedIn(rt) >= interval - age[rt]
         /\ AllowedIn(rt) = cool[rt] \/ AllowedIn(rt) = interval - age[rt]
<1>1. cool[rt] \in Nat /\ age[rt] \in Int /\ interval \in Int
  BY IntervalsBounded DEF TypeOK
<1> QED  BY <1>1 DEF AllowedIn

\* A later cooldown never shortens an earlier one.
LEMMA MaxIsOwed ==
  ASSUME NEW a \in Nat, NEW b \in Nat
  PROVE  Cooled(a, b) \in Nat /\ Cooled(a, b) >= a /\ Cooled(a, b) >= b
BY DEF Cooled

\* The types hold first.
LEMMA TypesHoldFirst == Init => TypeOK
BY IntervalsBounded, TimeoutNat DEF Init, TypeOK, Labels, Acquiring, Notifying, Never

\* The steps of acquire.
LEMMA AcquireTypes ==
  ASSUME TypeOK, NEW r \in Requests,
         Enter(r) \/ Proceed(r) \/ TimeOut(r)
  PROVE  TypeOK'
<1> USE IntervalsBounded, TimeoutNat, RouteOfRequests
        DEF TypeOK, Labels, Acquiring, Notifying, settings, tickets, history, Goto, Dequeue,
            Forget
<1>1. CASE Enter(r)
  BY <1>1 DEF Enter
<1>2. CASE BypassDisabled(r)
  BY <1>2 DEF BypassDisabled, Never
<1>3. CASE Send(r)
  BY <1>3 DEF Send, Never
<1>4. CASE Wait(r)
  <2>1. RouteOf[r] \in Routes
    OBVIOUS
  <2>2. AllowedIn(RouteOf[r]) > 0 => AllowedIn(RouteOf[r]) \in Nat
    BY <2>1, AllowedInIsInt
  <2>3. timer' \in [Requests -> Nat \cup {Never}]
    BY <1>4, <2>2 DEF Wait
  <2>4. pc' = [pc EXCEPT ![r] = "wait"]
    BY <1>4 DEF Wait
  <2> QED  BY <1>4, <2>3, <2>4 DEF Wait
<1>5. CASE Wake(r)
  BY <1>5 DEF Wake, Never
<1>6. CASE SeeCancel(r)
  BY <1>6 DEF SeeCancel, Never
<1>7. CASE Unlink(r)
  BY <1>7 DEF Unlink
<1>8. CASE NotifyAll(r)
  <2>1. After(pc[r]) \in Labels
    BY DEF After
  <2>2. woken' \in [Requests -> BOOLEAN]
    BY <1>8 DEF NotifyAll, NotifyWaiters
  <2> QED  BY <1>8, <2>1, <2>2 DEF NotifyAll
<1>9. CASE TimeOut(r)
  BY <1>9 DEF TimeOut, Never
<1> QED  BY <1>1, <1>2, <1>3, <1>4, <1>5, <1>6, <1>7, <1>8, <1>9 DEF Proceed

\* Answers, cancellations, settings updates and time.
LEMMA OtherTypes ==
  ASSUME TypeOK,
         \/ \E r \in Requests : Answer(r) \/ RateLimited(r) \/ Cancel(r)
         \/ \E u \in Updates : UpdateSettings(u) \/ NotifyUpdate(u)
         \/ Tick
  PROVE  TypeOK'
<1> USE IntervalsBounded, RouteOfRequests
        DEF TypeOK, Labels, Acquiring, Notifying, settings, tickets, history, Goto
<1>1. ASSUME NEW r \in Requests, Answer(r) PROVE TypeOK'
  BY <1>1 DEF Answer
<1>2. ASSUME NEW r \in Requests, RateLimited(r) PROVE TypeOK'
  <2>1. PICK d \in Cooldowns : /\ cool' = [cool EXCEPT ![RouteOf[r]] = Cooled(@, d)]
                              /\ hold' = [hold EXCEPT ![r] = d]
    BY <1>2 DEF RateLimited
  <2>2. d \in Nat /\ RouteOf[r] \in Routes
    BY CooldownsNat
  <2>3. Cooled(cool[RouteOf[r]], d) \in Nat
    BY <2>2, MaxIsOwed
  <2>4. cool' \in [Routes -> Nat] /\ hold' \in [Requests -> Nat]
    BY <2>1, <2>2, <2>3
  <2> QED  BY <1>2, <2>4 DEF RateLimited
<1>3. ASSUME NEW r \in Requests, Cancel(r) PROVE TypeOK'
  BY <1>3 DEF Cancel
<1>4. ASSUME NEW u \in Updates, UpdateSettings(u) PROVE TypeOK'
  BY <1>4 DEF UpdateSettings
<1>5. ASSUME NEW u \in Updates, NotifyUpdate(u) PROVE TypeOK'
  BY <1>5 DEF NotifyUpdate, NotifyWaiters
<1>6. CASE Tick
  <2>1. \A n \in Nat : Less(n) \in Nat
    BY DEF Less
  <2>2. \A n \in Nat \cup {Never} : Less(n) \in Nat \cup {Never}
    BY DEF Less, Never
  <2>3. \A n \in 0..MaxInterval : More(n) \in 0..MaxInterval
    BY DEF More
  <2>4. age' \in [Routes -> 0..MaxInterval] /\ ago' \in [Requests -> 0..MaxInterval]
    BY <1>6, <2>3 DEF Tick
  <2>5. cool' \in [Routes -> Nat] /\ hold' \in [Requests -> Nat] /\ left' \in [Requests -> Nat]
    BY <1>6, <2>1 DEF Tick
  <2>6. timer' \in [Requests -> Nat \cup {Never}]
    BY <1>6, <2>2 DEF Tick
  <2> QED  BY <1>6, <2>4, <2>5, <2>6 DEF Tick
<1> QED  BY <1>1, <1>2, <1>3, <1>4, <1>5, <1>6

\* Every step keeps the types.
LEMMA TypesStep == TypeOK /\ [Next]_vars => TypeOK'
<1> SUFFICES ASSUME TypeOK, [Next]_vars PROVE TypeOK'
  OBVIOUS
<1>1. CASE UNCHANGED vars
  BY <1>1 DEF TypeOK, vars
<1>2. CASE Next
  BY <1>2, AcquireTypes, OtherTypes DEF Next
<1> QED  BY <1>1, <1>2

\* governor.rs, the state of the governor: every variable keeps its type, for any constants.
THEOREM TypeCorrect == Spec => []TypeOK
<1> QED  BY TypesHoldFirst, TypesStep, PTL DEF Spec

(***************************************************************************)
(* Wake-ups.                                                               *)
(***************************************************************************)

\* A ticket in a queue is of a request that has entered.
QueueInv == \A r \in queued : pc[r] # "idle"

WakeInv == QueueInv /\ NoLostWakeup

\* A waiter that is owed nothing is behind another ticket or its timer is good.
Covered(r) ==
  \/ enabled /\ ~Front(r)
  \/ enabled /\ timer[r] \in 0..AllowedIn(RouteOf[r])

\* One tick brings every moment at most one tick nearer.
LEMMA OneTickNearer ==
  ASSUME TypeOK, Tick, NEW rt \in Routes, AllowedIn(rt) > 0
  PROVE  AllowedIn(rt)' >= AllowedIn(rt) - 1
<1>1. cool[rt] \in Nat /\ age[rt] \in 0..MaxInterval /\ interval \in 1..MaxInterval
  BY IntervalsBounded DEF TypeOK
<1>2. age'[rt] = More(age[rt]) /\ cool'[rt] = Less(cool[rt]) /\ interval' = interval
  BY DEF Tick, settings, TypeOK
<1>3. AllowedIn(rt)' >= interval - More(age[rt]) /\ AllowedIn(rt)' >= Less(cool[rt])
  BY <1>1, <1>2, IntervalsBounded DEF AllowedIn, More, Less
<1>4. CASE AllowedIn(rt) = interval - age[rt]
  BY <1>1, <1>2, <1>3, <1>4, IntervalsBounded DEF More, AllowedIn, Less
<1>5. CASE AllowedIn(rt) = cool[rt]
  BY <1>1, <1>2, <1>3, <1>5, IntervalsBounded DEF Less, AllowedIn, More
<1> QED  BY <1>4, <1>5, AllowedInIsInt

\* The same after a step.
LEMMA AllowedInAfter ==
  ASSUME TypeOK', NEW rt \in Routes
  PROVE  AllowedIn(rt)' \in Int
BY IntervalsBounded DEF TypeOK, AllowedIn

\* Whoever is not at the front is not after a step that leaves the queue as it is.
LEMMA FrontFollowsQueue ==
  ASSUME queued' = queued, ticket' = ticket, NEW r
  PROVE  Front(r)' <=> Front(r)
BY DEF Front

\* A new ticket is behind those that are queued.
LEMMA EnterStaysBehind ==
  ASSUME TypeOK, QueueInv, NEW q \in Requests, Enter(q), NEW r \in Requests, r # q, ~Front(r)
  PROVE  ~Front(r)'
<1>1. CASE r \notin queued
  BY <1>1 DEF Enter, Front
<1>2. ASSUME NEW p \in queued, RouteOf[p] = RouteOf[r], ~(ticket[r] <= ticket[p])
      PROVE  ~Front(r)'
  <2>1. p # q
    BY DEF QueueInv, Enter
  <2>2. p \in queued' /\ ticket'[p] = ticket[p] /\ ticket'[r] = ticket[r]
    BY <2>1 DEF Enter, TypeOK
  <2> QED  BY <1>2, <2>2 DEF Front
<1> QED  BY <1>1, <1>2 DEF Front

\* Nobody waits first.
LEMMA WakeInvInit == Init => WakeInv
BY DEF Init, WakeInv, QueueInv, NoLostWakeup

\* Nobody who has not entered is ever queued.
LEMMA QueueStep ==
  ASSUME TypeOK, QueueInv, [Next]_vars
  PROVE  QueueInv'
<1> USE DEF QueueInv, TypeOK, Goto, Dequeue, Forget
<1>1. ASSUME NEW r \in Requests, Enter(r) PROVE QueueInv'
  BY <1>1 DEF Enter
<1>2. ASSUME NEW r \in Requests, BypassDisabled(r) \/ Send(r) \/ Unlink(r) PROVE QueueInv'
  BY <1>2 DEF BypassDisabled, Send, Unlink
<1>3. ASSUME NEW r \in Requests, Wait(r) \/ Wake(r) \/ SeeCancel(r) PROVE QueueInv'
  BY <1>3 DEF Wait, Wake, SeeCancel
<1>4. ASSUME NEW r \in Requests, NotifyAll(r) PROVE QueueInv'
  BY <1>4 DEF NotifyAll, After
<1>5. ASSUME NEW r \in Requests, TimeOut(r) \/ Answer(r) \/ RateLimited(r) \/ Cancel(r)
      PROVE  QueueInv'
  BY <1>5 DEF TimeOut, Answer, RateLimited, Cancel
<1>6. ASSUME NEW u \in Updates, UpdateSettings(u) \/ NotifyUpdate(u) PROVE QueueInv'
  BY <1>6 DEF UpdateSettings, NotifyUpdate
<1>7. CASE Tick
  BY <1>7 DEF Tick
<1>8. CASE UNCHANGED vars
  BY <1>8 DEF vars
<1> QED  BY <1>1, <1>2, <1>3, <1>4, <1>5, <1>6, <1>7, <1>8 DEF Next, Proceed

\* Steps that leave a notification due.
LEMMA DueSteps ==
  ASSUME TypeOK, NEW r \in Requests,
         BypassDisabled(r) \/ Send(r) \/ Unlink(r) \/ RateLimited(r)
  PROVE  NoLostWakeup'
<1>1. pc'[r] \in Notifying
  BY DEF BypassDisabled, Send, Unlink, RateLimited, Goto, Notifying, TypeOK
<1> QED  BY <1>1 DEF NoLostWakeup, NotificationDue

\* A notification reaches everybody who waits.
LEMMA NotifySteps ==
  ASSUME TypeOK, NotifyWaiters, \A r \in Requests : pc'[r] = "wait" => pc[r] = "wait"
  PROVE  NoLostWakeup'
BY DEF NoLostWakeup, NotifyWaiters, TypeOK

\* Steps that keep the queue, the settings and the moments a route opens: what
\* covered a waiter still does. Only r moves.
LEMMA QuietSteps ==
  ASSUME TypeOK, NoLostWakeup, NEW r \in Requests,
         UNCHANGED <<enabled, interval, age, cool, ticket, queued, upd>>,
         pc[r] \notin Notifying,
         \A q \in Requests \ {r} :
            pc'[q] = pc[q] /\ woken'[q] = woken[q] /\ timer'[q] = timer[q],
         pc'[r] = "wait" /\ ~woken'[r] => Covered(r)'
  PROVE  NoLostWakeup'
<1> SUFFICES ASSUME NEW q \in Requests, pc'[q] = "wait", ~woken'[q],
                    ~NotificationDue', q # r
             PROVE  Covered(q)'
  BY DEF NoLostWakeup, Covered
<1>1. ~NotificationDue
  BY DEF NotificationDue
<1>2. Covered(q)
  BY <1>1 DEF NoLostWakeup, Covered
<1>3. AllowedIn(RouteOf[q])' = AllowedIn(RouteOf[q])
  BY DEF AllowedIn
<1>4. Front(q)' <=> Front(q)
  BY FrontFollowsQueue
<1> QED  BY <1>2, <1>3, <1>4 DEF Covered

\* Every step keeps each waiter notified, about to be, or covered.
LEMMA WakeStep ==
  ASSUME TypeOK, WakeInv, [Next]_vars
  PROVE  NoLostWakeup'
<1> USE DEF WakeInv
<1>1. ASSUME NEW r \in Requests, Enter(r) PROVE NoLostWakeup'
  <2> SUFFICES ASSUME NEW q \in Requests, pc'[q] = "wait", ~woken'[q], ~NotificationDue'
               PROVE  Covered(q)'
    BY DEF NoLostWakeup, Covered
  <2>1. q # r /\ pc[q] = "wait" /\ ~woken[q]
    BY <1>1 DEF Enter, Goto, TypeOK
  <2>2. ~NotificationDue
    BY <1>1 DEF NotificationDue, Enter, Goto, TypeOK, Notifying
  <2>3. Covered(q)
    BY <2>1, <2>2 DEF NoLostWakeup, Covered
  <2>4. ~Front(q) => ~Front(q)'
    BY <1>1, <2>1, EnterStaysBehind
  <2>5. AllowedIn(RouteOf[q])' = AllowedIn(RouteOf[q]) /\ timer' = timer /\ enabled' = enabled
    BY <1>1 DEF Enter, AllowedIn, settings
  <2> QED  BY <2>3, <2>4, <2>5 DEF Covered
<1>2. ASSUME NEW r \in Requests, BypassDisabled(r) \/ Send(r) \/ Unlink(r) \/ RateLimited(r)
      PROVE  NoLostWakeup'
  BY <1>2, DueSteps
<1>3. ASSUME NEW r \in Requests, Wait(r) PROVE NoLostWakeup'
  <2>1. RouteOf[r] \in Routes /\ AllowedIn(RouteOf[r])' = AllowedIn(RouteOf[r])
    BY <1>3, RouteOfRequests DEF Wait, AllowedIn, settings
  <2>2. enabled' /\ (Front(r)' <=> Front(r))
    BY <1>3, FrontFollowsQueue DEF Wait, settings, tickets
  <2>3. Covered(r)'
    <3>1. CASE Front(r) /\ AllowedIn(RouteOf[r]) > 0
              /\ timer' = [timer EXCEPT ![r] = AllowedIn(RouteOf[r])]
      <4>1. timer'[r] = AllowedIn(RouteOf[r])
        BY <3>1 DEF TypeOK
      <4> QED  BY <2>1, <2>2, <3>1, <4>1, AllowedInIsInt DEF Covered
    <3>2. CASE ~Front(r)
      BY <2>2, <3>2 DEF Covered
    <3> QED  BY <1>3, <3>1, <3>2 DEF Wait
  <2>4. \A q \in Requests \ {r} :
          pc'[q] = pc[q] /\ woken'[q] = woken[q] /\ timer'[q] = timer[q]
    BY <1>3 DEF Wait, Goto, TypeOK
  <2>5. pc[r] \notin Notifying /\ UNCHANGED <<enabled, interval, age, cool, ticket, queued, upd>>
    BY <1>3 DEF Wait, Notifying, settings, tickets
  <2> QED  BY <2>3, <2>4, <2>5, QuietSteps
<1>4. ASSUME NEW r \in Requests, Wake(r) \/ SeeCancel(r) \/ TimeOut(r) \/ Answer(r)
      PROVE  NoLostWakeup'
  <2>1. \A q \in Requests \ {r} :
          pc'[q] = pc[q] /\ woken'[q] = woken[q] /\ timer'[q] = timer[q]
    BY <1>4 DEF Wake, SeeCancel, TimeOut, Answer, Goto, Forget, TypeOK
  <2>2. pc[r] \notin Notifying /\ UNCHANGED <<enabled, interval, age, cool, ticket, queued, upd>>
    BY <1>4 DEF Wake, SeeCancel, TimeOut, Answer, Acquiring, Notifying, settings, tickets
  <2>3. pc'[r] # "wait"
    BY <1>4 DEF Wake, SeeCancel, TimeOut, Answer, Goto, TypeOK
  <2> QED  BY <2>1, <2>2, <2>3, QuietSteps
<1>5. ASSUME NEW r \in Requests, Cancel(r) PROVE NoLostWakeup'
  <2>1. UNCHANGED <<enabled, interval, age, cool, ticket, queued, upd, pc, woken, timer>>
    BY <1>5 DEF Cancel, settings, tickets
  <2> QED  BY <2>1 DEF NoLostWakeup, NotificationDue, Front, AllowedIn
<1>6. ASSUME NEW r \in Requests, NotifyAll(r) PROVE NoLostWakeup'
  <2>1. NotifyWaiters /\ \A q \in Requests : pc'[q] = "wait" => pc[q] = "wait"
    BY <1>6 DEF NotifyAll, Goto, After, TypeOK
  <2> QED  BY <2>1, NotifySteps
<1>7. ASSUME NEW u \in Updates, UpdateSettings(u) PROVE NoLostWakeup'
  BY <1>7 DEF UpdateSettings, NoLostWakeup, NotificationDue, TypeOK
<1>8. ASSUME NEW u \in Updates, NotifyUpdate(u) PROVE NoLostWakeup'
  BY <1>8, NotifySteps DEF NotifyUpdate
<1>9. CASE Tick
  <2> SUFFICES ASSUME NEW r \in Requests, pc'[r] = "wait", ~woken'[r] PROVE Covered(r)'
    BY DEF NoLostWakeup, Covered
  <2>1. pc[r] = "wait" /\ ~woken[r] /\ timer[r] # 0 /\ RouteOf[r] \in Routes
    BY <1>9, RouteOfRequests DEF Tick, Asleep, Acquiring
  <2>2. ~NotificationDue
    BY <1>9 DEF Tick, Asleep, NotificationDue, Notifying
  <2>3. Covered(r)
    BY <2>1, <2>2 DEF NoLostWakeup, Covered
  <2>4. enabled' = enabled /\ (Front(r)' <=> Front(r)) /\ timer'[r] = Less(timer[r])
    BY <1>9, FrontFollowsQueue DEF Tick, settings, tickets
  <2>5. CASE ~Front(r)
    BY <2>3, <2>4, <2>5 DEF Covered
  <2>6. CASE timer[r] \in 0..AllowedIn(RouteOf[r])
    <3>1. AllowedIn(RouteOf[r]) \in Int /\ AllowedIn(RouteOf[r])' \in Int
      BY <2>1, <1>9, AllowedInIsInt, OtherTypes, AllowedInAfter
    <3>2. AllowedIn(RouteOf[r]) > 0
      BY <2>1, <2>6, <3>1
    <3>3. AllowedIn(RouteOf[r])' >= AllowedIn(RouteOf[r]) - 1
      BY <1>9, <2>1, <3>2, OneTickNearer
    <3> QED  BY <2>1, <2>3, <2>4, <2>6, <3>1, <3>3 DEF Covered, Less
  <2> QED  BY <2>3, <2>5, <2>6 DEF Covered
<1>10. CASE UNCHANGED vars
  BY <1>10 DEF vars, NoLostWakeup, NotificationDue, Front, AllowedIn
<1> QED
  BY <1>1, <1>2, <1>3, <1>4, <1>5, <1>6, <1>7, <1>8, <1>9, <1>10 DEF Next, Proceed

\* governor.rs:105-147: the Notified is made before the state is looked at and every change
\* is followed by notify_waiters: no waiter sleeps past the moment it could be sent.
THEOREM NoWakeupIsLost == Spec => []NoLostWakeup
<1>1. TypeOK /\ WakeInv /\ [Next]_vars => WakeInv'
  BY QueueStep, WakeStep DEF WakeInv
<1>2. WakeInv => NoLostWakeup
  BY DEF WakeInv
<1> QED  BY <1>1, <1>2, WakeInvInit, TypeCorrect, PTL DEF Spec

(***************************************************************************)
(* Pace and cooldowns.                                                     *)
(***************************************************************************)

\* last_sent of a route is no older than any paced send of it.
LastSentIsLast == \A r \in Requests : age[RouteOf[r]] <= ago[r]

PaceInv == LastSentIsLast /\ Paced

\* A cooldown that an answer asked for is within that of its route.
HoldWithinCool == \A r \in Requests : hold[r] <= cool[RouteOf[r]]

\* A send is recorded for its route: whoever was sent before is an interval older.
LEMMA SendKeepsPace ==
  ASSUME TypeOK, PaceInv, NEW r \in Requests, Send(r)
  PROVE  PaceInv'
<1> USE RouteOfRequests, IntervalsBounded DEF TypeOK
<1>1. /\ age' = [age EXCEPT ![RouteOf[r]] = 0] /\ ago' = [ago EXCEPT ![r] = 0]
      /\ RouteOf[r] \in Routes
  BY DEF Send
<1>2. ago'[r] = 0 /\ \A q \in Requests \ {r} : ago'[q] = ago[q]
  BY <1>1
<1>3. LastSentIsLast'
  <2> SUFFICES ASSUME NEW q \in Requests PROVE age'[RouteOf[q]] <= ago'[q]
    BY DEF LastSentIsLast
  <2>1. RouteOf[q] \in Routes /\ age[RouteOf[q]] <= ago[q] /\ ago[q] \in 0..MaxInterval
    BY DEF PaceInv, LastSentIsLast
  <2> QED  BY <1>1, <2>1
<1>4. AllowedIn(RouteOf[r]) <= 0 /\ interval \in Intervals
  BY DEF Send
<1>5. interval - age[RouteOf[r]] <= 0
  BY <1>1, <1>4, AllowedInIsInt
<1>6. \A q \in Requests \ {r} : RouteOf[q] = RouteOf[r] => ago[q] - 0 >= interval
  BY <1>1, <1>4, <1>5 DEF PaceInv, LastSentIsLast
<1>7. Paced'
  BY <1>2, <1>4, <1>6 DEF PaceInv, Paced
<1> QED  BY <1>3, <1>7 DEF PaceInv

\* Time makes every send older by the same tick.
LEMMA TickKeepsPace ==
  ASSUME TypeOK, PaceInv, Tick
  PROVE  PaceInv'
<1> USE RouteOfRequests, IntervalsBounded DEF TypeOK
<1>1. /\ \A rt \in Routes : age'[rt] = More(age[rt])
      /\ \A r \in Requests : ago'[r] = More(ago[r])
  BY DEF Tick
<1>2. LastSentIsLast'
  BY <1>1 DEF PaceInv, LastSentIsLast, More
<1>3. Paced'
  <2> SUFFICES ASSUME NEW r \in Requests, NEW q \in Requests, r # q, RouteOf[r] = RouteOf[q],
                      ago'[r] < MaxInterval, ago'[q] < MaxInterval
               PROVE  \E i \in Intervals : ago'[r] - ago'[q] >= i \/ ago'[q] - ago'[r] >= i
    BY DEF Paced
  <2>1. ago[r] \in 0..MaxInterval /\ ago[q] \in 0..MaxInterval
    OBVIOUS
  <2>2. /\ ago'[r] = ago[r] + 1 /\ ago'[q] = ago[q] + 1
        /\ ago[r] < MaxInterval /\ ago[q] < MaxInterval
    BY <1>1, <2>1 DEF More
  <2>3. PICK i \in Intervals : ago[r] - ago[q] >= i \/ ago[q] - ago[r] >= i
    BY <2>2 DEF PaceInv, Paced
  <2>4. ago'[r] - ago'[q] >= i \/ ago'[q] - ago'[r] >= i
    BY <2>1, <2>2, <2>3
  <2> QED  BY <2>4
<1> QED  BY <1>2, <1>3 DEF PaceInv

\* Nothing but a send and time changes when a route was sent on.
LEMMA OthersKeepPace ==
  ASSUME [Next]_vars, ~Tick, \A r \in Requests : ~Send(r)
  PROVE  age' = age /\ ago' = ago
<1>1. ASSUME NEW r \in Requests, Enter(r) \/ Wait(r) \/ Wake(r) \/ SeeCancel(r) \/ Cancel(r)
      PROVE  age' = age /\ ago' = ago
  BY <1>1 DEF Enter, Wait, Wake, SeeCancel, Cancel, history
<1>2. ASSUME NEW r \in Requests,
             BypassDisabled(r) \/ Unlink(r) \/ NotifyAll(r) \/ TimeOut(r) \/ Answer(r)
             \/ RateLimited(r)
      PROVE  age' = age /\ ago' = ago
  BY <1>2 DEF BypassDisabled, Unlink, NotifyAll, TimeOut, Answer, RateLimited, history
<1>3. ASSUME NEW u \in Updates, UpdateSettings(u) \/ NotifyUpdate(u)
      PROVE  age' = age /\ ago' = ago
  BY <1>3 DEF UpdateSettings, NotifyUpdate, history
<1>4. CASE UNCHANGED vars
  BY <1>4 DEF vars
<1> QED  BY <1>1, <1>2, <1>3, <1>4 DEF Next, Proceed

\* governor.rs:116-126: last_sent is set under the lock that decided the send, so two requests
\* of one route that waited for it are an interval apart, however many wait.
THEOREM SendsArePaced == Spec => []Paced
<1>1. Init => PaceInv
  <2> SUFFICES ASSUME Init PROVE PaceInv
    OBVIOUS
  <2>1. /\ MaxInterval \in Nat
        /\ \A r \in Requests : age[RouteOf[r]] = MaxInterval /\ ago[r] = MaxInterval
    BY RouteOfRequests, IntervalsBounded DEF Init
  <2> QED  BY <2>1 DEF PaceInv, LastSentIsLast, Paced
<1>2. TypeOK /\ PaceInv /\ [Next]_vars => PaceInv'
  <2> SUFFICES ASSUME TypeOK, PaceInv, [Next]_vars PROVE PaceInv'
    OBVIOUS
  <2>1. CASE Tick
    BY <2>1, TickKeepsPace
  <2>2. CASE \E r \in Requests : Send(r)
    BY <2>2, SendKeepsPace
  <2>3. CASE ~Tick /\ \A r \in Requests : ~Send(r)
    BY <2>3, OthersKeepPace DEF PaceInv, LastSentIsLast, Paced
  <2> QED  BY <2>1, <2>2, <2>3
<1>3. PaceInv => Paced
  BY DEF PaceInv
<1> QED  BY <1>1, <1>2, <1>3, TypeCorrect, PTL DEF Spec

\* A rate limit lengthens the cooldown of its route, and only time shortens it.
LEMMA HoldStep ==
  ASSUME TypeOK, HoldWithinCool, [Next]_vars
  PROVE  HoldWithinCool'
<1> USE RouteOfRequests DEF TypeOK
<1>1. ASSUME NEW r \in Requests, RateLimited(r) PROVE HoldWithinCool'
  <2>1. PICK d \in Cooldowns : /\ cool' = [cool EXCEPT ![RouteOf[r]] = Cooled(@, d)]
                              /\ hold' = [hold EXCEPT ![r] = d]
    BY <1>1 DEF RateLimited
  <2> DEFINE rt == RouteOf[r]
  <2>2. d \in Nat /\ rt \in Routes /\ cool[rt] \in Nat
    BY CooldownsNat
  <2>3. cool'[rt] >= d /\ cool'[rt] >= cool[rt] /\ cool'[rt] \in Nat
    BY <2>1, <2>2, MaxIsOwed
  <2>4. \A q \in Requests : RouteOf[q] # rt => cool'[RouteOf[q]] = cool[RouteOf[q]]
    BY <2>1
  <2>5. hold'[r] = d /\ \A q \in Requests \ {r} : hold'[q] = hold[q]
    BY <2>1
  <2> SUFFICES ASSUME NEW q \in Requests PROVE hold'[q] <= cool'[RouteOf[q]]
    BY DEF HoldWithinCool
  <2>6. hold[q] <= cool[RouteOf[q]] /\ hold[q] \in Nat
    BY DEF HoldWithinCool
  <2>7. CASE q = r
    BY <2>3, <2>5, <2>7
  <2>8. CASE q # r /\ RouteOf[q] = rt
    BY <2>2, <2>3, <2>5, <2>6, <2>8
  <2>9. CASE q # r /\ RouteOf[q] # rt
    BY <2>4, <2>5, <2>6, <2>9
  <2> QED  BY <2>7, <2>8, <2>9
<1>2. CASE Tick
  <2>1. \A q \in Requests : /\ hold'[q] = Less(hold[q])
                            /\ cool'[RouteOf[q]] = Less(cool[RouteOf[q]])
    BY <1>2 DEF Tick
  <2> QED  BY <2>1 DEF HoldWithinCool, Less
<1>3. CASE UNCHANGED <<cool, hold>>
  BY <1>3 DEF HoldWithinCool
<1>4. ASSUME NEW r \in Requests,
             Enter(r) \/ Wait(r) \/ Wake(r) \/ SeeCancel(r) \/ Cancel(r) \/ TimeOut(r)
             \/ Answer(r) \/ NotifyAll(r)
      PROVE  UNCHANGED <<cool, hold>>
  BY <1>4 DEF Enter, Wait, Wake, SeeCancel, Cancel, TimeOut, Answer, NotifyAll, history
<1>5. ASSUME NEW r \in Requests, BypassDisabled(r) \/ Send(r) \/ Unlink(r)
      PROVE  UNCHANGED <<cool, hold>>
  BY <1>5 DEF BypassDisabled, Send, Unlink, history
<1>6. ASSUME NEW u \in Updates, UpdateSettings(u) \/ NotifyUpdate(u)
      PROVE  UNCHANGED <<cool, hold>>
  BY <1>6 DEF UpdateSettings, NotifyUpdate, history
<1>7. CASE UNCHANGED vars
  BY <1>3, <1>7 DEF vars
<1> QED  BY <1>1, <1>2, <1>3, <1>4, <1>5, <1>6, <1>7 DEF Next, Proceed

\* While the governor is enabled only Send grants.
LEMMA OnlySendGrants ==
  ASSUME TypeOK, [Next]_vars, NEW r \in Requests, enabled, pc[r] = "check", pc'[r] = "granted"
  PROVE  Send(r)
<1> USE DEF TypeOK, Goto
<1>1. ASSUME NEW q \in Requests, Enter(q) \/ Wait(q) \/ Wake(q) \/ SeeCancel(q) \/ Cancel(q)
      PROVE  FALSE
  BY <1>1 DEF Enter, Wait, Wake, SeeCancel, Cancel
<1>2. ASSUME NEW q \in Requests,
             BypassDisabled(q) \/ Unlink(q) \/ TimeOut(q) \/ Answer(q) \/ RateLimited(q)
      PROVE  FALSE
  BY <1>2 DEF BypassDisabled, Unlink, TimeOut, Answer, RateLimited
<1>3. ASSUME NEW q \in Requests, NotifyAll(q) PROVE FALSE
  BY <1>3 DEF NotifyAll, After, Notifying
<1>4. ASSUME NEW q \in Requests, Send(q) PROVE Send(r)
  <2>1. q = r
    BY <1>4 DEF Send
  <2> QED  BY <1>4, <2>1
<1>5. ASSUME NEW u \in Updates, UpdateSettings(u) \/ NotifyUpdate(u) PROVE FALSE
  BY <1>5 DEF UpdateSettings, NotifyUpdate
<1>6. CASE Tick \/ UNCHANGED vars
  BY <1>6 DEF Tick, vars
<1> QED  BY <1>1, <1>2, <1>3, <1>4, <1>5, <1>6 DEF Next, Proceed

\* governor.rs:117-122, 150-172: cooling_until is the latest of what the answers asked for and
\* delays every send of the route, so no send overtakes a Retry-After.
THEOREM CooldownIsHeld == Spec => CooldownHeld
<1>1. Init => HoldWithinCool
  BY RouteOfRequests DEF Init, HoldWithinCool
<1>2. TypeOK /\ HoldWithinCool /\ [Next]_vars => HoldWithinCool'
  BY HoldStep
<1>3. TypeOK /\ HoldWithinCool /\ [Next]_vars =>
        [\A r \in Requests :
           enabled /\ pc[r] = "check" /\ pc'[r] = "granted" =>
             \A q \in Requests : RouteOf[q] = RouteOf[r] => hold[q] = 0]_vars
  <2> SUFFICES ASSUME TypeOK, HoldWithinCool, [Next]_vars,
                      NEW r \in Requests, enabled, pc[r] = "check", pc'[r] = "granted",
                      NEW q \in Requests, RouteOf[q] = RouteOf[r]
               PROVE  hold[q] = 0
    OBVIOUS
  <2>1. AllowedIn(RouteOf[r]) <= 0
    BY OnlySendGrants DEF Send
  <2>2. RouteOf[r] \in Routes
    BY RouteOfRequests
  <2>3. cool[RouteOf[r]] \in Nat /\ hold[q] \in Nat /\ hold[q] <= cool[RouteOf[r]]
    BY <2>2 DEF TypeOK, HoldWithinCool
  <2> QED  BY <2>1, <2>2, <2>3, AllowedInIsInt
<1> QED  BY <1>1, <1>2, <1>3, TypeCorrect, PTL DEF Spec, CooldownHeld

(***************************************************************************)
(* The MCP server: its children and the answers of its calls.              *)
(***************************************************************************)

\* Where a run or a request is, and where it goes on after a stop.
Places == RunAt \cup UserAt \cup BothAt
Onward == {"over", "start", "spawn", "release", "remove"}

\* Children are numbered; a start holds its child from spawn to register or fail.
ChildrenInv ==
  /\ spawned \in Nat /\ session \in Nat
  /\ up \subseteq Nat \ {None}
  /\ at \in [Actors -> Places]
  /\ mine \in [Actors -> Nat]
  /\ \A a \in Actors : mine[a] # None => at[a] \in {"handshake", "register", "fail"}

OrphansInv == ChildrenInv /\ NoOrphans

-----------------------------------------------------------------------------
(* Children.                                                               *)

\* There are no children first.
LEMMA OrphansInit == ServerInit => OrphansInv
BY DEF ServerInit, OrphansInv, ChildrenInv, NoOrphans, None, Places, BothAt

\* A step that leaves the sessions and the starts alone may only lose children.
LEMMA OtherChildren ==
  ASSUME OrphansInv, UNCHANGED <<spawned, session, mine, overwritten>>, up' \subseteq up,
         at' \in [Actors -> Places],
         \A a \in Actors : mine[a] # None => at'[a] = at[a]
  PROVE  OrphansInv'
BY DEF OrphansInv, ChildrenInv, NoOrphans

\* The steps of a stop: the session goes with its child.
LEMMA StopChildren ==
  ASSUME OrphansInv, NEW a \in Actors, Stop(a), then[a] \in Onward
  PROVE  OrphansInv'
<1> USE DEF Go, Places, RunAt, UserAt, BothAt, Onward
<1>1. CASE StopSignal(a)
  BY <1>1, OtherChildren DEF StopSignal, OrphansInv, ChildrenInv
<1>2. CASE StopDetach(a)
  BY <1>2 DEF StopDetach, OrphansInv, ChildrenInv, NoOrphans, None
<1> QED  BY <1>1, <1>2 DEF Stop

\* The steps of a start: its child is held until the session holds it.
LEMMA StartChildren ==
  ASSUME OrphansInv, NEW a \in Actors, Start(a)
  PROVE  OrphansInv'
<1> USE DEF Go, Places, RunAt, UserAt, BothAt, Onward
<1>1. CASE StartChecked(a)
  BY <1>1, OtherChildren DEF StartChecked, Halt, procs, OrphansInv, ChildrenInv
<1>2. CASE Spawn(a)
  <2>1. mine[a] = None
    BY <1>2 DEF Spawn, OrphansInv, ChildrenInv
  <2>2. CASE /\ spawned' = spawned + 1 /\ up' = up \cup {spawned + 1}
             /\ mine' = [mine EXCEPT ![a] = spawned + 1] /\ at' = [at EXCEPT ![a] = "handshake"]
    <3>1. UNCHANGED <<session, overwritten>>
      BY <1>2 DEF Spawn
    <3>2. ChildrenInv'
      BY <2>2, <3>1 DEF OrphansInv, ChildrenInv, None
    <3>3. \A c \in up' : c \in up \/ mine'[a] = c
      BY <2>2 DEF OrphansInv, ChildrenInv
    <3>4. \A b \in Actors : mine'[b] = mine[b] \/ (b = a /\ mine[b] = None)
      BY <2>1, <2>2 DEF OrphansInv, ChildrenInv
    <3>5. NoOrphans'
      BY <3>1, <3>3, <3>4 DEF OrphansInv, ChildrenInv, NoOrphans
    <3> QED  BY <3>2, <3>5 DEF OrphansInv
  <2>3. CASE UNCHANGED <<spawned, up, mine, starting>>
    BY <1>2, <2>1, <2>3, OtherChildren DEF Spawn, OrphansInv, ChildrenInv
  <2> QED  BY <1>2, <2>2, <2>3 DEF Spawn
<1>3. CASE Handshake(a)
  BY <1>3 DEF Handshake, procs, OrphansInv, ChildrenInv, NoOrphans
<1>4. CASE Fail(a)
  BY <1>4 DEF Fail, OrphansInv, ChildrenInv, NoOrphans, None
<1>5. CASE Register(a)
  <2>1. Served(a) \in Places
    BY DEF Served
  <2> QED  BY <1>5, <2>1 DEF Register, OrphansInv, ChildrenInv, NoOrphans, None
<1> QED  BY <1>1, <1>2, <1>3, <1>4, <1>5 DEF Start

\* A run and a request of the user start and stop the server only by Start and Stop.
LEMMA RunChildren ==
  ASSUME OrphansInv, NEW r \in Runs, Run(r) \/ Call(r)
  PROVE  OrphansInv'
<1> USE DEF Go, Actors, Places, RunAt, UserAt, BothAt, Onward
<1>1. CASE Resolve(r)
  BY <1>1, OtherChildren DEF Resolve, procs, OrphansInv, ChildrenInv
<1>2. CASE Acquire(r)
  BY <1>2, OtherChildren DEF Acquire, procs, OrphansInv, ChildrenInv
<1>3. CASE EndRun(r) \/ CancelRun(r)
  BY <1>3, OtherChildren DEF EndRun, CancelRun, Halt, procs, OrphansInv, ChildrenInv
<1>4. CASE Release(r) \/ LookForOthers(r) \/ Cool(r)
  BY <1>4, OtherChildren DEF Release, LookForOthers, Cool, procs, OrphansInv, ChildrenInv
<1>5. CASE Call(r)
  BY <1>5, OtherChildren
     DEF Call, Begin, SendCall, Receive, GiveUp, procs, place, OrphansInv, ChildrenInv
<1> QED  BY <1>1, <1>2, <1>3, <1>4, <1>5 DEF Run

\* The same of the requests of the user.
LEMMA UserChildren ==
  ASSUME OrphansInv, NEW u \in Users, User(u)
  PROVE  OrphansInv'
<1> USE DEF Go, Actors, Places, RunAt, UserAt, BothAt, Onward
<1>1. CASE UserLiveness(u)
  BY <1>1 DEF UserLiveness, OrphansInv, ChildrenInv, NoOrphans, None
<1>2. CASE UserStart(u) \/ UserStop(u) \/ UserReconnect(u)
  BY <1>2, OtherChildren
     DEF UserStart, UserStop, UserReconnect, Halt, procs, OrphansInv, ChildrenInv
<1>3. CASE UserRemove(u)
  BY <1>3, OtherChildren DEF UserRemove, Halt, procs, OrphansInv, ChildrenInv
<1>4. CASE Remove(u)
  BY <1>4, OtherChildren DEF Remove, OrphansInv, ChildrenInv
<1> QED  BY <1>1, <1>2, <1>3, <1>4 DEF User

\* Where a stop goes on is a place.
ThenInv == then \in [Actors -> Onward]

\* Every step keeps the places.
LEMMA ThenStep ==
  ASSUME ThenInv, [ServerNext]_serverVars
  PROVE  ThenInv'
<1> USE DEF ThenInv, Onward
<1>1. ASSUME NEW a \in Actors, Stop(a) \/ Start(a) PROVE ThenInv'
  BY <1>1 DEF Stop, StopSignal, StopDetach, Start, StartChecked, Spawn, Handshake, Fail, Register,
              Halt
<1>2. ASSUME NEW r \in Runs, Run(r) \/ Call(r) PROVE ThenInv'
  BY <1>2 DEF Run, Resolve, Acquire, EndRun, CancelRun, Release, LookForOthers, Cool, Halt,
              Call, Begin, SendCall, Receive, GiveUp, place, Actors
<1>3. ASSUME NEW u \in Users, User(u) PROVE ThenInv'
  BY <1>3 DEF User, UserStart, UserStop, UserReconnect, UserLiveness, UserRemove, Remove, Halt,
              Actors
<1>4. CASE (\E c \in Children : Exit(c)) \/ Reap \/ UNCHANGED serverVars
  BY <1>4 DEF Exit, Reap, place, serverVars
<1> QED  BY <1>1, <1>2, <1>3, <1>4 DEF ServerNext

\* Every step keeps each child with its record.
LEMMA OrphansStep ==
  ASSUME OrphansInv, ThenInv, [ServerNext]_serverVars
  PROVE  OrphansInv'
<1>1. ASSUME NEW c \in Children, Exit(c) PROVE OrphansInv'
  BY <1>1, OtherChildren DEF Exit, place, OrphansInv, ChildrenInv
<1>2. CASE Reap \/ UNCHANGED serverVars
  BY <1>2, OtherChildren DEF Reap, serverVars, procs, place, OrphansInv, ChildrenInv
<1> QED  BY <1>1, <1>2, StopChildren, StartChildren, RunChildren, UserChildren
         DEF ServerNext, ThenInv

\* mcp_runtime.rs:683-720: whatever fails in a start and whoever stops or starts the server
\* meanwhile, a child that lives is held by the session or by a start, or its session was
\* overwritten.
THEOREM ChildrenAreNeverOrphaned == ServerSpec => []NoOrphans
<1>1. ServerInit => OrphansInv /\ ThenInv
  BY OrphansInit DEF ServerInit, ThenInv, Onward
<1>2. OrphansInv /\ ThenInv /\ [ServerNext]_serverVars => OrphansInv' /\ ThenInv'
  BY OrphansStep, ThenStep
<1>3. OrphansInv => NoOrphans
  BY DEF OrphansInv
<1> QED  BY <1>1, <1>2, <1>3, PTL DEF ServerSpec

-----------------------------------------------------------------------------
(* Answers.                                                                *)

\* A call that waits is of a child, has the lock of its exchange, and its request is in the
\* pipe.
AnswersInv ==
  /\ call \in [Runs -> {"none", "queue", "wait"}]
  /\ asked \in [Runs -> [child : Nat, n : Nat]]
  /\ lock \in [Children -> Runs \cup {Free}]
  /\ owed \in [Children -> SUBSET [run : Runs, n : Nat]]
  /\ session \in 0 .. MaxChildren
  /\ \A r \in Runs : call[r] # "none" => asked[r].child \in Children
  /\ \A r \in Runs : call[r] = "wait" => /\ lock[asked[r].child] = r
                                         /\ Request(r) \in owed[asked[r].child]

\* Nothing is asked first.
LEMMA AnswersInit == ServerInit => AnswersInv
BY BoundsNat DEF ServerInit, AnswersInv, NoCall, None, Free

\* A run that leaves the exchange takes no lock but its own.
LEMMA FinishKeeps ==
  ASSUME AnswersInv, NEW r \in Runs, Finish(r)
  PROVE  /\ call' \in [Runs -> {"none", "queue", "wait"}] /\ call'[r] = "none"
         /\ lock' \in [Children -> Runs \cup {Free}]
         /\ \A q \in Runs \ {r} : call'[q] = call[q]
         /\ \A q \in Runs \ {r}, c \in Children : lock[c] = q => lock'[c] = q
BY FreeIsNoRun DEF Finish, AnswersInv

\* The steps of a call.
LEMMA CallKeepsAnswers ==
  ASSUME AnswersInv, NEW r \in Runs, Call(r)
  PROVE  AnswersInv'
<1> USE DEF AnswersInv
<1>1. CASE Begin(r)
  <2>1. /\ asked' \in [Runs -> [child : Nat, n : Nat]]
        /\ \A q \in Runs \ {r} : asked'[q] = asked[q] /\ call'[q] = call[q]
        /\ asked'[r].child = session
    BY <1>1, BoundsNat DEF Begin
  <2>2. call'[r] \in {"queue", "none"} /\ (call'[r] = "queue" => session # None)
    BY <1>1 DEF Begin
  <2>3. call' \in [Runs -> {"none", "queue", "wait"}] /\ UNCHANGED <<lock, owed, session>>
    BY <1>1 DEF Begin, procs
  <2>4. \A q \in Runs : call'[q] # "none" => asked'[q].child \in Children
    BY <2>1, <2>2, BoundsNat DEF Children, None
  <2>5. \A q \in Runs : call'[q] = "wait" => q # r /\ Request(q)' = Request(q)
    BY <2>1, <2>2 DEF Request
  <2> QED  BY <2>1, <2>3, <2>4, <2>5
<1>2. CASE SendCall(r)
  <2> DEFINE c == asked[r].child
  <2>1. /\ call[r] = "queue" /\ lock[c] = Free /\ c \in Children
        /\ UNCHANGED <<asked, session>>
    BY <1>2 DEF SendCall, procs
  <2>2. CASE c \in stopping
    <3>1. Finish(r) /\ UNCHANGED owed
      BY <1>2, <2>2 DEF SendCall
    <3> QED  BY <2>1, <3>1, FinishKeeps DEF Request
  <2>3. CASE c \notin stopping
    <3>1. /\ lock' = [lock EXCEPT ![c] = r] /\ owed' = [owed EXCEPT ![c] = @ \cup {Request(r)}]
          /\ call' = [call EXCEPT ![r] = "wait"]
      BY <1>2, <2>3 DEF SendCall
    <3>2. Request(r) \in [run : Runs, n : Nat]
      BY DEF Request
    <3>3. \A q \in Runs \ {r} : call[q] = "wait" => asked[q].child # c
      BY <2>1, FreeIsNoRun
    <3> QED  BY <2>1, <3>1, <3>2, <3>3 DEF Request
  <2> QED  BY <2>2, <2>3
<1>3. CASE Receive(r)
  <2> DEFINE c == asked[r].child
  <2>1. call[r] = "wait" /\ c \in Children /\ UNCHANGED <<asked, session>>
    BY <1>3 DEF Receive, procs
  <2>2. PICK q \in owed[c] :
          /\ owed' = [owed EXCEPT ![c] = @ \ {q}]
          /\ IF q = Request(r) THEN Finish(r) ELSE UNCHANGED <<call, lock>>
    BY <1>3 DEF Receive
  <2>3. \A o \in Runs \ {r} : call[o] = "wait" => asked[o].child # c
    BY <2>1
  <2>4. owed' \in [Children -> SUBSET [run : Runs, n : Nat]]
    BY <2>1, <2>2
  <2>5. \A o \in Runs \ {r} : call[o] = "wait" => Request(o) \in owed'[asked[o].child]
    BY <2>1, <2>2, <2>3
  <2>6. CASE q = Request(r)
    BY <2>1, <2>2, <2>4, <2>5, <2>6, FinishKeeps DEF Request
  <2>7. CASE q # Request(r)
    BY <2>1, <2>2, <2>4, <2>5, <2>7 DEF Request
  <2> QED  BY <2>6, <2>7
<1>4. CASE GiveUp(r)
  BY <1>4, FinishKeeps DEF GiveUp, procs, Request
<1> QED  BY <1>1, <1>2, <1>3, <1>4 DEF Call

\* A start registers a child it spawned.
MineInv == spawned \in 0 .. MaxChildren /\ mine \in [Actors -> 0 .. MaxChildren]

\* Every step keeps the children within their bound and off the wire.
LEMMA OthersKeepAnswers ==
  ASSUME MineInv, AnswersInv, [ServerNext]_serverVars
  PROVE  MineInv' /\ AnswersInv'
<1> USE BoundsNat DEF MineInv, None
<1>1. ASSUME UNCHANGED wire, session' \in 0 .. MaxChildren PROVE AnswersInv'
  BY <1>1 DEF AnswersInv, wire, Request
<1>2. session \in 0 .. MaxChildren
  BY DEF AnswersInv
<1>3. ASSUME NEW a \in Actors, Stop(a) \/ Start(a)
      PROVE  MineInv' /\ UNCHANGED wire /\ session' \in 0 .. MaxChildren
  <2>1. CASE Stop(a)
    BY <1>2, <2>1 DEF Stop, StopSignal, StopDetach
  <2>2. CASE StartChecked(a) \/ Handshake(a)
    BY <1>2, <2>2 DEF StartChecked, Handshake, procs
  <2>3. CASE Spawn(a)
    BY <1>2, <2>3 DEF Spawn
  <2>4. CASE Fail(a) \/ Register(a)
    BY <1>2, <2>4 DEF Fail, Register
  <2> QED  BY <1>3, <2>1, <2>2, <2>3, <2>4 DEF Start
<1>4. ASSUME NEW r \in Runs, Run(r)
      PROVE  MineInv' /\ UNCHANGED wire /\ session' \in 0 .. MaxChildren
  BY <1>2, <1>4 DEF Run, Resolve, Acquire, EndRun, CancelRun, Release, LookForOthers, Cool, procs
<1>5. ASSUME NEW r \in Runs, Call(r) PROVE MineInv'
  BY <1>5 DEF Call, Begin, SendCall, Receive, GiveUp, procs, place
<1>6. ASSUME NEW u \in Users, User(u)
      PROVE  MineInv' /\ UNCHANGED wire /\ session' \in 0 .. MaxChildren
  BY <1>2, <1>6
     DEF User, UserStart, UserStop, UserReconnect, UserLiveness, UserRemove, Remove, procs
<1>7. CASE (\E c \in Children : Exit(c)) \/ Reap \/ UNCHANGED serverVars
  <2>1. UNCHANGED <<wire, spawned, session, mine>>
    BY <1>7 DEF Exit, Reap, serverVars, procs, place
  <2> QED  BY <1>1, <1>2, <2>1
<1> QED  BY <1>1, <1>3, <1>4, <1>5, <1>6, <1>7, CallKeepsAnswers DEF ServerNext

\* mcp_runtime.rs:1997, 2008: the exchange is locked for the round trip, so of all the answers
\* in a pipe only those of abandoned requests are dropped, however many runs share it.
THEOREM AnswersAlwaysReachAskers == ServerSpec => []AnswersReachAskers
<1>1. ServerInit => MineInv
  BY BoundsNat DEF ServerInit, MineInv, None
<1>2. MineInv /\ AnswersInv /\ [ServerNext]_serverVars => MineInv' /\ AnswersInv'
  BY OthersKeepAnswers
<1>3. AnswersInv => AnswersReachAskers
  BY DEF AnswersInv, AnswersReachAskers
<1> QED  BY <1>1, <1>2, <1>3, AnswersInit, PTL DEF ServerSpec
===============================================================================
