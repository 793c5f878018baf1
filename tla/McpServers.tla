----------------------------- MODULE McpServers -----------------------------
(***************************************************************************)
(* One stdio MCP server that the runs of the daemon share                  *)
(* (src-agent-daemon/src/mcp_runtime.rs): its child processes and their    *)
(* sessions, start with its handshake, stop, the calls of the runs over one*)
(* pipe, the references of the runs, the idle reaper and the requests of   *)
(* the user. Runs reach it through capability_resolution.rs, run_manager.rs*)
(* and runtime/mcp_invocation.rs.                                          *)
(*                                                                         *)
(* Every map of McpRuntime has a lock of its own, so a step is one access, *)
(* or several that commute with what the others do. Children are numbered  *)
(* as they are spawned, and MaxChildren bounds them. A request of the user *)
(* is one operation. A deadline may pass at any moment of a wait.          *)
(***************************************************************************)
EXTENDS Naturals

CONSTANTS
  Runs,        \* native runs that selected the server
  Users,       \* mcp.* and capability requests of the user
  MaxChildren, \* bound: child processes spawned
  MaxCalls     \* bound: tool calls of one run

Actors == Runs \cup Users
Children == 1..MaxChildren

ASSUME ActorsDisjoint == Runs \cap Users = {}
ASSUME BoundsNat == MaxChildren \in Nat /\ MaxCalls \in Nat

VARIABLES
  registered, \* the server is in McpRegistry
  spawned,    \* children so far
  up,         \* the children that live
  stopping,   \* the children whose session has its stopping flag set
  session,    \* sessions: the child of the session, None when there is none
  starting,   \* starting: the child whose handshake is in flight, or None
  status,     \* status: none, started or stopped
  refs,       \* run_refs: the runs that hold the server
  idle,       \* idle_since has the server
  at,         \* where each run and each request is
  then,       \* where it goes on after a stop
  mine,       \* the child of the start it is in, or None
  call,       \* by run: where the thread of its tool call is
  asked,      \* by run: the session and the number of its call
  lock,       \* by child: the run whose exchange is in flight, or None
  owed,       \* by child: the requests written to it and not answered
  overwritten \* history: children whose session a concurrent start replaced

place      == <<at, then, mine>>
wire       == <<call, asked, lock, owed>>
procs      == <<registered, spawned, up, stopping, session, starting, status, overwritten>>
held       == <<refs, idle>>
serverVars == <<procs, held, place, wire>>

None == 0
Free == "free"
ASSUME FreeIsNoRun == Free \notin Runs
NoCall == [child |-> None, n |-> 0]
Request(r) == [run |-> r, n |-> asked[r].n]

ServerInit ==
  /\ registered = TRUE
  /\ spawned = 0 /\ up = {} /\ stopping = {} /\ overwritten = {}
  /\ session = None /\ starting = None /\ status = "none"
  /\ refs = {} /\ idle = FALSE
  /\ at = [a \in Actors |-> "idle"]
  /\ then = [a \in Actors |-> "over"]
  /\ mine = [a \in Actors |-> None]
  /\ call = [r \in Runs |-> "none"]
  /\ asked = [r \in Runs |-> NoCall]
  /\ lock = [c \in Children |-> Free]
  /\ owed = [c \in Children |-> {}]

Go(a, label) == at' = [at EXCEPT ![a] = label]

-----------------------------------------------------------------------------
(* stop, which goes on at `then`.                                          *)

\* The first step of a stop is to be taken.
Halt(a, label) ==
  /\ Go(a, "signal")
  /\ then' = [then EXCEPT ![a] = label]

\* A handshake in flight is told, whoever started it.
StopSignal(a) ==
  /\ at[a] = "signal"
  /\ stopping' = IF starting = None THEN stopping ELSE stopping \cup {starting}
  /\ starting' = None
  /\ Go(a, "detach")
  /\ UNCHANGED <<registered, spawned, up, session, status, overwritten, held, then, mine, wire>>

\* Mutant: stop takes the lock of the exchange.
StopDetachLocked(a) ==
  /\ at[a] = "detach"
  /\ session # None => lock[session] = Free
  /\ session' = None
  /\ stopping' = IF session = None THEN stopping ELSE stopping \cup {session}
  /\ up' = up \ {session}
  /\ status' = "stopped"
  /\ Go(a, then[a])
  /\ then' = [then EXCEPT ![a] = "over"]
  /\ UNCHANGED <<registered, spawned, starting, overwritten, held, mine, wire>>

\* The session leaves the map, then its child is terminated and waited for.
\* No exchange is asked, nor its lock taken.
StopDetach(a) ==
  /\ at[a] = "detach"
  /\ session' = None
  /\ stopping' = IF session = None THEN stopping ELSE stopping \cup {session}
  /\ up' = up \ {session}
  /\ status' = "stopped"
  /\ Go(a, then[a])
  /\ then' = [then EXCEPT ![a] = "over"]
  /\ UNCHANGED <<registered, spawned, starting, overwritten, held, mine, wire>>

Stop(a) == StopSignal(a) \/ StopDetach(a)

-----------------------------------------------------------------------------
(* start_stdio: a start stops the server first, whoever uses it.           *)

\* Where an actor goes on when its start succeeded.
Served(a) == IF a \in Runs THEN "acquire" ELSE "over"

StartChecked(a) ==
  /\ at[a] = "start"
  /\ IF registered THEN Halt(a, "spawn") ELSE Go(a, "over") /\ UNCHANGED then
  /\ UNCHANGED <<procs, held, mine, wire>>

\* The child is announced in `starting`; it may also fail to start.
Spawn(a) ==
  /\ at[a] = "spawn"
  /\ \/ /\ spawned < MaxChildren
        /\ spawned' = spawned + 1
        /\ up' = up \cup {spawned + 1}
        /\ mine' = [mine EXCEPT ![a] = spawned + 1]
        /\ starting' = spawned + 1
        /\ Go(a, "handshake")
     \/ Go(a, "over") /\ UNCHANGED <<spawned, up, mine, starting>>
  /\ UNCHANGED <<registered, stopping, session, status, overwritten, held, then, wire>>

\* initialize and tools/list, which may fail; then the flag is read once more.
Handshake(a) ==
  /\ at[a] = "handshake"
  /\ \/ mine[a] \in up \ stopping /\ Go(a, "register")
     \/ Go(a, "fail")
  /\ UNCHANGED <<procs, held, then, mine, wire>>

\* Mutant: a child that did not answer its handshake is left to itself.
FailQuietly(a) ==
  /\ at[a] = "fail"
  /\ starting' = None
  /\ mine' = [mine EXCEPT ![a] = None]
  /\ Go(a, "over")
  /\ UNCHANGED <<registered, spawned, up, stopping, session, status, overwritten, held, then, wire>>

\* `starting` has one entry for the server: it is removed, whoever made it.
Fail(a) ==
  /\ at[a] = "fail"
  /\ starting' = None
  /\ stopping' = stopping \cup {mine[a]}
  /\ up' = up \ {mine[a]}
  /\ mine' = [mine EXCEPT ![a] = None]
  /\ Go(a, "over")
  /\ UNCHANGED <<registered, spawned, session, status, overwritten, held, then, wire>>

\* The insert replaces a session that is there, and nobody stops its child.
Register(a) ==
  /\ at[a] = "register"
  /\ overwritten' = IF session = None THEN overwritten ELSE overwritten \cup {session}
  /\ session' = mine[a]
  /\ status' = "started"
  /\ starting' = None
  /\ mine' = [mine EXCEPT ![a] = None]
  /\ Go(a, Served(a))
  /\ UNCHANGED <<registered, spawned, up, stopping, held, then, wire>>

Start(a) == StartChecked(a) \/ Spawn(a) \/ Handshake(a) \/ Fail(a) \/ Register(a)

-----------------------------------------------------------------------------
(* A run: it resolves the server, holds it and lets it go.                 *)

\* No path stores the status that is asked for by everybody who asks.
Running == status = "running"

\* resolve refuses what the hub does not have, and starts what is not running.
Resolve(r) ==
  /\ at[r] = "idle"
  /\ Go(r, IF ~registered THEN "over" ELSE IF Running THEN "acquire" ELSE "start")
  /\ UNCHANGED <<procs, held, then, mine, wire>>

\* The plan of the run may still not be stored.
Acquire(r) ==
  /\ at[r] = "acquire"
  /\ \/ refs' = refs \cup {r} /\ idle' = FALSE /\ Go(r, "active")
     \/ Go(r, "over") /\ UNCHANGED held
  /\ UNCHANGED <<procs, then, mine, wire>>

EndRun(r) ==
  /\ at[r] = "active" /\ call[r] = "none"
  /\ Go(r, "release")
  /\ UNCHANGED <<procs, held, then, mine, wire>>

\* A cancelled call stops the server. Its thread is waited for, but no longer
\* than three seconds.
CancelRun(r) ==
  /\ at[r] = "active" /\ call[r] # "none"
  /\ Halt(r, "release")
  /\ UNCHANGED <<procs, held, mine, wire>>

Release(r) ==
  /\ at[r] = "release"
  /\ refs' = refs \ {r}
  /\ Go(r, IF r \in refs THEN "look" ELSE "over")
  /\ UNCHANGED <<procs, idle, then, mine, wire>>

LookForOthers(r) ==
  /\ at[r] = "look"
  /\ Go(r, IF refs = {} THEN "cool" ELSE "over")
  /\ UNCHANGED <<procs, held, then, mine, wire>>

Cool(r) ==
  /\ at[r] = "cool"
  /\ idle' = TRUE
  /\ Go(r, "over")
  /\ UNCHANGED <<procs, refs, then, mine, wire>>

Run(r) ==
  \/ Resolve(r) \/ Acquire(r) \/ EndRun(r) \/ CancelRun(r) \/ Release(r)
  \/ LookForOthers(r) \/ Cool(r)

-----------------------------------------------------------------------------
(* The thread of a tool call, and the child at the other end of the pipe.  *)

\* The thread leaves the exchange, if it is in it.
Finish(r) ==
  /\ call' = [call EXCEPT ![r] = "none"]
  /\ lock' = [c \in Children |-> IF lock[c] = r THEN Free ELSE lock[c]]

\* No session, or one that is being stopped, is an error at once.
Begin(r) ==
  /\ at[r] = "active" /\ call[r] = "none" /\ asked[r].n < MaxCalls
  /\ asked' = [asked EXCEPT ![r] = [child |-> session, n |-> @.n + 1]]
  /\ call' = [call EXCEPT ![r] = IF registered /\ session \notin stopping \cup {None}
                                 THEN "queue" ELSE "none"]
  /\ UNCHANGED <<procs, held, place, lock, owed>>

\* Mutant: the exchange is locked for the write only.
SendUnlocked(r) ==
  LET c == asked[r].child IN
  /\ call[r] = "queue"
  /\ IF c \in stopping THEN Finish(r) /\ UNCHANGED owed
     ELSE /\ owed' = [owed EXCEPT ![c] = @ \cup {Request(r)}]
          /\ call' = [call EXCEPT ![r] = "wait"]
          /\ UNCHANGED lock
  /\ UNCHANGED <<procs, held, place, asked>>

\* The exchange is locked for the whole round trip.
SendCall(r) ==
  LET c == asked[r].child IN
  /\ call[r] = "queue" /\ lock[c] = Free
  /\ IF c \in stopping THEN Finish(r) /\ UNCHANGED owed
     ELSE /\ lock' = [lock EXCEPT ![c] = r]
          /\ owed' = [owed EXCEPT ![c] = @ \cup {Request(r)}]
          /\ call' = [call EXCEPT ![r] = "wait"]
  /\ UNCHANGED <<procs, held, place, asked>>

\* The child has answered some request, or had before it died. A response to
\* another request than the one of this call is dropped.
Receive(r) ==
  LET c == asked[r].child IN
  /\ call[r] = "wait"
  /\ \E q \in owed[c] :
       /\ owed' = [owed EXCEPT ![c] = @ \ {q}]
       /\ IF q = Request(r) THEN Finish(r) ELSE UNCHANGED <<call, lock>>
  /\ UNCHANGED <<procs, held, place, asked>>

\* The deadline, the stopping flag, or the end of the child's output.
GiveUp(r) ==
  /\ call[r] = "wait"
  /\ Finish(r)
  /\ UNCHANGED <<procs, held, place, asked, owed>>

Call(r) == Begin(r) \/ SendCall(r) \/ Receive(r) \/ GiveUp(r)

Exit(c) ==
  /\ c \in up
  /\ up' = up \ {c}
  /\ UNCHANGED <<registered, spawned, stopping, session, starting, status, overwritten, held,
                 place, wire>>

-----------------------------------------------------------------------------
(* The user and the reaper.                                                *)

UserStart(u) ==
  /\ at[u] = "idle"
  /\ Go(u, "start")
  /\ UNCHANGED <<procs, held, then, mine, wire>>

UserStop(u) ==
  /\ at[u] = "idle"
  /\ Halt(u, "over")
  /\ UNCHANGED <<procs, held, mine, wire>>

\* reconnect stops, and then starts.
UserReconnect(u) ==
  /\ at[u] = "idle"
  /\ Halt(u, "start")
  /\ UNCHANGED <<procs, held, mine, wire>>

\* liveness forgets a session whose child has exited.
UserLiveness(u) ==
  /\ at[u] = "idle"
  /\ session' = IF session \in up THEN session ELSE None
  /\ Go(u, "over")
  /\ UNCHANGED <<registered, spawned, up, stopping, starting, status, overwritten, held, then,
                 mine, wire>>

\* delete, and an update that disables: a running server is stopped first.
UserRemove(u) ==
  /\ at[u] = "idle"
  /\ IF Running THEN Halt(u, "remove") ELSE Go(u, "remove") /\ UNCHANGED then
  /\ UNCHANGED <<procs, held, mine, wire>>

Remove(u) ==
  /\ at[u] = "remove"
  /\ registered' = FALSE
  /\ status' = "none"
  /\ refs' = {} /\ idle' = FALSE
  /\ Go(u, "over")
  /\ UNCHANGED <<spawned, up, stopping, session, starting, overwritten, then, mine, wire>>

User(u) ==
  \/ UserStart(u) \/ UserStop(u) \/ UserReconnect(u) \/ UserLiveness(u) \/ UserRemove(u)
  \/ Remove(u)

\* reap_idle would stop a server that is running; in any case it is no longer
\* idle.
Reap ==
  /\ idle /\ ~Running
  /\ idle' = FALSE
  /\ UNCHANGED <<procs, refs, place, wire>>

-----------------------------------------------------------------------------
ServerNext ==
  \/ \E a \in Actors : Stop(a) \/ Start(a)
  \/ \E r \in Runs : Run(r) \/ Call(r)
  \/ \E u \in Users : User(u)
  \/ \E c \in Children : Exit(c)
  \/ Reap

ServerSpec == ServerInit /\ [][ServerNext]_serverVars

\* A run that leaves goes on while it can. Nothing is asked of the server and
\* no deadline has to pass: a slow server may be slow for ever.
FairServer ==
  /\ ServerSpec
  /\ \A r \in Runs : WF_serverVars(Stop(r) \/ Release(r) \/ LookForOthers(r) \/ Cool(r))

-----------------------------------------------------------------------------
(* Correctness.                                                            *)

RunAt  == {"acquire", "active", "release", "look", "cool"}
UserAt == {"remove"}
BothAt == {"idle", "signal", "detach", "start", "spawn", "handshake", "fail", "register", "over"}

\* The types of the maps of McpRuntime: a session is of a child that was spawned.
ServerTypes ==
  /\ registered \in BOOLEAN
  /\ spawned \in 0..MaxChildren
  /\ up \subseteq 1..spawned /\ stopping \subseteq 1..spawned
  /\ overwritten \subseteq 1..spawned
  /\ session \in 0..spawned /\ starting \in 0..spawned
  /\ status \in {"none", "started", "stopped"}
  /\ refs \subseteq Runs /\ idle \in BOOLEAN
  /\ at \in [Actors -> RunAt \cup UserAt \cup BothAt]
  /\ then \in [Actors -> {"over", "start", "spawn", "release", "remove"}]
  /\ mine \in [Actors -> 0..spawned]
  /\ call \in [Runs -> {"none", "queue", "wait"}]
  /\ asked \in [Runs -> [child : 0..spawned, n : 0..MaxCalls]]
  /\ lock \in [Children -> Runs \cup {Free}]
  /\ owed \in [Children -> SUBSET [run : Runs, n : 1..MaxCalls]]

\* mcp_runtime.rs:1997 and :2008: a response with another id is taken for the
\* one of an abandoned request and dropped. The answer of a call that waits is
\* never dropped so, though the calls of several runs share the pipe and those
\* that timed out leave their answers in it.
AnswersReachAskers ==
  \A r \in Runs : call[r] = "wait" => Request(r) \in owed[asked[r].child]

\* mcp_runtime.rs:215-226, T04: "cancellation never waits on a slow server". A
\* run cancelled in a call lets its references go, although no server answers
\* and no deadline passes.
CancelReturns ==
  \A r \in Runs : (at[r] = "signal" /\ then[r] = "release") ~> (at[r] = "over")

\* mcp_runtime.rs:683-720: no child outlives the record that stops it, whatever
\* fails in a start and whoever stops or starts the server meanwhile; except
\* one whose session a concurrent start has overwritten.
NoOrphans ==
  \A c \in up :
    \/ c = session \/ c \in overwritten
    \/ \E a \in Actors : mine[a] = c
=============================================================================
