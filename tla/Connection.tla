----------------------------- MODULE Connection -----------------------------
(***************************************************************************)
(* One connection: the loop that reads and answers requests (gateway.py,   *)
(* handle_conn and dispatch) and the three tasks a login starts beside it, *)
(* time_pusher, combat_loop and spawn_world, all writing to one socket.    *)
(* A handler runs without an await, so it is one step; between two steps   *)
(* any task may run.  drain waits until the client has read enough.        *)
(*                                                                         *)
(* Abstracted: a frame is its kind; a request is one of five, after what   *)
(* its handler does to the connection; what the tasks push of the map is   *)
(* one frame (Population and Combat have the content).                     *)
(***************************************************************************)
EXTENDS Integers, FiniteSets, Sequences

CONSTANTS
    HighWater,      \* frames the transport buffers before drain waits
    MaxAoi,         \* bound: combat_loop adds no frame to that many unread
    MaxInbox,       \* bound on the requests sent and not yet read
    MaxSent,        \* bound on the requests sent
    MaxFaults       \* bound on the saves that raise

ASSUME ConnectionAssumption ==
    /\ HighWater \in Nat /\ MaxAoi \in Nat /\ MaxInbox \in Nat \ {0}
    /\ MaxSent \in Nat /\ MaxFaults \in Nat

VARIABLES
    up,             \* the client has the connection open
    inbox,          \* requests sent, not yet read
    wire,           \* the kinds of the frames written and not yet received
    closed,         \* writer.close() was called
    conn,           \* handle_conn: "read", "drain" or "done"
    alive,          \* s.alive
    in_world,       \* s.in_world
    time_task, combat_task, spawn_task,     \* the await each is at, or "none", "done"
    stale,          \* the client waits for server time
    bag,            \* the client's bag: "none", "empty" (initialized) or "full"
    seen,           \* the kinds of frame the client has received
    sent, faults    \* bounds: requests sent, saves that raised

client == <<stale, bag, seen>>
vars == <<up, inbox, wire, closed, conn, alive, in_world, time_task, combat_task,
          spawn_task, stale, bag, seen, sent, faults>>

\* "broken" makes its handler raise; "other" has no handler, or one that answers [].
Requests == {"login", "heartbeat", "teleport", "broken", "other"}
Ended(t) == t \in {"none", "done"}

Init ==
    /\ up = TRUE /\ inbox = <<>> /\ wire = <<>> /\ closed = FALSE
    /\ conn = "read" /\ alive = TRUE /\ in_world = FALSE
    /\ time_task = "none" /\ combat_task = "none" /\ spawn_task = "none"
    /\ stale = FALSE /\ bag = "none" /\ seen = {}
    /\ sent = 0 /\ faults = 0
-----------------------------------------------------------------------------
\* The client.

\* It asks for a teleport only from the world.
Send(r) ==
    /\ up /\ sent < MaxSent /\ Len(inbox) < MaxInbox
    /\ r = "teleport" => in_world
    /\ inbox' = Append(inbox, r)
    /\ sent' = sent + 1
    /\ UNCHANGED <<up, wire, closed, conn, alive, in_world, time_task, combat_task,
                   spawn_task, client, faults>>

Receive ==
    /\ up /\ wire # <<>>
    /\ LET f == Head(wire) IN
       /\ seen' = seen \union {f}
       /\ stale' = (stale /\ f # "time")
       /\ bag' = CASE f = "bag" -> "empty" [] f = "items" -> "full" [] OTHER -> bag
    /\ wire' = Tail(wire)
    /\ UNCHANGED <<up, inbox, closed, conn, alive, in_world, time_task, combat_task,
                   spawn_task, sent, faults>>

\* CNetMonitor watches the server time once the client is in the world.
Watch ==
    /\ up /\ "login" \in seen /\ ~stale
    /\ stale' = TRUE
    /\ UNCHANGED <<up, inbox, wire, closed, conn, alive, in_world, time_task,
                   combat_task, spawn_task, bag, seen, sent, faults>>

\* The client leaves, or has read all of a connection the server closed.
Leave ==
    /\ up /\ up' = FALSE
    /\ UNCHANGED <<inbox, wire, closed, conn, alive, in_world, time_task, combat_task,
                   spawn_task, client, sent, faults>>
SeeClose == closed /\ wire = <<>> /\ Leave
-----------------------------------------------------------------------------
\* A write to a transport that is closing or lost is dropped.
Write(fs) == wire' = IF closed \/ ~up THEN wire ELSE wire \o fs

Drained == Len(wire) <= HighWater
Cancelled(t) == IF Ended(t) THEN t ELSE "done"

\* Bugs a change of this code could bring in stand before the definition they
\* would replace; they only show that a property below notices them.
FinallyOpen(ok) ==          \* no writer.close()
    /\ alive' = FALSE /\ conn' = "done"
    /\ time_task' = Cancelled(time_task) /\ combat_task' = Cancelled(combat_task)
    /\ faults' = IF ok THEN faults ELSE faults + 1
    /\ UNCHANGED closed

\* The finally block of handle_conn.  If save_session raises, the rest of it
\* is not done.  spawn_task is not cancelled.
Finally(ok) ==
    /\ alive' = FALSE /\ conn' = "done"
    /\ IF ok
       THEN /\ time_task' = Cancelled(time_task) /\ combat_task' = Cancelled(combat_task)
            /\ closed' = TRUE
            /\ UNCHANGED faults
       ELSE /\ in_world /\ faults < MaxFaults /\ faults' = faults + 1
            /\ UNCHANGED <<time_task, combat_task, closed>>
-----------------------------------------------------------------------------
LoginSeedsLate ==           \* push_equip_info after the reply
    /\ in_world' = TRUE
    /\ time_task' = IF time_task = "none" THEN "push" ELSE time_task
    /\ combat_task' = IF combat_task = "none" THEN "sleep" ELSE combat_task
    /\ spawn_task' = "sleep"
    /\ Write(<<"login", "bag", "info", "equip">>)
LoginSpawnsOnce ==          \* no second spawn_world, as for the other two tasks
    /\ in_world' = TRUE
    /\ time_task' = IF time_task = "none" THEN "push" ELSE time_task
    /\ combat_task' = IF combat_task = "none" THEN "sleep" ELSE combat_task
    /\ spawn_task' = IF spawn_task = "none" THEN "sleep" ELSE spawn_task
    /\ Write(<<"equip", "login", "bag", "info">>)

\* on_login_gateway: equipment state is pushed at once, the rest is the answer.
LoginGateway ==
    /\ in_world' = TRUE
    /\ time_task' = IF time_task = "none" THEN "push" ELSE time_task
    /\ combat_task' = IF combat_task = "none" THEN "sleep" ELSE combat_task
    /\ spawn_task' = "sleep"
    /\ Write(<<"equip", "login", "bag", "info">>)

\* on_teleport, as far as the connection goes: _start_spawn cancels the
\* population under way.
Teleport ==
    /\ spawn_task' = "sleep"
    /\ Write(<<"teleport">>)
    /\ UNCHANGED <<in_world, time_task, combat_task>>

\* on_heartbeat.
Heartbeat ==
    /\ Write(<<"time">>)
    /\ UNCHANGED <<in_world, time_task, combat_task, spawn_task>>

\* dispatch of a request with no handler, or with nothing to answer.
Ignored == UNCHANGED <<wire, in_world, time_task, combat_task, spawn_task>>

\* A turn of the loop in handle_conn: read, dispatch, write the answer.
Serve ==
    /\ conn = "read" /\ inbox # <<>> /\ Head(inbox) # "broken"
    /\ CASE Head(inbox) = "login" -> LoginGateway
         [] Head(inbox) = "teleport" -> Teleport
         [] Head(inbox) = "heartbeat" -> Heartbeat
         [] OTHER -> Ignored
    /\ inbox' = Tail(inbox) /\ conn' = "drain"
    /\ UNCHANGED <<up, closed, alive, client, sent, faults>>

ServeDrained ==
    /\ conn = "drain" /\ Drained
    /\ conn' = "read"
    /\ UNCHANGED <<up, inbox, wire, closed, alive, in_world, time_task, combat_task,
                   spawn_task, client, sent, faults>>

\* The client is gone, or a handler raised.
ServeEnds(ok) ==
    /\ \/ conn = "read" /\ inbox = <<>> /\ ~up
       \/ conn = "read" /\ inbox # <<>> /\ Head(inbox) = "broken"
       \/ conn = "drain" /\ ~up
    /\ Finally(ok)
    /\ UNCHANGED <<up, inbox, wire, in_world, spawn_task, client, sent>>
-----------------------------------------------------------------------------
PushTimeOnce ==             \* no loop around the push
    /\ time_task = "drain" /\ (Drained \/ ~up)
    /\ time_task' = "done" /\ UNCHANGED wire
PushTimeUndrained ==        \* no drain after the push
    \/ time_task = "push" /\ time_task' = "sleep" /\ Write(<<"time">>)
    \/ time_task = "sleep" /\ time_task' = "push" /\ UNCHANGED wire

\* time_pusher: the test of s.alive with the push, ...
PushTime ==
    \/ /\ time_task = "push"
       /\ IF alive THEN time_task' = "drain" /\ Write(<<"time">>)
                   ELSE time_task' = "done" /\ UNCHANGED wire
    \/ time_task = "sleep" /\ time_task' = "push" /\ UNCHANGED wire

\* ... and the end of its drain.
PushDrained ==
    /\ time_task = "drain" /\ (Drained \/ ~up)
    /\ time_task' = IF up THEN "sleep" ELSE "done"
    /\ UNCHANGED wire

TimePusher ==
    /\ PushTime \/ PushDrained
    /\ UNCHANGED <<up, inbox, closed, conn, alive, in_world, combat_task, spawn_task,
                   client, sent, faults>>

\* combat_loop: it tests s.alive before it sleeps, not after, and never drains.
CombatLoop ==
    /\ combat_task = "sleep"
    /\ combat_task' = IF alive THEN "sleep" ELSE "done"
    /\ \/ UNCHANGED wire
       \/ in_world /\ Len(wire) < MaxAoi /\ Write(<<"aoi">>)
    /\ UNCHANGED <<up, inbox, closed, conn, alive, in_world, time_task, spawn_task,
                   client, sent, faults>>

\* spawn_world: it sleeps, pushes the population, drains, ...
Spawn ==
    /\ spawn_task = "sleep"
    /\ IF alive THEN spawn_task' = "population" /\ Write(<<"aoi">>)
                ELSE spawn_task' = "done" /\ UNCHANGED wire

\* ... restores the inventory and drains again.
SpawnDrained ==
    /\ spawn_task \in {"population", "inventory"} /\ (Drained \/ ~up)
    /\ IF spawn_task = "population" /\ up
       THEN spawn_task' = "inventory" /\ Write(<<"items">>)
       ELSE spawn_task' = "done" /\ UNCHANGED wire

SpawnWorld ==
    /\ Spawn \/ SpawnDrained
    /\ UNCHANGED <<up, inbox, closed, conn, alive, in_world, time_task, combat_task,
                   client, sent, faults>>
-----------------------------------------------------------------------------
Next ==
    \/ \E r \in Requests : Send(r)
    \/ Receive \/ Watch \/ Leave \/ SeeClose
    \/ Serve \/ ServeDrained \/ \E ok \in BOOLEAN : ServeEnds(ok)
    \/ TimePusher \/ CombatLoop \/ SpawnWorld

Spec == Init /\ [][Next]_vars

\* The event loop resumes what can go on, and a client that stays reads its
\* socket; a client need not ask for anything, nor leave.  When the transport has
\* room again it wakes every drain that waits, whatever is written before the
\* woken task runs: a drain that could end again and again does end (SF).
Fairness ==
    /\ WF_vars(Receive) /\ WF_vars(SeeClose)
    /\ WF_vars(Serve) /\ SF_vars(ServeDrained)
    /\ WF_vars(\E ok \in BOOLEAN : ServeEnds(ok))
    /\ SF_vars(TimePusher) /\ WF_vars(CombatLoop) /\ SF_vars(SpawnWorld)

FairSpec == Spec /\ Fairness
-----------------------------------------------------------------------------
\* combat_loop pushes without draining; all the other writers wait for the client to
\* read.  Even together, and whatever they wait for, they leave no more unread than
\* the transport's limit and one turn of each.
Unread == {i \in DOMAIN wire : wire[i] # "aoi"}
UnreadBounded == Cardinality(Unread) <= HighWater + 6

\* Whatever the tasks do, the client has the equipment state before the first
\* level update, and an initialized bag before the first item: it would index nil
\* otherwise (on_login_gateway, push_equip_info).
SeededFirst ==
    /\ "info" \in seen => "equip" \in seen
    /\ "items" \in seen => "bag" \in seen

\* time_pusher keeps server time advancing for a client that stays.
ServerTimeAdvances == stale ~> ~stale \/ ~up \/ conn = "done"

\* A bag that a login has emptied is filled again, also when teleports or further
\* logins cancel the population under way (spawn_world, _start_spawn).
BagRestored == bag = "empty" ~> bag = "full" \/ ~up \/ conn = "done"

\* Whatever ends a connection, its tasks end too, even if the last save raised and
\* they were not cancelled; and unless it raised, the client is let go.
EndsWithItsClient == conn = "done" ~>
    /\ Ended(time_task) /\ Ended(combat_task) /\ Ended(spawn_task)
    /\ faults = 0 => ~up
=============================================================================
