------------------------------ MODULE LiveRoom ------------------------------
(***************************************************************************)
(* The collaboration sidecar's memory of one document: the live rooms, one *)
(* per generation, that browsers edit through, while the durable history   *)
(* moves on underneath them.                                               *)
(*                                                                         *)
(* src/src/features/collaboration/server/create-server.ts wires the hooks  *)
(* of Hocuspocus, and server/durable-update-hook.ts makes every update     *)
(* durable before Hocuspocus may apply it to the room.  A step of this     *)
(* specification is the code that runs between two awaits.                 *)
(*                                                                         *)
(* The durable store is CollaborationPersistence seen from here: a history *)
(* that only grows, fenced by the current generation.  Hocuspocus itself   *)
(* is not part of the repository: it is assumed to handle the frames of    *)
(* one connection one after another and to call afterHandleMessage after   *)
(* it has applied one, and is otherwise left free.                         *)
(***************************************************************************)
EXTENDS Integers, Sequences, FiniteSets

CONSTANTS
    Connections,    \* connection objects; each serves one session
    Updates,        \* updates that browsers make
    Commands,       \* updates that server commands make
    MaxGeneration,  \* bound: generations explored
    LingeringRooms  \* whether Hocuspocus admits a connection to a room that
                    \* its last connection has left but that is not unloaded

ASSUME UpdatesAssumption == Updates # {} /\ Updates \cap Commands = {}
ASSUME ConnectionsAssumption == IsFiniteSet(Connections)
ASSUME GenerationAssumption == MaxGeneration \in Nat \ {0}
ASSUME LingeringAssumption == LingeringRooms \in BOOLEAN

Generations == 1 .. MaxGeneration

VARIABLES
    generation,   \* store: the current generation
    history,      \* store: the accepted updates, in order
    saved,        \* store: how much of history the last checkpoint covers
    jobs,         \* store: commands that still await publication
    closure,      \* store: archival, and the room closure it owes
    rooms,        \* sidecar: the room of each generation
    connections,  \* sidecar: each connection and the room it belongs to
    frames,       \* sidecar: the update frame a connection is working on
    sequencer,    \* sidecar: who holds (first) and awaits each room's turn
    drain         \* sidecar: how far shutting down has come

vars == <<generation, history, saved, jobs, closure, rooms, connections,
          frames, sequencer, drain>>
storeVars == <<generation, history, saved, jobs, closure>>

-----------------------------------------------------------------------------
(* State.                                                                  *)

Entry == [update : Updates \cup Commands, generation : Generations]

\* "opening" until the snapshot is read, "read" until it is installed.
Room == [phase : {"absent", "opening", "read", "live"},
         content : SUBSET (Updates \cup Commands)]

\* "waiting" is authenticated but not yet in its room; "closed" has lost its
\* place while the room's document is still in memory, "gone" lost both.
\* since is the length of the history when an attached one was attached.
Connection == [phase : {"away", "waiting", "attached", "closed", "gone"},
               generation : Generations, since : Nat]

\* Where beforeHandleMessage is: waiting for its turn, in the transaction,
\* back from it, or done and leaving Hocuspocus to apply the update.
Stages == {"idle", "queued", "appending", "appended", "applying"}

Frame == [stage : Stages, update : Updates, rotated : BOOLEAN]

Drain == [phase : {"serving", "closing", "loaded", "drained", "failed"},
          captured : BOOLEAN, generation : Generations]

NoFrame == [stage |-> "idle", update |-> CHOOSE u \in Updates : TRUE,
            rotated |-> FALSE]
AbsentRoom == [phase |-> "absent", content |-> {}]
Draining == drain.phase # "serving"
RoomOf(c) == connections[c].generation
Attached(g) ==
    {c \in Connections : connections[c].phase = "attached" /\ RoomOf(c) = g}
Waiting(g) ==
    {c \in Connections : connections[c].phase = "waiting" /\ RoomOf(c) = g}

\* The set that create-server.ts calls blocked.
Blocked(c) == connections[c].phase \in {"closed", "gone"}

Archived == closure # "none"
AcceptedUpdates == {history[i].update : i \in DOMAIN history}

Init ==
    /\ generation = 1
    /\ history = <<>>
    /\ saved = 0
    /\ jobs = {}
    /\ closure = "none"
    /\ rooms = [g \in Generations |-> AbsentRoom]
    /\ connections = [c \in Connections |->
                        [phase |-> "away", generation |-> 1, since |-> 0]]
    /\ frames = [c \in Connections |-> NoFrame]
    /\ sequencer = [g \in Generations |-> <<>>]
    /\ drain = [phase |-> "serving", captured |-> FALSE, generation |-> 1]

-----------------------------------------------------------------------------
(* Closing.                                                                *)

Move(table, cs, phase) ==
    [c \in Connections |->
       IF c \in cs THEN [table[c] EXCEPT !.phase = phase, !.since = 0]
       ELSE table[c]]

\* closeRoomByName: whoever is in the room is blocked and disconnected; the
\* room stays in memory, and connections that wait for it are left alone.
CloseRooms(gs) == Move(connections, UNION {Attached(g) : g \in gs}, "closed")

\* Archival commits the closure of the current room as a job, which the
\* room-closure worker delivers.
Archive ==
    /\ ~Archived
    /\ closure' = "owed"
    /\ UNCHANGED <<generation, history, saved, jobs, rooms, connections, frames,
                   sequencer, drain>>

CloseArchivedRoom ==
    /\ closure = "owed"
    /\ ~Draining
    /\ closure' = "done"
    /\ connections' = CloseRooms({generation})
    /\ UNCHANGED <<generation, history, saved, jobs, rooms, frames, sequencer, drain>>

\* The browser goes away, or a frame of it is refused: a bad message, an
\* expired or revoked capability, a rate limit.
Leave(c) ==
    /\ connections[c].phase \in {"waiting", "attached"}
    /\ connections' = Move(connections, {c},
                           IF connections[c].phase = "waiting" THEN "gone"
                           ELSE "closed")
    /\ UNCHANGED <<storeVars, rooms, frames, sequencer, drain>>

-----------------------------------------------------------------------------
(* Joining a room.                                                         *)

Authenticate(c) ==
    /\ connections[c].phase = "away"
    /\ ~Draining /\ ~Archived
    /\ connections' = [connections EXCEPT ![c].phase = "waiting",
                                          ![c].generation = generation]
    /\ UNCHANGED <<storeVars, rooms, frames, sequencer, drain>>

StartLoad(g) ==
    /\ rooms[g].phase = "absent"
    /\ Waiting(g) # {}
    /\ ~Draining
    /\ rooms' = [rooms EXCEPT ![g].phase = "opening"]
    /\ UNCHANGED <<storeVars, connections, frames, sequencer, drain>>

\* Hocuspocus shares one load between all who wait: all are let go.
FailLoad(g) ==
    /\ rooms' = [rooms EXCEPT ![g] = AbsentRoom]
    /\ connections' = Move(connections, Waiting(g), "gone")
    /\ UNCHANGED <<storeVars, frames, sequencer, drain>>

\* The read transaction of persistence.load.
ReadSnapshot(g) ==
    /\ rooms[g].phase = "opening"
    /\ IF generation = g
       THEN /\ rooms' = [rooms EXCEPT
                           ![g] = [phase |-> "read", content |-> AcceptedUpdates]]
            /\ UNCHANGED <<storeVars, connections, frames, sequencer, drain>>
       ELSE FailLoad(g)

\* Storage may fail, and the resident-document limit may refuse the room.
LoadFails(g) ==
    /\ rooms[g].phase \in {"opening", "read"}
    /\ FailLoad(g)

Install(g) ==
    /\ rooms[g].phase = "read"
    /\ ~Draining
    /\ rooms' = [rooms EXCEPT ![g].phase = "live"]
    /\ UNCHANGED <<storeVars, connections, frames, sequencer, drain>>

Emptied(g) ==
    /\ Attached(g) = {}
    /\ \E c \in Connections : connections[c].phase = "closed" /\ RoomOf(c) = g

\* The connected hook refuses newcomers while draining.
Attach(c) ==
    LET g == RoomOf(c) IN
    /\ connections[c].phase = "waiting"
    /\ rooms[g].phase = "live"
    /\ Emptied(g) => LingeringRooms
    /\ connections' =
         [connections EXCEPT
            ![c].phase = IF Draining THEN "gone" ELSE "attached",
            ![c].since = IF Draining THEN 0 ELSE Len(history)]
    /\ UNCHANGED <<storeVars, rooms, frames, sequencer, drain>>

\* unloadImmediately: nobody is in the room any more.  A frame of a connection
\* that has left may still be in its transaction.
Unload(g) ==
    /\ rooms[g].phase = "live"
    /\ Attached(g) = {}
    /\ rooms' = [rooms EXCEPT ![g] = AbsentRoom]
    /\ connections' =
         Move(connections,
              {c \in Connections : connections[c].phase = "closed" /\ RoomOf(c) = g},
              "gone")
    /\ UNCHANGED <<storeVars, frames, sequencer, drain>>

-----------------------------------------------------------------------------
(* Update frames: beforeHandleMessage, the room's update, and              *)
(* afterHandleMessage.                                                     *)

Become(c, stage) == frames' = [frames EXCEPT ![c].stage = stage]
End(c) == frames' = [frames EXCEPT ![c] = NoFrame]

HasTurn(c) ==
    /\ sequencer[RoomOf(c)] # <<>>
    /\ Head(sequencer[RoomOf(c)]) = c

\* The function that acquire returns: releasing again has no effect.
Release(c) ==
    sequencer' = [sequencer EXCEPT ![RoomOf(c)] = IF HasTurn(c) THEN Tail(@) ELSE @]

\* Mutant: the catch block of before() does not release the turn.
Refuse_KeepsTurn(c) ==
    /\ End(c)
    /\ connections' = IF connections[c].phase = "attached"
                      THEN Move(connections, {c}, "closed") ELSE connections
    /\ UNCHANGED sequencer

\* A refused frame releases its turn, and its connection is blocked and closed.
Refuse(c) ==
    /\ End(c)
    /\ Release(c)
    /\ connections' = IF connections[c].phase = "attached"
                      THEN Move(connections, {c}, "closed") ELSE connections

\* The checks before the first await; a reader's frame is never appended.
Receive(c, u) ==
    /\ connections[c].phase = "attached"
    /\ frames[c].stage = "idle"
    /\ ~Draining
    /\ frames' = [frames EXCEPT ![c] = [stage |-> "queued", update |-> u,
                                        rotated |-> FALSE]]
    /\ sequencer' = [sequencer EXCEPT ![RoomOf(c)] = Append(@, c)]
    /\ UNCHANGED <<storeVars, rooms, connections, drain>>

MayAppend(c) == ~Draining /\ ~Blocked(c)

\* Its turn has come: the frame may have become unwelcome meanwhile, its
\* capability may have expired, the room may be too big.
Acquire(c) ==
    /\ frames[c].stage = "queued"
    /\ HasTurn(c)
    /\ \/ /\ MayAppend(c)
          /\ Become(c, "appending")
          /\ UNCHANGED <<connections, sequencer>>
       \/ Refuse(c)
    /\ UNCHANGED <<storeVars, rooms, drain>>

\* Accepting an update; a resent one that the store knows changes nothing.
Accept(u, g) ==
    /\ generation' = g
    /\ history' = IF u \in AcceptedUpdates THEN history
                  ELSE Append(history, [update |-> u, generation |-> g])

\* The transaction of appendAuthorizedClientUpdate, which may rotate the
\* document into its next generation.
Commit(c) ==
    LET u == frames[c].update IN
    /\ frames[c].stage = "appending"
    /\ RoomOf(c) = generation /\ ~Archived
    /\ \E g \in {generation, generation + 1} \cap Generations :
         /\ u \in AcceptedUpdates => g = generation
         /\ Accept(u, g)
         /\ frames' = [frames EXCEPT ![c].stage = "appended",
                                     ![c].rotated = (g # RoomOf(c))]
    /\ UNCHANGED <<saved, jobs, closure, rooms, connections, sequencer, drain>>

\* Mutant: a failing append is swallowed and Hocuspocus goes on.
CommitFails_Swallowed(c) ==
    /\ frames[c].stage = "appending"
    /\ Become(c, "appended")
    /\ UNCHANGED <<storeVars, rooms, connections, sequencer, drain>>

\* The store refuses the update (a stale generation, a revoked capability, an
\* invalid document) or fails.
CommitFails(c) ==
    /\ frames[c].stage = "appending"
    /\ Refuse(c)
    /\ UNCHANGED <<storeVars, rooms, drain>>

\* Mutant: the connection is not looked at again after the append.
Interrupted_Never(c) == FALSE

Interrupted(c) == Draining \/ Blocked(c)

\* Mutant: the turn is released as soon as the update is durable.
Resume_ReleasesEarly(c) ==
    /\ frames[c].stage = "appended"
    /\ IF Interrupted(c)
       THEN End(c) /\ connections' = CloseRooms({RoomOf(c)})
       ELSE Become(c, "applying") /\ UNCHANGED connections
    /\ Release(c)
    /\ UNCHANGED <<storeVars, rooms, drain>>

\* Back from the transaction.  If the connection was lost meanwhile, Hocuspocus
\* will not apply the update, so the room is closed for it to be reloaded.
Resume(c) ==
    /\ frames[c].stage = "appended"
    /\ IF Interrupted(c)
       THEN /\ End(c)
            /\ Release(c)
            /\ connections' = CloseRooms({RoomOf(c)})
       ELSE /\ Become(c, "applying")
            /\ UNCHANGED <<connections, sequencer>>
    /\ UNCHANGED <<storeVars, rooms, drain>>

\* Hocuspocus applies and broadcasts the update, and after() ends the frame.
ApplyUpdate(c) ==
    LET g == RoomOf(c) IN
    /\ frames[c].stage = "applying"
    /\ rooms' = IF connections[c].phase \in {"attached", "closed"}
                THEN [rooms EXCEPT ![g].content = @ \cup {frames[c].update}]
                ELSE rooms
    /\ End(c)
    /\ Release(c)
    /\ connections' = IF frames[c].rotated THEN CloseRooms({g}) ELSE connections
    /\ UNCHANGED <<storeVars, drain>>

-----------------------------------------------------------------------------
(* Server commands: committed by web processes, published by the sidecar,  *)
(* whose workers main.ts stops before it drains.                           *)

CommitCommand(k) ==
    /\ k \notin AcceptedUpdates
    /\ ~Archived
    /\ \E g \in {generation, generation + 1} \cap Generations :
         /\ Accept(k, g)
         /\ jobs' = jobs \cup {[update |-> k, generation |-> g]}
    /\ UNCHANGED <<saved, closure, rooms, connections, frames, sequencer, drain>>

OlderRooms(g) == {h \in Generations : h < g /\ rooms[h].phase = "live"}

\* publishDurableUpdate for a room that is not in memory: its next load will
\* read the update.  A room that is still loading may look like that too.
PublishNowhere(job) ==
    /\ ~Draining
    /\ rooms[job.generation].phase # "live"
    /\ connections' = CloseRooms(OlderRooms(job.generation))
    /\ jobs' = jobs \ {job}
    /\ UNCHANGED <<generation, history, saved, closure, rooms, frames, sequencer,
                   drain>>

PublishDurableUpdate(job) ==
    /\ ~Draining
    /\ rooms[job.generation].phase = "live"
    /\ rooms' = [rooms EXCEPT ![job.generation].content = @ \cup {job.update}]
    /\ connections' = CloseRooms(OlderRooms(job.generation))
    /\ jobs' = jobs \ {job}
    /\ UNCHANGED <<generation, history, saved, closure, frames, sequencer, drain>>

\* The update does not fit, cannot be applied, or the room is still loading
\* and has no bytes reserved: the room is closed and the job kept.
PublishFails(job) ==
    /\ ~Draining
    /\ rooms[job.generation].phase # "absent"
    /\ connections' = CloseRooms(OlderRooms(job.generation) \cup {job.generation})
    /\ UNCHANGED <<storeVars, rooms, frames, sequencer, drain>>

-----------------------------------------------------------------------------
(* Shutting down.                                                          *)

InMemory(g) == rooms[g].phase = "live"

BeginDrain ==
    /\ ~Draining
    /\ drain' = [drain EXCEPT !.phase = "closing",
                              !.captured = \E g \in Generations : InMemory(g)]
    /\ connections' = CloseRooms(Generations)
    /\ UNCHANGED <<storeVars, rooms, frames, sequencer>>

\* Mutant: the drain does not wait for appends.
WhenIdle_AtOnce == TRUE

WhenIdle == \A c \in Connections : frames[c].stage # "appending"

\* Once no append is in flight, each captured document is loaded ...
LoadForCheckpoint ==
    /\ drain.phase = "closing"
    /\ WhenIdle
    /\ LET captured == drain.captured \/ \E g \in Generations : InMemory(g)
       IN  drain' = [phase |-> IF captured THEN "loaded" ELSE "drained",
                     captured |-> captured, generation |-> generation]
    /\ connections' = CloseRooms(Generations)
    /\ UNCHANGED <<storeVars, rooms, frames, sequencer>>

\* ... and checkpointed, unless a command has rotated it in between.
Checkpoint ==
    /\ drain.phase = "loaded"
    /\ IF generation = drain.generation
       THEN /\ saved' = Len(history)
            /\ drain' = [drain EXCEPT !.phase = "drained"]
       ELSE /\ saved' = saved
            /\ drain' = [drain EXCEPT !.phase = "failed"]
    /\ UNCHANGED <<generation, history, jobs, closure, rooms, connections, frames,
                   sequencer>>

DrainFails ==
    /\ drain.phase \in {"closing", "loaded"}
    /\ drain' = [drain EXCEPT !.phase = "failed"]
    /\ UNCHANGED <<storeVars, rooms, connections, frames, sequencer>>

\* The process dies and is started again; a transaction in flight is lost
\* here, and was committed if Commit came first.
Restart ==
    /\ \E c \in Connections : connections[c].phase \notin {"away", "gone"}
    /\ rooms' = [g \in Generations |-> AbsentRoom]
    /\ connections' =
         Move(connections,
              {c \in Connections : connections[c].phase # "away"}, "gone")
    /\ frames' = [c \in Connections |-> NoFrame]
    /\ sequencer' = [g \in Generations |-> <<>>]
    /\ drain' = [phase |-> "serving", captured |-> FALSE, generation |-> 1]
    /\ UNCHANGED storeVars

-----------------------------------------------------------------------------
(* The specification.                                                      *)

RoomStep(g) ==
    \/ StartLoad(g) \/ ReadSnapshot(g) \/ LoadFails(g) \/ Install(g)
    \/ Unload(g)

FrameStep(c) ==
    \/ Acquire(c) \/ Commit(c) \/ CommitFails(c) \/ Resume(c) \/ ApplyUpdate(c)

ConnectionStep(c) ==
    \/ Authenticate(c) \/ Attach(c) \/ Leave(c)
    \/ \E u \in Updates : Receive(c, u)

CommandStep ==
    \/ \E k \in Commands : CommitCommand(k)
    \/ \E job \in jobs :
         PublishNowhere(job) \/ PublishDurableUpdate(job) \/ PublishFails(job)

DrainStep == BeginDrain \/ LoadForCheckpoint \/ Checkpoint \/ DrainFails

Next ==
    \/ \E g \in Generations : RoomStep(g)
    \/ \E c \in Connections : ConnectionStep(c) \/ FrameStep(c)
    \/ CommandStep
    \/ Archive \/ CloseArchivedRoom
    \/ DrainStep
    \/ Restart

\* Transactions end and continuations run; browsers owe nothing.
Fairness == \A c \in Connections : WF_vars(FrameStep(c))

Spec == Init /\ [][Next]_vars /\ Fairness

-----------------------------------------------------------------------------
(* Correctness.                                                            *)

TypeOK ==
    /\ generation \in Generations
    /\ history \in Seq(Entry)
    /\ saved \in 0 .. Len(history)
    /\ jobs \subseteq Entry
    /\ closure \in {"none", "owed", "done"}
    /\ rooms \in [Generations -> Room]
    /\ connections \in [Connections -> Connection]
    /\ frames \in [Connections -> Frame]
    /\ sequencer \in [Generations -> Seq(Connections)]
    /\ drain \in Drain

\* Nobody is shown what is not durable: every update in a room's memory, which
\* is what peers receive, is part of the accepted history, whatever was refused,
\* interrupted, resent, rotated or lost in a crash on the way there.
DurableFirst ==
    \A g \in Generations : rooms[g].content \subseteq AcceptedUpdates

\* At most one frame of a room is between its append and its update of the
\* room, so frames reach the room in the order in which they were accepted,
\* and every frame that has not ended still stands in line exactly once.
Working(c) == frames[c].stage \in {"appending", "appended", "applying"}

Sequenced ==
    /\ \A c \in Connections : Working(c) => HasTurn(c)
    /\ \A g \in Generations :
         /\ \A i, j \in DOMAIN sequencer[g] :
              sequencer[g][i] = sequencer[g][j] => i = j
         /\ {sequencer[g][i] : i \in DOMAIN sequencer[g]} =
              {c \in Connections : RoomOf(c) = g /\ frames[c].stage # "idle"}

\* An accepted update that has yet to reach a room: a frame is on its way back
\* from the store, or a publication is owed.
OnItsWay(u) ==
    \/ \E c \in Connections :
         frames[c].stage \in {"appended", "applying"} /\ frames[c].update = u
    \/ \E job \in jobs : job.update = u

\* Somebody is about to close this room because its generation has ended.
ClosingSoon(g) ==
    \/ \E c \in Connections :
         /\ RoomOf(c) = g
         /\ frames[c].stage \in {"appended", "applying"}
         /\ frames[c].rotated
    \/ \E job \in jobs : job.generation > g

\* The room was that of the current generation when the connection joined.
JoinedCurrent(c) ==
    \A i \in 1 .. connections[c].since : history[i].generation <= RoomOf(c)

\* Whoever is in the current room while an update is accepted sees it, or is
\* sent away to load the room again: no lost connection, failed publication,
\* rotation or drain leaves a connection behind in a room that missed it.
NobodyLeftBehind ==
    \A c \in Connections :
        connections[c].phase = "attached" /\ JoinedCurrent(c) =>
            \A i \in connections[c].since + 1 .. Len(history) :
                IF history[i].generation = RoomOf(c)
                THEN \/ history[i].update \in rooms[RoomOf(c)].content
                     \/ OnItsWay(history[i].update)
                ELSE ClosingSoon(RoomOf(c))

\* A drain that ends well has checkpointed every update that a browser of this
\* process got accepted, unless no room was in memory when it began.
DrainSavesUpdates ==
    drain.phase = "drained" /\ drain.captured =>
        \A i \in saved + 1 .. Len(history) : history[i].update \in Commands

\* A frame never waits for ever for its turn, whoever left, failed or was
\* refused ahead of it: every path through the hook passes the turn on.
FramesEnd ==
    \A c \in Connections :
        frames[c].stage # "idle" ~> frames[c].stage = "idle"
=============================================================================
