--------------------------- MODULE LiveRoom_proofs ---------------------------
(***************************************************************************)
(* Proofs about LiveRoom, for any connections, updates, commands, number   *)
(* of generations and either behaviour of an emptied room.                 *)
(***************************************************************************)
EXTENDS LiveRoom, TLAPS

-----------------------------------------------------------------------------
(* The invariant.                                                          *)

\* Only a connection that has been in its room has frames.
FramesOfMembers ==
    \A c \in Connections :
        connections[c].phase \in {"away", "waiting"} => frames[c].stage = "idle"

\* What is on its way to a room has been accepted.
Accepted ==
    /\ \A c \in Connections :
         frames[c].stage \in {"appended", "applying"} =>
             frames[c].update \in AcceptedUpdates
    /\ \A job \in jobs : \E i \in DOMAIN history : history[i] = job
    /\ DurableFirst

\* Entries are accepted in the order of the generations, and the current one
\* is that of the newest entry.
Ordered ==
    /\ \A i \in DOMAIN history : history[i].generation <= generation
    /\ generation > 1 => /\ Len(history) > 0
                         /\ history[Len(history)].generation = generation
    /\ \A c \in Connections :
         /\ RoomOf(c) <= generation
         /\ connections[c].phase = "attached" =>
              /\ connections[c].since <= Len(history)
              /\ \A i \in connections[c].since + 1 .. Len(history) :
                   history[i].generation >= RoomOf(c)

\* A room stays in memory while somebody is in it.
RoomsOfMembers ==
    \A c \in Connections :
        connections[c].phase = "attached" => rooms[RoomOf(c)].phase = "live"

\* A frame that will still reach the memory of the room it came from, or close
\* that room.
Carries(d, entry) ==
    /\ RoomOf(d) = entry.generation
    /\ frames[d].update = entry.update
    /\ \/ frames[d].stage = "appended"
       \/ frames[d].stage = "applying" /\ connections[d].phase \in {"attached", "closed"}

Reaches(entry) ==
    \/ entry.update \in rooms[entry.generation].content
    \/ entry \in jobs
    \/ \E d \in Connections : Carries(d, entry)

\* Every entry that a member should see reaches its room, and a member of a
\* room whose generation has ended is about to be sent away.
Served(c) ==
    connections[c].phase = "attached" =>
        /\ \A i \in connections[c].since + 1 .. Len(history) :
             history[i].generation = RoomOf(c) => Reaches(history[i])
        /\ JoinedCurrent(c) /\ generation > RoomOf(c) => ClosingSoon(RoomOf(c))

MembersServed == \A c \in Connections : Served(c)

\* Once the captured documents are being checkpointed no append is in flight.
DrainedInOrder ==
    /\ drain.phase \in {"loaded", "drained"} =>
         \A c \in Connections : frames[c].stage # "appending"
    /\ DrainSavesUpdates

IInv ==
    /\ TypeOK
    /\ FramesOfMembers
    /\ Sequenced
    /\ Accepted
    /\ Ordered
    /\ RoomsOfMembers
    /\ MembersServed
    /\ DrainedInOrder

-----------------------------------------------------------------------------
(* Types.                                                                  *)

\* Moving connections to a phase keeps the table, and who is not moved.
LEMMA MoveFacts ==
    ASSUME connections \in [Connections -> Connection], NEW cs,
           NEW phase \in {"away", "waiting", "attached", "closed", "gone"}
    PROVE  /\ Move(connections, cs, phase) \in [Connections -> Connection]
           /\ \A c \in Connections :
                /\ Move(connections, cs, phase)[c].generation = connections[c].generation
                /\ c \in cs => Move(connections, cs, phase)[c].phase = phase
                /\ c \notin cs => Move(connections, cs, phase)[c] = connections[c]
<1>1. ASSUME NEW c \in Connections
      PROVE  [connections[c] EXCEPT !.phase = phase, !.since = 0] \in Connection
  BY DEF Connection
<1> QED BY <1>1 DEF Move, Connection

LEMMA CloseRoomsFacts ==
    ASSUME connections \in [Connections -> Connection], NEW gs
    PROVE  /\ CloseRooms(gs) \in [Connections -> Connection]
           /\ \A c \in Connections :
                /\ CloseRooms(gs)[c].generation = connections[c].generation
                /\ connections[c].phase = "attached" /\ RoomOf(c) \in gs =>
                     CloseRooms(gs)[c].phase = "closed"
                /\ ~(connections[c].phase = "attached" /\ RoomOf(c) \in gs) =>
                     CloseRooms(gs)[c] = connections[c]
<1> DEFINE cs == UNION {Attached(g) : g \in gs}
<1>1. \A c \in Connections :
        c \in cs <=> connections[c].phase = "attached" /\ RoomOf(c) \in gs
  BY DEF Attached
<1>2. CloseRooms(gs) = Move(connections, cs, "closed")
  BY DEF CloseRooms
<1> QED BY <1>1, <1>2, MoveFacts

LEMMA NoFrameType == NoFrame \in Frame /\ NoFrame.stage = "idle"
BY UpdatesAssumption DEF NoFrame, Frame, Stages

LEMMA InitType == ASSUME Init PROVE TypeOK
<1>1. 1 \in Generations
  BY GenerationAssumption DEF Generations
<1> QED BY <1>1, NoFrameType DEF Init, TypeOK, Room, AbsentRoom, Connection, Drain, Entry

\* Refusing a frame: its turn is passed on and its connection is closed.
LEMMA RefuseType ==
    ASSUME TypeOK, NEW c \in Connections, Refuse(c)
    PROVE  /\ frames' \in [Connections -> Frame]
           /\ sequencer' \in [Generations -> Seq(Connections)]
           /\ connections' \in [Connections -> Connection]
<1>1. frames' \in [Connections -> Frame]
  BY NoFrameType DEF TypeOK, Refuse, End
<1>2. sequencer' \in [Generations -> Seq(Connections)]
  <2>1. RoomOf(c) \in Generations
    BY DEF TypeOK, RoomOf, Connection
  <2>2. HasTurn(c) => Tail(sequencer[RoomOf(c)]) \in Seq(Connections)
    BY <2>1 DEF TypeOK, HasTurn
  <2> QED BY <2>1, <2>2 DEF TypeOK, Refuse, Release
<1>3. connections' \in [Connections -> Connection]
  BY MoveFacts DEF TypeOK, Refuse
<1> QED BY <1>1, <1>2, <1>3

\* Accepting an update.
LEMMA AcceptType ==
    ASSUME TypeOK, NEW u \in Updates \cup Commands, NEW g \in Generations,
           Accept(u, g)
    PROVE  generation' \in Generations /\ history' \in Seq(Entry)
                /\ Len(history') >= Len(history)
<1>1. [update |-> u, generation |-> g] \in Entry
  BY DEF Entry
<1> QED BY <1>1 DEF TypeOK, Accept

LEMMA FrameStepType ==
    ASSUME TypeOK, NEW c \in Connections, FrameStep(c)
    PROVE  TypeOK'
<1> USE DEF storeVars
<1>1. RoomOf(c) \in Generations /\ frames[c] \in Frame
  BY DEF TypeOK, RoomOf, Connection
<1>2. \A stage \in Stages : Become(c, stage) => frames' \in [Connections -> Frame]
  BY DEF TypeOK, Become, Frame
<1>3. CASE Acquire(c)
  BY <1>2, <1>3, RefuseType DEF Acquire, TypeOK, Stages
<1>4. CASE Commit(c)
  <2>1. PICK g \in Generations :
          /\ Accept(frames[c].update, g)
          /\ frames' = [frames EXCEPT ![c].stage = "appended",
                                      ![c].rotated = (g # RoomOf(c))]
    BY <1>4 DEF Commit
  <2>2. /\ generation' \in Generations
        /\ history' \in Seq(Entry)
        /\ Len(history') >= Len(history)
    BY <1>1, <2>1, AcceptType DEF Frame
  <2>3. frames' \in [Connections -> Frame]
    <3>1. [frames[c] EXCEPT !.stage = "appended", !.rotated = (g # RoomOf(c))] \in Frame
      BY <1>1 DEF Frame, Stages
    <3>2. frames' = [frames EXCEPT ![c] =
                       [frames[c] EXCEPT !.stage = "appended", !.rotated = (g # RoomOf(c))]]
      BY <2>1
    <3> QED BY <3>1, <3>2 DEF TypeOK
  <2> QED BY <1>4, <2>2, <2>3 DEF Commit, TypeOK
<1>5. CASE CommitFails(c)
  BY <1>5, RefuseType DEF CommitFails, TypeOK
<1>6. CASE Resume(c)
  <2>1. frames' \in [Connections -> Frame]
    BY <1>2, <1>6, NoFrameType DEF Resume, End, TypeOK, Stages
  <2>2. sequencer' \in [Generations -> Seq(Connections)]
    <3>1. HasTurn(c) => Tail(sequencer[RoomOf(c)]) \in Seq(Connections)
      BY <1>1 DEF TypeOK, HasTurn
    <3> QED BY <1>1, <1>6, <3>1 DEF Resume, Release, TypeOK
  <2>3. connections' \in [Connections -> Connection]
    BY <1>6, CloseRoomsFacts DEF Resume, TypeOK
  <2> QED BY <1>6, <2>1, <2>2, <2>3 DEF Resume, TypeOK
<1>7. CASE ApplyUpdate(c)
  <2>1. frames' \in [Connections -> Frame]
    BY <1>7, NoFrameType DEF ApplyUpdate, End, TypeOK
  <2>2. sequencer' \in [Generations -> Seq(Connections)]
    <3>1. HasTurn(c) => Tail(sequencer[RoomOf(c)]) \in Seq(Connections)
      BY <1>1 DEF TypeOK, HasTurn
    <3> QED BY <1>1, <1>7, <3>1 DEF ApplyUpdate, Release, TypeOK
  <2>3. connections' \in [Connections -> Connection]
    BY <1>7, CloseRoomsFacts DEF ApplyUpdate, TypeOK
  <2>4. rooms' \in [Generations -> Room]
    <3>1. frames[c].update \in Updates
      BY <1>1 DEF Frame
    <3>2. [rooms[RoomOf(c)] EXCEPT !.content = @ \cup {frames[c].update}] \in Room
      BY <1>1, <3>1 DEF TypeOK, Room
    <3> QED BY <1>7, <3>2 DEF ApplyUpdate, TypeOK
  <2> QED BY <1>7, <2>1, <2>2, <2>3, <2>4 DEF ApplyUpdate, TypeOK
<1> QED BY <1>3, <1>4, <1>5, <1>6, <1>7 DEF FrameStep

LEMMA ConnectionStepType ==
    ASSUME TypeOK, NEW c \in Connections, ConnectionStep(c)
    PROVE  TypeOK'
<1> USE DEF storeVars
<1>1. RoomOf(c) \in Generations /\ Len(history) \in Nat
  BY DEF TypeOK, RoomOf, Connection
<1>2. CASE Authenticate(c)
  BY <1>2 DEF Authenticate, TypeOK, Connection
<1>3. CASE Attach(c)
  <2>1. ASSUME NEW phase \in {"gone", "attached"}, NEW n \in Nat
        PROVE  [connections[c] EXCEPT !.phase = phase, !.since = n] \in Connection
    BY DEF TypeOK, Connection
  <2>2. connections' =
          [connections EXCEPT
             ![c] = [connections[c] EXCEPT
                       !.phase = IF Draining THEN "gone" ELSE "attached",
                       !.since = IF Draining THEN 0 ELSE Len(history)]]
    BY <1>3 DEF Attach
  <2>3. connections' \in [Connections -> Connection]
    BY <1>1, <2>1, <2>2 DEF TypeOK
  <2> QED BY <1>3, <2>3 DEF Attach, TypeOK
<1>4. CASE Leave(c)
  BY <1>4, MoveFacts DEF Leave, TypeOK
<1>5. ASSUME NEW u \in Updates, Receive(c, u)
      PROVE  TypeOK'
  BY <1>1, <1>5 DEF Receive, TypeOK, Frame, Stages
<1> QED BY <1>2, <1>3, <1>4, <1>5 DEF ConnectionStep

LEMMA RoomStepType ==
    ASSUME TypeOK, NEW g \in Generations, RoomStep(g)
    PROVE  TypeOK'
<1> USE DEF storeVars
<1>1. AcceptedUpdates \subseteq Updates \cup Commands
  <2>1. \A i \in DOMAIN history : history[i] \in Entry
    BY DEF TypeOK
  <2> QED BY <2>1 DEF AcceptedUpdates, Entry
<1>2. ASSUME FailLoad(g)
      PROVE  TypeOK'
  BY <1>2, MoveFacts DEF FailLoad, TypeOK, Room, AbsentRoom
<1>3. CASE StartLoad(g)
  BY <1>3 DEF StartLoad, TypeOK, Room
<1>4. CASE ReadSnapshot(g)
  <2>1. [phase |-> "read", content |-> AcceptedUpdates] \in Room
    BY <1>1 DEF Room
  <2> QED BY <1>2, <1>4, <2>1 DEF ReadSnapshot, TypeOK
<1>5. CASE LoadFails(g)
  BY <1>2, <1>5 DEF LoadFails
<1>6. CASE Install(g)
  BY <1>6 DEF Install, TypeOK, Room
<1>7. CASE Unload(g)
  <2>1. AbsentRoom \in Room
    BY DEF AbsentRoom, Room
  <2> QED BY <1>7, <2>1, MoveFacts DEF Unload, TypeOK
<1> QED BY <1>3, <1>4, <1>5, <1>6, <1>7 DEF RoomStep

\* Commands, archival, shutting down and restarting.
LEMMA OtherStepType ==
    ASSUME TypeOK,
           CommandStep \/ Archive \/ CloseArchivedRoom \/ DrainStep \/ Restart
    PROVE  TypeOK'
<1> USE DEF storeVars
<1>1. ASSUME NEW k \in Commands, CommitCommand(k)
      PROVE  TypeOK'
  <2>1. PICK g \in Generations :
          Accept(k, g) /\ jobs' = jobs \cup {[update |-> k, generation |-> g]}
    BY <1>1 DEF CommitCommand
  <2>2. /\ generation' \in Generations
        /\ history' \in Seq(Entry)
        /\ Len(history') >= Len(history)
    BY <2>1, AcceptType
  <2>3. jobs' \subseteq Entry
    BY <2>1 DEF Entry, TypeOK
  <2> QED BY <1>1, <2>2, <2>3 DEF CommitCommand, TypeOK
<1>2. ASSUME NEW job \in jobs,
             PublishNowhere(job) \/ PublishDurableUpdate(job) \/ PublishFails(job)
      PROVE  TypeOK'
  <2>1. connections' \in [Connections -> Connection]
    BY <1>2, CloseRoomsFacts DEF PublishNowhere, PublishDurableUpdate, PublishFails,
                                 TypeOK
  <2>2. rooms' \in [Generations -> Room]
    <3>1. job.update \in Updates \cup Commands /\ job.generation \in Generations
      BY DEF TypeOK, Entry
    <3>2. [rooms[job.generation] EXCEPT !.content = @ \cup {job.update}] \in Room
      BY <3>1 DEF TypeOK, Room
    <3> QED BY <1>2, <3>2 DEF PublishNowhere, PublishDurableUpdate, PublishFails, TypeOK
  <2> QED BY <1>2, <2>1, <2>2
          DEF PublishNowhere, PublishDurableUpdate, PublishFails, TypeOK
<1>3. CASE Archive
  BY <1>3 DEF Archive, TypeOK
<1>4. CASE CloseArchivedRoom
  BY <1>4, CloseRoomsFacts DEF CloseArchivedRoom, TypeOK
<1>5. CASE BeginDrain
  BY <1>5, CloseRoomsFacts DEF BeginDrain, TypeOK, Drain
<1>6. CASE LoadForCheckpoint
  BY <1>6, CloseRoomsFacts DEF LoadForCheckpoint, TypeOK, Drain
<1>7. CASE Checkpoint
  <2>1. Len(history) \in Nat
    BY DEF TypeOK
  <2>2. saved' \in 0 .. Len(history')
    BY <1>7, <2>1 DEF Checkpoint, TypeOK
  <2>3. drain' \in Drain
    BY <1>7 DEF Checkpoint, TypeOK, Drain
  <2> QED BY <1>7, <2>2, <2>3 DEF Checkpoint, TypeOK
<1>8. CASE DrainFails
  BY <1>8 DEF DrainFails, TypeOK, Drain
<1>9. CASE Restart
  <2>1. 1 \in Generations
    BY GenerationAssumption DEF Generations
  <2> QED BY <1>9, <2>1, MoveFacts, NoFrameType
          DEF Restart, TypeOK, Drain, Room, AbsentRoom
<1> QED BY <1>1, <1>2, <1>3, <1>4, <1>5, <1>6, <1>7, <1>8, <1>9
        DEF CommandStep, DrainStep

LEMMA NextType == ASSUME TypeOK, [Next]_vars PROVE TypeOK'
<1>1. CASE UNCHANGED vars
  BY <1>1 DEF vars, TypeOK
<1> QED BY <1>1, FrameStepType, ConnectionStepType, RoomStepType, OtherStepType
        DEF Next

-----------------------------------------------------------------------------
(* What a step does to one connection, one frame and the history.          *)

Lost(c) ==
    /\ connections[c].phase # "away"
    /\ connections'[c].phase \in {"closed", "gone"}
    /\ connections'[c].generation = connections[c].generation

Admitted(c) ==
    /\ connections[c].phase = "away"
    /\ connections'[c].phase = "waiting"
    /\ connections'[c].generation = generation
    /\ UNCHANGED <<storeVars, rooms, frames, sequencer, drain>>

Joined(c) ==
    /\ connections[c].phase = "waiting"
    /\ connections'[c].phase = "attached"
    /\ connections'[c].generation = connections[c].generation
    /\ connections'[c].since = Len(history)
    /\ rooms[RoomOf(c)].phase = "live"
    /\ UNCHANGED <<storeVars, rooms, frames, sequencer, drain>>

ConnectionMoves(c) ==
    connections'[c] = connections[c] \/ Lost(c) \/ Admitted(c) \/ Joined(c)

LEMMA CloseRoomsMoves ==
    ASSUME TypeOK, NEW gs, connections' = CloseRooms(gs), NEW c \in Connections
    PROVE  ConnectionMoves(c)
<1>1. connections \in [Connections -> Connection]
  BY DEF TypeOK
<1> QED BY <1>1, CloseRoomsFacts DEF ConnectionMoves, Lost

LEMMA LostByMove ==
    ASSUME TypeOK, NEW cs, NEW phase \in {"closed", "gone"},
           connections' = Move(connections, cs, phase),
           \A d \in cs \cap Connections : connections[d].phase # "away",
           NEW c \in Connections
    PROVE  ConnectionMoves(c)
<1>1. connections \in [Connections -> Connection]
  BY DEF TypeOK
<1> QED BY <1>1, MoveFacts DEF ConnectionMoves, Lost

LEMMA ConnectionStepMoves ==
    ASSUME TypeOK, [Next]_vars, NEW c \in Connections
    PROVE  ConnectionMoves(c)
<1>0. connections \in [Connections -> Connection]
  BY DEF TypeOK
<1>1. CASE UNCHANGED connections
  BY <1>1 DEF ConnectionMoves
<1>2. ASSUME NEW g \in Generations, RoomStep(g)
      PROVE  ConnectionMoves(c)
  <2>1. CASE FailLoad(g)
    <3>1. \A d \in Waiting(g) : connections[d].phase # "away"
      BY DEF Waiting
    <3> QED BY <2>1, <3>1, LostByMove DEF FailLoad
  <2>2. CASE Unload(g)
    <3> DEFINE cs == {d \in Connections : connections[d].phase = "closed" /\ RoomOf(d) = g}
    <3>1. \A d \in cs : connections[d].phase # "away"
      OBVIOUS
    <3>2. connections' = Move(connections, cs, "gone")
      BY <2>2 DEF Unload
    <3> HIDE DEF cs
    <3> QED BY <3>1, <3>2, LostByMove
  <2> QED BY <1>1, <1>2, <2>1, <2>2
          DEF RoomStep, StartLoad, ReadSnapshot, LoadFails, Install
<1>3. ASSUME NEW d \in Connections, ConnectionStep(d)
      PROVE  ConnectionMoves(c)
  <2>1. CASE Authenticate(d)
    <3>1. CASE c = d
      BY <1>0, <2>1, <3>1 DEF Authenticate, ConnectionMoves, Admitted, Connection
    <3>2. CASE c # d
      BY <1>0, <2>1, <3>2 DEF Authenticate, ConnectionMoves
    <3> QED BY <3>1, <3>2
  <2>2. CASE Attach(d)
    <3>1. CASE c = d
      BY <1>0, <2>2, <3>1 DEF Attach, ConnectionMoves, Joined, Lost, Connection, RoomOf
    <3>2. CASE c # d
      BY <1>0, <2>2, <3>2 DEF Attach, ConnectionMoves
    <3> QED BY <3>1, <3>2
  <2>3. CASE Leave(d)
    BY <2>3, LostByMove DEF Leave
  <2> QED BY <1>1, <1>3, <2>1, <2>2, <2>3 DEF ConnectionStep, Receive
<1>4. ASSUME NEW d \in Connections, FrameStep(d)
      PROVE  ConnectionMoves(c)
  <2>1. CASE Refuse(d)
    BY <1>1, <2>1, LostByMove DEF Refuse
  <2> QED BY <1>1, <1>4, <2>1, CloseRoomsMoves
          DEF FrameStep, Acquire, Commit, CommitFails, Resume, ApplyUpdate
<1>5. CASE CommandStep
  BY <1>1, <1>5, CloseRoomsMoves
     DEF CommandStep, CommitCommand, PublishNowhere, PublishDurableUpdate, PublishFails
<1>6. CASE Archive \/ CloseArchivedRoom
  BY <1>1, <1>6, CloseRoomsMoves DEF Archive, CloseArchivedRoom
<1>7. CASE DrainStep
  BY <1>1, <1>7, CloseRoomsMoves
     DEF DrainStep, BeginDrain, LoadForCheckpoint, Checkpoint, DrainFails
<1>8. CASE Restart
  <2> DEFINE cs == {d \in Connections : connections[d].phase # "away"}
  <2>1. \A d \in cs : connections[d].phase # "away"
    OBVIOUS
  <2>2. connections' = Move(connections, cs, "gone")
    BY <1>8 DEF Restart
  <2> HIDE DEF cs
  <2> QED BY <2>1, <2>2, LostByMove
<1>9. CASE UNCHANGED vars
  BY <1>1, <1>9 DEF vars
<1> QED BY <1>2, <1>3, <1>4, <1>5, <1>6, <1>7, <1>8, <1>9 DEF Next

\* A frame is left alone, ends, or goes on to its next stage.
FrameMoves(c) ==
    \/ frames'[c] = frames[c]
    \/ frames'[c] = NoFrame
    \/ /\ frames[c].stage = "idle" /\ frames'[c].stage = "queued"
       /\ connections[c].phase = "attached"
       /\ UNCHANGED connections
    \/ /\ frames'[c] = [frames[c] EXCEPT !.stage = "appending"]
       /\ frames[c].stage = "queued" /\ HasTurn(c) /\ ~Draining
       /\ UNCHANGED <<connections, sequencer, drain>>
    \/ Commit(c)
    \/ /\ frames'[c] = [frames[c] EXCEPT !.stage = "applying"]
       /\ frames[c].stage = "appended" /\ ~Blocked(c)
       /\ UNCHANGED <<storeVars, rooms, connections, sequencer>>

LEMMA FrameStepMoves ==
    ASSUME TypeOK, [Next]_vars, NEW c \in Connections
    PROVE  FrameMoves(c)
<1> USE DEF storeVars
<1>0. frames \in [Connections -> Frame]
  BY DEF TypeOK
<1>1. CASE UNCHANGED frames
  BY <1>1 DEF FrameMoves
<1>2. ASSUME NEW d \in Connections, FrameStep(d)
      PROVE  FrameMoves(c)
  <2>1. CASE End(d)
    BY <1>0, <2>1 DEF End, FrameMoves
  <2>2. CASE Acquire(d) /\ ~End(d)
    BY <1>0, <2>1, <2>2 DEF Acquire, Refuse, Become, MayAppend, FrameMoves
  <2>3. CASE Commit(d)
    BY <1>0, <2>3 DEF Commit, FrameMoves
  <2>4. CASE Resume(d) /\ ~End(d)
    BY <1>0, <2>4 DEF Resume, Become, Interrupted, FrameMoves
  <2> QED BY <1>2, <2>1, <2>2, <2>3, <2>4
          DEF FrameStep, CommitFails, Refuse, ApplyUpdate
<1>3. ASSUME NEW d \in Connections, ConnectionStep(d)
      PROVE  FrameMoves(c)
  <2>1. ASSUME NEW u \in Updates, Receive(d, u)
        PROVE  FrameMoves(c)
    BY <1>0, <2>1 DEF Receive, FrameMoves
  <2> QED BY <1>1, <1>3, <2>1 DEF ConnectionStep, Authenticate, Attach, Leave
<1>4. CASE Restart
  BY <1>4 DEF Restart, FrameMoves
<1>5. ASSUME NEW g \in Generations, RoomStep(g)
      PROVE  UNCHANGED frames
  BY <1>5 DEF RoomStep, StartLoad, ReadSnapshot, LoadFails, FailLoad, Install, Unload
<1>6. ASSUME CommandStep \/ Archive \/ CloseArchivedRoom \/ DrainStep
      PROVE  UNCHANGED frames
  BY <1>6 DEF CommandStep, CommitCommand, PublishNowhere, PublishDurableUpdate,
              PublishFails, Archive, CloseArchivedRoom, DrainStep, BeginDrain,
              LoadForCheckpoint, Checkpoint, DrainFails
<1>7. CASE UNCHANGED vars
  BY <1>1, <1>7 DEF vars
<1> QED BY <1>1, <1>2, <1>3, <1>4, <1>5, <1>6, <1>7 DEF Next

\* The history grows by a frame's update, by a command's, or not at all.
LEMMA HistoryStep ==
    ASSUME TypeOK, [Next]_vars
    PROVE  \/ UNCHANGED <<generation, history>>
           \/ \E c \in Connections : Commit(c)
           \/ \E k \in Commands : CommitCommand(k)
<1> USE DEF storeVars
<1>1. ASSUME NEW g \in Generations, RoomStep(g)
      PROVE  UNCHANGED <<generation, history>>
  BY <1>1 DEF RoomStep, StartLoad, ReadSnapshot, LoadFails, FailLoad, Install, Unload
<1>2. ASSUME NEW c \in Connections, ConnectionStep(c) \/ FrameStep(c), ~Commit(c)
      PROVE  UNCHANGED <<generation, history>>
  BY <1>2 DEF ConnectionStep, Authenticate, Attach, Leave, Receive, FrameStep, Acquire,
              CommitFails, Resume, ApplyUpdate
<1>3. ASSUME NEW job \in jobs,
             PublishNowhere(job) \/ PublishDurableUpdate(job) \/ PublishFails(job)
      PROVE  UNCHANGED <<generation, history>>
  BY <1>3 DEF PublishNowhere, PublishDurableUpdate, PublishFails
<1>4. ASSUME Archive \/ CloseArchivedRoom \/ DrainStep \/ Restart
      PROVE  UNCHANGED <<generation, history>>
  BY <1>4 DEF Archive, CloseArchivedRoom, DrainStep, BeginDrain, LoadForCheckpoint,
              Checkpoint, DrainFails, Restart
<1>5. ASSUME UNCHANGED vars
      PROVE  UNCHANGED <<generation, history>>
  BY <1>5 DEF vars
<1> QED BY <1>1, <1>2, <1>3, <1>4, <1>5 DEF Next, CommandStep

\* Accepting an update leaves the history as it was, or puts it at the end.
LEMMA AcceptFacts ==
    ASSUME TypeOK, NEW u \in Updates \cup Commands, NEW g \in Generations,
           Accept(u, g)
    PROVE  /\ generation' = g
           /\ \/ history' = history /\ u \in AcceptedUpdates
              \/ /\ history' = Append(history, [update |-> u, generation |-> g])
                 /\ u \notin AcceptedUpdates
                 /\ Len(history') = Len(history) + 1
                 /\ \A i \in 1 .. Len(history) : history'[i] = history[i]
                 /\ history'[Len(history) + 1] = [update |-> u, generation |-> g]
           /\ u \in AcceptedUpdates'
<1> DEFINE e == [update |-> u, generation |-> g]
<1>1. e \in Entry /\ e.update = u /\ history \in Seq(Entry) /\ Len(history) \in Nat
  BY DEF Entry, TypeOK
<1> HIDE DEF e
<1>2. CASE u \in AcceptedUpdates
  BY <1>2 DEF Accept, AcceptedUpdates
<1>3. CASE u \notin AcceptedUpdates
  <2>1. history' = Append(history, e)
    BY <1>3 DEF Accept, e
  <2>2. /\ Len(history') = Len(history) + 1
        /\ \A i \in 1 .. Len(history) : history'[i] = history[i]
        /\ history'[Len(history) + 1] = e
        /\ DOMAIN history' = 1 .. Len(history) + 1
    BY <1>1, <2>1
  <2>3. u \in AcceptedUpdates'
    BY <1>1, <2>2 DEF AcceptedUpdates
  <2> QED BY <1>3, <2>1, <2>2, <2>3 DEF Accept, e
<1> QED BY <1>2, <1>3

\* What the history says stays said, and a new entry is of the generation that
\* the document is left in: its own or the next.
LEMMA HistoryGrows ==
    ASSUME TypeOK, [Next]_vars
    PROVE  /\ Len(history) \in Nat /\ Len(history') \in Nat
           /\ DOMAIN history = 1 .. Len(history)
           /\ DOMAIN history' = 1 .. Len(history')
           /\ (Len(history') = Len(history) \/ Len(history') = Len(history) + 1)
           /\ \A i \in 1 .. Len(history) : history'[i] = history[i]
           /\ AcceptedUpdates \subseteq AcceptedUpdates'
           /\ generation' = generation \/ generation' = generation + 1
           /\ Len(history') = Len(history) => generation' = generation
           /\ Len(history') > Len(history) => history'[Len(history')].generation = generation'
<1>0. Len(history) \in Nat /\ Len(history') \in Nat
  BY NextType DEF TypeOK
<1>6. DOMAIN history = 1 .. Len(history) /\ DOMAIN history' = 1 .. Len(history')
  BY NextType DEF TypeOK
<1>1. CASE UNCHANGED <<generation, history>>
  BY <1>0, <1>1 DEF AcceptedUpdates
<1>2. ASSUME NEW u \in Updates \cup Commands, NEW g \in Generations,
             g = generation \/ g = generation + 1, Accept(u, g),
             u \in AcceptedUpdates => g = generation
      PROVE  /\ (Len(history') = Len(history) \/ Len(history') = Len(history) + 1)
             /\ \A i \in 1 .. Len(history) : history'[i] = history[i]
             /\ generation' = generation \/ generation' = generation + 1
             /\ Len(history') = Len(history) => generation' = generation
             /\ Len(history') > Len(history) => history'[Len(history')].generation = generation'
  <2>1. CASE u \in AcceptedUpdates
    <3>1. history' = history /\ generation' = generation
      BY <1>2, <2>1 DEF Accept
    <3> QED BY <1>0, <3>1
  <2>2. CASE u \notin AcceptedUpdates
    <3>1. /\ Len(history') = Len(history) + 1
          /\ \A i \in 1 .. Len(history) : history'[i] = history[i]
          /\ history'[Len(history) + 1] = [update |-> u, generation |-> g]
          /\ generation' = g
      BY <1>2, <2>2, AcceptFacts
    <3>2. history'[Len(history')].generation = generation'
      BY <3>1
    <3>3. ~(Len(history') = Len(history))
      BY <1>0, <3>1
    <3> QED BY <1>2, <3>1, <3>2, <3>3
  <2> QED BY <2>1, <2>2
<1>3. ASSUME NEW c \in Connections, Commit(c)
      PROVE  \E u \in Updates \cup Commands, g \in Generations :
               /\ g = generation \/ g = generation + 1
               /\ Accept(u, g)
               /\ u \in AcceptedUpdates => g = generation
  <2>1. frames[c].update \in Updates \cup Commands
    BY DEF TypeOK, Frame
  <2> QED BY <1>3, <2>1 DEF Commit
<1>4. ASSUME NEW k \in Commands, CommitCommand(k)
      PROVE  \E u \in Updates \cup Commands, g \in Generations :
               /\ g = generation \/ g = generation + 1
               /\ Accept(u, g)
               /\ u \in AcceptedUpdates => g = generation
  BY <1>4 DEF CommitCommand
<1>5. ASSUME \A i \in 1 .. Len(history) : history'[i] = history[i],
             (Len(history') = Len(history) \/ Len(history') = Len(history) + 1)
      PROVE  AcceptedUpdates \subseteq AcceptedUpdates'
  <2>1. \A i \in 1 .. Len(history) : i \in 1 .. Len(history')
    BY <1>0, <1>5
  <2>2. \A i \in DOMAIN history : i \in DOMAIN history' /\ history'[i] = history[i]
    BY <1>5, <1>6, <2>1
  <2> QED BY <2>2 DEF AcceptedUpdates
<1> QED BY <1>0, <1>6, <1>1, <1>2, <1>3, <1>4, <1>5, HistoryStep

-----------------------------------------------------------------------------
(* The simpler conjuncts.                                                  *)

LEMMA InitRest == ASSUME Init PROVE IInv
<1>1. 1 \in Generations /\ NoFrame.stage = "idle"
  BY GenerationAssumption, NoFrameType DEF Generations
<1>2. Sequenced
  BY <1>1 DEF Init, Sequenced, Working
<1>3. FramesOfMembers /\ RoomsOfMembers /\ MembersServed
  BY <1>1 DEF Init, FramesOfMembers, RoomsOfMembers, MembersServed, Served
<1>4. Accepted
  BY <1>1 DEF Init, Accepted, DurableFirst, AbsentRoom
<1>5. Ordered
  BY <1>1 DEF Init, Ordered, RoomOf
<1>6. DrainedInOrder
  BY <1>1 DEF Init, DrainedInOrder, DrainSavesUpdates
<1> QED BY <1>2, <1>3, <1>4, <1>5, <1>6, InitType DEF IInv

LEMMA FramesOfMembersKept ==
    ASSUME TypeOK, FramesOfMembers, [Next]_vars
    PROVE  FramesOfMembers'
<1> SUFFICES ASSUME NEW c \in Connections, connections'[c].phase \in {"away", "waiting"}
             PROVE  frames'[c].stage = "idle"
  BY DEF FramesOfMembers
<1>1. frames \in [Connections -> Frame]
  BY DEF TypeOK
<1>2. CASE Admitted(c)
  BY <1>2 DEF Admitted, FramesOfMembers
<1>3. CASE connections'[c] = connections[c]
  <2>1. frames[c].stage = "idle"
    BY <1>3 DEF FramesOfMembers
  <2> QED BY <1>1, <1>3, <2>1, FrameStepMoves, NoFrameType DEF FrameMoves, Commit
<1> QED BY <1>2, <1>3, ConnectionStepMoves DEF ConnectionMoves, Lost, Joined

LEMMA OrderedKept ==
    ASSUME TypeOK, Ordered, [Next]_vars
    PROVE  Ordered'
<1>1. /\ generation \in Nat /\ generation' \in Nat
      /\ \A c \in Connections : RoomOf(c) \in Nat /\ connections[c].since \in Nat
      /\ \A i \in DOMAIN history : history[i].generation \in Nat
  <2>1. Generations \subseteq Nat
    BY GenerationAssumption DEF Generations
  <2>2. \A i \in DOMAIN history : history[i] \in Entry
    BY DEF TypeOK
  <2> QED BY <2>1, <2>2, NextType DEF TypeOK, RoomOf, Connection, Entry
<1>2. \A i \in DOMAIN history' : history'[i].generation <= generation'
  BY <1>1, HistoryGrows DEF Ordered
<1>3. generation' > 1 => Len(history') > 0 /\ history'[Len(history')].generation = generation'
  BY <1>1, HistoryGrows DEF Ordered
<1>4. ASSUME NEW c \in Connections
      PROVE  connections'[c].generation <= generation'
  <2>1. RoomOf(c) <= generation /\ generation <= generation'
    BY <1>1, HistoryGrows DEF Ordered
  <2> QED BY <1>1, <2>1, ConnectionStepMoves
          DEF ConnectionMoves, Lost, Admitted, Joined, RoomOf
<1>5. ASSUME NEW c \in Connections, connections'[c].phase = "attached"
      PROVE  /\ connections'[c].since <= Len(history')
             /\ \A i \in connections'[c].since + 1 .. Len(history') :
                  history'[i].generation >= connections'[c].generation
  <2>1. CASE Joined(c)
    BY <2>1, HistoryGrows DEF Joined, storeVars
  <2>2. CASE connections'[c] = connections[c]
    <3>1. connections[c].since <= Len(history) /\ RoomOf(c) <= generation
      BY <1>5, <2>2 DEF Ordered
    <3>2. \A i \in connections[c].since + 1 .. Len(history) :
            history[i].generation >= RoomOf(c)
      BY <1>5, <2>2 DEF Ordered
    <3>3. ASSUME NEW i \in connections[c].since + 1 .. Len(history')
          PROVE  history'[i].generation >= RoomOf(c)
      <4>1. CASE i <= Len(history)
        BY <1>1, <3>2, <4>1, HistoryGrows
      <4>2. CASE i > Len(history)
        BY <1>1, <3>1, <4>2, HistoryGrows
      <4> QED BY <1>1, <4>1, <4>2, HistoryGrows
    <3> QED BY <1>1, <2>2, <3>1, <3>3, HistoryGrows DEF RoomOf
  <2> QED BY <1>5, <2>1, <2>2, ConnectionStepMoves DEF ConnectionMoves, Lost, Admitted
<1> QED BY <1>2, <1>3, <1>4, <1>5 DEF Ordered, RoomOf

\* A live room that somebody stays in stays live and forgets nothing.
LEMMA RoomsKept ==
    ASSUME TypeOK, [Next]_vars, NEW c \in Connections,
           connections[c].phase = "attached", connections'[c].phase = "attached",
           rooms[RoomOf(c)].phase = "live"
    PROVE  /\ rooms'[RoomOf(c)].phase = "live"
           /\ rooms[RoomOf(c)].content \subseteq rooms'[RoomOf(c)].content
<1> USE DEF storeVars
<1>0. /\ RoomOf(c) \in Generations
      /\ rooms \in [Generations -> Room]
      /\ \A d \in Connections : RoomOf(d) \in Generations
      /\ connections \in [Connections -> Connection]
  BY DEF TypeOK, RoomOf, Connection
<1>1. CASE UNCHANGED rooms
  BY <1>1
<1>2. ASSUME NEW g \in Generations, RoomStep(g)
      PROVE  rooms'[RoomOf(c)] = rooms[RoomOf(c)]
  <2>1. rooms[g].phase # "live" \/ Unload(g)
    BY <1>2 DEF RoomStep, StartLoad, ReadSnapshot, LoadFails, Install
  <2>2. g # RoomOf(c)
    <3>1. c \in Attached(RoomOf(c))
      BY DEF Attached
    <3> QED BY <2>1, <3>1 DEF Unload
  <2> QED BY <1>0, <1>2, <2>2
          DEF RoomStep, StartLoad, ReadSnapshot, LoadFails, FailLoad, Install, Unload
<1>3. ASSUME NEW d \in Connections, ConnectionStep(d) \/ FrameStep(d), ~ApplyUpdate(d)
      PROVE  UNCHANGED rooms
  BY <1>3 DEF ConnectionStep, Authenticate, Attach, Leave, Receive, FrameStep, Acquire,
              Commit, CommitFails, Resume
<1>4. ASSUME NEW d \in Connections, ApplyUpdate(d)
      PROVE  /\ rooms'[RoomOf(c)].phase = "live"
             /\ rooms[RoomOf(c)].content \subseteq rooms'[RoomOf(c)].content
  <2>1. ASSUME NEW u
        PROVE  LET r == [rooms EXCEPT ![RoomOf(d)].content = @ \cup {u}] IN
               /\ r[RoomOf(c)].phase = "live"
               /\ rooms[RoomOf(c)].content \subseteq r[RoomOf(c)].content
    BY <1>0 DEF Room
  <2> QED BY <1>4, <2>1 DEF ApplyUpdate
<1>5. ASSUME NEW job \in jobs,
             PublishNowhere(job) \/ PublishDurableUpdate(job) \/ PublishFails(job)
      PROVE  /\ rooms'[RoomOf(c)].phase = "live"
             /\ rooms[RoomOf(c)].content \subseteq rooms'[RoomOf(c)].content
  BY <1>0, <1>5 DEF PublishNowhere, PublishDurableUpdate, PublishFails, Room
<1>6. ASSUME (\E k \in Commands : CommitCommand(k)) \/ Archive \/ CloseArchivedRoom \/ DrainStep
      PROVE  UNCHANGED rooms
  BY <1>6 DEF CommitCommand, Archive, CloseArchivedRoom, DrainStep, BeginDrain,
              LoadForCheckpoint, Checkpoint, DrainFails
<1>7. ~Restart
  <2> SUFFICES ASSUME Restart PROVE FALSE
    OBVIOUS
  <2> DEFINE cs == {d \in Connections : connections[d].phase # "away"}
  <2>1. c \in cs /\ connections' = Move(connections, cs, "gone")
    BY DEF Restart
  <2> HIDE DEF cs
  <2> QED BY <1>0, <2>1, MoveFacts
<1>8. CASE UNCHANGED vars
  BY <1>1, <1>8 DEF vars
<1> QED BY <1>1, <1>2, <1>3, <1>4, <1>5, <1>6, <1>7, <1>8 DEF Next, CommandStep

LEMMA RoomsOfMembersKept ==
    ASSUME TypeOK, RoomsOfMembers, [Next]_vars
    PROVE  RoomsOfMembers'
<1> SUFFICES ASSUME NEW c \in Connections, connections'[c].phase = "attached"
             PROVE  rooms'[connections'[c].generation].phase = "live"
  BY DEF RoomsOfMembers, RoomOf
<1>1. CASE Joined(c)
  BY <1>1 DEF Joined, RoomOf
<1>2. CASE connections'[c] = connections[c]
  BY <1>2, RoomsKept DEF RoomsOfMembers, RoomOf
<1> QED BY <1>1, <1>2, ConnectionStepMoves DEF ConnectionMoves, Lost, Admitted

LEMMA AcceptedKept ==
    ASSUME TypeOK, Accepted, [Next]_vars
    PROVE  Accepted'
<1> USE DEF storeVars
<1>0. /\ frames \in [Connections -> Frame]
      /\ rooms \in [Generations -> Room]
      /\ \A c \in Connections : RoomOf(c) \in Generations
  BY DEF TypeOK, RoomOf, Connection
<1>1. ASSUME NEW c \in Connections, frames'[c].stage \in {"appended", "applying"}
      PROVE  frames'[c].update \in AcceptedUpdates'
  <2>1. CASE Commit(c)
    <3>1. PICK g \in Generations : Accept(frames[c].update, g)
      BY <2>1 DEF Commit
    <3>2. frames'[c].update = frames[c].update /\ frames[c].update \in Updates \cup Commands
      BY <1>0, <2>1 DEF Commit, Frame
    <3> QED BY <3>1, <3>2, AcceptFacts
  <2>2. CASE ~Commit(c)
    <3>1. frames'[c].update = frames[c].update /\ frames[c].stage \in {"appended", "applying"}
      BY <1>0, <1>1, <2>2, FrameStepMoves, NoFrameType DEF FrameMoves, Frame
    <3> QED BY <3>1, HistoryGrows DEF Accepted
  <2> QED BY <2>1, <2>2
<1>2. ASSUME NEW job \in jobs'
      PROVE  \E i \in DOMAIN history' : history'[i] = job
  <2>1. CASE job \in jobs
    <3>1. PICK i \in 1 .. Len(history) : history[i] = job
      BY <2>1, HistoryGrows DEF Accepted
    <3>2. i \in 1 .. Len(history') /\ history'[i] = job
      BY <3>1, HistoryGrows
    <3> QED BY <3>2, HistoryGrows
  <2>2. CASE job \notin jobs
    <3>1. PICK k \in Commands : CommitCommand(k)
      <4>1. ASSUME NEW g \in Generations, RoomStep(g)
            PROVE  jobs' = jobs
        BY <4>1 DEF RoomStep, StartLoad, ReadSnapshot, LoadFails, FailLoad, Install, Unload
      <4>2. ASSUME NEW c \in Connections, ConnectionStep(c) \/ FrameStep(c)
            PROVE  jobs' = jobs
        BY <4>2 DEF ConnectionStep, Authenticate, Attach, Leave, Receive, FrameStep,
                    Acquire, Commit, CommitFails, Resume, ApplyUpdate
      <4>3. ASSUME NEW old \in jobs, PublishNowhere(old) \/ PublishDurableUpdate(old)
                                     \/ PublishFails(old)
            PROVE  jobs' \subseteq jobs
        BY <4>3 DEF PublishNowhere, PublishDurableUpdate, PublishFails
      <4>4. ASSUME Archive \/ CloseArchivedRoom \/ DrainStep \/ Restart \/ UNCHANGED vars
            PROVE  jobs' = jobs
        BY <4>4 DEF Archive, CloseArchivedRoom, DrainStep, BeginDrain,
                    LoadForCheckpoint, Checkpoint, DrainFails, Restart, vars
      <4> QED BY <1>2, <2>2, <4>1, <4>2, <4>3, <4>4 DEF Next, CommandStep
    <3>2. PICK g \in Generations :
            Accept(k, g) /\ jobs' = jobs \cup {[update |-> k, generation |-> g]}
      BY <3>1 DEF CommitCommand
    <3>3. job = [update |-> k, generation |-> g] /\ k \notin AcceptedUpdates
      BY <1>2, <2>2, <3>1, <3>2 DEF CommitCommand
    <3>4. history'[Len(history) + 1] = job /\ Len(history') = Len(history) + 1
      BY <3>2, <3>3, AcceptFacts
    <3>5. Len(history) + 1 \in DOMAIN history'
      BY <3>4, HistoryGrows
    <3> QED BY <3>4, <3>5
  <2> QED BY <2>1, <2>2
<1>3. DurableFirst'
  <2>0. ASSUME NEW g \in Generations, rooms'[g].content \subseteq AcceptedUpdates
        PROVE  rooms'[g].content \subseteq AcceptedUpdates'
    BY <2>0, HistoryGrows
  <2>1. ASSUME UNCHANGED rooms, NEW g \in Generations
        PROVE  rooms'[g].content \subseteq AcceptedUpdates
    BY <2>1 DEF Accepted, DurableFirst
  <2>2. ASSUME NEW h \in Generations, RoomStep(h), NEW g \in Generations
        PROVE  rooms'[g].content \subseteq AcceptedUpdates
    BY <1>0, <2>2 DEF RoomStep, StartLoad, ReadSnapshot, LoadFails, FailLoad, Install,
                      Unload, Accepted, DurableFirst, AbsentRoom, Room
  <2>3. ASSUME NEW c \in Connections, ApplyUpdate(c), NEW g \in Generations
        PROVE  rooms'[g].content \subseteq AcceptedUpdates
    <3>1. frames[c].update \in AcceptedUpdates
      BY <2>3 DEF ApplyUpdate, Accepted
    <3> QED BY <1>0, <2>3, <3>1 DEF ApplyUpdate, Accepted, DurableFirst, Room
  <2>4. ASSUME NEW c \in Connections, ConnectionStep(c) \/ FrameStep(c), ~ApplyUpdate(c)
        PROVE  UNCHANGED rooms
    BY <2>4 DEF ConnectionStep, Authenticate, Attach, Leave, Receive, FrameStep, Acquire,
                Commit, CommitFails, Resume
  <2>5. ASSUME NEW job \in jobs, PublishDurableUpdate(job), NEW g \in Generations
        PROVE  rooms'[g].content \subseteq AcceptedUpdates
    <3>1. job.update \in AcceptedUpdates
      BY DEF Accepted, AcceptedUpdates
    <3> QED BY <1>0, <2>5, <3>1 DEF PublishDurableUpdate, Accepted, DurableFirst, Room
  <2>6. ASSUME \/ \E k \in Commands : CommitCommand(k)
               \/ \E job \in jobs : PublishNowhere(job) \/ PublishFails(job)
               \/ Archive \/ CloseArchivedRoom \/ DrainStep \/ UNCHANGED vars
        PROVE  UNCHANGED rooms
    BY <2>6 DEF CommitCommand, PublishNowhere, PublishFails, Archive, CloseArchivedRoom,
                DrainStep, BeginDrain, LoadForCheckpoint, Checkpoint, DrainFails, vars
  <2>7. ASSUME Restart, NEW g \in Generations
        PROVE  rooms'[g].content \subseteq AcceptedUpdates
    BY <2>7 DEF Restart, AbsentRoom
  <2>8. \A g \in Generations : rooms'[g].content \subseteq AcceptedUpdates
    BY <2>1, <2>2, <2>3, <2>4, <2>5, <2>6, <2>7 DEF Next, CommandStep
  <2> QED BY <2>0, <2>8 DEF DurableFirst
<1> QED BY <1>1, <1>2, <1>3 DEF Accepted

LEMMA DrainStepMoves ==
    ASSUME [Next]_vars
    PROVE  UNCHANGED <<drain, saved>> \/ DrainStep \/ Restart
<1> USE DEF storeVars
<1>1. ASSUME NEW g \in Generations, RoomStep(g)
      PROVE  UNCHANGED <<drain, saved>>
  BY <1>1 DEF RoomStep, StartLoad, ReadSnapshot, LoadFails, FailLoad, Install, Unload
<1>2. ASSUME NEW c \in Connections, ConnectionStep(c) \/ FrameStep(c)
      PROVE  UNCHANGED <<drain, saved>>
  BY <1>2 DEF ConnectionStep, Authenticate, Attach, Leave, Receive, FrameStep, Acquire,
              Commit, CommitFails, Resume, ApplyUpdate
<1>3. ASSUME CommandStep \/ Archive \/ CloseArchivedRoom \/ UNCHANGED vars
      PROVE  UNCHANGED <<drain, saved>>
  BY <1>3 DEF CommandStep, CommitCommand, PublishNowhere, PublishDurableUpdate,
              PublishFails, Archive, CloseArchivedRoom, vars
<1> QED BY <1>1, <1>2, <1>3 DEF Next

LEMMA DrainedInOrderKept ==
    ASSUME TypeOK, DrainedInOrder, [Next]_vars
    PROVE  DrainedInOrder'
<1>0. /\ frames \in [Connections -> Frame]
      /\ drain \in Drain
      /\ Len(history) \in Nat
      /\ saved \in Nat
  BY DEF TypeOK
<1>1. ASSUME drain'.phase \in {"loaded", "drained"}, NEW c \in Connections
      PROVE  frames'[c].stage # "appending"
  <2>1. CASE UNCHANGED <<drain, saved>>
    <3>1. frames[c].stage # "appending" /\ Draining
      BY <1>1, <2>1 DEF DrainedInOrder, Draining
    <3> QED BY <1>0, <3>1, FrameStepMoves, NoFrameType DEF FrameMoves, Commit, Frame
  <2>2. CASE LoadForCheckpoint
    BY <2>2 DEF LoadForCheckpoint, WhenIdle
  <2>3. CASE Checkpoint
    BY <1>0, <1>1, <2>3 DEF Checkpoint, DrainedInOrder, Drain
  <2>4. ~BeginDrain /\ ~DrainFails /\ ~Restart
    <3>1. ~BeginDrain
      BY <1>0, <1>1 DEF BeginDrain, Drain
    <3>2. ~DrainFails
      BY <1>0, <1>1 DEF DrainFails, Drain
    <3>3. ~Restart
      BY <1>1 DEF Restart
    <3> QED BY <3>1, <3>2, <3>3
  <2> QED BY <2>1, <2>2, <2>3, <2>4, DrainStepMoves DEF DrainStep
<1>2. ASSUME drain'.phase = "drained", drain'.captured,
             NEW i \in saved' + 1 .. Len(history')
      PROVE  history'[i].update \in Commands
  <2>1. CASE UNCHANGED <<drain, saved>>
    <3>1. /\ \A j \in saved + 1 .. Len(history) : history[j].update \in Commands
          /\ \A c \in Connections : frames[c].stage # "appending"
      BY <1>2, <2>1 DEF DrainedInOrder, DrainSavesUpdates
    <3>2. CASE i \in 1 .. Len(history)
      BY <1>0, <1>2, <2>1, <3>1, <3>2, HistoryGrows
    <3>3. CASE i \notin 1 .. Len(history)
      <4>1. /\ i = Len(history) + 1
            /\ Len(history') = Len(history) + 1
        BY <1>0, <1>2, <2>1, <3>3, HistoryGrows
      <4>2. PICK k \in Commands : CommitCommand(k)
        <5>1. ~UNCHANGED <<generation, history>>
          BY <1>0, <4>1
        <5>2. ~\E c \in Connections : Commit(c)
          BY <3>1 DEF Commit
        <5> QED BY <5>1, <5>2, HistoryStep
      <4>3. PICK g \in Generations : Accept(k, g)
        BY <4>2 DEF CommitCommand
      <4>4. history'[i] = [update |-> k, generation |-> g]
        BY <1>0, <4>1, <4>3, AcceptFacts
      <4> QED BY <4>4
    <3> QED BY <3>2, <3>3
  <2>2. ~Checkpoint
    <3>1. Checkpoint => saved' = Len(history) /\ history' = history
      BY <1>0, <1>2 DEF Checkpoint, Drain
    <3>2. ~(i \in Len(history) + 1 .. Len(history))
      BY <1>0
    <3> QED BY <1>2, <3>1, <3>2
  <2>3. ~LoadForCheckpoint /\ ~BeginDrain /\ ~DrainFails /\ ~Restart
    <3>1. ~LoadForCheckpoint
      <4> SUFFICES ASSUME LoadForCheckpoint PROVE FALSE
        OBVIOUS
      <4> DEFINE captured == drain.captured \/ \E g \in Generations : InMemory(g)
      <4>1. drain' = [phase |-> IF captured THEN "loaded" ELSE "drained",
                      captured |-> captured, generation |-> generation]
        BY DEF LoadForCheckpoint
      <4>2. captured \in BOOLEAN
        BY <1>0 DEF Drain
      <4> HIDE DEF captured
      <4>3. drain'.phase = (IF captured THEN "loaded" ELSE "drained") /\ drain'.captured = captured
        BY <4>1
      <4> QED BY <1>2, <4>2, <4>3
    <3>2. ~BeginDrain
      <4> SUFFICES ASSUME BeginDrain PROVE FALSE
        OBVIOUS
      <4>1. drain'.phase = "closing"
        BY <1>0 DEF BeginDrain, Drain
      <4> QED BY <1>2, <4>1
    <3>3. ~DrainFails
      BY <1>0, <1>2 DEF DrainFails, Drain
    <3>4. ~Restart
      BY <1>2 DEF Restart
    <3> QED BY <3>1, <3>2, <3>3, <3>4
  <2> QED BY <2>1, <2>2, <2>3, DrainStepMoves DEF DrainStep
<1> QED BY <1>1, <1>2 DEF DrainedInOrder, DrainSavesUpdates

-----------------------------------------------------------------------------
(* Turns.                                                                  *)

Distinct(s) == \A i, j \in DOMAIN s : s[i] = s[j] => i = j
Members(s) == {s[i] : i \in DOMAIN s}

LEMMA TailFacts ==
    ASSUME NEW S, NEW s \in Seq(S), s # <<>>, Distinct(s)
    PROVE  Distinct(Tail(s)) /\ Members(Tail(s)) = Members(s) \ {Head(s)}
<1>1. /\ Len(s) \in Nat /\ Len(s) >= 1
      /\ DOMAIN s = 1 .. Len(s)
      /\ DOMAIN Tail(s) = 1 .. Len(s) - 1
      /\ \A i \in 1 .. Len(s) - 1 : Tail(s)[i] = s[i + 1]
      /\ Head(s) = s[1]
  OBVIOUS
<1>2. Distinct(Tail(s))
  BY <1>1 DEF Distinct
<1>3. Members(Tail(s)) \subseteq Members(s) \ {Head(s)}
  <2> SUFFICES ASSUME NEW i \in 1 .. Len(s) - 1
               PROVE  s[i + 1] \in Members(s) \ {s[1]}
    BY <1>1 DEF Members
  <2> QED BY <1>1 DEF Members, Distinct
<1>4. Members(s) \ {Head(s)} \subseteq Members(Tail(s))
  <2> SUFFICES ASSUME NEW i \in 1 .. Len(s), s[i] # s[1]
               PROVE  s[i] \in Members(Tail(s))
    BY <1>1 DEF Members
  <2>1. i - 1 \in 1 .. Len(s) - 1 /\ Tail(s)[i - 1] = s[i]
    BY <1>1
  <2> QED BY <1>1, <2>1 DEF Members
<1> QED BY <1>2, <1>3, <1>4

LEMMA AppendSeqFacts ==
    ASSUME NEW S, NEW s \in Seq(S), NEW e \in S, Distinct(s), e \notin Members(s)
    PROVE  /\ Distinct(Append(s, e))
           /\ Members(Append(s, e)) = Members(s) \cup {e}
           /\ Append(s, e) # <<>>
           /\ s # <<>> => Head(Append(s, e)) = Head(s)
<1>1. /\ Len(s) \in Nat
      /\ DOMAIN s = 1 .. Len(s)
      /\ DOMAIN Append(s, e) = 1 .. Len(s) + 1
      /\ \A i \in 1 .. Len(s) : Append(s, e)[i] = s[i]
      /\ Append(s, e)[Len(s) + 1] = e
      /\ s # <<>> => Len(s) >= 1
  OBVIOUS
<1>2. \A i \in 1 .. Len(s) : s[i] # e
  BY <1>1 DEF Members
<1>3. Distinct(Append(s, e))
  BY <1>1, <1>2 DEF Distinct
<1>4. Members(Append(s, e)) = Members(s) \cup {e}
  <2>1. \A i \in 1 .. Len(s) + 1 : i \in 1 .. Len(s) \/ i = Len(s) + 1
    BY <1>1
  <2>2. \A i \in 1 .. Len(s) : i \in 1 .. Len(s) + 1
    BY <1>1
  <2>3. Len(s) + 1 \in 1 .. Len(s) + 1
    BY <1>1
  <2> QED BY <1>1, <2>1, <2>2, <2>3 DEF Members
<1> QED BY <1>1, <1>3, <1>4

\* A step lets one frame join the line of its room, lets the one at the head of
\* a line leave it, or leaves the lines and who stands in them alone.
Leaves(c) ==
    /\ End(c) /\ Release(c)
    /\ frames[c].stage # "idle"
    /\ frames[c].stage = "queued" => HasTurn(c)

StandsStill ==
    /\ UNCHANGED sequencer
    /\ \A c \in Connections :
         /\ frames'[c].stage = "idle" <=> frames[c].stage = "idle"
         /\ Working(c)' => Working(c) \/ HasTurn(c)

LEMMA SequencerStep ==
    ASSUME TypeOK, [Next]_vars
    PROVE  \/ StandsStill
           \/ \E c \in Connections : Leaves(c)
           \/ \E c \in Connections, u \in Updates : Receive(c, u)
           \/ Restart
<1> USE DEF storeVars
<1>0. frames \in [Connections -> Frame]
  BY DEF TypeOK
<1>1. ASSUME UNCHANGED <<frames, sequencer>>
      PROVE  StandsStill
  BY <1>1 DEF StandsStill, Working
<1>2. ASSUME NEW g \in Generations, RoomStep(g)
      PROVE  UNCHANGED <<frames, sequencer>>
  BY <1>2 DEF RoomStep, StartLoad, ReadSnapshot, LoadFails, FailLoad, Install, Unload
<1>3. ASSUME NEW c \in Connections, Authenticate(c) \/ Attach(c) \/ Leave(c)
      PROVE  UNCHANGED <<frames, sequencer>>
  BY <1>3 DEF Authenticate, Attach, Leave
<1>4. ASSUME NEW c \in Connections, FrameStep(c)
      PROVE  StandsStill \/ Leaves(c)
  <2>1. CASE Refuse(c)
    BY <1>4, <2>1 DEF FrameStep, Acquire, Commit, CommitFails, Resume, ApplyUpdate,
                      Refuse, Leaves
  <2>2. CASE End(c) /\ Release(c)
    BY <1>4, <2>2 DEF FrameStep, Acquire, Commit, CommitFails, Resume, ApplyUpdate, Leaves
  <2>3. ASSUME ~(End(c) /\ Release(c))
        PROVE  StandsStill
    <3>1. /\ sequencer' = sequencer
          /\ \A d \in Connections : d # c => frames'[d] = frames[d]
          /\ frames[c].stage # "idle" /\ frames'[c].stage # "idle"
          /\ Working(c) \/ HasTurn(c)
      <4>1. CASE Acquire(c)
        <5>1. UNCHANGED sequencer /\ Become(c, "appending")
          BY <2>3, <4>1 DEF Acquire, Refuse
        <5> QED BY <1>0, <4>1, <5>1 DEF Acquire, Become, Frame
      <4>2. CASE Commit(c)
        BY <1>0, <4>2 DEF Commit, Working, Frame
      <4>3. CASE Resume(c)
        BY <1>0, <2>3, <4>3 DEF Resume, Become, Working, Frame
      <4> QED BY <1>4, <2>3, <4>1, <4>2, <4>3 DEF FrameStep, CommitFails, Refuse, ApplyUpdate
    <3> QED BY <3>1 DEF StandsStill, Working
  <2> QED BY <2>2, <2>3 DEF Leaves
<1>5. ASSUME CommandStep \/ Archive \/ CloseArchivedRoom \/ DrainStep \/ UNCHANGED vars
      PROVE  UNCHANGED <<frames, sequencer>>
  BY <1>5 DEF CommandStep, CommitCommand, PublishNowhere, PublishDurableUpdate,
              PublishFails, Archive, CloseArchivedRoom, DrainStep, BeginDrain,
              LoadForCheckpoint, Checkpoint, DrainFails, vars
<1> QED BY <1>1, <1>2, <1>3, <1>4, <1>5 DEF Next, ConnectionStep

Line(g) == {c \in Connections : RoomOf(c) = g /\ frames[c].stage # "idle"}

LEMMA SequencedKept ==
    ASSUME TypeOK, FramesOfMembers, Sequenced, [Next]_vars
    PROVE  Sequenced'
<1>0. /\ frames \in [Connections -> Frame]
      /\ sequencer \in [Generations -> Seq(Connections)]
      /\ \A c \in Connections : RoomOf(c) \in Generations
  BY DEF TypeOK, RoomOf, Connection
<1>1. /\ \A c \in Connections : Working(c) => HasTurn(c)
      /\ \A g \in Generations : Distinct(sequencer[g]) /\ Members(sequencer[g]) = Line(g)
  BY DEF Sequenced, Distinct, Members, Line
<1>2. ASSUME \A c \in Connections : Working(c)' => HasTurn(c)',
             \A g \in Generations : Distinct(sequencer'[g]) /\ Members(sequencer'[g]) = Line(g)'
      PROVE  Sequenced'
  BY <1>2 DEF Sequenced, Distinct, Members, Line
<1>3. \A c \in Connections : frames[c].stage # "idle" => connections'[c].generation = RoomOf(c)
  BY ConnectionStepMoves DEF ConnectionMoves, Lost, Admitted, Joined, RoomOf, FramesOfMembers
<1>4. CASE StandsStill
  <2>1. \A g \in Generations : Line(g)' = Line(g)
    BY <1>3, <1>4 DEF StandsStill, RoomOf, Line
  <2>2. ASSUME NEW c \in Connections, Working(c)'
        PROVE  HasTurn(c)'
    <3>1. HasTurn(c) /\ frames[c].stage # "idle"
      BY <1>1, <1>4, <2>2 DEF StandsStill, Working
    <3> QED BY <1>3, <1>4, <3>1 DEF StandsStill, HasTurn, RoomOf
  <2> QED BY <1>1, <1>2, <1>4, <2>1, <2>2 DEF StandsStill
<1>5. ASSUME NEW c \in Connections, Leaves(c)
      PROVE  Sequenced'
  <2>0. PICK g \in Generations : g = RoomOf(c) /\ sequencer[g] \in Seq(Connections)
    BY <1>0
  <2>1. HasTurn(c)
    BY <1>0, <1>1, <1>5 DEF Leaves, Working, Frame, Stages
  <2>2. /\ sequencer' = [sequencer EXCEPT ![g] = Tail(sequencer[g])]
        /\ sequencer[g] # <<>> /\ Head(sequencer[g]) = c
    BY <1>5, <2>0, <2>1 DEF Leaves, Release, HasTurn
  <2>3. /\ frames'[c].stage = "idle"
        /\ \A d \in Connections : d # c => frames'[d] = frames[d]
    BY <1>0, <1>5, NoFrameType DEF Leaves, End
  <2>4. /\ Distinct(sequencer'[g])
        /\ Members(sequencer'[g]) = Line(g) \ {c}
    BY <1>0, <1>1, <2>0, <2>2, TailFacts
  <2>5. Line(g)' = Line(g) \ {c}
    <3>1. \A d \in Connections :
            RoomOf(d)' = g /\ frames'[d].stage # "idle" <=>
              RoomOf(d) = g /\ frames[d].stage # "idle" /\ d # c
      BY <1>3, <2>0, <2>3 DEF RoomOf
    <3> QED BY <2>0, <3>1 DEF Line
  <2>6. \A h \in Generations : h # g => Line(h)' = Line(h) /\ sequencer'[h] = sequencer[h]
    <3>1. ASSUME NEW h \in Generations, h # g, NEW d \in Connections
          PROVE  RoomOf(d)' = h /\ frames'[d].stage # "idle" <=>
                   RoomOf(d) = h /\ frames[d].stage # "idle"
      BY <1>3, <2>0, <2>3, <3>1 DEF RoomOf
    <3>2. \A h \in Generations : h # g => Line(h)' = Line(h)
      BY <3>1 DEF Line
    <3> QED BY <1>0, <2>2, <3>2
  <2>7. ASSUME NEW d \in Connections, Working(d)'
        PROVE  HasTurn(d)'
    <3>1. d # c /\ Working(d) /\ frames[d].stage # "idle"
      BY <2>3, <2>7 DEF Working
    <3>2. HasTurn(d) /\ RoomOf(d)' = RoomOf(d)
      BY <1>1, <1>3, <3>1 DEF RoomOf
    <3>3. RoomOf(d) # g
      BY <2>0, <2>2, <3>1, <3>2 DEF HasTurn
    <3> QED BY <1>0, <2>6, <3>2, <3>3 DEF HasTurn
  <2>8. ASSUME NEW h \in Generations
        PROVE  Distinct(sequencer'[h]) /\ Members(sequencer'[h]) = Line(h)'
    BY <1>1, <2>4, <2>5, <2>6
  <2> QED BY <1>2, <2>7, <2>8
<1>6. ASSUME NEW c \in Connections, NEW u \in Updates, Receive(c, u)
      PROVE  Sequenced'
  <2>0. PICK g \in Generations : g = RoomOf(c) /\ sequencer[g] \in Seq(Connections)
    BY <1>0
  <2>1. /\ sequencer' = [sequencer EXCEPT ![g] = Append(sequencer[g], c)]
        /\ frames[c].stage = "idle" /\ frames'[c].stage = "queued"
        /\ \A d \in Connections : d # c => frames'[d] = frames[d]
        /\ connections' = connections
    BY <1>0, <1>6, <2>0 DEF Receive
  <2>2. c \notin Members(sequencer[g])
    BY <1>1, <2>0, <2>1 DEF Line
  <2>3. /\ Distinct(sequencer'[g])
        /\ Members(sequencer'[g]) = Line(g) \cup {c}
        /\ sequencer'[g] # <<>>
        /\ sequencer[g] # <<>> => Head(sequencer'[g]) = Head(sequencer[g])
    BY <1>0, <1>1, <2>0, <2>1, <2>2, AppendSeqFacts
  <2>4. Line(g)' = Line(g) \cup {c}
    BY <2>0, <2>1 DEF RoomOf, Line
  <2>5. \A h \in Generations : h # g => Line(h)' = Line(h) /\ sequencer'[h] = sequencer[h]
    <3>1. \A h \in Generations : h # g => sequencer'[h] = sequencer[h]
      BY <1>0, <2>1
    <3>2. \A h \in Generations : h # g => Line(h)' = Line(h)
      BY <2>0, <2>1 DEF RoomOf, Line
    <3> QED BY <3>1, <3>2
  <2>6. ASSUME NEW d \in Connections, Working(d)'
        PROVE  HasTurn(d)'
    <3>1. Working(d)
      BY <2>1, <2>6 DEF Working
    <3>2. HasTurn(d) /\ RoomOf(d)' = RoomOf(d) /\ RoomOf(d) \in Generations
      BY <1>0, <1>1, <2>1, <3>1 DEF RoomOf
    <3> QED BY <2>3, <2>5, <3>2 DEF HasTurn
  <2>7. ASSUME NEW h \in Generations
        PROVE  Distinct(sequencer'[h]) /\ Members(sequencer'[h]) = Line(h)'
    BY <1>1, <2>3, <2>4, <2>5
  <2> QED BY <1>2, <2>6, <2>7
<1>7. CASE Restart
  <2>1. /\ \A c \in Connections : frames'[c].stage = "idle"
        /\ \A g \in Generations : sequencer'[g] = <<>>
    BY <1>7, NoFrameType DEF Restart
  <2> QED BY <1>2, <2>1 DEF Distinct, Members, Working, Line
<1> QED BY <1>4, <1>5, <1>6, <1>7, SequencerStep

-----------------------------------------------------------------------------
(* Members are served.                                                     *)

\* A connection stays in its room: nothing that closes or unloads that room
\* happens.
Stays(c) ==
    /\ connections[c].phase = "attached"
    /\ connections'[c] = connections[c]

LEMMA StaysFacts ==
    ASSUME TypeOK, NEW c \in Connections, Stays(c)
    PROVE  /\ ~Restart
           /\ Attached(RoomOf(c)) # {}
           /\ \A gs : RoomOf(c) \in gs => connections' # CloseRooms(gs)
<1>0. connections \in [Connections -> Connection]
  BY DEF TypeOK
<1>1. ~Restart
  <2> SUFFICES ASSUME Restart PROVE FALSE
    OBVIOUS
  <2> DEFINE cs == {d \in Connections : connections[d].phase # "away"}
  <2>1. c \in cs /\ connections' = Move(connections, cs, "gone")
    BY DEF Restart, Stays
  <2> HIDE DEF cs
  <2> QED BY <1>0, <2>1, MoveFacts DEF Stays
<1>2. ASSUME NEW gs, RoomOf(c) \in gs, connections' = CloseRooms(gs)
      PROVE  FALSE
  BY <1>0, <1>2, CloseRoomsFacts DEF Stays
<1> QED BY <1>1, <1>2 DEF Stays, Attached

\* A connection loses its room's document only when the room is unloaded.
LEMMA GoneStep ==
    ASSUME TypeOK, [Next]_vars, NEW c \in Connections,
           connections[c].phase \in {"attached", "closed"},
           connections'[c].phase = "gone"
    PROVE  Restart \/ Attached(RoomOf(c)) = {}
<1>0. connections \in [Connections -> Connection]
  BY DEF TypeOK
<1>1. ASSUME UNCHANGED connections
      PROVE  FALSE
  BY <1>1
<1>2. ASSUME NEW gs, connections' = CloseRooms(gs)
      PROVE  FALSE
  BY <1>0, <1>2, CloseRoomsFacts
<1>3. ASSUME NEW d, connections' = Move(connections, {d}, "closed")
      PROVE  FALSE
  BY <1>0, <1>3, MoveFacts
<1>4. ASSUME NEW g \in Generations, RoomStep(g)
      PROVE  Attached(RoomOf(c)) = {}
  <2>1. CASE FailLoad(g)
    <3>1. c \notin Waiting(g)
      BY DEF Waiting
    <3> QED BY <1>0, <2>1, <3>1, MoveFacts DEF FailLoad
  <2>2. CASE Unload(g)
    <3> DEFINE cs == {d \in Connections : connections[d].phase = "closed" /\ RoomOf(d) = g}
    <3>1. c \in cs => Attached(RoomOf(c)) = {}
      BY <2>2 DEF Unload
    <3>2. connections' = Move(connections, cs, "gone")
      BY <2>2 DEF Unload
    <3> HIDE DEF cs
    <3> QED BY <1>0, <3>1, <3>2, MoveFacts
  <2> QED BY <1>1, <1>4, <2>1, <2>2
          DEF RoomStep, StartLoad, ReadSnapshot, LoadFails, Install
<1>5. ASSUME NEW d \in Connections, ConnectionStep(d)
      PROVE  FALSE
  <2>1. CASE d # c
    <3>1. connections'[c] = connections[c]
      BY <1>0, <1>5, <2>1, MoveFacts
         DEF ConnectionStep, Authenticate, Attach, Leave, Receive
    <3> QED BY <3>1
  <2>2. CASE d = c
    BY <1>0, <1>1, <1>3, <1>5, <2>2, MoveFacts
       DEF ConnectionStep, Authenticate, Attach, Leave, Receive
  <2> QED BY <2>1, <2>2
<1>6. ASSUME NEW d \in Connections, FrameStep(d)
      PROVE  FALSE
  BY <1>1, <1>2, <1>3, <1>6
     DEF FrameStep, Acquire, Commit, CommitFails, Refuse, Resume, ApplyUpdate
<1>7. ASSUME CommandStep \/ Archive \/ CloseArchivedRoom \/ DrainStep \/ UNCHANGED vars
      PROVE  FALSE
  BY <1>1, <1>2, <1>7
     DEF CommandStep, CommitCommand, PublishNowhere, PublishDurableUpdate, PublishFails,
         Archive, CloseArchivedRoom, DrainStep, BeginDrain, LoadForCheckpoint, Checkpoint,
         DrainFails, vars
<1> QED BY <1>4, <1>5, <1>6, <1>7 DEF Next

\* A frame that is back from the store ends by updating its room or closing it.
LEMMA EndStep ==
    ASSUME TypeOK, [Next]_vars, NEW c \in Connections,
           frames[c].stage \in {"appended", "applying"},
           frames'[c].stage = "idle"
    PROVE  \/ Restart
           \/ connections' = CloseRooms({RoomOf(c)})
           \/ ApplyUpdate(c)
<1> USE DEF storeVars
<1>0. frames \in [Connections -> Frame]
  BY DEF TypeOK
<1>1. ASSUME UNCHANGED frames
      PROVE  FALSE
  BY <1>1
<1>2. ASSUME NEW g \in Generations, RoomStep(g)
      PROVE  UNCHANGED frames
  BY <1>2 DEF RoomStep, StartLoad, ReadSnapshot, LoadFails, FailLoad, Install, Unload
<1>3. ASSUME NEW d \in Connections, ConnectionStep(d)
      PROVE  FALSE
  BY <1>0, <1>1, <1>3 DEF ConnectionStep, Authenticate, Attach, Leave, Receive, Frame
<1>4. ASSUME NEW d \in Connections, FrameStep(d)
      PROVE  connections' = CloseRooms({RoomOf(c)}) \/ ApplyUpdate(c)
  <2>1. CASE d # c
    <3>1. frames'[c] = frames[c]
      BY <1>0, <1>4, <2>1 DEF FrameStep, Acquire, Commit, CommitFails, Refuse, Resume,
                              ApplyUpdate, End, Become
    <3> QED BY <3>1
  <2>2. CASE d = c
    <3>1. CASE Resume(c)
      BY <1>0, <3>1 DEF Resume, Become, Frame
    <3> QED BY <1>4, <2>2, <3>1 DEF FrameStep, Acquire, Commit, CommitFails
  <2> QED BY <2>1, <2>2
<1>5. ASSUME CommandStep \/ Archive \/ CloseArchivedRoom \/ DrainStep \/ UNCHANGED vars
      PROVE  UNCHANGED frames
  BY <1>5 DEF CommandStep, CommitCommand, PublishNowhere, PublishDurableUpdate,
              PublishFails, Archive, CloseArchivedRoom, DrainStep, BeginDrain,
              LoadForCheckpoint, Checkpoint, DrainFails, vars
<1> QED BY <1>1, <1>2, <1>3, <1>4, <1>5 DEF Next

\* A publication is only crossed off when it was made.
LEMMA JobsStep ==
    ASSUME [Next]_vars
    PROVE  \/ jobs \subseteq jobs'
           \/ \E job \in jobs : /\ jobs' = jobs \ {job}
                                /\ PublishNowhere(job) \/ PublishDurableUpdate(job)
<1> USE DEF storeVars
<1>1. ASSUME NEW g \in Generations, RoomStep(g)
      PROVE  jobs' = jobs
  BY <1>1 DEF RoomStep, StartLoad, ReadSnapshot, LoadFails, FailLoad, Install, Unload
<1>2. ASSUME NEW c \in Connections, ConnectionStep(c) \/ FrameStep(c)
      PROVE  jobs' = jobs
  BY <1>2 DEF ConnectionStep, Authenticate, Attach, Leave, Receive, FrameStep, Acquire,
              Commit, CommitFails, Refuse, Resume, ApplyUpdate
<1>3. CASE CommandStep
  BY <1>3 DEF CommandStep, CommitCommand, PublishNowhere, PublishDurableUpdate, PublishFails
<1>4. ASSUME Archive \/ CloseArchivedRoom \/ DrainStep \/ Restart \/ UNCHANGED vars
      PROVE  jobs' = jobs
  BY <1>4 DEF Archive, CloseArchivedRoom, DrainStep, BeginDrain, LoadForCheckpoint,
              Checkpoint, DrainFails, Restart, vars
<1> QED BY <1>1, <1>2, <1>3, <1>4 DEF Next

\* What is on its way to a room keeps being so until it arrives, as long as
\* somebody stays in the room.
LEMMA ReachesKept ==
    ASSUME TypeOK, FramesOfMembers, RoomsOfMembers, [Next]_vars,
           NEW c \in Connections, Stays(c),
           NEW entry \in Entry, entry.generation = RoomOf(c), Reaches(entry)
    PROVE  Reaches(entry)'
<1>0. /\ frames \in [Connections -> Frame]
      /\ rooms \in [Generations -> Room]
      /\ entry.generation \in Generations
      /\ rooms[entry.generation].phase = "live"
  BY DEF TypeOK, Entry, RoomsOfMembers, Stays
<1>1. CASE entry.update \in rooms[entry.generation].content
  BY <1>0, <1>1, RoomsKept DEF Reaches, Stays
<1>2. CASE entry \in jobs
  <2>1. CASE entry \in jobs'
    BY <2>1 DEF Reaches
  <2>2. CASE entry \notin jobs'
    <3>1. PublishNowhere(entry) \/ PublishDurableUpdate(entry)
      BY <1>2, <2>2, JobsStep
    <3>2. PublishDurableUpdate(entry)
      BY <1>0, <3>1 DEF PublishNowhere
    <3>3. entry.update \in rooms'[entry.generation].content
      BY <1>0, <3>2 DEF PublishDurableUpdate, Room
    <3> QED BY <3>3 DEF Reaches
  <2> QED BY <2>1, <2>2
<1>3. ASSUME NEW d \in Connections, Carries(d, entry)
      PROVE  Reaches(entry)'
  <2>1. /\ frames[d].stage \in {"appended", "applying"}
        /\ connections[d].phase \notin {"away", "waiting"}
        /\ RoomOf(d) = RoomOf(c)
    BY <1>3 DEF Carries, FramesOfMembers
  <2>2. CASE frames'[d].stage = "idle"
    <3>1. ApplyUpdate(d)
      BY <2>1, <2>2, EndStep, StaysFacts
    <3>2. frames[d].stage = "applying"
      BY <3>1 DEF ApplyUpdate
    <3>3. entry.update \in rooms'[entry.generation].content
      BY <1>0, <1>3, <3>1, <3>2 DEF ApplyUpdate, Carries, Room
    <3> QED BY <3>3 DEF Reaches
  <2>3. CASE frames'[d].stage # "idle"
    <3>1. connections'[d].generation = RoomOf(d)
      BY <2>1, ConnectionStepMoves DEF ConnectionMoves, Lost, Admitted, Joined, RoomOf
    <3>2. CASE frames'[d] = frames[d]
      <4>1. frames[d].stage = "applying" => connections'[d].phase \in {"attached", "closed"}
        BY <1>3, <2>1, ConnectionStepMoves, GoneStep, StaysFacts
           DEF Carries, ConnectionMoves, Lost, Admitted, Joined
      <4>2. Carries(d, entry)'
        BY <1>3, <3>1, <3>2, <4>1 DEF Carries, RoomOf
      <4> QED BY <4>2 DEF Reaches
    <3>3. CASE frames'[d] # frames[d]
      <4>1. /\ frames'[d] = [frames[d] EXCEPT !.stage = "applying"]
            /\ ~Blocked(d)
            /\ UNCHANGED connections
        BY <2>1, <2>3, <3>3, FrameStepMoves, NoFrameType DEF FrameMoves, Commit
      <4>2. connections[d].phase = "attached"
        BY <2>1, <4>1 DEF Blocked, TypeOK, Connection
      <4>3. frames'[d].stage = "applying" /\ frames'[d].update = frames[d].update
        BY <1>0, <4>1 DEF Frame
      <4>4. Carries(d, entry)'
        BY <1>3, <3>1, <4>1, <4>2, <4>3 DEF Carries, RoomOf
      <4> QED BY <4>4 DEF Reaches
    <3> QED BY <3>2, <3>3
  <2> QED BY <2>2, <2>3
<1> QED BY <1>1, <1>2, <1>3 DEF Reaches

\* A room that is about to be closed stays so until it is.
LEMMA ClosingKept ==
    ASSUME TypeOK, FramesOfMembers, RoomsOfMembers, [Next]_vars,
           NEW c \in Connections, Stays(c), ClosingSoon(RoomOf(c)),
           NEW g \in Generations, g = RoomOf(c)
    PROVE  ClosingSoon(g)'
<1>0. frames \in [Connections -> Frame]
  BY DEF TypeOK
<1>1. ASSUME NEW d \in Connections, RoomOf(d) = g,
             frames[d].stage \in {"appended", "applying"}, frames[d].rotated
      PROVE  ClosingSoon(g)'
  <2>1. frames'[d].stage # "idle"
    <3>1. ApplyUpdate(d) => connections' = CloseRooms({RoomOf(d)})
      BY <1>1 DEF ApplyUpdate
    <3> QED BY <1>1, <3>1, EndStep, StaysFacts
  <2>2. RoomOf(d)' = g
    BY <1>1, ConnectionStepMoves
       DEF ConnectionMoves, Lost, Admitted, Joined, RoomOf, FramesOfMembers
  <2>3. frames'[d].stage \in {"appended", "applying"} /\ frames'[d].rotated
    <3>1. \/ frames'[d] = frames[d]
          \/ frames'[d] = [frames[d] EXCEPT !.stage = "applying"]
      BY <1>1, <2>1, FrameStepMoves, NoFrameType DEF FrameMoves, Commit
    <3>2. frames[d] \in Frame
      BY <1>0
    <3>3. frames'[d].rotated = frames[d].rotated
      BY <3>1, <3>2 DEF Frame
    <3>4. frames'[d].stage \in {"appended", "applying"}
      BY <1>1, <3>1, <3>2 DEF Frame
    <3> QED BY <1>1, <3>3, <3>4
  <2> QED BY <2>2, <2>3 DEF ClosingSoon
<1>2. ASSUME NEW job \in jobs, job.generation > g
      PROVE  ClosingSoon(g)'
  <2>1. CASE job \in jobs'
    BY <1>2, <2>1 DEF ClosingSoon
  <2>2. CASE job \notin jobs'
    <3>1. PublishNowhere(job) \/ PublishDurableUpdate(job)
      BY <2>2, JobsStep
    <3>2. g \in OlderRooms(job.generation)
      <4>1. g < job.generation
        BY <1>2, GenerationAssumption DEF TypeOK, Entry, Generations
      <4> QED BY <4>1 DEF OlderRooms, RoomsOfMembers, Stays
    <3> QED BY <3>1, <3>2, StaysFacts DEF PublishNowhere, PublishDurableUpdate
  <2> QED BY <2>1, <2>2
<1> QED BY <1>1, <1>2 DEF ClosingSoon

LEMMA MembersServedKept ==
    ASSUME IInv, [Next]_vars
    PROVE  MembersServed'
<1> SUFFICES ASSUME NEW c \in Connections PROVE Served(c)'
  BY DEF MembersServed
<1>0. /\ TypeOK /\ FramesOfMembers /\ RoomsOfMembers /\ Ordered /\ Served(c)
      /\ history \in Seq(Entry) /\ history' \in Seq(Entry)
      /\ Len(history) \in Nat
      /\ generation \in Nat /\ generation' \in Nat
      /\ connections[c].since \in Nat
  <2>1. Generations \subseteq Nat
    BY GenerationAssumption DEF Generations
  <2>2. TypeOK /\ TypeOK'
    BY NextType DEF IInv
  <2> QED BY <2>1, <2>2 DEF IInv, MembersServed, TypeOK, Connection
<1>1. PICK g \in Generations : g = RoomOf(c)
  BY <1>0 DEF TypeOK, RoomOf, Connection
<1>2. g \in Nat /\ g <= generation
  BY <1>0, <1>1, GenerationAssumption DEF Ordered, Generations
<1>3. CASE Joined(c)
  <2>1. /\ history' = history /\ generation' = generation
        /\ connections'[c].since = Len(history)
        /\ RoomOf(c)' = g
    BY <1>1, <1>3 DEF Joined, RoomOf, storeVars
  <2>2. ASSUME \A i \in 1 .. Len(history) : history[i].generation <= g
        PROVE  generation <= g
    <3>1. CASE generation > 1
      <4>1. Len(history) > 0 /\ history[Len(history)].generation = generation
        BY <1>0, <3>1 DEF Ordered
      <4>2. Len(history) \in 1 .. Len(history)
        BY <1>0, <4>1
      <4> QED BY <2>2, <4>1, <4>2
    <3>2. CASE ~(generation > 1)
      BY <1>0, <1>1, <3>2, GenerationAssumption DEF Generations
    <3> QED BY <3>1, <3>2
  <2>3. JoinedCurrent(c)' => ~(generation' > RoomOf(c)')
    BY <1>0, <1>2, <2>1, <2>2 DEF JoinedCurrent
  <2>4. \A i \in connections'[c].since + 1 .. Len(history') : FALSE
    BY <1>0, <2>1
  <2> QED BY <2>3, <2>4 DEF Served
<1>4. CASE Stays(c)
  <2>1. /\ connections'[c] = connections[c]
        /\ RoomOf(c)' = g
        /\ connections[c].since <= Len(history)
        /\ \A i \in connections[c].since + 1 .. Len(history) :
             history[i].generation = g => Reaches(history[i])
        /\ JoinedCurrent(c) /\ generation > g => ClosingSoon(RoomOf(c))
    BY <1>0, <1>1, <1>4 DEF Stays, RoomOf, Served, Ordered
  <2>2. ASSUME NEW entry \in Entry, entry.generation = g, Reaches(entry)
        PROVE  Reaches(entry)'
    BY <1>0, <1>1, <1>4, <2>2, ReachesKept
  <2>3. ASSUME NEW entry \in Entry, entry.generation = g,
               Len(history') = Len(history) + 1, history'[Len(history')] = entry
        PROVE  Reaches(entry)'
    <3>0. generation' = g /\ generation' # generation => FALSE
      BY <1>0, <1>2, HistoryGrows
    <3>1. generation' = g /\ generation = g
      BY <1>0, <2>3, <3>0, HistoryGrows
    <3>2. CASE \E d \in Connections : Commit(d)
      <4>1. PICK d \in Connections : Commit(d)
        BY <3>2
      <4>2. PICK h \in Generations :
              /\ Accept(frames[d].update, h)
              /\ frames' = [frames EXCEPT ![d].stage = "appended",
                                          ![d].rotated = (h # RoomOf(d))]
              /\ RoomOf(d) = generation /\ UNCHANGED connections
        BY <4>1 DEF Commit
      <4>3. frames[d].update \in Updates \cup Commands /\ frames \in [Connections -> Frame]
        BY <1>0 DEF TypeOK, Frame
      <4>4. entry.update = frames[d].update
        <5>1. history' # history
          BY <1>0, <2>3
        <5>2. history'[Len(history) + 1] = [update |-> frames[d].update, generation |-> h]
          BY <1>0, <4>2, <4>3, <5>1, AcceptFacts
        <5> QED BY <2>3, <5>2
      <4>5. frames'[d].stage = "appended" /\ frames'[d].update = frames[d].update
        BY <4>2, <4>3 DEF Frame
      <4>6. Carries(d, entry)'
        BY <2>3, <3>1, <4>2, <4>4, <4>5 DEF Carries, RoomOf
      <4> QED BY <4>6 DEF Reaches
    <3>3. CASE \E k \in Commands : CommitCommand(k)
      <4>1. PICK k \in Commands, h \in Generations :
              Accept(k, h) /\ jobs' = jobs \cup {[update |-> k, generation |-> h]}
        BY <3>3 DEF CommitCommand
      <4>2. history' # history
        BY <1>0, <2>3
      <4>3. entry = [update |-> k, generation |-> h]
        BY <1>0, <2>3, <4>1, <4>2, AcceptFacts
      <4> QED BY <4>1, <4>3 DEF Reaches
    <3>4. ~UNCHANGED <<generation, history>>
      BY <1>0, <2>3
    <3> QED BY <1>0, <3>2, <3>3, <3>4, HistoryStep
  <2>4. ASSUME NEW i \in connections[c].since + 1 .. Len(history'),
               history'[i].generation = g
        PROVE  Reaches(history[i])'
    <3>0. i \in Nat /\ i >= 1 /\ Len(history') \in Nat
      BY <1>0
    <3>1. PICK entry \in Entry : entry = history'[i]
      BY <1>0, <3>0
    <3>2. Reaches(entry)'
      <4>1. CASE i <= Len(history)
        <5>1. history[i] = entry /\ i \in connections[c].since + 1 .. Len(history)
          BY <1>0, <3>0, <3>1, <4>1, HistoryGrows
        <5> QED BY <2>1, <2>2, <2>4, <3>1, <5>1
      <4>2. CASE i > Len(history)
        <5>1. i = Len(history') /\ Len(history') = Len(history) + 1
          BY <1>0, <3>0, <4>2, HistoryGrows
        <5> QED BY <2>3, <2>4, <3>1, <5>1
      <4> QED BY <1>0, <3>0, <4>1, <4>2
    <3> QED BY <3>1, <3>2 DEF Reaches, Carries
  <2>5. JoinedCurrent(c)' => JoinedCurrent(c)
    BY <1>0, <1>1, <2>1, HistoryGrows DEF JoinedCurrent
  <2>6. JoinedCurrent(c)' /\ generation' > g => ClosingSoon(g)'
    <3> SUFFICES ASSUME JoinedCurrent(c)', generation' > g
                 PROVE  ClosingSoon(g)'
      OBVIOUS
    <3>1. CASE generation > g
      BY <1>0, <1>1, <1>4, <2>1, <2>5, <3>1, ClosingKept
    <3>2. CASE generation = g
      <4>1. CASE \E d \in Connections : Commit(d)
        <5>1. PICK d \in Connections : Commit(d)
          BY <4>1
        <5>2. PICK h \in Generations :
                /\ Accept(frames[d].update, h)
                /\ frames' = [frames EXCEPT ![d].stage = "appended",
                                            ![d].rotated = (h # RoomOf(d))]
                /\ RoomOf(d) = generation /\ UNCHANGED connections
          BY <5>1 DEF Commit
        <5>3. h # RoomOf(d)
          BY <1>2, <3>2, <5>2 DEF Accept
        <5>4. frames'[d].stage = "appended" /\ frames'[d].rotated
          BY <1>0, <5>2, <5>3 DEF TypeOK, Frame
        <5>5. RoomOf(d)' = g
          BY <3>2, <5>2 DEF RoomOf
        <5> QED BY <5>4, <5>5 DEF ClosingSoon
      <4>2. CASE \E k \in Commands : CommitCommand(k)
        <5>1. PICK k \in Commands, h \in Generations :
                Accept(k, h) /\ jobs' = jobs \cup {[update |-> k, generation |-> h]}
          BY <4>2 DEF CommitCommand
        <5>2. h > g
          BY <5>1 DEF Accept
        <5>3. [update |-> k, generation |-> h] \in jobs'
          BY <5>1
        <5>4. \E job \in jobs' : job.generation > g
          BY <5>2, <5>3
        <5> QED BY <5>4 DEF ClosingSoon
      <4>3. ~UNCHANGED <<generation, history>>
        BY <1>0, <1>2, <3>2
      <4> QED BY <1>0, <4>1, <4>2, <4>3, HistoryStep
    <3> QED BY <1>0, <1>2, <3>1, <3>2
  <2> QED BY <2>1, <2>4, <2>6 DEF Served, ClosingSoon
<1> QED BY <1>0, <1>3, <1>4, ConnectionStepMoves
        DEF ConnectionMoves, Lost, Admitted, Stays, Served

-----------------------------------------------------------------------------
(* The theorems.                                                           *)

LEMMA Preserves == ASSUME IInv, [Next]_vars PROVE IInv'
BY NextType, FramesOfMembersKept, SequencedKept, AcceptedKept, OrderedKept,
   RoomsOfMembersKept, MembersServedKept, DrainedInOrderKept DEF IInv

\* The inductive invariant holds of every state that the sidecar can reach.
THEOREM Invariance == Spec => []IInv
BY InitRest, Preserves, PTL DEF Spec

\* Type correctness of the sidecar's state and of the store behind it.
THEOREM TypeCorrect == Spec => []TypeOK
<1>1. IInv => TypeOK
  BY DEF IInv
<1> QED BY <1>1, Invariance, PTL

\* beforeHandleMessage and publishDurableUpdate: whatever a room holds, and so
\* whatever its peers were sent, is accepted history, for any interleaving of
\* frames, commands, rotations, drains and crashes.
THEOREM ShowsOnlyDurable == Spec => []DurableFirst
<1>1. IInv => DurableFirst
  BY DEF IInv, Accepted
<1> QED BY <1>1, Invariance, PTL

\* The room sequencer: one frame of a room works at a time, and nobody who
\* waits for its turn is dropped from the line or stands in it twice.
THEOREM SerializesFrames == Spec => []Sequenced
<1>1. IInv => Sequenced
  BY DEF IInv
<1> QED BY <1>1, Invariance, PTL

\* closeRoomByName and publishDurableUpdate: a connection that joined the
\* current room sees every update accepted since, or is sent away.
THEOREM LeavesNobodyBehind == Spec => []NobodyLeftBehind
<1>1. ASSUME IInv PROVE NobodyLeftBehind
  <2> SUFFICES ASSUME NEW c \in Connections,
                      connections[c].phase = "attached", JoinedCurrent(c),
                      NEW i \in connections[c].since + 1 .. Len(history)
               PROVE  IF history[i].generation = RoomOf(c)
                      THEN \/ history[i].update \in rooms[RoomOf(c)].content
                           \/ OnItsWay(history[i].update)
                      ELSE ClosingSoon(RoomOf(c))
    BY DEF NobodyLeftBehind
  <2>1. /\ \A j \in connections[c].since + 1 .. Len(history) :
             history[j].generation = RoomOf(c) => Reaches(history[j])
        /\ generation > RoomOf(c) => ClosingSoon(RoomOf(c))
    BY <1>1 DEF IInv, MembersServed, Served
  <2>2. CASE history[i].generation = RoomOf(c)
    <3>1. Reaches(history[i])
      BY <2>1, <2>2
    <3> QED BY <2>2, <3>1 DEF Reaches, Carries, OnItsWay
  <2>3. CASE history[i].generation # RoomOf(c)
    <3>1. /\ i \in DOMAIN history /\ history[i] \in Entry
          /\ RoomOf(c) \in Nat /\ generation \in Nat
      BY <1>1, GenerationAssumption
         DEF IInv, TypeOK, Connection, RoomOf, Generations
    <3>2. history[i].generation \in Nat
      BY <3>1, GenerationAssumption DEF Entry, Generations
    <3>3. history[i].generation >= RoomOf(c) /\ history[i].generation <= generation
      BY <1>1, <3>1 DEF IInv, Ordered
    <3> QED BY <2>1, <2>3, <3>1, <3>2, <3>3
  <2> QED BY <2>2, <2>3
<1> QED BY <1>1, Invariance, PTL

\* drain: once it has ended well, the checkpoints cover every browser update
\* that this process got accepted.
THEOREM SavesUpdates == Spec => []DrainSavesUpdates
<1>1. IInv => DrainSavesUpdates
  BY DEF IInv, DrainedInOrder
<1> QED BY <1>1, Invariance, PTL
=============================================================================
