# Verification of the chat room server

TLA+ models of the chat room project (`src/server`, `src/client`,
`src/common`), TLC configurations that check them on small instances, and
proofs, checked by TLAPS, of what matters most for every size.

## The system

One server process and any number of client processes. Each client has a TCP
connection to the server for its requests; chat messages go out from the server
by UDP multicast, one group per room.

| part | where | state | operations |
|---|---|---|---|
| connections | `server.c` `server_run`, `handle_new_connection`, `handle_client_message` | `clients[50]`: `is_active`, `state`, `username`, `current_room_id`, `session_token`, `socket_fd`, `last_activity`; `master_fds`, `max_fd` | accept, receive one request and dispatch it, drop |
| login | `handle_login_request`, `generate_session_token` | `clients[]`, a static counter | `AUTHENTICATING` → `CONNECTED` |
| rooms | `handle_create_room_request`, `handle_join_room_request`, `handle_leave_room_request` | `rooms[20]`: `is_active`, `room_name`, `password`, `max_clients`, `client_count` | create, join, leave; a room closes when its count reaches 0 |
| disconnecting | `handle_disconnect_request` | both tables | leave the room, then be dropped |
| chat | `handle_chat_message`, `send_multicast_message` | reads both tables | send to the room's group |
| private messages | `handle_private_message` | reads the client table | forward to the target's socket |
| lists | `handle_room_list_request`, `handle_user_list_request` | read the tables twice | size, fill, send |
| threads | `create_client_thread`, `client_thread_handler`, `init_threading` | `thread_pool[10]`, `client_mutex`, `room_mutex` | one thread for each of the first ten connections; later ones are served by the main thread |
| timeouts | the sweep in `server_run`, the check in `client_thread_handler` | `last_activity` | drop a client that was silent for 30 s |
| client session | `client.c` `handle_enhanced_user_input`, `send_*` | `session_token`, `current_room_id`, the TCP stream | send a request, take the next bytes for the answer |
| client receiver | `udp_receiver_thread`, `leave_multicast_group` | `udp_socket`, its group | print chat messages |

How the parts meet:

- `server_run` (the main thread) accepts connections and calls the handlers of
  clients that have no thread, with **no lock held**. A client thread calls the
  same handlers for its one client with `client_mutex` **held**.
- Inside the handlers only join, leave and chat lock `room_mutex`; only a
  private message locks `client_mutex`. Create, disconnect and the lists lock
  nothing.
- A handler that returns -1 makes its caller close the socket and zero the slot
  of the client. So do both timeout checks. None of them takes the client out
  of its room.
- `thread_pool` slots are never given back, so a server is first in *thread
  mode* (every client has a thread), then in *mixed mode*, and in *select mode*
  when the last thread has ended.
- A client knows an answer only by its place in the TCP stream: whatever comes
  next after a request is taken for the answer to it, and errors and private
  messages come over the same connection.

What is hard here: two threads inside handlers at the same time; the count kept
in the room table and the membership kept in the client table; the slots of both
tables, the socket numbers and the ids of rooms, all of which are used again
while somebody may still hold the old ones; drops in every state; locks taken on
some paths and not on others; the two ends of a connection, each with its own
idea of the session. `PROJECT.json` lists each hazard at its line.

What makes each part correct: for the rooms, that the two tables agree and that
the handlers, however cut up, do what `ChatRooms` says; for the connections,
that every client is served by exactly one thread and every socket belongs to
one slot; for the mutexes, that each path gives back what it took and nobody
waits in a circle; for the session, that both ends agree and every request
returns.

## Modules

| module | models |
|---|---|
| `ChatRooms` | the abstract specification: a directory of rooms and a seat per client; no tables, no counters, no locks |
| `ChatServer` | the server with its handlers one at a time: both tables, every handler that changes them, passwords, names, limits |
| `ServerThreads` | the same handlers as the threads run them: both mutexes, one step wherever another thread can come in between |
| `ConnectionSlots` | connections from accept to close: slots, socket numbers, `master_fds`, the thread pool, both timeouts |
| `ChatSession` | one client program and its session: the TCP stream, the multicast group, the receiver thread, the clock |
| `MCChatServer`, `MCServerThreads`, `MCConnectionSlots`, `MCChatSession` | instances for TLC |
| `ChatServerProofs` | the invariant of `ChatServer`, what follows from it, and that it implements `ChatRooms` |
| `ServerThreadsProofs` | types, mutexes and who waits for whom in `ServerThreads`, in every mode |
| `ServerThreadsCounts` | counts, names and list replies in `ServerThreads`, where handlers come one at a time |
| `ServerThreadsImplements` | `ServerThreads` implements `ChatRooms`, where handlers come one at a time |
| `ServerThreadsLocked` | counts, names and the abstract rooms in mixed mode, as far as the locking of the code goes |
| `ConnectionSlotsProofs` | what each action of `ConnectionSlots` does, field by field, and the part of its invariant that nothing disturbs |
| `ConnectionSlotsOrderly` | the part that holds until an agent comes between another and its slot, and the three properties |
| `ChatSessionProofs` | types, agreement, answers, multicast group and keepalives in `ChatSession` |

The three modules of the server cut it along what interacts. `ChatServer` has
all the data of the rooms and no concurrency; `ServerThreads` has the
concurrency inside the handlers, with clients that keep their slot and their
thread; `ConnectionSlots` has what happens to slots, sockets and threads between
two requests, with handlers that only keep a client or drop it, or lock
`client_mutex` for a private message. `ChatServer` and `ServerThreads` meet in
`ChatRooms`, which both implement.

### ChatServer

`clients` and `rooms` are the tables of `server_t`, with the fields that decide
something; a slot of the room table is known by its `room_id`. Every handler is
one action: `HandleNewConnection`, `HandleLogin`, `HandleCreateRoom`,
`HandleJoinRoom`, `HandleLeaveRoom`, `HandleDisconnect`. Every search takes the
lowest index, as the loops of the code do (`IsFirst`). A refused request changes
nothing and is a stuttering step; `Creatable` and `Admits` are the conditions
under which it is not refused. The ways to be dropped are
`ConnectionLost`, `Timeout`, `UserListRefused`, `ChatMessageFails` and
`PrivateMessageFails`; they share `Drop`, the `memset` of the slot, which leaves
the room table as it is. Two history variables that no action reads:
`lost[r]` counts the members dropped from room `r` since it was created, and
`key[i]` is the password client `i` entered its room with.

The memset leaves `current_room_id = 0`, not -1, and the model keeps that. Names
and passwords are values that are only compared. `is_valid_room_name` and
`is_valid_password` are the membership in `RoomNames` and `Passwords`; the empty
password is `NoPassword`, which is not valid (`len < 3`).

### ServerThreads

`pc[a]` is the step an agent (the main thread or a client thread) is at, `job[a]`
its request and the local variables of the handler. `client_mutex` and
`room_mutex` hold their owner. A handler is cut at every lock and unlock, and
between each read of the shared tables and the write that depends on it:

| handler | steps |
|---|---|
| `handle_create_room_request` | `CreateFind`, `CreateName`, `CreateFill`, `CreateOpen` |
| `handle_join_room_request` | `RoomLock`, `JoinFind`, `JoinSeat`, `JoinCount` |
| `handle_leave_room_request` | `RoomLock`, `DepartFind`, `DepartRead`, `DepartWrite`, `DepartClose` |
| `handle_disconnect_request` | the same departure steps without the lock, then `Drop` |
| `handle_chat_message` | `RoomLock`, `ChatSend` |
| `handle_private_message` | `ClientLock`, `PrivateSend` |
| both lists | `ListSize`, `ListFill` (which may fail: no memory, or the send) |
| `client_thread_handler` | `LockClients`, `Receive`, the handler, `Drop` if it returned -1, `Finish` |
| the sweep of `server_run` | `SweepFind`, `SweepDrop`, with no lock (checked where no client has a thread; what a sweep does to a thread is in `ConnectionSlots`) |

The accesses race where no lock protects them. An increment is a read and a
write; the test for an empty room may use the value just written or read the
field again (`DepartClose`), as a compiler may. Passwords and user names are
left to `ChatServer`. The constants say who has a thread (`Threaded`) and which
requests the two kinds of clients make, so that one module covers all three
modes. The mutexes are those of a POSIX build (not recursive); the Windows build
uses recursive mutexes and would not hang on a private message.

### ConnectionSlots

`files` says what each descriptor refers to, `clients` what each slot holds
(`is_active`, `socket_fd`, and whether `last_activity` is 30 s old), `master_fds`
is the set, `main` and `threads` are where the agents are, with their local
variables; `peers` and `backlog` are the clients' ends of the connections.
Descriptors are given out lowest first, as POSIX says, so that a number that is
closed is soon used again. Descriptor 0 is the standard input, which is what the
`socket_fd` of a zeroed slot means.

| code | actions |
|---|---|
| `server_run`: copy the set, `select` | `Select` (it fails on a closed descriptor, and the main thread stops), `SelectReturns` |
| `handle_new_connection` | `Reject`, `Accept` |
| `create_client_thread` | `Spawn` (a pool slot is used once; `pthread_create` may fail), `Unset` (`FD_CLR`, when the thread is running already) |
| the loop over the clients | `Serve`, `MainReceive`, `MainPrivate`, `MainClose`, `MainClear` |
| the sweep | `Sweep`, `MainClose`, `MainClear` |
| `client_thread_handler` | `Loop`, `Watch` and `Wake` (its own `select`), `Lock`, `ThreadReceive`, `ThreadClose`, `ThreadClear` and `ThreadZero` (the read and the write of `FD_CLR`, and the memset), `Unlock`, `CheckTimeout` |
| the clients and the clock | `Connect`, `Talk`, `TimePasses` |

A private message is kept in this module for its lock. A client thread that
handles one holds `client_mutex` already and stays at `"private"` for ever, with
the mutex; the main thread waits there until nobody holds it (`MainPrivate`), so
for ever once a client thread hangs, or as long as other threads take the mutex
first. No handler of this module waits for anything else: `room_mutex` is always
given back (`RoomMutexReleased`, of `mixed_mode`).

`orderly` is a history variable: it becomes false when an agent comes between
another one and its slot, and no action reads it. That happens in exactly these
ways: the main thread accepts a connection into a slot whose last thread is not
done, or under a number, or at a moment, at which a thread is taking its own
number out of `master_fds`; it takes a number out itself at such a moment; its
sweep times out a client that has a thread. Each is possible in the code. What
follows from them is the subject of `unserved_client`, the violation below;
the properties of the passing runs say what is right up to the first of them.

### ChatSession

`client` is where `handle_enhanced_user_input` is, with `session_token` (held or
not), `current_room_id` and the time since the last keepalive; `session` is the
client's slot at the server. `to_server` and `to_client` are the stream in
either direction. A message has its type and the number of its bytes that are
still unread; `After` is what a `recv` of n bytes leaves, so that an answer that
is not the one asked for shifts all the later ones. `Take` is the code of each
`send_*` function after its `recv`: a success is known by the type of the
message, but for `handle_leave_room_response`, which looks at one byte.
`Handle` is what the server does with each request, answers included; whether a
room can be created or joined is a free choice there. `LeaveGroup` and
`JoinGroup` are the multicast part, with `bind` working once per socket, and
`socket`, a first `bind` and `IP_ADD_MEMBERSHIP` possibly failing; without a
socket (`udp.open` is false) the receiver's `select` finds nothing, as the build
without optimisation has it (`FD_SET` of -1 sets a bit that `select` does not look
at); `ReceiverSelect` and `ReceiverRecv` are
`udp_receiver_thread`, `Exit` the end of `main`. `ServerReads` takes all that has
arrived and handles its beginning, as one `recv` into a buffer does. The server stops reading (`session.hung`) when
the thread that serves the client waits for `client_mutex` for ever: at a private
message of the client itself (`Handle`), or because of another's (`ServerHangs`).

`inStep` is a history variable: it is false once the client got a private
message, an answer to a request that has none, or two requests of its were read
as one. `failed` remembers that the system refused a socket, a first bind or a
membership, which a second bind of the client's is not; `stale` that the receiver thread is about to read from a socket that was made anew.

## Runs

Passing:

| run | instance | shows |
|---|---|---|
| `rooms` | `ChatServer`, 3 slots, 2 rooms, 2 names each of users and rooms, 2 passwords, limits 0, 1, 2, 4 | the seven invariants and two action properties below; `ChatServer` implements `ChatRooms` |
| `select_mode` | `ServerThreads`, 3 clients, none with a thread, all requests and the sweep | the steps of a handler add up to the abstract rooms; counts are exact when nobody is inside a handler of the room; every request that is begun is finished |
| `thread_mode` | 3 clients, all with a thread, all requests but private messages | the same, and that `client_mutex` protects even the handlers without a lock: room names stay unique, list replies fit, mutexes match steps |
| `mixed_mode` | 1 client with a thread, 2 without; the main thread runs join, leave, chat, private messages and drops, the client thread create, join, leave, private messages and drops | what still holds when two threads are inside handlers, as long as the main thread runs no handler that should lock and does not; `room_mutex` is given back even by a thread that then hangs |
| `connections` | `ConnectionSlots`, 2 slots, 2 threads, 3 connections | while nobody comes between an agent and its slot: the select set, the sockets and the slots agree, no `recv` hangs |
| `connections_live` | 2 slots, 1 thread, 3 connections, one more than the server takes | so long, connections are accepted or turned away and requests to the main thread are read, unless the main thread waits for `client_mutex` for ever; a client thread gives `client_mutex` back, unless it hangs at a private message |
| `session` | `ChatSession`, 2 rooms, at most 2 requests and 1 private message waiting; keepalive 1, timeout 3 and thinking 2 ticks of 10 s | while every request has one answer: both ends agree, each answer is the right one, the group follows the room, keepalives are in time as long as they are read, requests return unless the server hangs, the program ends |

Invariants of `rooms`: `TypeOK`; `SlotsConsistent` (the three fields that say
what a client is doing never disagree); `MembersHaveRoom` (nobody's room is
closed by another client); `CountExact` (`client_count` is the members plus the
members lost in a drop, never less); `WithinCapacity`; `UniqueRoomNames`;
`MembersKnowPassword` (a reused room id takes no old member along). Action
properties: `RoomKeptWhileOccupied` and `ClosedByLastMember`.

Runs that find a violation, each of something the repository says of itself:

| run | the code | what it contradicts |
|---|---|---|
| `rooms_empty` | a dropped member stays counted, so the empty room is never closed and has one place less | `README.md:74` "Automatic room cleanup when empty" |
| `private_deadlock` | a private message of a client with a thread makes the thread lock `client_mutex` twice; it hangs, and so does every other client thread | `server.c:846` "Lock client access for thread safety" |
| `count_race` | a disconnect handled by the main thread loses an update of `client_count` | `README.md:276` "Atomic operations for counters" |
| `unserved_client` | a thread closes its socket and takes the number out of `master_fds` afterwards; a client accepted in between under the same number, with the pool used up, is taken out of the set with it and never served | `server.c:240` "Continue with select() mode for this client" |
| `session_desync` | a private message is taken for the answer to a request; the client and the server then disagree on the room it is in | `client.c:547` "Receive response immediately" |

### Other disagreements, met while modelling

No run is spent on these; they can be read off one definition.

- Login does not look for the name (`HandleLogin`), though `README.md:64`
  promises "Unique username enforcement"; a private message goes to the first
  of two.
- A room without a password is always refused, and so is `max_users` 0
  (`Creatable`), of which `protocol.h:203` and `protocol.h:205` say "0 for public
  room" and "0 = unlimited".
- In mixed mode a create of the main thread and one of a client thread can open
  two rooms of one name (`server.c:394`), and a room can open between the two
  passes of a list (`server.c:1292`): these handlers lock nothing themselves.
- "Send keepalive every 10 seconds" (`client.c:1036`) is done only when the user
  enters a line. With `MaxThink` 3, a user who types every 30 seconds or so,
  `KeptAlive` no longer holds.
- Nothing keeps the main thread's sweep from a client that has a thread
  (`server.c:193`), or a thread's own timeout from a slot that has been given to
  another connection since the check (`server.c:1161`): a client that has just
  been heard can then be dropped, or a slot be served by two threads. `orderly`
  ends there, and no property of the passing runs is about what follows.
- Of two requests that arrive in one `recv` the second is lost (`server.c:258`).
- A room that is created is taken for the client's own (`client.c:388`) although
  the server has not made the creator a member.
- When `IP_ADD_MEMBERSHIP` fails the socket stays bound to that room's port, and
  no later room can be listened to (`client.c:464`).

### Bounds

Every table is bounded in the code, and `ChatServer`, `ServerThreads` and
`ConnectionSlots` bound nothing further; each run explores all the states of its
instance. Three clients are enough for two that race and one that observes or
fills the room; two rooms for a name that is taken while another slot is free;
limits 1 and 2 so that rooms fill up, 0 and 4 (one more than the slots) so that
both bounds of the check are met. `lost` is bounded by the count of its room.
In `mixed_mode` all rooms have limit 2: with three clients one is refused.
Two slots and three connections are enough for a slot that is used again, a
connection that is turned away and one that takes over a number; two threads for
two that hand `master_fds` to one another, and for a pool that is used up. The
runs with one thread have a client of either kind, as the last thread is what
`unserved_client` needs.

`ChatSession` bounds the stream: `MaxRequests` requests wait at a time (2, so
that two are read as one), `MaxPrivate` private messages (1 is enough to shift
every later answer), `MaxThink` ticks pass between two lines. The counts of ticks
stop one above the limit they are compared with. `session_desync` gets by with
one request at a time.

The runs `connections`, `connections_live` and `session` have a `CONSTRAINT`
(`Orderly`, `InStep`) that ends a behaviour when the history variable becomes
false. Both variables never become true again, and every property of these runs
is conditional on them, but for the two `TypeOK`s: these are proved to hold in
every state, those beyond the constraint included.

Symmetry is used for values that are only compared (names, passwords,
connections), never in a run with a liveness property.

`CHECK_DEADLOCK FALSE` appears where the system really stops or the constraint
ends the behaviour: in `mixed_mode`, because a client thread waits for the mutex
it holds; in the runs of `ConnectionSlots`, because of the constraint and,
without it (`unserved_client`), because all can wait for a client that has
nothing to say; in the runs of `ChatSession`, because programs exit.

### Fairness

Always weak, and only for what a scheduler does with a runnable thread.
`ServerThreads`: each agent's next step inside a handler (`Handle`), reading
the request once a client thread has locked `client_mutex` (it locks after
`select` has reported data), the second half of the sweep. `ConnectionSlots`:
the main thread and each client thread. `ChatSession`: the client's two threads
and the server's reading, which is never enabled again once the server hangs.
There is no fairness for clients or users: nobody has
to send anything. Nor for the clock, and nor for mutexes beyond the weak fairness
of their takers: a thread may lose every race for a mutex, and the main thread in
`connections_live` may wait at a private message for ever, which is what
`MainWaitsForEver` in its properties excepts. `RequestsFinish`
therefore is about agents that are past waiting for a client, and holds because
every holder gives its mutex back; `send` is assumed to return, and that `recv`
does is `RecvNeverBlocks`.

Nothing promises that a silent client without a thread is ever timed out: the
main thread's `select` has no timeout (`server.c:164`), and the sweep waits for
another client to send something. The models let it come late or never.

## Proofs

All for every number of clients, rooms, names, slots, threads and connections.
TLC has checked each statement, and each invariant used, on the instances above.

**`ChatServerProofs`.** The inductive invariant `IInv` adds to the checked
invariants that an active room has a valid name, password and limit
(`ActiveRoomsValid`) and that its count is within its limit
(`CountWithinLimit`). `CountExact` and `CountWithinLimit` need each other: the
capacity check looks at the count, and only together do they bound the number of
members. That a create overwrites nobody's room follows from `MembersHaveRoom`
(an inactive slot has no members), which in turn needs `CountExact` (the count is
0 only without members). Steps are grouped by what they do to a room: nothing
(`SameMembersKeeps`), one member more (`JoinStep`), one fewer with the count
(`DepartsKeeps`), one fewer without it (`DropStep`). From `IInv`: `TypeCorrect`,
`SlotsAreConsistent`, `MemberRoomsActive`, `CountIsExact`, `CapacityHolds`,
`NamesAreUnique`, `PasswordsRespected` and the action properties
`OccupiedRoomsKept` and `LastMemberCloses`. The last theorem of the module is
`Implementation`: `Spec => ImplementsRooms`. Drops, leaves and disconnects are all
`Exit`; the count is never below the number of members, so whoever the count
admits the abstract room admits.

**`ServerThreadsProofs`.** For any mix of threads and any set of requests:
`TypeCorrect`, `LocksCorrect` (mutual exclusion on both mutexes, no path that
forgets to unlock) and `DeadlockOnlyWithOneself` (`NoCircularWait`). `IInv` adds
that a handler has set the local variables its steps use (`JobsMatchSteps`); the
proof shows that each step of an agent leaves the others where they are and
either leaves a mutex alone, takes it while it is free, or gives it back.

The rest of the module is about hanging. `OnlyPrivateMessagesHang`: a thread waits
for a mutex it holds only at the lock of `handle_private_message`, and only a
client thread does. `NoHangWithoutPrivate`: without private messages of client
threads there is no such wait at all (`NoSelfDeadlock`, the property
`private_deadlock` violates). `HungForGood`: such a thread never goes on and never
gives the mutex back. `WaitingIsShort`: whoever waits for a mutex waits for an
agent that does not wait, or for a thread that hangs on its private message; no
path of the code waits in a longer chain.

**`ServerThreadsCounts`.** `CountIsExact`, `NamesAreUnique` and `RepliesFit`, each
under `OneAtATime`: there are no client threads, or every client has one and the
main thread times out nobody. These are select mode and thread mode; in mixed
mode the three are false in general (`count_race`), and `ServerThreadsLocked` says
how far they are true. The argument: an agent that makes a step
is the only one inside a handler (`StepOnly`: by having no rival, or by
`LocksMatchSteps`), so that what it found out in one step is still so in the
next. `Fits` says what that is at each step, the tables themselves are right up
to one client that the agent has seated and not yet counted, or counted out and
not yet dropped (`RoomsCounted`, `Ahead`), and `ClosedRoomsEmpty` lets a create
take a free slot.

**`ServerThreadsImplements`.** `ThreadsImplementRooms`:
`OneAtATime /\ LimitsBounded => (Spec => ImplementsRooms)`. Of all the steps of a
handler exactly one takes effect on the abstract rooms: `CreateOpen` opens a
room, `JoinSeat` enters it, `DepartClose` exits, closing the room behind the
last one; `Drop` and `SweepDrop` exit if the client was still seated; the others
stutter. `SInv` adds that a handler has made its checks (`Checked`), that seats
are rooms (`SeatsHaveRooms`) and that idle agents work for nobody, so that the
seat of a client does not depend on a choice among agents (`SeatsBy`).
`LimitsBounded` says that no limit exceeds the number of clients, as the check
against `MAX_CLIENTS` does.

**`ServerThreadsLocked`.** The same for mixed mode, where the main thread and a
client thread are inside handlers at once, under `RoomsLocked`: nobody sends a
disconnect request, the main thread times out nobody, and rooms are created by the
main thread only or by client threads only. `CountHeldIsExact` (`CountExact`),
`NamesHeldApart` (`UniqueRoomNames`) and, with `LimitsBounded`, `LockedRooms`
(`Spec => ImplementsRooms`). `RoomsLocked` is what is left when one takes away
what the code does without the lock it would need:
`handle_disconnect_request` departs from a room without `room_mutex`, the sweep
zeroes a slot whose thread may be inside a handler, and
`handle_create_room_request` locks nothing (client threads have `client_mutex` from
their caller, the main thread has not). Nothing is assumed about the number of clients,
which of them have threads, or the order in which the agents come. The run
`mixed_mode` is an instance of it, and `count_race` is not: there the main thread
handles a disconnect.

With several agents inside handlers, what one has found out is true in its next
step only if the others leave it so. `Spares(a)` is what a step of `a` leaves to
everybody: the slots of clients it does not serve, the free slots and the names of
the room table unless it creates a room, and the open rooms unless it has
`room_mutex`. `Knows(b)` is what `b` relies on, and `OthersKnow` shows that it
relies on nothing that a step of another agent does not spare. `Counted` then says
of each open room that its count is exact but for one member that is seated and
not yet counted (`Uncounted`), and `LInv` joins this to the invariants of
`ServerThreadsProofs` and `ServerThreadsImplements`. Replies to lists are not
among the theorems: `handle_room_list_request` locks nothing, and in mixed mode a
room may open between its passes whatever the other handlers lock.

**`ConnectionSlotsProofs`, `ConnectionSlotsOrderly`.** The first begins by
restating each action by the fields it changes. `Basic` holds whatever the
agents do to one another: types, `StepsOK` (whoever works on a slot works on one
there is), `MutexOK`, `PeersOK` (a connection is open once), `FreeOK`.
`Undisturbed` is what holds as long as `orderly` does, and
`IInv == Basic /\ (orderly => Undisturbed)` is inductive. Its conjuncts lean on
one another: that the main thread selects on exactly the clients without a thread
(`MasterOK`) needs that sockets belong to slots one to one (`SocketsOK`), which
needs that whoever closes a socket still has the slot it was in (`MainOK`,
`ThreadOK`), which needs that a slot has one thread (`OneThread`) and that what
`select` has said of the slots yet to be looked at is still true (`ReadsOK`). A
thread that hangs at a private message keeps its slot to itself (`OneThread`), so
that nothing here depends on whether it ever goes on. The three properties follow:
`MasterSetIsExact`, `DescriptorsAreOwned`, `RecvDoesNotBlock`.

**`ChatSessionProofs`.** `TypeCorrect`; `ViewsAgree` (`AgreeInStep`),
`AnswersAreMatched` (`AnswersMatch`), `GroupIsOfRoom` (`GroupFollowsRoom`); and
`KeepalivesSuffice` (`KeptAlive`), which needs
`KeepaliveInterval + MaxThink <= ConnectionTimeout`: with the 10 s and 30 s of the
code, a user who enters a line at least every 20 s is not timed out. The inductive
invariant is `IInv == Basic /\ (inStep => Undisturbed)`. `StreamOK` says where the
one request that is not answered is: on its way to the server, or answered by the
one message there is in the other direction, whole and of the right type. The views
of the two ends do not agree at every moment, and `ViewsOK` says what the client is
about to learn from the answer that is on its way; `GroupOK` does so for the
multicast group, `IdleOK` for the time that has passed, at a server that has not hung, since it
heard of the client. The properties are what is left of these when no answer is on its
way. `TypeOK` holds out of step as well: whatever `recv` leaves of a stream of
messages is a stream of messages with bytes in them (`AfterIsStream`), by
induction over the stream (`ArrivedCounts`, from `Induction`, which is the
well-foundedness of the naturals applied to a set).

Two theorems state the part of a liveness property that is about safety.
`NeverWaitsInVain`, of `RequestsReturn`: a client in step that waits for an answer
has a request under way or the answer to it, or has been dropped; only a server
that hangs can leave the request unread.
`OnlyStaleBlocks`, of `QuitEnds`: the receiver thread blocks in `recv`, and keeps
`main` waiting for it, only on a socket made anew after its `select`.

Assumptions: the sizes are naturals, the sets of clients and of connections are
finite, limits are positive, and the values that stand for nothing are no names,
clients or connections. They are the named `ASSUME`s of the modules, evaluated by
TLC in every run.

Every invariant of the passing runs is a theorem, under the hypotheses named above.
Model-checked only: liveness, which is out of the prover's reach as `ENABLED` is
(`RequestsFinish`, `RoomMutexReleased`, the properties of `connections_live`,
`RequestsReturn`, `QuitEnds`). In mixed mode, what `RoomsLocked` leaves out is not
proved because it does not hold.

## Not modelled

- What the server does after its main loop has ended (`server_cleanup`,
  `cleanup_threading`): `server->running` is cleared nowhere before, so it is
  reached only by a `select` error, which `MasterSetExact` excludes as long as
  `orderly` holds.
- `max_fd`, which only grows; the values of session tokens: the only check of a
  token compares a client with itself.
- The text of messages, names and lists, and the parsing of a user's line.
- Which datagrams arrive: `Datagram` may come at any time for the group the
  client is in. TCP is reliable and in order here, though cut anywhere by `recv`
  of a message that is longer than was asked for; data that a reset destroys on
  its way to the client is not.
- SIGPIPE at the server, when it answers a client that has gone.
- In `ServerThreads`, that slots and threads pass from one connection to the next;
  that is `ConnectionSlots`, and the two are not composed.
- In `ChatSession`, a receiver thread that is already blocked in `recvfrom` when
  its socket is made anew a second time, and so waits on a socket that is closed;
  the first time it is `stale`, which `QuitEnds` excepts.
- The Windows build, and the build files and test scripts, which hold no program
  logic.
