----------------------------- MODULE ChatSession -----------------------------
(***************************************************************************)
(* One client program (client/client.c) and its session at the server: the *)
(* input loop and the receiver thread of the client, the TCP stream in     *)
(* either direction, what the server answers, and the clock.               *)
(*                                                                         *)
(* The client takes the next bytes of its stream for the answer to its     *)
(* request, so the stream is a sequence of messages of which a recv takes  *)
(* a number of bytes: all of a message, a part, or the beginning of the    *)
(* next.  A message arrives whole.  Texts, names and the contents of lists *)
(* are left out; whether a room can be created or joined is the business   *)
(* of ChatServer and a free choice here.  A tick is ten seconds, and is    *)
(* long enough for whatever is under way to get through, unless the server *)
(* hangs.                                                                  *)
(***************************************************************************)
EXTENDS Integers, Sequences, SequencesExt

CONSTANTS
  Rooms,               \* room ids
  KeepaliveInterval,   \* KEEPALIVE_INTERVAL_SEC, in ticks
  ConnectionTimeout,   \* CONNECTION_TIMEOUT_SEC, in ticks
  MaxThink,            \* a user enters a line within so many ticks
  MaxRequests,         \* bound on the requests that wait in the stream
  MaxPrivate           \* bound on the private messages that wait in the stream

ASSUME RoomsAssumption == Rooms \subseteq Nat \ {0}
ASSUME TimesAssumption ==
  KeepaliveInterval \in Nat /\ ConnectionTimeout \in Nat /\ MaxThink \in Nat
ASSUME BoundsAssumption == MaxRequests \in Nat \ {0} /\ MaxPrivate \in Nat

VARIABLES
  client,      \* client_t, and where handle_enhanced_user_input is
  udp,         \* client_t.udp_socket, which is -1 if not open, and multicast_addr
  receiver,    \* where udp_receiver_thread is
  session,     \* the client's slot at the server, and whether the thread that
               \* serves it waits for client_mutex for ever
  to_server,   \* requests sent and not read
  to_client,   \* messages sent to the client, the first perhaps in part
  think,       \* for how long the user has been thinking
  inStep,      \* history: one answer for each request, and nothing else
  failed,      \* history: the system has refused a socket, its bind or its membership
  stale        \* history: the receiver reads from a socket that has no data left

vars == <<client, udp, receiver, session, to_server, to_client, think, inStep, failed, stale>>

NoRoom == 0

\* Whether the client waits for an answer, and how many bytes it asks for.
Answered == {"login", "create", "join", "leave", "room_list", "user_list", "disconnect"}
Unanswered == {"chat", "private", "keepalive"}

\* Mutant: the answer to a create is read with the size of a login's.
WantedMutant(k) == CASE k \in {"login", "create", "leave"} -> 142 [] k = "join" -> 162
                     [] k = "disconnect" -> 78 [] k = "room_list" -> 2048
                     [] k = "user_list" -> 1024

Wanted(k) == CASE k = "login" -> 142 [] k = "create" -> 194 [] k = "join" -> 162
               [] k = "leave" -> 142 [] k = "disconnect" -> 78
               [] k = "room_list" -> 2048 [] k = "user_list" -> 1024

\* The messages of the server; lists are taken to have one entry.
Size(m) == CASE m.type = "login" -> 142 [] m.type = "create" -> 194
             [] m.type = "join" -> 162 [] m.type = "leave" -> 142
             [] m.type = "disconnect" -> 78 [] m.type = "list" -> 41
             [] m.type = "private" -> 559 [] m.type = "error" -> 266
Message(t, good, r) ==
  [type |-> t, ok |-> good, room |-> r, left |-> Size([type |-> t])]
Whole(m) == m.left = Size(m)

Init ==
  /\ client = [pc |-> "top", req |-> "none", token |-> FALSE, room |-> NoRoom,
               since |-> 0, reset |-> FALSE]
  /\ udp = [open |-> TRUE, bound |-> NoRoom, group |-> NoRoom, addr |-> NoRoom, data |-> FALSE]
  /\ receiver = "select"
  /\ session = [open |-> TRUE, state |-> "AUTHENTICATING", room |-> NoRoom, idle |-> 0,
                hung |-> FALSE]
  /\ to_server = <<>> /\ to_client = <<>>
  /\ think = 0
  /\ inStep = TRUE /\ failed = FALSE /\ stale = FALSE

-----------------------------------------------------------------------------
(* The client: sending.                                                    *)

\* send on a connection the server has closed: the first one is answered
\* with a reset, the next one raises SIGPIPE, which nobody handles.
Send(k, next) ==
  /\ Len(to_server) < MaxRequests
  /\ to_server' = IF session.open THEN Append(to_server, k) ELSE to_server
  /\ client' = IF client.reset
               THEN [client EXCEPT !.pc = "killed"]
               ELSE [next EXCEPT !.reset = ~session.open]

\* Mutant: only who is in a room sends keepalives.
KeepaliveDueMutant == client.room # NoRoom /\ client.since > KeepaliveInterval

KeepaliveDue == client.token /\ client.since > KeepaliveInterval

\* The top of the loop, where a keepalive is sent if one is due.
Top ==
  /\ client.pc = "top"
  /\ IF KeepaliveDue
     THEN Send("keepalive", [client EXCEPT !.pc = "prompt", !.since = 0])
     ELSE client' = [client EXCEPT !.pc = "prompt"] /\ UNCHANGED to_server
  /\ think' = 0
  /\ UNCHANGED <<udp, receiver, session, to_client, inStep, failed, stale>>

\* The commands that are not refused by the client itself.
Offered == IF ~client.token THEN {"login"}
           ELSE {"create", "join", "private", "room_list", "disconnect"} \cup
                (IF client.room = NoRoom THEN {} ELSE {"leave", "chat", "user_list"})

Command(k) ==
  /\ client.pc = "prompt" /\ k \in Offered
  /\ Send(k, IF k \in Answered THEN [client EXCEPT !.pc = "reply", !.req = k]
             ELSE [client EXCEPT !.pc = "top"])
  /\ UNCHANGED <<udp, receiver, session, to_client, think, inStep, failed, stale>>

\* A line that sends nothing, or the end of the input; quit does not say
\* goodbye if the client is not logged in.
OtherLine ==
  /\ client.pc = "prompt"
  /\ \E step \in {"top", "stopping"} : client' = [client EXCEPT !.pc = step]
  /\ UNCHANGED <<udp, receiver, session, to_server, to_client, think, inStep, failed, stale>>

-----------------------------------------------------------------------------
(* The client: receiving an answer.                                        *)

\* How many bytes have arrived with the first k messages of the stream.
Arrived(q) == LET f[k \in 0 .. Len(q)] == IF k = 0 THEN 0 ELSE f[k - 1] + q[k].left IN f
Bytes(q) == Arrived(q)[Len(q)]

\* Mutant: a recv that asks for one byte too few leaves an empty piece.
AfterMutant(q, n) ==
  LET k == Max({i \in 0 .. Len(q) : Arrived(q)[i] < n})
  IN IF k = Len(q) THEN <<>>
     ELSE <<[q[k + 1] EXCEPT !.left = Arrived(q)[k + 1] - n]>> \o SubSeq(q, k + 2, Len(q))

\* The stream after a recv of at most n bytes.
After(q, n) ==
  LET k == Max({i \in 0 .. Len(q) : Arrived(q)[i] <= n})
  IN IF k = Len(q) THEN <<>>
     ELSE <<[q[k + 1] EXCEPT !.left = Arrived(q)[k + 1] - n]>> \o SubSeq(q, k + 2, Len(q))

\* What handle_leave_room_response takes for success: it looks at one byte,
\* where a private message has the length of a name, an error its text, and
\* the answer to a join or a create the room's id, which is 0 in a refusal.
ReadsAsLeft(m) ==
  CASE m.type = "leave" -> m.ok
    [] m.type \in {"login", "create", "join", "disconnect"} -> m.room = NoRoom
    [] OTHER -> FALSE

\* Mutant: the group is left after the room has been forgotten.
LeaveGroupMutant == UNCHANGED <<udp, failed, stale>>

\* leave_multicast_group: a socket that is not in the group of its last room
\* stays as it is, bound to that room's port; any other is made anew, if the
\* system has one.
LeaveGroup ==
  LET anew == [udp EXCEPT !.bound = NoRoom, !.group = NoRoom, !.data = FALSE]
  IN IF udp.group # NoRoom /\ udp.group = udp.addr
     THEN \/ udp' = anew /\ stale' = (receiver = "recv") /\ UNCHANGED failed
          \/ udp' = [anew EXCEPT !.open = FALSE] /\ failed' = TRUE /\ UNCHANGED stale
     ELSE UNCHANGED <<udp, failed, stale>>

\* The socket is bound, which works once, and joins the group; what fails is
\* reported and otherwise ignored.
JoinGroup(r) ==
  LET there == [udp EXCEPT !.addr = r]
  IN \/ ~udp.open /\ UNCHANGED <<udp, failed>>
     \/ udp.open /\ udp.bound # NoRoom /\ udp' = there /\ UNCHANGED failed
     \/ /\ udp.open /\ udp.bound = NoRoom
        /\ \/ udp' \in {there, [there EXCEPT !.bound = r]} /\ failed' = TRUE
           \/ udp' = [there EXCEPT !.bound = r, !.group = r] /\ UNCHANGED failed

\* Mutant: the answer to a request is taken for a success.
SuccessMutant(m, full) == full /\ Whole(m) /\ m.type = client.req

\* The type of the answer says that the request has succeeded.
Success(m, full) == full /\ Whole(m) /\ m.type = client.req /\ m.ok

\* recv has returned, and the client looks at what is where its answer
\* should begin; it knows a success by its type, but for leave.
Take(m, full) ==
  LET k == client.req
      back == [client EXCEPT !.pc = IF k = "disconnect" THEN "stopping" ELSE "top",
                             !.req = "none"]
      good == Success(m, full)
  IN CASE k = "login" /\ good ->
            client' = [back EXCEPT !.token = TRUE] /\ UNCHANGED <<udp, failed, stale>>
       [] k = "create" /\ good ->
            /\ client' = [back EXCEPT !.room = m.room]
            /\ udp' = [udp EXCEPT !.addr = m.room]
            /\ UNCHANGED <<failed, stale>>
       [] k = "join" /\ good ->
            /\ client' = [back EXCEPT !.room = m.room]
            /\ JoinGroup(m.room)
            /\ UNCHANGED stale
       [] k = "leave" /\ full ->
            \/ /\ Whole(m) => ReadsAsLeft(m)
               /\ LeaveGroup /\ client' = [back EXCEPT !.room = NoRoom]
            \/ /\ Whole(m) => ~ReadsAsLeft(m)
               /\ client' = back /\ UNCHANGED <<udp, failed, stale>>
       [] OTHER -> client' = back /\ UNCHANGED <<udp, failed, stale>>

Receive ==
  /\ client.pc = "reply" /\ to_client # <<>>
  /\ Take(Head(to_client), Bytes(to_client) >= Wanted(client.req))
  /\ to_client' = After(to_client, Wanted(client.req))
  /\ UNCHANGED <<receiver, session, to_server, think, inStep>>

\* The server has closed the connection; the client reports a failure and
\* goes on as before.
ReceiveNothing ==
  /\ client.pc = "reply" /\ to_client = <<>> /\ ~session.open
  /\ client' = [client EXCEPT !.pc = IF client.req = "disconnect" THEN "stopping" ELSE "top",
                              !.req = "none"]
  /\ UNCHANGED <<udp, receiver, session, to_server, to_client, think, inStep, failed, stale>>

-----------------------------------------------------------------------------
(* The client: the receiver thread, and the end of the program.            *)

\* A datagram for the group of the room.
Datagram ==
  /\ udp.group # NoRoom /\ udp.bound = udp.group
  /\ udp' = [udp EXCEPT !.data = TRUE]
  /\ UNCHANGED <<client, receiver, session, to_server, to_client, think, inStep, failed, stale>>

\* select, with a timeout of a second, at whose end running is looked at.
ReceiverSelect ==
  /\ receiver = "select"
  /\ \/ udp.data /\ receiver' = "recv"
     \/ client.pc = "stopping" /\ receiver' = "ended"
  /\ UNCHANGED <<client, udp, session, to_server, to_client, think, inStep, failed, stale>>

\* Mutant: running is not looked at as long as there is something to read.
ReceiverRecvMutant ==
  /\ receiver = "recv" /\ udp.data
  /\ receiver' = "select"
  /\ udp' = [udp EXCEPT !.data = FALSE]
  /\ stale' = FALSE
  /\ UNCHANGED <<client, session, to_server, to_client, think, inStep, failed>>

\* recvfrom waits if the socket is not the one that select was called on, and
\* fails if there is none; after it, running is looked at again.
ReceiverRecv ==
  /\ receiver = "recv"
  /\ udp.data \/ (~udp.open /\ ~stale)
  /\ receiver' = IF client.pc = "stopping" THEN "ended" ELSE "select"
  /\ udp' = [udp EXCEPT !.data = FALSE]
  /\ stale' = FALSE
  /\ UNCHANGED <<client, session, to_server, to_client, think, inStep, failed>>

\* main joins the receiver thread and closes both sockets.
Exit ==
  /\ client.pc = "stopping" /\ receiver = "ended"
  /\ client' = [client EXCEPT !.pc = "exited", !.token = FALSE, !.room = NoRoom]
  /\ udp' = [udp EXCEPT !.open = FALSE, !.bound = NoRoom, !.group = NoRoom, !.data = FALSE]
  /\ UNCHANGED <<receiver, session, to_server, to_client, think, inStep, failed, stale>>

-----------------------------------------------------------------------------
(* The server.                                                             *)

Answer(t, good, r) == to_client' = Append(to_client, Message(t, good, r))
NoAnswer == UNCHANGED to_client
Stay == [session EXCEPT !.idle = 0]
Dropped == [session EXCEPT !.open = FALSE, !.state = "DISCONNECTED", !.room = NoRoom,
                            !.hung = FALSE]

\* Mutant: a refusal is not sent.
RefuseMutant(k) == session' = Stay /\ NoAnswer

Refuse(k) == session' = Stay /\ Answer(k, FALSE, NoRoom)

\* What the handlers do with a request.  A private message locks client_mutex,
\* which a client's own thread holds already, and another may never give back.
Handle(k) ==
  LET in == session.state = "IN_ROOM"
      free == session.state = "CONNECTED"
      new == session.state = "AUTHENTICATING"
  IN \/ /\ k = "login" /\ new
        /\ session' = [Stay EXCEPT !.state = "CONNECTED"] /\ Answer(k, TRUE, NoRoom)
     \/ k = "login" /\ ~new /\ session' = Stay /\ NoAnswer
     \/ k \in {"create", "join"} /\ Refuse(k)
     \/ k = "create" /\ free /\ session' = Stay /\ \E r \in Rooms : Answer(k, TRUE, r)
     \/ /\ k = "join" /\ free
        /\ \E r \in Rooms : /\ session' = [Stay EXCEPT !.state = "IN_ROOM", !.room = r]
                            /\ Answer(k, TRUE, r)
     \/ k = "leave" /\ ~in /\ Refuse(k)
     \/ /\ k = "leave" /\ in
        /\ session' = [Stay EXCEPT !.state = "CONNECTED", !.room = NoRoom]
        /\ Answer(k, TRUE, NoRoom)
     \/ k \in {"keepalive", "chat", "private"} /\ session' = Stay /\ NoAnswer
     \/ k = "chat" /\ in /\ session' = Dropped /\ NoAnswer
     \/ k = "private" /\ session' = Dropped /\ Answer("error", FALSE, NoRoom)
     \/ k = "private" /\ session' = [Stay EXCEPT !.hung = TRUE] /\ NoAnswer
     \/ k = "room_list" /\ session' = Stay /\ Answer("list", TRUE, NoRoom)
     \/ k = "user_list" /\ in /\ session' = Stay /\ Answer("list", TRUE, NoRoom)
     \/ k = "user_list" /\ ~in /\ session' = Dropped /\ Answer("error", FALSE, NoRoom)
     \/ k = "disconnect" /\ session' = Dropped /\ Answer(k, TRUE, NoRoom)

\* One recv takes all that has arrived, and only its beginning is looked at.
ServerReads ==
  /\ session.open /\ ~session.hung /\ to_server # <<>>
  /\ Handle(Head(to_server))
  /\ to_server' = <<>>
  /\ inStep' = (/\ inStep /\ Len(to_server) = 1
                /\ Head(to_server) \in Unanswered => to_client' = to_client)
  /\ UNCHANGED <<client, udp, receiver, think, failed, stale>>

\* Another user's private message is sent over the same connection.
PrivateArrives ==
  /\ session.open /\ ~session.hung /\ session.state # "AUTHENTICATING"
  /\ Len(SelectSeq(to_client, LAMBDA m : m.type = "private")) < MaxPrivate
  /\ Answer("private", TRUE, NoRoom)
  /\ inStep' = FALSE
  /\ UNCHANGED <<client, udp, receiver, session, to_server, think, failed, stale>>

\* Another user's private message has left client_mutex locked for ever, and
\* the thread that serves this client waits for it.
ServerHangs ==
  /\ session.open /\ ~session.hung
  /\ session' = [session EXCEPT !.hung = TRUE]
  /\ UNCHANGED <<client, udp, receiver, to_server, to_client, think, inStep, failed, stale>>

\* The timeout sweep, or a recv that returns 0.
ServerDrops ==
  /\ session.open
  /\ \/ session.idle > ConnectionTimeout
     \/ client.pc \in {"exited", "killed"} /\ to_server = <<>> /\ ~session.hung
  /\ session' = Dropped
  /\ to_server' = <<>>
  /\ UNCHANGED <<client, udp, receiver, to_client, think, inStep, failed, stale>>

-----------------------------------------------------------------------------

AtMost(n, bound) == IF n > bound THEN bound ELSE n

\* Time passes while the user thinks, or while the client waits in vain; a
\* request is read before it does, if somebody is there to read it.
Tick ==
  /\ to_server = <<>> \/ session.hung
  /\ \/ client.pc = "prompt" /\ think < MaxThink
     \/ client.pc = "reply" /\ to_client = <<>> /\ session.open
  /\ think' = IF client.pc = "prompt" THEN think + 1 ELSE think
  /\ client' = [client EXCEPT !.since = AtMost(@ + 1, KeepaliveInterval + 1)]
  /\ session' = [session EXCEPT !.idle = IF session.open THEN AtMost(@ + 1, ConnectionTimeout + 1) ELSE @]
  /\ UNCHANGED <<udp, receiver, to_server, to_client, inStep, failed, stale>>

ClientStep == Top \/ Receive \/ ReceiveNothing \/ Exit
ReceiverStep == ReceiverSelect \/ ReceiverRecv

Next ==
  \/ ClientStep \/ ReceiverStep
  \/ \E k \in Answered \cup Unanswered : Command(k)
  \/ OtherLine \/ Datagram
  \/ ServerReads \/ PrivateArrives \/ ServerHangs \/ ServerDrops
  \/ Tick

Spec == Init /\ [][Next]_vars

\* The client's threads go on when they can, and so does the server, unless
\* it hangs; the user need not type anything, and no clock need strike.
FairSpec == Spec /\ WF_vars(ClientStep) /\ WF_vars(ReceiverStep) /\ WF_vars(ServerReads)

-----------------------------------------------------------------------------
(* Properties.                                                             *)

TypeOK ==
  /\ client \in [pc : {"top", "prompt", "reply", "stopping", "exited", "killed"},
                 req : Answered \cup {"none"}, token : BOOLEAN, room : Rooms \cup {NoRoom},
                 since : 0 .. KeepaliveInterval + 1, reset : BOOLEAN]
  /\ udp \in [open : BOOLEAN, bound : Rooms \cup {NoRoom}, group : Rooms \cup {NoRoom},
              addr : Rooms \cup {NoRoom}, data : BOOLEAN]
  /\ receiver \in {"select", "recv", "ended"}
  /\ session \in [open : BOOLEAN,
                  state : {"DISCONNECTED", "AUTHENTICATING", "CONNECTED", "IN_ROOM"},
                  room : Rooms \cup {NoRoom}, idle : 0 .. ConnectionTimeout + 1,
                  hung : BOOLEAN]
  /\ to_server \in Seq(Answered \cup Unanswered)
  /\ to_client \in Seq([type : Answered \cup {"list", "private", "error"}, ok : BOOLEAN,
                        room : Rooms \cup {NoRoom}, left : 1 .. 559])
  /\ think \in 0 .. MaxThink
  /\ inStep \in BOOLEAN /\ failed \in BOOLEAN /\ stale \in BOOLEAN

\* Nothing is under way between the client and its open session.
Quiet ==
  /\ client.pc \in {"top", "prompt"} /\ session.open
  /\ to_server = <<>> /\ to_client = <<>>

\* The client and the server agree on whether the client is logged in, and a
\* member of a room knows its room.  (The converse does not hold: whoever
\* creates a room takes it for its own without having joined it.)
SessionsAgree ==
  Quiet => /\ client.token <=> session.state # "AUTHENTICATING"
           /\ session.state = "IN_ROOM" => client.room = session.room

AgreeInStep == inStep => SessionsAgree

\* What the client reads while it waits is one whole answer to its request.
AnswersMatch ==
  inStep /\ client.pc = "reply" /\ to_client # <<>> =>
    /\ Len(to_client) = 1 /\ Whole(to_client[1])
    /\ \/ to_client[1].type = client.req
       \/ to_client[1].type = "list" /\ client.req \in {"room_list", "user_list"}
       \/ to_client[1].type = "error" /\ client.req = "user_list"

\* The client listens to the group of the room it is in and to no other: its
\* one socket is never still bound when it joins the next room.  Only a socket,
\* a first bind or a membership that the system refuses excuses it.
GroupFollowsRoom ==
  inStep /\ ~failed /\ Quiet =>
    /\ udp.group = (IF session.state = "IN_ROOM" THEN session.room ELSE NoRoom)
    /\ udp.bound = udp.group

\* A user who is logged in and enters a line at least every MaxThink ticks is
\* not timed out as long as somebody reads what the client sends: the
\* keepalives between the lines come often enough.
KeptAlive ==
  session.open /\ ~session.hung /\ session.state # "AUTHENTICATING" /\ inStep =>
    session.idle <= ConnectionTimeout

\* A client that waits for an answer gets one, or learns that it is dropped,
\* unless nobody is left to read its request.
RequestsReturn ==
  inStep /\ client.pc = "reply" ~> client.pc # "reply" \/ ~inStep \/ session.hung

\* A client that is told to stop ends, unless the receiver thread is left
\* reading from a socket that was made anew under it.
QuitEnds ==
  inStep /\ client.pc = "stopping" ~> client.pc = "exited" \/ stale \/ ~inStep

=============================================================================
