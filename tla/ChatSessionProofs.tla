-------------------------- MODULE ChatSessionProofs --------------------------
(***************************************************************************)
(* Proofs about ChatSession, for every set of rooms, every interval and    *)
(* every length of the streams.  As long as the client is in step, an      *)
(* answer that arrives is alone in the stream and is the answer to the     *)
(* request that waits for it; what the client makes of it is then what the *)
(* server meant.                                                           *)
(***************************************************************************)
EXTENDS ChatSession, SequenceTheorems, WellFoundedInduction, TLAPS

-----------------------------------------------------------------------------
(* Numbers.                                                                *)

\* Induction, for the set of the numbers of which something is true.
LEMMA Induction ==
  ASSUME NEW S \in SUBSET Nat, 0 \in S, \A n \in S : n + 1 \in S
  PROVE  S = Nat
<1> DEFINE R == OpToRel(<, Nat)
           Missing == Nat \ S
<1>1. IsWellFoundedOn(R, Nat)
  BY NatLessThanWellFounded
<1>2. SUFFICES ASSUME Missing # {} PROVE FALSE
  OBVIOUS
<1>3. \A m, n \in Nat : m < n => <<m, n>> \in R
  <2> TAKE m, n \in Nat
  <2>1. ASSUME m < n PROVE <<m, n>> \in {p \in Nat \X Nat : p[1] < p[2]}
    BY <2>1
  <2>2. R = {p \in Nat \X Nat : p[1] < p[2]}
    BY DEF OpToRel
  <2> QED
    BY <2>1, <2>2
<1>4. Missing \subseteq Nat
  OBVIOUS
<1> HIDE DEF R, Missing
<1>5. PICK n \in Missing : \A m \in Missing : <<m, n>> \notin R
  BY <1>1, <1>2, <1>4, WFMin
<1> USE DEF Missing
<1>6. n \in Nat \ {0} /\ n - 1 \in Nat /\ n - 1 < n /\ n = (n - 1) + 1
  OBVIOUS
<1>7. n - 1 \in Missing
  BY <1>6
<1> QED
  BY <1>3, <1>5, <1>6, <1>7

\* What is true of some of the first numbers is true of a largest one.
LEMMA MaxOf ==
  ASSUME NEW n \in Nat, NEW S \in SUBSET (0 .. n), S # {}
  PROVE  Max(S) \in S /\ \A i \in S : i <= Max(S)
<1> DEFINE HasMax(T) == \E i \in T : \A j \in T : i >= j
           Bounds == {m \in Nat : \A T \in SUBSET (0 .. m) : T # {} => HasMax(T)}
<1>1. 0 \in Bounds
  <2> SUFFICES ASSUME NEW T \in SUBSET (0 .. 0), T # {} PROVE HasMax(T)
    OBVIOUS
  <2>1. PICK i \in T : TRUE
    OBVIOUS
  <2>2. 0 \in T /\ \A j \in T : 0 >= j
    BY <2>1
  <2> QED
    BY <2>2
<1>2. ASSUME NEW m \in Bounds PROVE m + 1 \in Bounds
  <2> SUFFICES ASSUME NEW T \in SUBSET (0 .. m + 1), T # {} PROVE HasMax(T)
    OBVIOUS
  <2>1. CASE m + 1 \in T
    <3>1. \A j \in T : m + 1 >= j
      OBVIOUS
    <3> QED
      BY <2>1, <3>1
  <2>2. CASE m + 1 \notin T
    <3>1. T \in SUBSET (0 .. m)
      BY <2>2
    <3> QED
      BY <3>1
  <2> QED
    BY <2>1, <2>2
<1>3. Bounds = Nat
  <2> HIDE DEF Bounds
  <2>1. Bounds \in SUBSET Nat
    BY DEF Bounds
  <2> QED
    BY <1>1, <1>2, <2>1, Induction
<1>4. HasMax(S)
  BY <1>3
<1> QED
  BY <1>4 DEF Max

-----------------------------------------------------------------------------
(* Streams.                                                                *)

Kind == Answered \cup {"list", "private", "error"}
Piece == [type : Kind, ok : BOOLEAN, room : Rooms \cup {NoRoom}, left : 1 .. 559]

LEMMA PieceLeft ==
  ASSUME NEW p \in Piece
  PROVE  p.left \in 1 .. 559 /\ p.left \in Nat
BY DEF Piece

\* Arrived counts the bytes of the stream from its beginning.
LEMMA ArrivedCounts ==
  ASSUME NEW q \in Seq(Piece)
  PROVE  /\ Arrived(q)[0] = 0
         /\ \A k \in 1 .. Len(q) : Arrived(q)[k] = Arrived(q)[k - 1] + q[k].left
         /\ \A k \in 0 .. Len(q) : Arrived(q)[k] \in Nat
<1> DEFINE Next1(g, k) == IF k = 0 THEN 0 ELSE g[k - 1] + q[k].left
           Counts(g, n) == g[0] = 0 /\ \A k \in 1 .. n : g[k] = g[k - 1] + q[k].left
           Counted(n) == \E g \in [0 .. n -> Nat] : Counts(g, n)
           Countable == {n \in Nat : n <= Len(q) => Counted(n)}
<1>0. Len(q) \in Nat /\ \A k \in 1 .. Len(q) : q[k].left \in Nat
  <2>1. \A k \in 1 .. Len(q) : q[k] \in Piece
    OBVIOUS
  <2> QED
    BY <2>1, PieceLeft
<1>1. Counted(0)
  <2> DEFINE g == [k \in 0 .. 0 |-> 0]
  <2>1. g \in [0 .. 0 -> Nat] /\ g[0] = 0 /\ 1 .. 0 = {}
    OBVIOUS
  <2> HIDE DEF g
  <2>2. Counts(g, 0)
    BY <2>1
  <2> QED
    BY <2>1, <2>2
<1>2. ASSUME NEW n \in Nat, n + 1 <= Len(q), Counted(n) PROVE Counted(n + 1)
  <2>0. n \in Nat /\ q[n + 1].left \in Nat
    BY <1>0, <1>2
  <2>1. PICK g \in [0 .. n -> Nat] : Counts(g, n)
    BY <1>2
  <2> DEFINE h == [k \in 0 .. n + 1 |-> IF k = n + 1 THEN g[n] + q[n + 1].left ELSE g[k]]
  <2>2. h \in [0 .. n + 1 -> Nat]
    BY <2>0
  <2>3. h[0] = 0
    BY <2>0, <2>1
  <2>4. ASSUME NEW k \in 1 .. n + 1 PROVE h[k] = h[k - 1] + q[k].left
    BY <2>0, <2>1
  <2> HIDE DEF h
  <2>5. Counts(h, n + 1)
    BY <2>3, <2>4
  <2> QED
    BY <2>2, <2>5
<1>3. Countable = Nat
  <2> HIDE DEF Counted
  <2>1. Countable \in SUBSET Nat /\ 0 \in Countable
    BY <1>1
  <2>2. ASSUME NEW n \in Countable PROVE n + 1 \in Countable
    <3>1. n + 1 <= Len(q) => n \in Nat /\ Counted(n)
      BY <1>0
    <3> QED
      BY <1>0, <1>2, <3>1
  <2> HIDE DEF Countable
  <2> QED
    BY <2>1, <2>2, Induction
<1>4. PICK g \in [0 .. Len(q) -> Nat] : Counts(g, Len(q))
  <2>1. Counted(Len(q))
    <3> HIDE DEF Counted
    <3> QED
      BY <1>0, <1>3
  <2> QED
    BY <2>1
<1>5. g = [k \in 0 .. Len(q) |-> Next1(g, k)]
  BY <1>0, <1>4
<1>6. Arrived(q) = [k \in 0 .. Len(q) |-> Next1(Arrived(q), k)]
  BY <1>5 DEF Arrived
<1>7. Counts(Arrived(q), Len(q))
  BY <1>0, <1>6
<1> DEFINE Numbers == {n \in Nat : n <= Len(q) => Arrived(q)[n] \in Nat}
<1>8. Numbers = Nat
  <2>1. 0 \in Numbers
    BY <1>7
  <2>2. ASSUME NEW n \in Numbers PROVE n + 1 \in Numbers
    BY <1>0, <1>7
  <2> HIDE DEF Numbers
  <2>3. Numbers \in SUBSET Nat
    BY DEF Numbers
  <2> QED
    BY <2>1, <2>2, <2>3, Induction
<1>9. ASSUME NEW k \in 0 .. Len(q) PROVE Arrived(q)[k] \in Nat
  BY <1>0, <1>8
<1> HIDE DEF Numbers, Countable
<1> QED
  BY <1>7, <1>9

\* A recv leaves whole pieces, the first cut short but not to nothing.
LEMMA AfterIsStream ==
  ASSUME NEW q \in Seq(Piece), NEW n \in Nat
  PROVE  After(q, n) \in Seq(Piece)
<1> DEFINE A == Arrived(q)
           S == {i \in 0 .. Len(q) : A[i] <= n}
           k == Max(S)
<1>0. Len(q) \in Nat
  OBVIOUS
<1>1. /\ A[0] = 0
      /\ \A i \in 1 .. Len(q) : A[i] = A[i - 1] + q[i].left
      /\ \A i \in 0 .. Len(q) : A[i] \in Nat
  BY ArrivedCounts
<1>2. S \in SUBSET (0 .. Len(q)) /\ 0 \in S
  BY <1>0, <1>1
<1>3. k \in S /\ \A i \in S : i <= k
  <2> HIDE DEF S
  <2> QED
    BY <1>0, <1>2, MaxOf
<1>4. CASE k = Len(q)
  BY <1>4, EmptySeq DEF After
<1>5. CASE k # Len(q)
  <2> DEFINE first == [q[k + 1] EXCEPT !.left = A[k + 1] - n]
  <2>1. k \in 0 .. Len(q) - 1 /\ A[k] <= n /\ k + 1 \in 1 .. Len(q) /\ k + 1 \in 0 .. Len(q)
    BY <1>0, <1>3, <1>5
  <2>2. ~(A[k + 1] <= n) /\ A[k + 1] = A[k] + q[k + 1].left
    <3>1. k + 1 \notin S
      BY <1>3, <2>1
    <3>2. (k + 1) - 1 = k
      BY <2>1
    <3> QED
      BY <1>0, <1>1, <2>1, <3>1, <3>2
  <2>3. A[k + 1] \in Nat /\ A[k] \in Nat /\ q[k + 1] \in Piece
    BY <1>0, <1>1, <2>1
  <2>4. A[k + 1] - n \in 1 .. 559
    <3>1. q[k + 1].left \in 1 .. 559
      BY <2>3 DEF Piece
    <3> DEFINE before == A[k]
               after == A[k + 1]
               left == q[k + 1].left
    <3>2. before \in Nat /\ after \in Nat /\ left \in 1 .. 559 /\ before <= n
          /\ ~(after <= n) /\ after = before + left
      BY <2>1, <2>2, <2>3, <3>1
    <3> HIDE DEF before, after, left
    <3>3. after - n \in 1 .. 559
      BY <3>2
    <3> QED
      BY <3>3 DEF after
  <2>5. first \in Piece
    BY <2>3, <2>4 DEF Piece
  <2>6. SubSeq(q, k + 2, Len(q)) \in Seq(Piece)
    <3>1. \A i \in k + 2 .. Len(q) : q[i] \in Piece
      BY <1>0, <2>1
    <3> QED
      BY <1>0, <2>1, <3>1, SubSeqProperties
  <2>7. <<first>> \in Seq(Piece)
    BY <2>5
  <2>8. After(q, n) = <<first>> \o SubSeq(q, k + 2, Len(q))
    BY <1>5 DEF After
  <2> HIDE DEF first
  <2> QED
    BY <2>6, <2>7, <2>8, ConcatProperties
<1> QED
  BY <1>4, <1>5

\* A recv that asks for no less than the only message takes all of it.
LEMMA AfterOnly ==
  ASSUME NEW q \in Seq(Piece), NEW n \in Nat, Len(q) = 1
  PROVE  /\ Bytes(q) = q[1].left
         /\ q[1].left <= n => After(q, n) = <<>>
<1>0. /\ q[1] \in Piece /\ q[1].left \in Nat
      /\ Arrived(q)[0] = 0 /\ Arrived(q)[1] = q[1].left
  <2>1. q[1] \in Piece /\ q[1].left \in Nat
    BY PieceLeft
  <2>2. Arrived(q)[0] = 0 /\ \A i \in 1 .. Len(q) : Arrived(q)[i] = Arrived(q)[i - 1] + q[i].left
    BY ArrivedCounts
  <2> QED
    BY <2>1, <2>2
<1>1. Bytes(q) = q[1].left
  BY <1>0 DEF Bytes
<1>2. ASSUME q[1].left <= n PROVE After(q, n) = <<>>
  <2> DEFINE S == {i \in 0 .. Len(q) : Arrived(q)[i] <= n}
  <2>1. S \in SUBSET (0 .. 1) /\ 1 \in S
    BY <1>0, <1>2
  <2>2. Max(S) = 1
    <3> HIDE DEF S
    <3>1. Max(S) \in S /\ \A i \in S : i <= Max(S)
      BY <2>1, MaxOf
    <3>2. Max(S) \in 0 .. 1 /\ 1 <= Max(S)
      BY <2>1, <3>1
    <3> QED
      BY <3>2
  <2> QED
    BY <2>2 DEF After
<1> QED
  BY <1>1, <1>2

-----------------------------------------------------------------------------
(* Types.                                                                  *)

Place == Rooms \cup {NoRoom}
Client == [pc : {"top", "prompt", "reply", "stopping", "exited", "killed"},
           req : Answered \cup {"none"}, token : BOOLEAN, room : Place,
           since : 0 .. KeepaliveInterval + 1, reset : BOOLEAN]
Udp == [open : BOOLEAN, bound : Place, group : Place, addr : Place, data : BOOLEAN]
Session == [open : BOOLEAN,
            state : {"DISCONNECTED", "AUTHENTICATING", "CONNECTED", "IN_ROOM"},
            room : Place, idle : 0 .. ConnectionTimeout + 1, hung : BOOLEAN]
Request == Answered \cup Unanswered

\* The type invariant, one set per variable.
LEMMA Types ==
  TypeOK <=> /\ client \in Client /\ udp \in Udp /\ receiver \in {"select", "recv", "ended"}
             /\ session \in Session /\ to_server \in Seq(Request) /\ to_client \in Seq(Piece)
             /\ think \in 0 .. MaxThink
             /\ inStep \in BOOLEAN /\ failed \in BOOLEAN /\ stale \in BOOLEAN
BY DEF TypeOK, Client, Udp, Session, Request, Piece, Kind, Place

LEMMA TypesAfter ==
  TypeOK' <=> /\ client' \in Client /\ udp' \in Udp /\ receiver' \in {"select", "recv", "ended"}
              /\ session' \in Session /\ to_server' \in Seq(Request) /\ to_client' \in Seq(Piece)
              /\ think' \in 0 .. MaxThink
              /\ inStep' \in BOOLEAN /\ failed' \in BOOLEAN /\ stale' \in BOOLEAN
BY DEF TypeOK, Client, Udp, Session, Request, Piece, Kind, Place

\* What the server sends.
Sent == {"login", "create", "join", "leave", "disconnect", "list", "private", "error"}

LEMMA MessageIsPiece ==
  ASSUME NEW t \in Sent, NEW good \in BOOLEAN, NEW r \in Place
  PROVE  /\ Message(t, good, r) \in Piece
         /\ Message(t, good, r).type = t /\ Message(t, good, r).ok = good
         /\ Message(t, good, r).room = r /\ Whole(Message(t, good, r))
BY DEF Message, Size, Whole, Piece, Kind, Place, Sent, Answered

\* An answer is added to the stream.
LEMMA AnswerTypes ==
  ASSUME to_client \in Seq(Piece), NEW t \in Sent, NEW good \in BOOLEAN, NEW r \in Place,
         Answer(t, good, r)
  PROVE  to_client' \in Seq(Piece)
BY MessageIsPiece, AppendProperties DEF Answer

LEMMA SessionTypes ==
  ASSUME session \in Session
  PROVE  /\ Stay \in Session /\ Dropped \in Session
         /\ [Stay EXCEPT !.hung = TRUE] \in Session
         /\ [Stay EXCEPT !.state = "CONNECTED"] \in Session
         /\ [Stay EXCEPT !.state = "CONNECTED", !.room = NoRoom] \in Session
         /\ \A r \in Rooms : [Stay EXCEPT !.state = "IN_ROOM", !.room = r] \in Session
<1>1. 0 \in 0 .. ConnectionTimeout + 1
  BY TimesAssumption
<1>2. NoRoom \in Place /\ \A r \in Rooms : r \in Place
  BY DEF Place
<1>3. Stay \in Session
  BY <1>1 DEF Session, Stay
<1>4. Dropped \in Session
  BY <1>2 DEF Session, Dropped
<1> QED
  BY <1>2, <1>3, <1>4 DEF Session

\* A handler leaves the slot valid, and sends nothing or one message.
LEMMA HandleTypes ==
  ASSUME session \in Session, to_client \in Seq(Piece), NEW k \in Request, Handle(k)
  PROVE  session' \in Session /\ to_client' \in Seq(Piece)
<1>1. session' \in Session
  BY SessionTypes DEF Handle, Refuse
<1>2. \/ NoAnswer
      \/ \E t \in Sent, good \in BOOLEAN, r \in Place : Answer(t, good, r)
  BY DEF Handle, Refuse, Sent, Place
<1> QED
  BY <1>1, <1>2, AnswerTypes DEF NoAnswer

\* A request is added to a stream that is read at the other end.
LEMMA SendTypes ==
  ASSUME client \in Client, session \in Session, to_server \in Seq(Request),
         NEW k \in Request, NEW next \in Client, Send(k, next)
  PROVE  client' \in Client /\ to_server' \in Seq(Request)
<1>1. to_server' \in Seq(Request)
  BY AppendProperties DEF Send
<1>2. [client EXCEPT !.pc = "killed"] \in Client /\ [next EXCEPT !.reset = ~session.open] \in Client
  BY DEF Client, Session
<1> QED
  BY <1>1, <1>2 DEF Send

\* What the client makes of a piece of the stream leaves its fields valid.
LEMMA TakeTypes ==
  ASSUME client \in Client, udp \in Udp, failed \in BOOLEAN, stale \in BOOLEAN,
         NEW m \in Piece, NEW full, Take(m, full)
  PROVE  client' \in Client /\ udp' \in Udp /\ failed' \in BOOLEAN /\ stale' \in BOOLEAN
<1>1. m.room \in Place
  BY DEF Piece, Place
<1> DEFINE back == [client EXCEPT !.pc = IF client.req = "disconnect" THEN "stopping" ELSE "top",
                                  !.req = "none"]
<1>2. /\ back \in Client /\ [back EXCEPT !.token = TRUE] \in Client
      /\ [back EXCEPT !.room = m.room] \in Client /\ [back EXCEPT !.room = NoRoom] \in Client
  BY <1>1 DEF Client, Place
<1>3. /\ [udp EXCEPT !.addr = m.room] \in Udp
      /\ [udp EXCEPT !.bound = NoRoom, !.group = NoRoom, !.data = FALSE] \in Udp
      /\ [[udp EXCEPT !.bound = NoRoom, !.group = NoRoom, !.data = FALSE]
          EXCEPT !.open = FALSE] \in Udp
  BY <1>1 DEF Udp, Place
<1>4. JoinGroup(m.room) => udp' \in Udp /\ failed' \in BOOLEAN
  BY <1>1 DEF JoinGroup, Udp
<1>5. LeaveGroup => udp' \in Udp /\ failed' \in BOOLEAN /\ stale' \in BOOLEAN
  BY <1>3 DEF LeaveGroup
<1> HIDE DEF back
<1>6. /\ \/ client' \in {back, [back EXCEPT !.token = TRUE], [back EXCEPT !.room = m.room],
                         [back EXCEPT !.room = NoRoom]}
      /\ \/ UNCHANGED <<udp, failed, stale>>
         \/ udp' = [udp EXCEPT !.addr = m.room] /\ UNCHANGED <<failed, stale>>
         \/ JoinGroup(m.room) /\ UNCHANGED stale
         \/ LeaveGroup
  BY DEF Take, back
<1>7. client' \in Client
  BY <1>2, <1>6
<1> QED
  BY <1>3, <1>4, <1>5, <1>6, <1>7

\* Whatever it has taken, the client does not wait for it any longer.
LEMMA TakeMovesOn ==
  ASSUME client \in Client, NEW m \in Piece, NEW full, Take(m, full)
  PROVE  /\ client'.pc = (IF client.req = "disconnect" THEN "stopping" ELSE "top")
         /\ client'.since = client.since /\ client'.reset = client.reset
<1> DEFINE back == [client EXCEPT !.pc = IF client.req = "disconnect" THEN "stopping" ELSE "top",
                                  !.req = "none"]
<1>1. client' \in {back, [back EXCEPT !.token = TRUE], [back EXCEPT !.room = m.room],
                   [back EXCEPT !.room = NoRoom]}
  BY DEF Take
<1> QED
  BY <1>1 DEF Client

\* No handler opens a session that was closed.
LEMMA HandleOpens ==
  ASSUME session \in Session, NEW k \in Request, Handle(k)
  PROVE  session'.open => session.open
BY DEF Handle, Refuse, Session, Stay, Dropped

\* Nothing is sent to a session that is closed, a reset comes from a closed
\* one, and only requests with an answer are waited for.
SessionsOK ==
  /\ ~session.open => to_server = <<>>
  /\ client.reset => ~session.open
  /\ client.pc = "reply" => client.req \in Answered

Basic == TypeOK /\ SessionsOK

\* Every step keeps the types.
LEMMA TypeStep == Basic /\ [Next]_vars => TypeOK'
<1> SUFFICES ASSUME Basic, [Next]_vars PROVE TypeOK'
  OBVIOUS
<1>0. /\ client \in Client /\ udp \in Udp /\ receiver \in {"select", "recv", "ended"}
      /\ session \in Session /\ to_server \in Seq(Request) /\ to_client \in Seq(Piece)
      /\ think \in 0 .. MaxThink
      /\ inStep \in BOOLEAN /\ failed \in BOOLEAN /\ stale \in BOOLEAN
  BY Types DEF Basic
<1>1. CASE Top
  <2>0. 0 \in 0 .. MaxThink /\ 0 \in 0 .. KeepaliveInterval + 1 /\ "keepalive" \in Request
    BY TimesAssumption DEF Request, Unanswered
  <2>1. /\ [client EXCEPT !.pc = "prompt", !.since = 0] \in Client
        /\ [client EXCEPT !.pc = "prompt"] \in Client
    BY <1>0, <2>0 DEF Client
  <2>2. client' \in Client /\ to_server' \in Seq(Request)
    BY <1>0, <1>1, <2>0, <2>1, SendTypes DEF Top
  <2> QED
    BY <1>0, <1>1, <2>0, <2>2, TypesAfter DEF Top
<1>2. ASSUME NEW k \in Request, Command(k) PROVE TypeOK'
  <2> DEFINE next == IF k \in Answered THEN [client EXCEPT !.pc = "reply", !.req = k]
                     ELSE [client EXCEPT !.pc = "top"]
  <2>1. next \in Client
    BY <1>0 DEF Client
  <2>2. Send(k, next)
    BY <1>2 DEF Command
  <2> HIDE DEF next
  <2>3. client' \in Client /\ to_server' \in Seq(Request)
    BY <1>0, <2>1, <2>2, SendTypes
  <2> QED
    BY <1>0, <1>2, <2>3, TypesAfter DEF Command
<1>3. CASE OtherLine
  <2>1. client' \in Client
    BY <1>0, <1>3 DEF OtherLine, Client
  <2> QED
    BY <1>0, <1>3, <2>1, TypesAfter DEF OtherLine
<1>4. CASE Receive
  <2>1. Head(to_client) \in Piece
    BY <1>0, <1>4 DEF Receive
  <2>2. to_client' \in Seq(Piece)
    <3>1. Wanted(client.req) \in Nat
      BY <1>4 DEF Receive, Basic, SessionsOK, Wanted, Answered
    <3> QED
      BY <1>0, <1>4, <3>1, AfterIsStream DEF Receive
  <2>3. client' \in Client /\ udp' \in Udp /\ failed' \in BOOLEAN /\ stale' \in BOOLEAN
    <3>1. PICK full : Take(Head(to_client), full)
      BY <1>4 DEF Receive
    <3> QED
      BY <1>0, <2>1, <3>1, TakeTypes
  <2> QED
    BY <1>0, <1>4, <2>2, <2>3, TypesAfter DEF Receive
<1>5. CASE ReceiveNothing
  <2>1. client' \in Client
    BY <1>0, <1>5 DEF ReceiveNothing, Client
  <2> QED
    BY <1>0, <1>5, <2>1, TypesAfter DEF ReceiveNothing
<1>6. CASE Datagram
  <2>1. udp' \in Udp
    BY <1>0, <1>6 DEF Datagram, Udp
  <2> QED
    BY <1>0, <1>6, <2>1, TypesAfter DEF Datagram
<1>7. CASE ReceiverSelect
  BY <1>0, <1>7, TypesAfter DEF ReceiverSelect
<1>8. CASE ReceiverRecv
  <2>1. udp' \in Udp
    BY <1>0, <1>8 DEF ReceiverRecv, Udp
  <2> QED
    BY <1>0, <1>8, <2>1, TypesAfter DEF ReceiverRecv
<1>9. CASE Exit
  <2>1. client' \in Client /\ udp' \in Udp
    BY <1>0, <1>9 DEF Exit, Client, Udp, Place
  <2> QED
    BY <1>0, <1>9, <2>1, TypesAfter DEF Exit
<1>10. CASE ServerReads
  <2>1. Head(to_server) \in Request
    BY <1>0, <1>10 DEF ServerReads
  <2>2. session' \in Session /\ to_client' \in Seq(Piece)
    BY <1>0, <1>10, <2>1, HandleTypes DEF ServerReads
  <2>3. to_server' \in Seq(Request) /\ inStep' \in BOOLEAN
    BY <1>10, EmptySeq DEF ServerReads
  <2> QED
    BY <1>0, <1>10, <2>2, <2>3, TypesAfter DEF ServerReads
<1>11. CASE PrivateArrives
  <2>1. to_client' \in Seq(Piece)
    BY <1>0, <1>11, AnswerTypes DEF PrivateArrives, Sent, Place
  <2> QED
    BY <1>0, <1>11, <2>1, TypesAfter DEF PrivateArrives
<1>12. CASE ServerDrops
  <2>1. session' \in Session /\ to_server' \in Seq(Request)
    BY <1>0, <1>12, SessionTypes, EmptySeq DEF ServerDrops
  <2> QED
    BY <1>0, <1>12, <2>1, TypesAfter DEF ServerDrops
<1>13. CASE Tick
  <2>1. client' \in Client
    <3> DEFINE later == AtMost(client.since + 1, KeepaliveInterval + 1)
    <3>1. client.since \in 0 .. KeepaliveInterval + 1
      BY <1>0 DEF Client
    <3>2. later \in 0 .. KeepaliveInterval + 1
      BY <3>1, TimesAssumption DEF AtMost
    <3>3. client' = [client EXCEPT !.since = later]
      BY <1>13 DEF Tick
    <3> HIDE DEF later
    <3> QED
      BY <1>0, <3>2, <3>3 DEF Client
  <2>2. session' \in Session
    <3> DEFINE later == IF session.open THEN AtMost(session.idle + 1, ConnectionTimeout + 1)
                        ELSE session.idle
    <3>1. session.idle \in 0 .. ConnectionTimeout + 1
      BY <1>0 DEF Session
    <3>2. later \in 0 .. ConnectionTimeout + 1
      BY <3>1, TimesAssumption DEF AtMost
    <3>3. session' = [session EXCEPT !.idle = later]
      BY <1>13 DEF Tick
    <3> HIDE DEF later
    <3> QED
      BY <1>0, <3>2, <3>3 DEF Session
  <2>3. think' \in 0 .. MaxThink
    BY <1>0, <1>13, TimesAssumption DEF Tick
  <2> QED
    BY <1>0, <1>13, <2>1, <2>2, <2>3, TypesAfter DEF Tick
<1>14. CASE ServerHangs
  <2>1. session' \in Session
    BY <1>0, <1>14 DEF ServerHangs, Session
  <2> QED
    BY <1>0, <1>14, <2>1, TypesAfter DEF ServerHangs
<1>15. CASE UNCHANGED vars
  BY <1>0, <1>15, TypesAfter DEF vars
<1> QED
  BY <1>1, <1>2, <1>3, <1>4, <1>5, <1>6, <1>7, <1>8, <1>9, <1>10, <1>11, <1>12, <1>13, <1>14,
     <1>15
     DEF Next, ClientStep, ReceiverStep, Request

\* What the types rest on is kept as well.
LEMMA SessionsStep == Basic /\ [Next]_vars => SessionsOK'
<1> SUFFICES ASSUME Basic, [Next]_vars PROVE SessionsOK'
  OBVIOUS
<1>0. client \in Client /\ session \in Session /\ to_client \in Seq(Piece) /\ SessionsOK
  BY Types DEF Basic
<1>1. CASE Top
  BY <1>0, <1>1 DEF Top, Send, SessionsOK, Client, Session
<1>2. ASSUME NEW k \in Request, Command(k) PROVE SessionsOK'
  BY <1>0, <1>2 DEF Command, Send, SessionsOK, Client, Session
<1>3. CASE OtherLine
  BY <1>0, <1>3 DEF OtherLine, SessionsOK, Client
<1>4. CASE Receive
  <2>1. PICK full : Take(Head(to_client), full)
    BY <1>4 DEF Receive
  <2>2. client'.pc # "reply" /\ client'.reset = client.reset
    BY <1>0, <1>4, <2>1, TakeMovesOn DEF Receive
  <2> QED
    BY <1>0, <1>4, <2>2 DEF Receive, SessionsOK
<1>5. CASE ReceiveNothing \/ Exit
  BY <1>0, <1>5 DEF ReceiveNothing, Exit, SessionsOK, Client
<1>6. CASE ServerReads
  BY <1>0, <1>6, HandleOpens DEF ServerReads, SessionsOK, Session
<1>7. CASE ServerDrops
  BY <1>0, <1>7 DEF ServerDrops, SessionsOK, Session, Dropped
<1>8. CASE Tick
  <2>1. /\ client'.pc = client.pc /\ client'.req = client.req /\ client'.reset = client.reset
        /\ session'.open = session.open
    BY <1>0, <1>8 DEF Tick, Client, Session
  <2> QED
    BY <1>0, <1>8, <2>1 DEF Tick, SessionsOK
<1>9. CASE ServerHangs
  BY <1>0, <1>9 DEF ServerHangs, SessionsOK, Session
<1>10. CASE UNCHANGED <<client, session, to_server>>
  BY <1>0, <1>10 DEF SessionsOK
<1> QED
  BY <1>1, <1>2, <1>3, <1>4, <1>5, <1>6, <1>7, <1>8, <1>9, <1>10
     DEF Next, ClientStep, ReceiverStep, Datagram, ReceiverSelect, ReceiverRecv, PrivateArrives,
         Request, vars

-----------------------------------------------------------------------------
(* What holds as long as the client is in step.                            *)

\* The request of the client is on its way, or the answer to it is.
Waiting == client.pc = "reply" /\ to_server # <<>>
Answering == client.pc = "reply" /\ to_client # <<>>

AnswerTo(k, m) ==
  \/ m.type = k /\ k \notin {"room_list", "user_list"}
  \/ m.type = "list" /\ k \in {"room_list", "user_list"}
  \/ m.type = "error" /\ k = "user_list"

\* A client that waits for an answer has one under way, or is dropped; one
\* that does not has nothing to read.
StreamOK ==
  /\ client.pc # "reply" => /\ to_client = <<>>
                            /\ \A i \in 1 .. Len(to_server) : to_server[i] \in Unanswered
  /\ Waiting => to_client = <<>> /\ to_server[Len(to_server)] = client.req
  /\ Answering => /\ Len(to_client) = 1 /\ Whole(to_client[1])
                  /\ AnswerTo(client.req, to_client[1])
  /\ client.pc = "reply" => Waiting \/ Answering \/ ~session.open

AnswerComes(k) == Answering /\ client.req = k
Succeeds(k) == AnswerComes(k) /\ to_client[1].ok

\* The client and its open session agree, but for what an answer on its way
\* will say.
ViewsOK ==
  session.open /\ client.pc # "exited" =>
    /\ IF AnswerComes("login") THEN to_client[1].ok /\ session.state = "CONNECTED"
       ELSE client.token <=> session.state # "AUTHENTICATING"
    /\ client.pc = "reply" /\ ~client.token => client.req = "login"
    /\ Waiting /\ client.req = "login" => session.state = "AUTHENTICATING"
    /\ IF Succeeds("join") THEN session.state = "IN_ROOM" /\ session.room = to_client[1].room
       ELSE session.state = "IN_ROOM" => client.room = session.room
    /\ Succeeds("create") \/ AnswerComes("leave") => session.state # "IN_ROOM"

\* The socket is in the group of the room, but for an answer on its way.
GroupOK ==
  session.open /\ client.pc # "exited" /\ ~failed =>
    /\ udp.open
    /\ udp.bound = udp.group
    /\ udp.group # NoRoom => udp.addr = udp.group
    /\ Succeeds("join") => udp.group = NoRoom
    /\ ~Succeeds("join") /\ ~Succeeds("leave") =>
         udp.group = (IF session.state = "IN_ROOM" THEN session.room ELSE NoRoom)

\* The server, as long as it reads, has not been waiting for longer than the
\* client knows of.
IdleOK ==
  session.open /\ ~session.hung /\ session.state # "AUTHENTICATING" =>
    /\ session.idle <= KeepaliveInterval + MaxThink
    /\ to_server = <<>> =>
         /\ client.since <= KeepaliveInterval => session.idle <= client.since
         /\ client.pc = "prompt" => session.idle <= KeepaliveInterval + think

Undisturbed == StreamOK /\ ViewsOK /\ GroupOK /\ IdleOK
IInv == Basic /\ (inStep => Undisturbed)

-----------------------------------------------------------------------------
(* The steps that move messages.                                           *)

\* A step that leaves the client in step has found it so.
LEMMA StaysInStep ==
  ASSUME TypeOK, ServerReads, inStep'
  PROVE  /\ inStep /\ Len(to_server) = 1
         /\ Head(to_server) \in Unanswered => to_client' = to_client
BY Zenon DEF ServerReads

\* A client in step takes the whole answer, and knows a success by its type.
LEMMA TakesAnswer ==
  ASSUME Basic, StreamOK, Receive
  PROVE  LET m == to_client[1]
             k == client.req
         IN /\ Answering /\ m \in Piece /\ AnswerTo(k, m) /\ to_client' = <<>>
            /\ client'.token = (IF k = "login" /\ m.ok THEN TRUE ELSE client.token)
            /\ client'.room = (IF k \in {"create", "join"} /\ m.ok THEN m.room
                               ELSE IF k = "leave" /\ m.ok THEN NoRoom ELSE client.room)
            /\ k = "create" /\ m.ok => udp' = [udp EXCEPT !.addr = m.room] /\ failed' = failed
            /\ k = "join" /\ m.ok => JoinGroup(m.room)
            /\ k = "leave" /\ m.ok => LeaveGroup
            /\ ~(k \in {"create", "join", "leave"} /\ m.ok) => udp' = udp /\ failed' = failed
<1> DEFINE m == to_client[1]
           k == client.req
           full == Bytes(to_client) >= Wanted(k)
<1>0. client \in Client /\ udp \in Udp /\ to_client \in Seq(Piece) /\ k \in Answered
  BY Types DEF Basic, SessionsOK, Receive
<1>1. Answering /\ Len(to_client) = 1 /\ Whole(m) /\ AnswerTo(k, m) /\ m \in Piece
  BY <1>0 DEF Receive, StreamOK, Answering
<1>2. Head(to_client) = m
  BY <1>0, <1>1
<1>3. Wanted(k) \in Nat /\ m.left \in Nat /\ m.left <= Wanted(k)
      /\ (k \in {"login", "create", "join", "leave"} => m.left = Wanted(k) /\ m.type = k)
  BY <1>0, <1>1 DEF Wanted, Whole, Size, AnswerTo, Answered
<1>4. to_client' = <<>> /\ Bytes(to_client) = m.left
  BY <1>0, <1>1, <1>3, AfterOnly DEF Receive
<1>5. k \in {"login", "create", "join", "leave"} => full /\ m.type = k
  BY <1>3, <1>4
<1>6. Take(m, full)
  BY <1>2 DEF Receive
<1> DEFINE back == [client EXCEPT !.pc = IF k = "disconnect" THEN "stopping" ELSE "top",
                                  !.req = "none"]
<1>7. Whole(m) /\ m.ok \in BOOLEAN
  BY <1>1 DEF Piece
<1>a. /\ back.token = client.token /\ back.room = client.room
      /\ [back EXCEPT !.token = TRUE].token = TRUE
      /\ [back EXCEPT !.token = TRUE].room = client.room
      /\ \A r : [back EXCEPT !.room = r].token = client.token /\ [back EXCEPT !.room = r].room = r
  BY <1>0 DEF Client
<1> HIDE DEF full, m
<1>8. CASE k = "login"
  <2>1. IF m.ok THEN client' = [back EXCEPT !.token = TRUE] /\ UNCHANGED <<udp, failed, stale>>
        ELSE client' = back /\ UNCHANGED <<udp, failed, stale>>
    BY <1>5, <1>6, <1>7, <1>8 DEF Take, Success
  <2>2. /\ client'.token = (IF m.ok THEN TRUE ELSE client.token)
        /\ client'.room = client.room
    BY <1>a, <2>1
  <2> HIDE DEF back
  <2> QED
    BY <1>1, <1>4, <1>7, <1>8, <2>1, <2>2 DEF m
<1>9. CASE k = "create"
  <2>1. IF m.ok THEN /\ client' = [back EXCEPT !.room = m.room]
                     /\ udp' = [udp EXCEPT !.addr = m.room] /\ UNCHANGED <<failed, stale>>
        ELSE client' = back /\ UNCHANGED <<udp, failed, stale>>
    BY <1>5, <1>6, <1>7, <1>9 DEF Take, Success
  <2>2. CASE m.ok
    <3>1. client'.token = client.token /\ client'.room = m.room
      BY <1>0, <2>1, <2>2 DEF Client
    <3> HIDE DEF back
    <3> QED
      BY <1>1, <1>4, <1>7, <1>9, <2>1, <2>2, <3>1 DEF m
  <2>3. CASE ~m.ok
    <3>1. client'.token = client.token /\ client'.room = client.room
      BY <1>a, <2>1, <2>3
    <3> HIDE DEF back
    <3> QED
      BY <1>1, <1>4, <1>7, <1>9, <2>1, <2>3, <3>1 DEF m
  <2> QED
    BY <2>2, <2>3
<1>10. CASE k = "join"
  <2>1. IF m.ok THEN client' = [back EXCEPT !.room = m.room] /\ JoinGroup(m.room)
        ELSE client' = back /\ UNCHANGED <<udp, failed, stale>>
    BY <1>5, <1>6, <1>7, <1>10 DEF Take, Success
  <2>2. CASE m.ok
    <3>1. client'.token = client.token /\ client'.room = m.room
      BY <1>0, <2>1, <2>2 DEF Client
    <3> HIDE DEF back
    <3> QED
      BY <1>1, <1>4, <1>7, <1>10, <2>1, <2>2, <3>1 DEF m
  <2>3. CASE ~m.ok
    <3>1. client'.token = client.token /\ client'.room = client.room
      BY <1>a, <2>1, <2>3
    <3> HIDE DEF back
    <3> QED
      BY <1>1, <1>4, <1>7, <1>10, <2>1, <2>3, <3>1 DEF m
  <2> QED
    BY <2>2, <2>3
<1>11. CASE k = "leave"
  <2>1. ReadsAsLeft(m) = m.ok
    BY <1>5, <1>7, <1>11 DEF ReadsAsLeft
  <2>2. IF m.ok THEN LeaveGroup /\ client' = [back EXCEPT !.room = NoRoom]
        ELSE client' = back /\ UNCHANGED <<udp, failed, stale>>
    BY <1>5, <1>6, <1>7, <1>11, <2>1 DEF Take
  <2>3. CASE m.ok
    <3>1. LeaveGroup /\ client' = [back EXCEPT !.room = NoRoom]
      BY <2>2, <2>3
    <3>2. client'.token = client.token /\ client'.room = NoRoom
      BY <1>a, <3>1
    <3> HIDE DEF back
    <3> QED
      BY <1>1, <1>4, <1>7, <1>11, <2>3, <3>1, <3>2 DEF m
  <2>4. CASE ~m.ok
    <3>1. udp' = udp /\ failed' = failed /\ client' = back
      BY <2>2, <2>4
    <3>2. client'.token = client.token /\ client'.room = client.room
      BY <1>a, <3>1
    <3> HIDE DEF back
    <3> QED
      BY <1>1, <1>4, <1>7, <1>11, <2>4, <3>1, <3>2 DEF m
  <2> QED
    BY <2>3, <2>4
<1>12. CASE k \notin {"login", "create", "join", "leave"}
  <2>1. client' = back /\ UNCHANGED <<udp, failed, stale>>
    BY <1>6, <1>12 DEF Take
  <2>2. client'.token = client.token /\ client'.room = client.room
    BY <1>a, <2>1
  <2> HIDE DEF back
  <2> QED
    BY <1>1, <1>4, <1>7, <1>12, <2>1, <2>2 DEF m
<1> QED
  BY <1>8, <1>9, <1>10, <1>11, <1>12

\* A request that nobody waits for is not answered.
LEMMA ReadsUnanswered ==
  ASSUME Basic, StreamOK, ServerReads, inStep', client.pc # "reply"
  PROVE  /\ to_server' = <<>> /\ to_client' = <<>>
         /\ session'.open => /\ session'.state = session.state
                              /\ session'.room = session.room /\ session'.idle = 0
<1>0. session \in Session /\ to_server \in Seq(Request) /\ to_client \in Seq(Piece)
  BY Types DEF Basic
<1>1. /\ to_client = <<>> /\ Len(to_server) = 1 /\ Head(to_server) = to_server[1]
      /\ to_server[1] \in Unanswered /\ to_client' = to_client
  BY <1>0, StaysInStep DEF StreamOK, Basic
<1>2. session' \in {Stay, [Stay EXCEPT !.hung = TRUE], Dropped}
  BY <1>1 DEF ServerReads, Handle, Refuse, Unanswered
<1>3. session'.open => /\ session'.state = session.state
                       /\ session'.room = session.room /\ session'.idle = 0
  BY <1>0, <1>2 DEF Stay, Dropped, Session
<1> QED
  BY <1>1, <1>3 DEF ServerReads

\* What the request in the stream is, when it is waited for.
LEMMA ReadsRequest ==
  ASSUME Basic, StreamOK, ServerReads, inStep', client.pc = "reply"
  PROVE  /\ Waiting /\ to_client = <<>> /\ Handle(client.req)
         /\ client.req \in Answered /\ to_server' = <<>>
<1>0. to_server \in Seq(Request) /\ client.req \in Answered
  BY Types DEF Basic, SessionsOK
<1>1. Waiting /\ Handle(Head(to_server)) /\ to_server' = <<>>
  BY DEF Waiting, ServerReads
<1>a. Len(to_server) = 1 /\ Head(to_server) = to_server[1]
  BY <1>0, StaysInStep DEF Basic
<1>2. to_client = <<>> /\ to_server[1] = client.req
  BY <1>1, <1>a DEF StreamOK
<1> QED
  BY <1>0, <1>1, <1>a, <1>2

\* One message is all of a stream that was empty.
LEMMA OnlyAnswer ==
  ASSUME to_client = <<>>, NEW t \in Sent, NEW good \in BOOLEAN, NEW r \in Place, Answer(t, good, r)
  PROVE  /\ to_client' # <<>> /\ Len(to_client') = 1 /\ Whole(to_client'[1])
         /\ to_client'[1].type = t /\ to_client'[1].ok = good /\ to_client'[1].room = r
<1>1. to_client' = <<Message(t, good, r)>>
  BY DEF Answer
<1> QED
  BY <1>1, MessageIsPiece

\* How a handler answers k: with the first message of the stream.
Reply(k) ==
  /\ to_client' # <<>> /\ Len(to_client') = 1
  /\ Whole(to_client'[1]) /\ AnswerTo(k, to_client'[1])

\* A request that is waited for is answered, and the answer is true.
LEMMA ReadsAnswered ==
  ASSUME Basic, StreamOK, ViewsOK, ServerReads, inStep', client.pc = "reply"
  PROVE  LET m == to_client'[1]
             k == client.req
             was == session.state
         IN /\ to_server' = <<>> /\ Reply(k)
            /\ session'.open =>
                 /\ session'.idle = 0
                 /\ k = "login" => m.ok /\ was = "AUTHENTICATING" /\ session'.state = "CONNECTED"
                 /\ k = "create" /\ m.ok => was = "CONNECTED"
                 /\ k = "join" /\ m.ok => /\ was = "CONNECTED" /\ session'.state = "IN_ROOM"
                                          /\ session'.room = m.room
                 /\ k = "leave" /\ m.ok => was = "IN_ROOM" /\ session'.state = "CONNECTED"
                 /\ k = "leave" /\ ~m.ok => was # "IN_ROOM"
                 /\ ~(k \in {"login", "join", "leave"} /\ m.ok) =>
                      session'.state = session.state /\ session'.room = session.room
<1> DEFINE m == to_client'[1]
           k == client.req
<1>0. /\ session \in Session /\ session.open
      /\ Waiting /\ to_client = <<>> /\ Handle(k) /\ k \in Answered /\ to_server' = <<>>
  BY ReadsRequest, Types DEF Basic, ServerReads
<1>1. k = "login" => session.state = "AUTHENTICATING"
  BY <1>0 DEF ViewsOK, Waiting
<1>2. /\ Stay.state = session.state /\ Stay.room = session.room /\ Stay.idle = 0 /\ ~Dropped.open
      /\ [Stay EXCEPT !.state = "CONNECTED"].state = "CONNECTED"
      /\ [Stay EXCEPT !.state = "CONNECTED"].idle = 0
      /\ [Stay EXCEPT !.state = "CONNECTED", !.room = NoRoom].state = "CONNECTED"
      /\ [Stay EXCEPT !.state = "CONNECTED", !.room = NoRoom].idle = 0
      /\ \A r : /\ [Stay EXCEPT !.state = "IN_ROOM", !.room = r].state = "IN_ROOM"
                /\ [Stay EXCEPT !.state = "IN_ROOM", !.room = r].room = r
                /\ [Stay EXCEPT !.state = "IN_ROOM", !.room = r].idle = 0
  BY <1>0 DEF Stay, Dropped, Session
<1>3. NoRoom \in Place /\ Rooms \subseteq Place
  BY DEF Place
<1> DEFINE Answers(t, good, r) ==
             Reply(k) /\ m.type = t /\ m.ok = good /\ m.room = r
<1>4. ASSUME NEW t \in Sent, NEW good \in BOOLEAN, NEW r \in Place, Answer(t, good, r),
             \/ t = k /\ k \notin {"room_list", "user_list"}
             \/ t = "list" /\ k \in {"room_list", "user_list"}
             \/ t = "error" /\ k = "user_list"
      PROVE  Answers(t, good, r)
  BY <1>0, <1>4, OnlyAnswer DEF Reply, AnswerTo
<1> HIDE DEF Answers
<1>5. CASE k = "login"
  <2>1. session' = [Stay EXCEPT !.state = "CONNECTED"] /\ Answer(k, TRUE, NoRoom)
    BY <1>0, <1>1, <1>5 DEF Handle
  <2>2. Answers(k, TRUE, NoRoom)
    BY <1>3, <1>4, <1>5, <2>1 DEF Sent
  <2> QED
    BY <1>0, <1>1, <1>2, <1>5, <2>1, <2>2 DEF Answers
<1>6. CASE k = "create"
  <2>1. CASE session' = Stay /\ Answer(k, FALSE, NoRoom)
    <3>1. Answers(k, FALSE, NoRoom)
      BY <1>3, <1>4, <1>6, <2>1 DEF Sent
    <3> QED
      BY <1>0, <1>2, <1>6, <2>1, <3>1 DEF Answers
  <2>2. CASE session.state = "CONNECTED" /\ session' = Stay /\ \E r \in Rooms : Answer(k, TRUE, r)
    <3>1. PICK r \in Rooms : Answers(k, TRUE, r)
      BY <1>3, <1>4, <1>6, <2>2 DEF Sent
    <3> QED
      BY <1>0, <1>2, <1>6, <2>2, <3>1 DEF Answers
  <2> QED
    BY <1>0, <1>6, <2>1, <2>2 DEF Handle, Refuse
<1>7. CASE k = "join"
  <2>1. CASE session' = Stay /\ Answer(k, FALSE, NoRoom)
    <3>1. Answers(k, FALSE, NoRoom)
      BY <1>3, <1>4, <1>7, <2>1 DEF Sent
    <3> QED
      BY <1>0, <1>2, <1>7, <2>1, <3>1 DEF Answers
  <2>2. CASE /\ session.state = "CONNECTED"
             /\ \E r \in Rooms : /\ session' = [Stay EXCEPT !.state = "IN_ROOM", !.room = r]
                                 /\ Answer(k, TRUE, r)
    <3>1. PICK r \in Rooms : /\ session' = [Stay EXCEPT !.state = "IN_ROOM", !.room = r]
                             /\ Answer(k, TRUE, r)
      BY <2>2
    <3>2. Answers(k, TRUE, r)
      BY <1>3, <1>4, <1>7, <3>1 DEF Sent
    <3>3. session'.state = "IN_ROOM" /\ session'.room = r /\ session'.idle = 0
      BY <1>2, <3>1
    <3> QED
      BY <1>0, <1>7, <2>2, <3>2, <3>3 DEF Answers
  <2> QED
    BY <1>0, <1>7, <2>1, <2>2 DEF Handle, Refuse
<1>8. CASE k = "leave"
  <2>1. CASE session.state # "IN_ROOM" /\ session' = Stay /\ Answer(k, FALSE, NoRoom)
    <3>1. Answers(k, FALSE, NoRoom)
      BY <1>3, <1>4, <1>8, <2>1 DEF Sent
    <3> QED
      BY <1>0, <1>2, <1>8, <2>1, <3>1 DEF Answers
  <2>2. CASE /\ session.state = "IN_ROOM"
             /\ session' = [Stay EXCEPT !.state = "CONNECTED", !.room = NoRoom]
             /\ Answer(k, TRUE, NoRoom)
    <3>1. Answers(k, TRUE, NoRoom)
      BY <1>3, <1>4, <1>8, <2>2 DEF Sent
    <3> QED
      BY <1>0, <1>2, <1>8, <2>2, <3>1 DEF Answers
  <2> QED
    BY <1>0, <1>8, <2>1, <2>2 DEF Handle, Refuse
<1>9. CASE k \in {"room_list", "user_list"}
  <2>1. CASE session' = Stay /\ Answer("list", TRUE, NoRoom)
    <3>1. Answers("list", TRUE, NoRoom)
      BY <1>3, <1>4, <1>9, <2>1 DEF Sent
    <3> QED
      BY <1>0, <1>2, <1>9, <2>1, <3>1 DEF Answers
  <2>2. CASE k = "user_list" /\ session' = Dropped /\ Answer("error", FALSE, NoRoom)
    <3>1. Answers("error", FALSE, NoRoom)
      BY <1>3, <1>4, <2>2 DEF Sent
    <3> QED
      BY <1>0, <1>2, <1>9, <2>2, <3>1 DEF Answers
  <2> QED
    BY <1>0, <1>9, <2>1, <2>2 DEF Handle
<1>10. CASE k = "disconnect"
  <2>1. session' = Dropped /\ Answer(k, TRUE, NoRoom)
    BY <1>0, <1>10 DEF Handle
  <2>2. Answers(k, TRUE, NoRoom)
    BY <1>3, <1>4, <1>10, <2>1 DEF Sent
  <2> QED
    BY <1>0, <1>2, <2>1, <2>2 DEF Answers
<1> QED
  BY <1>0, <1>5, <1>6, <1>7, <1>8, <1>9, <1>10 DEF Answered

-----------------------------------------------------------------------------
(* The four parts are kept.  First, the steps that change what they speak  *)
(* of, and what those steps leave alone.                                   *)

\* A step that changes nothing the invariant speaks of keeps it.
LEMMA Untouched ==
  ASSUME IInv, UNCHANGED <<client, udp, session, to_server, to_client, think, inStep, failed>>
  PROVE  (inStep => Undisturbed)'
BY DEF IInv, Undisturbed, StreamOK, ViewsOK, GroupOK, IdleOK, Waiting, Answering, AnswerComes, Succeeds

\* The client and the stream while no answer is under way.
LEMMA NoAnswerComes ==
  ASSUME client.pc # "reply" \/ to_client = <<>>
  PROVE  ~Answering /\ \A k : ~AnswerComes(k) /\ ~Succeeds(k)
BY DEF Answering, AnswerComes, Succeeds

LEMMA NoAnswerAfter ==
  ASSUME client'.pc # "reply" \/ to_client' = <<>>
  PROVE  ~Answering' /\ \A k : ~AnswerComes(k)' /\ ~Succeeds(k)'
BY DEF Answering, AnswerComes, Succeeds

\* The types, and what they rest on.
LEMMA Known ==
  ASSUME IInv
  PROVE  /\ client \in Client /\ udp \in Udp /\ session \in Session
         /\ to_server \in Seq(Request) /\ to_client \in Seq(Piece) /\ think \in 0 .. MaxThink
         /\ SessionsOK /\ Basic /\ (inStep => StreamOK /\ ViewsOK /\ GroupOK /\ IdleOK)
BY Types DEF IInv, Basic, Undisturbed

\* A keepalive is sent before a silence can grow too long.
LEMMA TopStep ==
  ASSUME IInv, Top, inStep'
  PROVE  Undisturbed'
<1>0. /\ client \in Client /\ session \in Session /\ to_server \in Seq(Request)
      /\ SessionsOK /\ StreamOK /\ ViewsOK /\ GroupOK /\ IdleOK
      /\ client.pc = "top" /\ to_client = <<>>
      /\ UNCHANGED <<udp, session, to_client, failed>> /\ think' = 0
  BY Known DEF Top, StreamOK
<1>1. CASE KeepaliveDue /\ session.open
  <2>1. /\ client' = [client EXCEPT !.pc = "prompt", !.since = 0, !.reset = FALSE]
        /\ to_server' = Append(to_server, "keepalive")
    BY <1>0, <1>1 DEF Top, Send, SessionsOK, Client, Session
  <2>2. /\ to_server' # <<>>
        /\ \A i \in 1 .. Len(to_server') : to_server'[i] \in Unanswered
    BY <1>0, <2>1 DEF StreamOK, Unanswered
  <2>3. client'.pc = "prompt" /\ client'.token = client.token /\ client'.room = client.room
    BY <1>0, <2>1 DEF Client
  <2> QED
    BY <1>0, <2>2, <2>3, NoAnswerComes, NoAnswerAfter
       DEF Undisturbed, StreamOK, ViewsOK, GroupOK, IdleOK, Waiting
<1>2. CASE KeepaliveDue /\ ~session.open
  <2>1. client'.pc \in {"prompt", "killed"} /\ to_server' = to_server
    BY <1>0, <1>2 DEF Top, Send, Client
  <2> QED
    BY <1>0, <1>2, <2>1, NoAnswerComes, NoAnswerAfter
       DEF Undisturbed, StreamOK, ViewsOK, GroupOK, IdleOK, Waiting
<1>3. CASE ~KeepaliveDue
  <2>1. /\ client'.pc = "prompt" /\ to_server' = to_server /\ client'.token = client.token
        /\ client'.room = client.room /\ client'.since = client.since
    BY <1>0, <1>3 DEF Top, Client
  <2>2. StreamOK' /\ ViewsOK' /\ GroupOK'
    BY <1>0, <2>1, NoAnswerComes, NoAnswerAfter DEF StreamOK, ViewsOK, GroupOK, Waiting
  <2>3. session.open /\ session.state # "AUTHENTICATING" => client.since <= KeepaliveInterval
    <3>1. session.open /\ session.state # "AUTHENTICATING" => client.token
      BY <1>0, NoAnswerComes DEF ViewsOK
    <3> QED
      BY <1>0, <1>3, <3>1, TimesAssumption DEF KeepaliveDue, Client
  <2>4. IdleOK'
    BY <1>0, <2>1, <2>3, TimesAssumption DEF IdleOK, Client, Session
  <2> QED
    BY <2>2, <2>4 DEF Undisturbed
<1> QED
  BY <1>1, <1>2, <1>3

\* What is offered fits what the client believes.
LEMMA CommandStep ==
  ASSUME IInv, NEW k \in Request, Command(k), inStep'
  PROVE  Undisturbed'
<1>0. /\ client \in Client /\ session \in Session /\ to_server \in Seq(Request)
      /\ SessionsOK /\ StreamOK /\ ViewsOK /\ GroupOK /\ IdleOK
      /\ client.pc = "prompt" /\ k \in Offered /\ to_client = <<>>
      /\ UNCHANGED <<udp, session, to_client, think, failed>>
  BY Known DEF Command, StreamOK
<1>1. CASE session.open
  <2>1. /\ to_server' = Append(to_server, k)
        /\ client'.token = client.token /\ client'.room = client.room
        /\ client'.since = client.since
        /\ IF k \in Answered THEN client'.pc = "reply" /\ client'.req = k ELSE client'.pc = "top"
    BY <1>0, <1>1 DEF Command, Send, SessionsOK, Client, Session
  <2>2. /\ to_server' # <<>> /\ to_server'[Len(to_server')] = k
        /\ k \in Unanswered => \A i \in 1 .. Len(to_server') : to_server'[i] \in Unanswered
    BY <1>0, <2>1 DEF StreamOK
  <2>3. StreamOK'
    BY <1>0, <2>1, <2>2, NoAnswerAfter DEF StreamOK, Waiting, Request, Answered, Unanswered
  <2>4. ViewsOK'
    <3>1. client'.pc = "reply" /\ ~client.token => k = "login"
      BY <1>0 DEF Offered
    <3>2. k = "login" => ~client.token
      BY <1>0 DEF Offered
    <3> QED
      BY <1>0, <2>1, <2>2, <3>1, <3>2, NoAnswerComes, NoAnswerAfter
         DEF ViewsOK, Waiting, Request, Answered
  <2>5. GroupOK'
    BY <1>0, <2>1, NoAnswerComes, NoAnswerAfter DEF GroupOK
  <2>6. IdleOK'
    BY <1>0, <2>1, <2>2 DEF IdleOK
  <2> QED
    BY <2>3, <2>4, <2>5, <2>6 DEF Undisturbed
<1>2. CASE ~session.open
  <2>1. /\ to_server' = to_server /\ to_server = <<>>
        /\ client'.pc \in {"reply", "top", "killed"}
    BY <1>0, <1>2 DEF Command, Send, SessionsOK, Client
  <2> QED
    BY <1>0, <1>2, <2>1, NoAnswerAfter
       DEF Undisturbed, StreamOK, ViewsOK, GroupOK, IdleOK, Waiting
<1> QED
  BY <1>1, <1>2

LEMMA OtherLineStep ==
  ASSUME IInv, OtherLine, inStep'
  PROVE  Undisturbed'
<1>0. /\ client \in Client /\ StreamOK /\ ViewsOK /\ GroupOK /\ IdleOK
      /\ client.pc = "prompt" /\ to_client = <<>>
      /\ UNCHANGED <<udp, session, to_server, to_client, failed>>
  BY Known DEF OtherLine, StreamOK
<1>1. /\ client'.pc \in {"top", "stopping"} /\ client'.token = client.token
      /\ client'.room = client.room /\ client'.since = client.since
  BY <1>0 DEF OtherLine, Client
<1> QED
  BY <1>0, <1>1, NoAnswerComes, NoAnswerAfter
     DEF Undisturbed, StreamOK, ViewsOK, GroupOK, IdleOK, Waiting

\* A client that learns that it is dropped has nothing left to agree about.
LEMMA ReceiveNothingStep ==
  ASSUME IInv, ReceiveNothing, inStep'
  PROVE  Undisturbed'
<1>0. client \in Client /\ SessionsOK /\ ~session.open /\ to_client = <<>>
      /\ UNCHANGED <<session, to_server, to_client>>
  BY Known DEF ReceiveNothing
<1>1. client'.pc \in {"top", "stopping"} /\ to_server' = <<>>
  BY <1>0 DEF ReceiveNothing, Client, SessionsOK
<1> QED
  BY <1>0, <1>1, NoAnswerAfter DEF Undisturbed, StreamOK, ViewsOK, GroupOK, IdleOK, Waiting

LEMMA ExitStep ==
  ASSUME IInv, Exit, inStep'
  PROVE  Undisturbed'
<1>0. /\ client \in Client /\ StreamOK /\ IdleOK /\ client.pc = "stopping"
      /\ UNCHANGED <<session, to_server, to_client>>
  BY Known DEF Exit
<1>1. client'.pc = "exited" /\ client'.since = client.since
  BY <1>0 DEF Exit, Client
<1> QED
  BY <1>0, <1>1, NoAnswerAfter DEF Undisturbed, StreamOK, ViewsOK, GroupOK, IdleOK, Waiting

LEMMA DatagramStep ==
  ASSUME IInv, Datagram \/ ReceiverRecv, inStep'
  PROVE  Undisturbed'
<1>0. /\ udp \in Udp /\ StreamOK /\ ViewsOK /\ GroupOK /\ IdleOK
      /\ UNCHANGED <<client, session, to_server, to_client, think, failed>>
  BY Known DEF Datagram, ReceiverRecv
<1>1. /\ udp'.open = udp.open
      /\ udp'.bound = udp.bound /\ udp'.group = udp.group /\ udp'.addr = udp.addr
  BY <1>0 DEF Datagram, ReceiverRecv, Udp
<1>2. \A k : (AnswerComes(k)' <=> AnswerComes(k)) /\ (Succeeds(k)' <=> Succeeds(k))
  BY <1>0 DEF AnswerComes, Succeeds, Answering
<1>3. StreamOK' /\ ViewsOK' /\ IdleOK'
  BY <1>0 DEF StreamOK, ViewsOK, IdleOK, Waiting, Answering, AnswerComes, Succeeds
<1>4. GroupOK'
  BY <1>0, <1>1, <1>2 DEF GroupOK
<1> QED
  BY <1>3, <1>4 DEF Undisturbed

LEMMA ServerDropsStep ==
  ASSUME IInv, ServerDrops, inStep'
  PROVE  Undisturbed'
<1>0. /\ session \in Session /\ StreamOK /\ to_server' = <<>>
      /\ UNCHANGED <<client, to_client>>
  BY Known DEF ServerDrops
<1>1. ~session'.open
  BY <1>0 DEF ServerDrops, Dropped, Session
<1> QED
  BY <1>0, <1>1 DEF Undisturbed, StreamOK, ViewsOK, GroupOK, IdleOK, Waiting, Answering

\* A step that changes only clocks, or whether anybody reads, leaves alone what
\* the two ends agree about.
LEMMA OnlyClocks ==
  ASSUME StreamOK, ViewsOK, GroupOK,
         UNCHANGED <<udp, to_server, to_client, failed, client.pc, client.req, client.token,
                     client.room, session.open, session.state, session.room>>
  PROVE  StreamOK' /\ ViewsOK' /\ GroupOK'
<1>1. /\ Waiting' <=> Waiting
      /\ Answering' <=> Answering
      /\ \A k : (AnswerComes(k)' <=> AnswerComes(k)) /\ (Succeeds(k)' <=> Succeeds(k))
  BY DEF Waiting, Answering, AnswerComes, Succeeds
<1>2. StreamOK'
  BY <1>1 DEF StreamOK
<1>3. ViewsOK'
  BY <1>1 DEF ViewsOK
<1>4. GroupOK'
  BY <1>1 DEF GroupOK
<1> QED
  BY <1>2, <1>3, <1>4

\* The thread that serves a client hangs; the two ends agree as before.
LEMMA ServerHangsStep ==
  ASSUME IInv, ServerHangs, inStep'
  PROVE  Undisturbed'
<1>0. /\ session \in Session /\ StreamOK /\ ViewsOK /\ GroupOK
      /\ UNCHANGED <<client, udp, to_server, to_client, think, failed>>
  BY Known DEF ServerHangs
<1>1. /\ session'.open = session.open /\ session'.state = session.state
      /\ session'.room = session.room /\ session'.hung
  BY <1>0 DEF ServerHangs, Session
<1> QED
  BY <1>0, <1>1, OnlyClocks DEF Undisturbed, IdleOK

\* Time passes at the prompt only, where the client counts it as well, unless
\* nobody reads what the client has sent.
LEMMA TickStep ==
  ASSUME IInv, Tick, inStep'
  PROVE  Undisturbed'
<1>0. /\ client \in Client /\ session \in Session /\ think \in 0 .. MaxThink
      /\ StreamOK /\ ViewsOK /\ GroupOK /\ IdleOK
      /\ UNCHANGED <<udp, to_server, to_client, failed>>
  BY Known DEF Tick
<1>1. /\ client'.pc = client.pc /\ client'.req = client.req
      /\ client'.token = client.token /\ client'.room = client.room
      /\ client'.since = AtMost(client.since + 1, KeepaliveInterval + 1)
      /\ session'.open = session.open /\ session'.state = session.state
      /\ session'.room = session.room /\ session'.hung = session.hung
      /\ session.open => session'.idle = AtMost(session.idle + 1, ConnectionTimeout + 1)
  BY <1>0 DEF Tick, Client, Session
<1>2. StreamOK' /\ ViewsOK' /\ GroupOK'
  BY <1>0, <1>1, OnlyClocks
<1>3. IdleOK'
  <2> SUFFICES ASSUME session.open, ~session.hung, session.state # "AUTHENTICATING"
               PROVE  /\ session'.idle <= KeepaliveInterval + MaxThink
                      /\ client'.since <= KeepaliveInterval => session'.idle <= client'.since
                      /\ session'.idle <= KeepaliveInterval + think'
    BY <1>1 DEF IdleOK
  <2>0. to_server = <<>>
    BY DEF Tick
  <2>1. client.pc = "prompt" /\ think < MaxThink /\ think' = think + 1
    BY <1>0, <2>0 DEF Tick, StreamOK, Waiting, Answering
  <2> DEFINE idle == session.idle
             since == client.since
             idleAfter == session'.idle
             sinceAfter == client'.since
  <2>2. /\ idle \in Nat /\ since \in Nat /\ think \in Nat
        /\ since <= KeepaliveInterval => idle <= since
        /\ idle <= KeepaliveInterval + think
    BY <1>0, <2>0, <2>1, TimesAssumption DEF IdleOK, Client, Session
  <2>3. /\ idleAfter = AtMost(idle + 1, ConnectionTimeout + 1)
        /\ sinceAfter = AtMost(since + 1, KeepaliveInterval + 1)
    BY <1>1
  <2> HIDE DEF idle, since, idleAfter, sinceAfter
  <2>4. /\ idleAfter \in Nat /\ idleAfter <= idle + 1
        /\ sinceAfter <= KeepaliveInterval => sinceAfter = since + 1 /\ since <= KeepaliveInterval
    BY <2>2, <2>3, TimesAssumption DEF AtMost
  <2>5. /\ idleAfter <= KeepaliveInterval + MaxThink
        /\ sinceAfter <= KeepaliveInterval => idleAfter <= sinceAfter
        /\ idleAfter <= KeepaliveInterval + think'
    BY <2>1, <2>2, <2>4, TimesAssumption
  <2> QED
    BY <2>5 DEF idleAfter, sinceAfter
<1> QED
  BY <1>2, <1>3 DEF Undisturbed

\* The client makes of the answer what the server meant by it.
LEMMA ReceiveStep ==
  ASSUME IInv, Receive, inStep'
  PROVE  Undisturbed'
<1> DEFINE m == to_client[1]
           k == client.req
<1>0. /\ client \in Client /\ udp \in Udp /\ session \in Session
      /\ Basic /\ SessionsOK /\ StreamOK /\ ViewsOK /\ GroupOK /\ IdleOK
      /\ UNCHANGED <<session, to_server>> /\ client.pc = "reply"
  BY Known DEF Receive
<1>1. /\ Answering /\ m \in Piece /\ AnswerTo(k, m) /\ to_client' = <<>>
      /\ client'.token = (IF k = "login" /\ m.ok THEN TRUE ELSE client.token)
      /\ client'.room = (IF k \in {"create", "join"} /\ m.ok THEN m.room
                         ELSE IF k = "leave" /\ m.ok THEN NoRoom ELSE client.room)
      /\ k = "create" /\ m.ok => udp' = [udp EXCEPT !.addr = m.room] /\ failed' = failed
      /\ k = "join" /\ m.ok => JoinGroup(m.room)
      /\ k = "leave" /\ m.ok => LeaveGroup
      /\ ~(k \in {"create", "join", "leave"} /\ m.ok) => udp' = udp /\ failed' = failed
  BY <1>0, TakesAnswer
<1>2. client'.pc \in {"top", "stopping"} /\ client'.since = client.since
  <2>1. Head(to_client) \in Piece /\ \E full : Take(Head(to_client), full)
    BY Known DEF Receive
  <2> QED
    BY <1>0, <2>1, TakeMovesOn
<1>3. to_server = <<>>
  BY <1>0, <1>1 DEF StreamOK, Waiting, Answering
<1>4. /\ AnswerComes(k) /\ (Succeeds(k) <=> m.ok)
      /\ \A j : j # k => ~AnswerComes(j) /\ ~Succeeds(j)
  BY <1>1 DEF AnswerComes, Succeeds
<1> HIDE DEF m
<1>5. StreamOK'
  BY <1>0, <1>1, <1>2, <1>3, NoAnswerAfter DEF StreamOK, Waiting
<1>6. ViewsOK'
  <2> SUFFICES ASSUME session.open
               PROVE  /\ client'.token <=> session.state # "AUTHENTICATING"
                      /\ session.state = "IN_ROOM" => client'.room = session.room
    BY <1>0, <1>1, <1>2, <1>3, NoAnswerAfter DEF ViewsOK, Waiting
  <2>1. client'.token <=> session.state # "AUTHENTICATING"
    <3>1. CASE k = "login"
      BY <1>0, <1>1, <1>4, <3>1 DEF ViewsOK, m
    <3>2. CASE k # "login"
      BY <1>0, <1>1, <1>4, <3>2 DEF ViewsOK
    <3> QED
      BY <3>1, <3>2
  <2>2. session.state = "IN_ROOM" => client'.room = session.room
    <3>1. CASE k = "join" /\ m.ok
      BY <1>0, <1>1, <1>4, <3>1 DEF ViewsOK, m
    <3>2. CASE (k = "create" /\ m.ok) \/ k = "leave"
      BY <1>0, <1>1, <1>4, <3>2 DEF ViewsOK
    <3>3. CASE ~(k \in {"create", "join"} /\ m.ok) /\ k # "leave"
      BY <1>0, <1>1, <1>4, <3>3 DEF ViewsOK
    <3> QED
      BY <3>1, <3>2, <3>3
  <2> QED
    BY <2>1, <2>2
<1>7. GroupOK'
  <2> SUFFICES ASSUME session.open, ~failed'
               PROVE  /\ udp'.open
                      /\ udp'.bound = udp'.group
                      /\ udp'.group # NoRoom => udp'.addr = udp'.group
                      /\ udp'.group = (IF session.state = "IN_ROOM" THEN session.room ELSE NoRoom)
    BY <1>0, <1>1, <1>2, NoAnswerAfter DEF GroupOK
  <2>0. ~failed
    BY <1>1 DEF JoinGroup, LeaveGroup
  <2>1. CASE k = "create" /\ m.ok
    <3>1. session.state # "IN_ROOM"
      BY <1>0, <1>4, <2>1 DEF ViewsOK
    <3>2. udp.open /\ udp.group = NoRoom /\ udp.bound = NoRoom
      BY <1>0, <1>4, <2>0, <2>1, <3>1 DEF GroupOK
    <3>3. udp'.open = udp.open /\ udp'.group = udp.group /\ udp'.bound = udp.bound
      BY <1>0, <1>1, <2>1 DEF Udp
    <3> QED
      BY <3>1, <3>2, <3>3
  <2>2. CASE k = "join" /\ m.ok
    <3>1. session.state = "IN_ROOM" /\ session.room = m.room
      BY <1>0, <1>4, <2>2 DEF ViewsOK, m
    <3>2. udp.open /\ udp.bound = NoRoom
      BY <1>0, <1>4, <2>0, <2>2 DEF GroupOK
    <3>3. udp' = [udp EXCEPT !.addr = m.room, !.bound = m.room, !.group = m.room]
      BY <1>0, <1>1, <2>0, <2>2, <3>2 DEF JoinGroup, Udp
    <3>4. udp'.open /\ udp'.group = m.room /\ udp'.bound = m.room /\ udp'.addr = m.room
      BY <1>0, <3>2, <3>3 DEF Udp
    <3> QED
      BY <3>1, <3>4
  <2>3. CASE k = "leave" /\ m.ok
    <3>1. session.state # "IN_ROOM"
      BY <1>0, <1>4, <2>3 DEF ViewsOK
    <3>2. udp.open /\ udp.bound = udp.group /\ (udp.group # NoRoom => udp.addr = udp.group)
      BY <1>0, <2>0 DEF GroupOK
    <3>3. udp'.open /\ udp'.group = NoRoom /\ udp'.bound = NoRoom
      BY <1>0, <1>1, <2>3, <3>2 DEF LeaveGroup, Udp
    <3> QED
      BY <3>1, <3>3
  <2>4. CASE ~(k \in {"create", "join", "leave"} /\ m.ok)
    <3>1. ~Succeeds("join") /\ ~Succeeds("leave") /\ udp' = udp
      BY <1>1, <1>4, <2>4
    <3> QED
      BY <1>0, <2>0, <3>1 DEF GroupOK
  <2> QED
    BY <2>1, <2>2, <2>3, <2>4
<1>8. IdleOK'
  BY <1>0, <1>2, <1>3 DEF IdleOK
<1> QED
  BY <1>5, <1>6, <1>7, <1>8 DEF Undisturbed

\* The server reads one request and answers it, or none is waited for.
LEMMA ServerReadsStep ==
  ASSUME IInv, ServerReads, inStep'
  PROVE  Undisturbed'
<1>0. /\ client \in Client /\ session \in Session /\ think \in 0 .. MaxThink
      /\ Basic /\ SessionsOK /\ StreamOK /\ ViewsOK /\ GroupOK /\ IdleOK /\ session.open
      /\ UNCHANGED <<client, udp, think, failed>>
  BY Known, StaysInStep DEF ServerReads, Basic
<1>1. CASE client.pc # "reply"
  <2>1. /\ to_server' = <<>> /\ to_client' = <<>> /\ to_client = <<>>
        /\ session'.open => /\ session'.state = session.state
                             /\ session'.room = session.room /\ session'.idle = 0
    BY <1>0, <1>1, ReadsUnanswered DEF StreamOK
  <2>2. StreamOK' /\ ViewsOK' /\ GroupOK'
    BY <1>0, <1>1, <2>1, NoAnswerComes, NoAnswerAfter
       DEF StreamOK, ViewsOK, GroupOK, Waiting
  <2>3. IdleOK'
    BY <1>0, <2>1, TimesAssumption DEF IdleOK, Client
  <2> QED
    BY <2>2, <2>3 DEF Undisturbed
<1>2. CASE client.pc = "reply"
  <2> DEFINE m == to_client'[1]
             k == client.req
             was == session.state
  <2>1. Waiting /\ to_client = <<>> /\ k \in Answered
    BY <1>0, <1>2, ReadsRequest
  <2>2. /\ to_server' = <<>> /\ Reply(k)
        /\ session'.open =>
             /\ session'.idle = 0
             /\ k = "login" => m.ok /\ was = "AUTHENTICATING" /\ session'.state = "CONNECTED"
             /\ k = "create" /\ m.ok => was = "CONNECTED"
             /\ k = "join" /\ m.ok => /\ was = "CONNECTED" /\ session'.state = "IN_ROOM"
                                      /\ session'.room = m.room
             /\ k = "leave" /\ m.ok => was = "IN_ROOM" /\ session'.state = "CONNECTED"
             /\ k = "leave" /\ ~m.ok => was # "IN_ROOM"
             /\ ~(k \in {"login", "join", "leave"} /\ m.ok) =>
                  session'.state = session.state /\ session'.room = session.room
    BY <1>0, <1>2, ReadsAnswered
  <2>3. /\ Answering' /\ AnswerComes(k)' /\ (Succeeds(k)' <=> m.ok)
        /\ \A j : j # k => ~AnswerComes(j)' /\ ~Succeeds(j)'
    BY <1>0, <1>2, <2>2 DEF Answering, AnswerComes, Succeeds, Reply
  <2>4. \A j : ~AnswerComes(j) /\ ~Succeeds(j)
    BY <2>1, NoAnswerComes
  <2>5. ~Waiting'
    BY <2>2 DEF Waiting
  <2>6. StreamOK'
    BY <1>0, <1>2, <2>2, <2>3, <2>5 DEF StreamOK, Reply
  <2>7. ViewsOK'
    <3> SUFFICES ASSUME session'.open
                 PROVE  /\ IF k = "login" THEN m.ok /\ session'.state = "CONNECTED"
                           ELSE client.token <=> session'.state # "AUTHENTICATING"
                        /\ ~client.token => k = "login"
                        /\ IF k = "join" /\ m.ok
                           THEN session'.state = "IN_ROOM" /\ session'.room = m.room
                           ELSE session'.state = "IN_ROOM" => client.room = session'.room
                        /\ (k = "create" /\ m.ok) \/ k = "leave" => session'.state # "IN_ROOM"
      BY <1>0, <1>2, <2>3, <2>5 DEF ViewsOK
    <3> HIDE DEF m
    <3>1. /\ client.token <=> session.state # "AUTHENTICATING"
          /\ ~client.token => k = "login"
          /\ session.state = "IN_ROOM" => client.room = session.room
      BY <1>0, <1>2, <2>4 DEF ViewsOK
    <3>2. IF k = "login" THEN m.ok /\ session'.state = "CONNECTED"
          ELSE client.token <=> session'.state # "AUTHENTICATING"
      <4>1. CASE k \in {"join", "leave"} /\ m.ok
        BY <2>2, <3>1, <4>1
      <4>2. CASE ~(k \in {"join", "leave"} /\ m.ok)
        BY <2>2, <3>1, <4>2
      <4> QED
        BY <4>1, <4>2
    <3>3. IF k = "join" /\ m.ok THEN session'.state = "IN_ROOM" /\ session'.room = m.room
          ELSE session'.state = "IN_ROOM" => client.room = session'.room
      BY <2>2, <3>1
    <3>4. (k = "create" /\ m.ok) \/ k = "leave" => session'.state # "IN_ROOM"
      BY <2>2
    <3> QED
      BY <3>1, <3>2, <3>3, <3>4
  <2>8. GroupOK'
    <3> SUFFICES ASSUME session'.open, ~failed
                 PROVE  /\ udp.open
                        /\ udp.bound = udp.group
                        /\ udp.group # NoRoom => udp.addr = udp.group
                        /\ k = "join" /\ m.ok => udp.group = NoRoom
                        /\ ~(k \in {"join", "leave"} /\ m.ok) =>
                             udp.group = (IF session'.state = "IN_ROOM" THEN session'.room ELSE NoRoom)
      BY <1>0, <1>2, <2>3 DEF GroupOK
    <3> HIDE DEF m
    <3>1. /\ udp.open /\ udp.bound = udp.group /\ (udp.group # NoRoom => udp.addr = udp.group)
          /\ udp.group = (IF session.state = "IN_ROOM" THEN session.room ELSE NoRoom)
      BY <1>0, <1>2, <2>4 DEF GroupOK
    <3> QED
      BY <2>2, <3>1
  <2>9. IdleOK'
    BY <1>0, <2>2, TimesAssumption DEF IdleOK, Client
  <2> QED
    BY <2>6, <2>7, <2>8, <2>9 DEF Undisturbed
<1> QED
  BY <1>1, <1>2

-----------------------------------------------------------------------------
(* The invariant, and what it says.                                        *)

LEMMA InitHolds == Init => IInv
<1> SUFFICES ASSUME Init PROVE IInv
  OBVIOUS
<1>1. client \in Client /\ udp \in Udp /\ session \in Session /\ think \in 0 .. MaxThink
  BY TimesAssumption DEF Init, Client, Udp, Session, Place
<1>2. to_server \in Seq(Request) /\ to_client \in Seq(Piece)
  BY EmptySeq DEF Init
<1>3. Basic
  BY <1>1, <1>2, Types DEF Init, Basic, SessionsOK
<1>4. StreamOK
  BY DEF Init, StreamOK, Waiting, Answering, Unanswered
<1>5. ViewsOK /\ GroupOK /\ IdleOK
  BY NoAnswerComes DEF Init, ViewsOK, GroupOK, IdleOK, Waiting
<1> QED
  BY <1>3, <1>4, <1>5 DEF IInv, Undisturbed

LEMMA StepKeeps == IInv /\ [Next]_vars => IInv'
<1> SUFFICES ASSUME IInv, [Next]_vars PROVE IInv'
  OBVIOUS
<1>1. Basic'
  BY TypeStep, SessionsStep DEF IInv, Basic
<1>2. ASSUME inStep' PROVE Undisturbed'
  <2>1. CASE Top
    BY <1>2, <2>1, TopStep
  <2>2. ASSUME NEW k \in Request, Command(k) PROVE Undisturbed'
    BY <1>2, <2>2, CommandStep
  <2>3. CASE OtherLine
    BY <1>2, <2>3, OtherLineStep
  <2>4. CASE Receive
    BY <1>2, <2>4, ReceiveStep
  <2>5. CASE ReceiveNothing
    BY <1>2, <2>5, ReceiveNothingStep
  <2>6. CASE Exit
    BY <1>2, <2>6, ExitStep
  <2>7. CASE Datagram \/ ReceiverRecv
    BY <1>2, <2>7, DatagramStep
  <2>8. CASE ReceiverSelect \/ UNCHANGED vars
    BY <1>2, <2>8, Untouched DEF ReceiverSelect, vars
  <2>9. CASE ServerReads
    BY <1>2, <2>9, ServerReadsStep
  <2>10. CASE PrivateArrives
    BY <1>2, <2>10 DEF PrivateArrives
  <2>11. CASE ServerDrops
    BY <1>2, <2>11, ServerDropsStep
  <2>12. CASE ServerHangs
    BY <1>2, <2>12, ServerHangsStep
  <2>13. CASE Tick
    BY <1>2, <2>13, TickStep
  <2> QED
    BY <2>1, <2>2, <2>3, <2>4, <2>5, <2>6, <2>7, <2>8, <2>9, <2>10, <2>11, <2>12, <2>13
       DEF Next, ClientStep, ReceiverStep, Request
<1> QED
  BY <1>1, <1>2 DEF IInv

LEMMA Invariance == Spec => []IInv
BY InitHolds, StepKeeps, PTL DEF Spec

\* The type invariant: whatever recv cuts off the stream, what is left of a
\* message is never empty.
THEOREM TypeCorrect == Spec => []TypeOK
<1>1. IInv => TypeOK
  BY DEF IInv, Basic
<1> QED
  BY <1>1, Invariance, PTL

\* As long as a client is in step, it agrees with its session on whether it
\* is logged in and, if it is a member of a room, in which.
THEOREM ViewsAgree == Spec => []AgreeInStep
<1>1. IInv => AgreeInStep
  BY NoAnswerComes DEF IInv, Undisturbed, ViewsOK, AgreeInStep, SessionsAgree, Quiet, Waiting
<1> QED
  BY <1>1, Invariance, PTL

\* As long as a client is in step, what it reads while it waits is one whole
\* answer to its request.
THEOREM AnswersAreMatched == Spec => []AnswersMatch
<1>1. IInv => AnswersMatch
  BY DEF IInv, Undisturbed, StreamOK, Answering, AnswerTo, AnswersMatch
<1> QED
  BY <1>1, Invariance, PTL

\* As long as a client is in step and the system has refused it no socket, no
\* first bind and no membership, its socket is in the multicast group of its room and in
\* no other: it is never still bound when the client joins the next room.
THEOREM GroupIsOfRoom == Spec => []GroupFollowsRoom
<1>1. IInv => GroupFollowsRoom
  BY NoAnswerComes DEF IInv, Undisturbed, GroupOK, GroupFollowsRoom, Quiet
<1> QED
  BY <1>1, Invariance, PTL

\* A client in step whose user enters a line at least every MaxThink ticks is
\* not timed out as long as the server reads what it sends, provided that the
\* timeout is no shorter than the keepalive interval and MaxThink together.
THEOREM KeepalivesSuffice ==
  KeepaliveInterval + MaxThink <= ConnectionTimeout => (Spec => []KeptAlive)
<1> SUFFICES ASSUME KeepaliveInterval + MaxThink <= ConnectionTimeout
             PROVE  Spec => []KeptAlive
  OBVIOUS
<1>1. IInv => KeptAlive
  BY Known, TimesAssumption DEF IInv, Undisturbed, IdleOK, KeptAlive, Session
<1> QED
  BY <1>1, Invariance, PTL

-----------------------------------------------------------------------------
(* What the liveness properties of the runs rest on, for every instance.   *)

\* A client in step never waits in vain: its request is on its way to the
\* server, the answer is on its way back, or the server has dropped it.
AnswerUnderWay ==
  inStep /\ client.pc = "reply" => to_server # <<>> \/ to_client # <<>> \/ ~session.open

\* The safety part of RequestsReturn: there is always an end of the stream
\* that can go on, unless the server has hung before it has read the request.
THEOREM NeverWaitsInVain == Spec => []AnswerUnderWay
<1>1. IInv => AnswerUnderWay
  BY DEF IInv, Undisturbed, StreamOK, Waiting, Answering, AnswerUnderWay
<1> QED
  BY <1>1, Invariance, PTL

\* The receiver thread reads from a socket that has something to read, or from
\* none, unless the socket was made anew since select looked at it.
ReceiverNotStuck == receiver = "recv" => udp.data \/ ~udp.open \/ stale

\* The safety part of QuitEnds: a room left while a datagram is being read is
\* the only thing that can keep the receiver thread, and main after it, waiting.
THEOREM OnlyStaleBlocks == Spec => []ReceiverNotStuck
<1>1. Init => ReceiverNotStuck
  BY DEF Init, ReceiverNotStuck
<1>2. IInv /\ ReceiverNotStuck /\ [Next]_vars => ReceiverNotStuck'
  <2> SUFFICES ASSUME IInv, ReceiverNotStuck, [Next]_vars PROVE ReceiverNotStuck'
    OBVIOUS
  <2>0. udp \in Udp /\ stale \in BOOLEAN
    BY Types DEF IInv, Basic
  <2>1. CASE Receive
    <3>1. /\ receiver' = receiver
          /\ \/ udp'.data = udp.data /\ udp'.open = udp.open /\ stale' = stale
             \/ stale' = (receiver = "recv")
             \/ ~udp'.open
      BY <2>0, <2>1 DEF Receive, Take, JoinGroup, LeaveGroup, Udp
    <3> QED
      BY <2>0, <3>1 DEF ReceiverNotStuck
  <2>2. CASE Datagram \/ ReceiverRecv \/ Exit
    BY <2>0, <2>2 DEF Datagram, ReceiverRecv, Exit, ReceiverNotStuck, Udp
  <2>3. CASE ReceiverSelect
    BY <2>0, <2>3 DEF ReceiverSelect, ReceiverNotStuck
  <2>4. CASE UNCHANGED <<udp, receiver, stale>>
    BY <2>4 DEF ReceiverNotStuck
  <2> QED
    BY <2>1, <2>2, <2>3, <2>4
       DEF Next, ClientStep, ReceiverStep, Top, Command, OtherLine, ReceiveNothing, ServerReads,
           PrivateArrives, ServerHangs, ServerDrops, Tick, vars
<1> QED
  BY <1>1, <1>2, Invariance, PTL DEF Spec

=====
