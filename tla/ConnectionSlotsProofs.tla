------------------------ MODULE ConnectionSlotsProofs ------------------------
(***************************************************************************)
(* The invariants of ConnectionSlots, for any number of slots, threads and *)
(* connections.  First the steps, variable by variable: what each of them  *)
(* makes of the fields it sets, and what it leaves as it is; the rest of   *)
(* the proofs uses these facts and not the actions.                        *)
(***************************************************************************)
EXTENDS ConnectionSlots, FiniteSetTheorems, TLAPS

-----------------------------------------------------------------------------
(* Types.                                                                  *)

Client == [is_active : BOOLEAN, socket_fd : Descriptors, silent : BOOLEAN]
MainState == [pc : MainSteps, slot : 0 .. MaxClients + 1, read_fds : SUBSET Descriptors]
Thread == [pc : ThreadSteps, slot : Slots \cup {0}, fd : Descriptors,
           on : Connections \cup {Stdin, Nothing}, set : SUBSET Descriptors,
           timed : BOOLEAN]
PeerStates == {"away", "waiting", "idle", "sent", "closed"}

\* The number of descriptors is a number.
LEMMA NumDescriptors == Cardinality(Connections) \in Nat /\ 0 \in Descriptors
<1>1. Cardinality(Connections) \in Nat
  BY FS_CardinalityType, ConnectionsAssumption
<1> QED
  BY <1>1 DEF Descriptors

\* The type invariant, one function set per variable.
LEMMA Types ==
  ASSUME TypeOK
  PROVE  /\ backlog \in Seq(Connections) /\ peers \in [Connections -> PeerStates]
         /\ files \in [Descriptors -> Connections \cup {Stdin, Nothing}]
         /\ clients \in [Slots -> Client] /\ master_fds \in SUBSET Descriptors
         /\ main \in MainState /\ threads \in [Threads -> Thread]
         /\ client_mutex \in Threads \cup {0} /\ orderly \in BOOLEAN
BY DEF TypeOK, Client, MainState, Thread, PeerStates

\* The type invariant after a step.
LEMMA TypesSuffice ==
  ASSUME backlog' \in Seq(Connections), peers' \in [Connections -> PeerStates],
         files' \in [Descriptors -> Connections \cup {Stdin, Nothing}],
         clients' \in [Slots -> Client], master_fds' \in SUBSET Descriptors,
         main' \in MainState, threads' \in [Threads -> Thread],
         client_mutex' \in Threads \cup {0}, orderly' \in BOOLEAN
  PROVE  TypeOK'
BY DEF TypeOK, Client, MainState, Thread, PeerStates

\* The fields of a slot, and of the local variables.
LEMMA ClientFields ==
  ASSUME NEW cl \in Client
  PROVE  cl.is_active \in BOOLEAN /\ cl.socket_fd \in Descriptors /\ cl.silent \in BOOLEAN
BY DEF Client

\* The fields of the main thread's variables.
LEMMA MainFields ==
  ASSUME NEW m \in MainState
  PROVE  m.pc \in MainSteps /\ m.slot \in 0 .. MaxClients + 1 /\ m.read_fds \subseteq Descriptors
BY DEF MainState

\* The fields of a client thread's variables.
LEMMA ThreadFields ==
  ASSUME NEW th \in Thread
  PROVE  /\ th.pc \in ThreadSteps /\ th.slot \in Slots \cup {0} /\ th.fd \in Descriptors
         /\ th.on \in Connections \cup {Stdin, Nothing} /\ th.set \subseteq Descriptors
         /\ th.timed \in BOOLEAN
BY DEF Thread

-----------------------------------------------------------------------------
(* The steps once more, with the fields they set written out.              *)

SlotWith(a, f, s) == [is_active |-> a, socket_fd |-> f, silent |-> s]
ThreadAt(step, i, f, o, s, b) ==
  [pc |-> step, slot |-> i, fd |-> f, on |-> o, set |-> s, timed |-> b]

SlotBecomes(i, a, f, s) ==
  /\ clients' \in [Slots -> Client]
  /\ clients'[i].is_active = a /\ clients'[i].socket_fd = f /\ clients'[i].silent = s
  /\ \A j \in Slots : j # i => clients'[j] = clients[j]
ThreadBecomes(t, step, i, f, o, s, b) ==
  /\ threads' \in [Threads -> Thread]
  /\ threads'[t].pc = step /\ threads'[t].slot = i /\ threads'[t].fd = f
  /\ threads'[t].on = o /\ threads'[t].set = s /\ threads'[t].timed = b
  /\ \A u \in Threads : u # t => threads'[u] = threads[u]
MainBecomes(step, i, reads) ==
  main' \in MainState /\ main'.pc = step /\ main'.slot = i /\ main'.read_fds = reads
MainGoes(step, i) == MainBecomes(step, i, main.read_fds)
Goes(t, step) ==
  LET th == threads[t]
  IN ThreadBecomes(t, step, th.slot, th.fd, th.on, th.set, th.timed)
Restarts(t, step) ==
  ThreadBecomes(t, step, threads[t].slot, 0, Nothing, {}, FALSE)

\* One slot is replaced.
LEMMA SlotUpdate ==
  ASSUME TypeOK, NEW i \in Slots, NEW a \in BOOLEAN, NEW f \in Descriptors,
         NEW s \in BOOLEAN, clients' = [clients EXCEPT ![i] = SlotWith(a, f, s)]
  PROVE  SlotBecomes(i, a, f, s)
<1>1. SlotWith(a, f, s) \in Client
  BY DEF SlotWith, Client
<1>2. clients' \in [Slots -> Client] /\ clients'[i] = SlotWith(a, f, s)
      /\ \A j \in Slots : j # i => clients'[j] = clients[j]
  BY <1>1, Types
<1> QED
  BY <1>2 DEF SlotBecomes, SlotWith

\* One thread's local variables are replaced.
LEMMA ThreadUpdate ==
  ASSUME TypeOK, NEW t \in Threads, NEW step \in ThreadSteps, NEW i \in Slots \cup {0},
         NEW f \in Descriptors, NEW o \in Connections \cup {Stdin, Nothing},
         NEW s \in SUBSET Descriptors, NEW b \in BOOLEAN,
         threads' = [threads EXCEPT ![t] = ThreadAt(step, i, f, o, s, b)]
  PROVE  ThreadBecomes(t, step, i, f, o, s, b)
<1>1. ThreadAt(step, i, f, o, s, b) \in Thread
  BY DEF ThreadAt, Thread
<1>2. threads' \in [Threads -> Thread] /\ threads'[t] = ThreadAt(step, i, f, o, s, b)
      /\ \A u \in Threads : u # t => threads'[u] = threads[u]
  BY <1>1, Types
<1> QED
  BY <1>2 DEF ThreadBecomes, ThreadAt

\* One connection, or one descriptor, is changed.
PeerBecomes(c, s) ==
  /\ peers' \in [Connections -> PeerStates] /\ peers'[c] = s
  /\ \A d \in Connections : d # c => peers'[d] = peers[d]
FileBecomes(f, x) ==
  /\ files' \in [Descriptors -> Connections \cup {Stdin, Nothing}] /\ files'[f] = x
  /\ \A g \in Descriptors : g # f => files'[g] = files[g]

\* One connection is changed.
LEMMA PeerUpdate ==
  ASSUME TypeOK, NEW c \in Connections, NEW s \in PeerStates, peers' = [peers EXCEPT ![c] = s]
  PROVE  PeerBecomes(c, s)
BY Types DEF PeerBecomes

\* One descriptor is given to a connection.
LEMMA FileUpdate ==
  ASSUME TypeOK, NEW f \in Descriptors, NEW x \in Connections, files' = [files EXCEPT ![f] = x]
  PROVE  FileBecomes(f, x)
BY Types DEF FileBecomes

\* The main thread moves on.
LEMMA MainUpdate ==
  ASSUME TypeOK, NEW step \in MainSteps, NEW i \in 0 .. MaxClients + 1, MainGoto(step, i)
  PROVE  MainGoes(step, i)
<1>1. main \in MainState
  BY Types
<1> QED
  BY <1>1 DEF MainGoto, MainGoes, MainBecomes, MainState

\* Some local variables of a thread are set.
LEMMA ThreadWhole ==
  ASSUME NEW th \in Thread
  PROVE  th = ThreadAt(th.pc, th.slot, th.fd, th.on, th.set, th.timed)
BY DEF Thread, ThreadAt

\* One field set: the step.
LEMMA PcSet ==
  ASSUME NEW th \in Thread, NEW step
  PROVE  [th EXCEPT !.pc = step] = ThreadAt(step, th.slot, th.fd, th.on, th.set, th.timed)
BY DEF Thread, ThreadAt

\* Two fields set: the step and the descriptor.
LEMMA PcFdSet ==
  ASSUME NEW th \in Thread, NEW step, NEW f
  PROVE  [th EXCEPT !.pc = step, !.fd = f] = ThreadAt(step, th.slot, f, th.on, th.set, th.timed)
<1>1. [th EXCEPT !.pc = step] = ThreadAt(step, th.slot, th.fd, th.on, th.set, th.timed)
  BY PcSet
<1>2. [ThreadAt(step, th.slot, th.fd, th.on, th.set, th.timed) EXCEPT !.fd = f] =
        ThreadAt(step, th.slot, f, th.on, th.set, th.timed)
  BY DEF ThreadAt
<1>3. [th EXCEPT !.pc = step, !.fd = f] = [[th EXCEPT !.pc = step] EXCEPT !.fd = f]
  OBVIOUS
<1> QED
  BY <1>1, <1>2, <1>3

\* Three fields set: the step, the descriptor, what it refers to.
LEMMA PcFdOnSet ==
  ASSUME NEW th \in Thread, NEW step, NEW f, NEW o
  PROVE  [th EXCEPT !.pc = step, !.fd = f, !.on = o] =
           ThreadAt(step, th.slot, f, o, th.set, th.timed)
<1>1. [th EXCEPT !.pc = step, !.fd = f] = ThreadAt(step, th.slot, f, th.on, th.set, th.timed)
  BY PcFdSet
<1>2. [ThreadAt(step, th.slot, f, th.on, th.set, th.timed) EXCEPT !.on = o] =
        ThreadAt(step, th.slot, f, o, th.set, th.timed)
  BY DEF ThreadAt
<1>3. [th EXCEPT !.pc = step, !.fd = f, !.on = o] =
        [[th EXCEPT !.pc = step, !.fd = f] EXCEPT !.on = o]
  OBVIOUS
<1> QED
  BY <1>1, <1>2, <1>3

\* Two fields set: the step and the set read by FD_CLR.
LEMMA PcSetSet ==
  ASSUME NEW th \in Thread, NEW step, NEW s
  PROVE  [th EXCEPT !.pc = step, !.set = s] = ThreadAt(step, th.slot, th.fd, th.on, s, th.timed)
<1>1. [th EXCEPT !.pc = step] = ThreadAt(step, th.slot, th.fd, th.on, th.set, th.timed)
  BY PcSet
<1>2. [ThreadAt(step, th.slot, th.fd, th.on, th.set, th.timed) EXCEPT !.set = s] =
        ThreadAt(step, th.slot, th.fd, th.on, s, th.timed)
  BY DEF ThreadAt
<1>3. [th EXCEPT !.pc = step, !.set = s] = [[th EXCEPT !.pc = step] EXCEPT !.set = s]
  OBVIOUS
<1> QED
  BY <1>1, <1>2, <1>3

\* Two fields set: the step and the timeout mark.
LEMMA PcTimedSet ==
  ASSUME NEW th \in Thread, NEW step, NEW b
  PROVE  [th EXCEPT !.pc = step, !.timed = b] = ThreadAt(step, th.slot, th.fd, th.on, th.set, b)
<1>1. [th EXCEPT !.pc = step] = ThreadAt(step, th.slot, th.fd, th.on, th.set, th.timed)
  BY PcSet
<1>2. [ThreadAt(step, th.slot, th.fd, th.on, th.set, th.timed) EXCEPT !.timed = b] =
        ThreadAt(step, th.slot, th.fd, th.on, th.set, b)
  BY DEF ThreadAt
<1>3. [th EXCEPT !.pc = step, !.timed = b] = [[th EXCEPT !.pc = step] EXCEPT !.timed = b]
  OBVIOUS
<1> QED
  BY <1>1, <1>2, <1>3

\* A client thread moves on.
LEMMA GotoUpdate ==
  ASSUME TypeOK, NEW t \in Threads, NEW step \in ThreadSteps, Goto(t, step)
  PROVE  Goes(t, step)
<1> DEFINE th == threads[t]
<1> DEFINE e == ThreadAt(step, th.slot, th.fd, th.on, th.set, th.timed)
<1>1. threads \in [Threads -> Thread] /\ th \in Thread
  BY Types
<1>2. [th EXCEPT !.pc = step] = e
  BY <1>1, PcSet
<1>3. threads' = [threads EXCEPT ![t] = e]
  BY <1>1, <1>2 DEF Goto
<1> QED
  BY <1>1, <1>3, ThreadFields, ThreadUpdate DEF Goes

\* A client thread begins anew.
LEMMA CheckUpdate ==
  ASSUME TypeOK, NEW t \in Threads, NEW step \in ThreadSteps,
         threads' = [threads EXCEPT ![t] = NewThread(step, threads[t].slot)]
  PROVE  Restarts(t, step)
<1>1. threads[t].slot \in Slots \cup {0}
  BY Types, ThreadFields
<1>2. NewThread(step, threads[t].slot) = ThreadAt(step, threads[t].slot, 0, Nothing, {}, FALSE)
  BY DEF NewThread, ThreadAt
<1>3. {} \in SUBSET Descriptors /\ FALSE \in BOOLEAN
      /\ Nothing \in Connections \cup {Stdin, Nothing}
  OBVIOUS
<1> QED
  BY <1>1, <1>2, <1>3, NumDescriptors, ThreadUpdate DEF Restarts

\* last_activity is set.
LEMMA SilentField ==
  ASSUME NEW cl \in Client, NEW s \in BOOLEAN
  PROVE  [cl EXCEPT !.silent = s] = SlotWith(cl.is_active, cl.socket_fd, s)
BY DEF Client, SlotWith

\* A message is received and its sender kept.
Keeps(i) ==
  LET f == clients[i].socket_fd
  IN /\ files[f] \in Connections /\ peers[files[f]] = "sent"
     /\ PeerBecomes(files[f], "idle")
     /\ SlotBecomes(i, clients[i].is_active, f, FALSE)

\* A kept message, field by field.
LEMMA KeptUpdate ==
  ASSUME TypeOK, NEW i \in Slots, Kept(i) PROVE Keeps(i)
<1> DEFINE cl == clients[i]
<1>1. clients \in [Slots -> Client] /\ cl \in Client /\ peers \in [Connections -> PeerStates]
  BY Types
<1>2. [cl EXCEPT !.silent = FALSE] = SlotWith(cl.is_active, cl.socket_fd, FALSE)
  BY <1>1, SilentField
<1>3. clients' = [clients EXCEPT ![i] = SlotWith(cl.is_active, cl.socket_fd, FALSE)]
  BY <1>1, <1>2 DEF Kept
<1>4. SlotBecomes(i, cl.is_active, cl.socket_fd, FALSE)
  BY <1>1, <1>3, ClientFields, SlotUpdate
<1> QED
  BY <1>1, <1>4, PeerUpdate DEF Kept, Keeps, PeerStates

\* What a refused message leaves of its slot.
LEMMA RefusedUpdate ==
  ASSUME TypeOK, NEW i \in Slots, Refused(i) PROVE Keeps(i) \/ UNCHANGED <<peers, clients>>
BY KeptUpdate DEF Refused

\* A descriptor is closed.
Closes(f) ==
  /\ files' \in [Descriptors -> Connections \cup {Stdin, Nothing}] /\ files'[f] = Nothing
  /\ \A g \in Descriptors : g # f => files'[g] = files[g]
  /\ peers' \in [Connections -> PeerStates]
  /\ \A c \in Connections : peers'[c] = IF c = files[f] THEN "away" ELSE peers[c]

\* A close, field by field.
LEMMA CloseUpdate ==
  ASSUME TypeOK, NEW f \in Descriptors, Close(f) PROVE Closes(f)
BY Types DEF Close, Closes, PeerStates

\* What each step does, one fact per variable.
LEMMA ConnectEffect ==
  ASSUME TypeOK, NEW c \in Connections, Connect(c)
  PROVE  /\ peers[c] = "away" /\ PeerBecomes(c, "waiting") /\ backlog' = Append(backlog, c)
         /\ UNCHANGED <<files, clients, master_fds, main, threads, client_mutex, orderly>>
BY PeerUpdate DEF Connect, PeerStates

\* A client sends, or hangs up.
LEMMA TalkEffect ==
  ASSUME TypeOK, NEW c \in Connections, Talk(c)
  PROVE  /\ peers[c] = "idle" /\ (PeerBecomes(c, "sent") \/ PeerBecomes(c, "closed"))
         /\ UNCHANGED <<backlog, files, clients, master_fds, main, threads, client_mutex, orderly>>
BY PeerUpdate DEF Talk, PeerStates

\* A client has been silent for long.
LEMMA TimePassesEffect ==
  ASSUME TypeOK, NEW i \in Slots, TimePasses(i)
  PROVE  /\ clients[i].is_active
         /\ SlotBecomes(i, clients[i].is_active, clients[i].socket_fd, TRUE)
         /\ UNCHANGED <<backlog, peers, files, master_fds, main, threads, client_mutex, orderly>>
<1>1. clients \in [Slots -> Client] /\ clients[i] \in Client
  BY Types
<1>2. [clients[i] EXCEPT !.silent = TRUE] =
      SlotWith(clients[i].is_active, clients[i].socket_fd, TRUE)
  BY <1>1, SilentField
<1>3. clients' = [clients EXCEPT ![i] = SlotWith(clients[i].is_active, clients[i].socket_fd, TRUE)]
  BY <1>1, <1>2 DEF TimePasses
<1>4. SlotBecomes(i, clients[i].is_active, clients[i].socket_fd, TRUE)
  BY <1>1, <1>3, ClientFields, SlotUpdate
<1> QED
  BY <1>4 DEF TimePasses

\* select is called, or fails.
LEMMA SelectEffect ==
  ASSUME TypeOK, Select
  PROVE  /\ main.pc = "select"
         /\ \/ MainBecomes("wait", 0, master_fds)
            \/ MainBecomes("stopped", 0, master_fds) /\ \E f \in master_fds : files[f] = Nothing
         /\ UNCHANGED <<backlog, peers, files, clients, master_fds, threads, client_mutex, orderly>>
BY SizesAssumption, Types DEF Select, MainBecomes, MainState, MainSteps

\* select returns with what is readable.
LEMMA SelectReturnsEffect ==
  ASSUME TypeOK, SelectReturns
  PROVE  /\ main.pc = "wait"
         /\ \/ backlog # <<>> /\ MainBecomes("accept", 1, {f \in main.read_fds : Readable(f)})
            \/ MainBecomes("serve", 1, {f \in main.read_fds : Readable(f)})
         /\ UNCHANGED <<backlog, peers, files, clients, master_fds, threads, client_mutex, orderly>>
<1> DEFINE ready == {f \in main.read_fds : Readable(f)}
<1>1. ready \subseteq Descriptors /\ 1 \in 0 .. MaxClients + 1
  BY SizesAssumption, Types, MainFields
<1> HIDE DEF ready
<1> QED
  BY <1>1 DEF SelectReturns, MainBecomes, MainState, MainSteps, ready

\* A connection is turned away.
LEMMA RejectEffect ==
  ASSUME TypeOK, Reject, backlog # <<>>
  PROVE  /\ main.pc = "accept" /\ MainGoes("serve", 1)
         /\ Head(backlog) \in Connections /\ backlog' = Tail(backlog)
         /\ PeerBecomes(Head(backlog), "away")
         /\ UNCHANGED <<files, clients, master_fds, threads, client_mutex, orderly>>
<1>1. Head(backlog) \in Connections
  BY Types
<1>2. PeerBecomes(Head(backlog), "away")
  BY <1>1, PeerUpdate DEF Reject, PeerStates
<1> QED
  BY <1>1, <1>2, SizesAssumption, MainUpdate DEF Reject, MainSteps

\* A connection gets the first free slot and descriptor.
LEMMA AcceptEffect ==
  ASSUME TypeOK, Accept, backlog # <<>>
  PROVE  /\ main.pc = "accept" /\ Head(backlog) \in Connections
         /\ \E i \in Slots, f \in Descriptors :
              /\ ~clients[i].is_active /\ files[f] = Nothing
              /\ FileBecomes(f, Head(backlog))
              /\ SlotBecomes(i, TRUE, f, FALSE)
              /\ master_fds' = master_fds \cup {f}
              /\ orderly' = (orderly /\ ThreadsOf(i) = {} /\ ~Clearing(f))
              /\ MainGoes("spawn", i)
         /\ PeerBecomes(Head(backlog), "idle")
         /\ backlog' = Tail(backlog)
         /\ UNCHANGED <<threads, client_mutex>>
<1>1. PICK i \in Slots, f \in Descriptors :
        /\ ~clients[i].is_active /\ files[f] = Nothing
        /\ files' = [files EXCEPT ![f] = Head(backlog)]
        /\ clients' = [clients EXCEPT ![i] = SlotWith(TRUE, f, FALSE)]
        /\ master_fds' = master_fds \cup {f}
        /\ orderly' = (orderly /\ ThreadsOf(i) = {} /\ ~Clearing(f))
        /\ MainGoto("spawn", i)
  BY DEF Accept, FreeSlots, FreeDescriptors, SlotWith
<1>2. SlotBecomes(i, TRUE, f, FALSE)
  BY <1>1, SlotUpdate
<1>3. MainGoes("spawn", i)
  BY <1>1, SizesAssumption, MainUpdate DEF Slots, MainSteps
<1>4. Head(backlog) \in Connections
  BY Types
<1>5. PeerBecomes(Head(backlog), "idle") /\ FileBecomes(f, Head(backlog))
  BY <1>1, <1>4, PeerUpdate, FileUpdate DEF Accept, PeerStates
<1> QED
  BY <1>1, <1>2, <1>3, <1>4, <1>5 DEF Accept

\* A thread is made for a slot, or not.
LEMMA SpawnEffect ==
  ASSUME TypeOK, Spawn, main.slot \in Slots
  PROVE  /\ main.pc = "spawn"
         /\ \/ /\ MainGoes("unset", main.slot)
               /\ \E t \in Threads :
                    /\ threads[t].pc = "unused"
                    /\ ThreadBecomes(t, "loop", main.slot, 0, Nothing, {}, FALSE)
            \/ MainGoes("serve", 1) /\ UNCHANGED threads
         /\ UNCHANGED <<backlog, peers, files, clients, master_fds, client_mutex, orderly>>
<1>1. main.slot \in 0 .. MaxClients + 1 /\ 1 \in 0 .. MaxClients + 1
  BY SizesAssumption, Types, MainFields
<1>2. CASE \E t \in Unused :
             /\ threads' = [threads EXCEPT ![t] = NewThread("loop", main.slot)]
             /\ MainGoto("unset", main.slot)
  <2>1. PICK t \in Threads :
          /\ threads[t].pc = "unused"
          /\ threads' = [threads EXCEPT ![t] = ThreadAt("loop", main.slot, 0, Nothing, {}, FALSE)]
          /\ MainGoto("unset", main.slot)
    BY <1>2 DEF Unused, NewThread, ThreadAt
  <2>2. ThreadBecomes(t, "loop", main.slot, 0, Nothing, {}, FALSE)
    BY <2>1, NumDescriptors, ThreadUpdate DEF ThreadSteps
  <2>3. MainGoes("unset", main.slot)
    BY <1>1, <2>1, MainUpdate DEF MainSteps
  <2> QED
    BY <2>1, <2>2, <2>3 DEF Spawn
<1>3. CASE MainGoto("serve", 1) /\ UNCHANGED threads
  BY <1>1, <1>3, MainUpdate DEF MainSteps, Spawn
<1> QED
  BY <1>2, <1>3 DEF Spawn

\* The client of a new thread is taken out of the set.
LEMMA UnsetEffect ==
  ASSUME TypeOK, Unset
  PROVE  /\ main.pc = "unset" /\ MainGoes("serve", 1)
         /\ ClearMaster(clients[main.slot].socket_fd)
         /\ UNCHANGED <<backlog, peers, files, clients, threads, client_mutex>>
BY SizesAssumption, MainUpdate DEF Unset, MainSteps

\* The loop over the selected slots.
LEMMA ServeEffect ==
  ASSUME TypeOK, Serve, main.slot # 0
  PROVE  /\ main.pc = "serve"
         /\ \/ main.slot = MaxClients + 1 /\ MainGoes("sweep", 1)
            \/ main.slot \in Slots /\ Selected(main.slot) /\ MainGoes("recv", main.slot)
            \/ main.slot \in Slots /\ ~Selected(main.slot) /\ MainGoes("serve", main.slot + 1)
         /\ UNCHANGED <<backlog, peers, files, clients, master_fds, threads, client_mutex, orderly>>
<1>1. main.slot \in 0 .. MaxClients + 1
  BY Types, MainFields
<1>2. CASE main.slot = MaxClients + 1
  BY <1>1, <1>2, SizesAssumption, MainUpdate DEF Serve, SlotsDone, MainSteps
<1>3. CASE main.slot \in Slots
  BY <1>1, <1>3, SizesAssumption, MainUpdate DEF Serve, SlotsDone, MainSteps, Slots
<1> QED
  BY <1>1, <1>2, <1>3, SizesAssumption DEF Slots

\* The main thread reads a message.
LEMMA MainReceiveEffect ==
  ASSUME TypeOK, MainReceive, main.slot \in Slots
  PROVE  /\ main.pc = "recv"
         /\ \/ Keeps(main.slot) /\ MainGoes("serve", main.slot + 1)
            \/ Keeps(main.slot) /\ MainGoes("private", main.slot)
            \/ /\ Keeps(main.slot) \/ UNCHANGED <<peers, clients>>
               /\ MainGoes("close", main.slot)
         /\ UNCHANGED <<backlog, files, master_fds, threads, client_mutex, orderly>>
<1>1. main.slot + 1 \in 0 .. MaxClients + 1 /\ main.slot \in 0 .. MaxClients + 1
  BY SizesAssumption DEF Slots
<1> QED
  BY <1>1, KeptUpdate, RefusedUpdate, MainUpdate DEF MainReceive, MainSteps

\* The main thread handles a private message.
LEMMA MainPrivateEffect ==
  ASSUME TypeOK, MainPrivate, main.slot \in Slots
  PROVE  /\ main.pc = "private"
         /\ MainGoes("serve", main.slot + 1) \/ MainGoes("close", main.slot)
         /\ UNCHANGED <<backlog, peers, files, clients, master_fds, threads, client_mutex, orderly>>
<1>1. main.slot + 1 \in 0 .. MaxClients + 1 /\ main.slot \in 0 .. MaxClients + 1
  BY SizesAssumption DEF Slots
<1> QED
  BY <1>1, MainUpdate DEF MainPrivate, MainSteps

\* The timeout sweep.
LEMMA SweepEffect ==
  ASSUME TypeOK, Sweep, main.slot # 0
  PROVE  /\ main.pc = "sweep"
         /\ \/ main.slot = MaxClients + 1 /\ MainGoes("select", 0) /\ UNCHANGED orderly
            \/ /\ main.slot \in Slots /\ Late(main.slot) /\ MainGoes("sweep_close", main.slot)
               /\ orderly' = (orderly /\ ThreadsOf(main.slot) = {})
            \/ /\ main.slot \in Slots /\ MainGoes("sweep", main.slot + 1)
               /\ UNCHANGED orderly
         /\ UNCHANGED <<backlog, peers, files, clients, master_fds, threads, client_mutex>>
<1>1. main.slot \in 0 .. MaxClients + 1 /\ orderly \in BOOLEAN
  BY Types, MainFields
<1>2. CASE main.slot = MaxClients + 1
  BY <1>1, <1>2, SizesAssumption, MainUpdate DEF Sweep, SlotsDone, MainSteps
<1>3. CASE main.slot \in Slots
  BY <1>1, <1>3, SizesAssumption, MainUpdate DEF Sweep, SlotsDone, MainSteps, Slots
<1> QED
  BY <1>1, <1>2, <1>3, SizesAssumption DEF Slots

\* The main thread closes a client's socket.
LEMMA MainCloseEffect ==
  ASSUME TypeOK, MainClose, main.slot \in Slots
  PROVE  /\ \/ main.pc = "close" /\ MainGoes("clear", main.slot)
            \/ main.pc = "sweep_close" /\ MainGoes("sweep_clear", main.slot)
         /\ Closes(clients[main.slot].socket_fd)
         /\ UNCHANGED <<backlog, clients, master_fds, threads, client_mutex, orderly>>
<1>1. main.slot \in 0 .. MaxClients + 1 /\ clients[main.slot].socket_fd \in Descriptors
  BY Types, MainFields, ClientFields
<1> QED
  BY <1>1, CloseUpdate, MainUpdate DEF MainClose, MainSteps

\* The main thread clears a slot.
LEMMA MainClearEffect ==
  ASSUME TypeOK, MainClear, main.slot \in Slots
  PROVE  /\ \/ main.pc = "clear" /\ MainGoes("serve", main.slot + 1)
            \/ main.pc = "sweep_clear" /\ MainGoes("sweep", main.slot + 1)
         /\ ClearMaster(clients[main.slot].socket_fd)
         /\ SlotBecomes(main.slot, FALSE, 0, TRUE)
         /\ UNCHANGED <<backlog, peers, files, threads, client_mutex>>
<1>1. main.slot + 1 \in 0 .. MaxClients + 1
  BY SizesAssumption DEF Slots
<1>2. SlotBecomes(main.slot, FALSE, 0, TRUE)
  BY NumDescriptors, SlotUpdate DEF MainClear, Cleared, SlotWith
<1> QED
  BY <1>1, <1>2, MainUpdate DEF MainClear, MainSteps

\* A client thread begins its loop, or ends.
LEMMA LoopEffect ==
  ASSUME TypeOK, NEW t \in Threads, Loop(t)
  PROVE  /\ threads[t].pc = "loop"
         /\ \/ Goes(t, "watch") /\ clients[threads[t].slot].is_active
            \/ Goes(t, "ended") /\ (main.pc = "stopped" \/ ~clients[threads[t].slot].is_active)
         /\ UNCHANGED <<backlog, peers, files, clients, master_fds, main, client_mutex, orderly>>
BY GotoUpdate DEF Loop, ThreadSteps

\* A client thread selects on its socket.
LEMMA WatchEffect ==
  ASSUME TypeOK, NEW t \in Threads, Watch(t), threads[t].slot \in Slots
  PROVE  LET th == threads[t]
             f == clients[th.slot].socket_fd
         IN /\ th.pc = "watch"
            /\ \/ files[f] = Nothing /\ Restarts(t, "check")
               \/ /\ files[f] # Nothing
                  /\ ThreadBecomes(t, "wait", th.slot, f, files[f], th.set, th.timed)
            /\ UNCHANGED <<backlog, peers, files, clients, master_fds, main, client_mutex, orderly>>
<1> DEFINE th == threads[t]
<1> DEFINE f == clients[th.slot].socket_fd
<1> DEFINE e == ThreadAt("wait", th.slot, f, files[f], th.set, th.timed)
<1>1. threads \in [Threads -> Thread] /\ th \in Thread /\ f \in Descriptors
      /\ files[f] \in Connections \cup {Stdin, Nothing}
  BY Types, ClientFields
<1>2. CASE files[f] = Nothing
  BY <1>2, CheckUpdate DEF Watch, Check, ThreadSteps
<1>3. CASE files[f] # Nothing
  <2>1. [th EXCEPT !.pc = "wait", !.fd = f, !.on = files[f]] = e
    BY <1>1, PcFdOnSet
  <2>2. threads' = [threads EXCEPT ![t] = e]
    BY <1>1, <1>3, <2>1 DEF Watch
  <2>8. /\ "wait" \in ThreadSteps /\ th.slot \in Slots \cup {0} /\ th.fd \in Descriptors
       /\ th.on \in Connections \cup {Stdin, Nothing} /\ th.set \in SUBSET Descriptors
       /\ th.timed \in BOOLEAN
    BY <1>1, ThreadFields DEF ThreadSteps
  <2>3. ThreadBecomes(t, "wait", th.slot, f, files[f], th.set, th.timed)
    BY <1>1, <2>2, <2>8, ThreadUpdate
  <2> QED
    BY <1>3, <2>3 DEF Watch
<1> QED
  BY <1>2, <1>3

\* Its select returns.
LEMMA WakeEffect ==
  ASSUME TypeOK, NEW t \in Threads, Wake(t)
  PROVE  LET th == threads[t]
         IN /\ th.pc = "wait"
            /\ \/ Restarts(t, "check")
               \/ /\ files[th.fd] = th.on => Readable(th.fd) \/ th.on = Stdin
                  /\ clients[th.slot].socket_fd = th.fd /\ Restarts(t, "lock")
            /\ UNCHANGED <<backlog, peers, files, clients, master_fds, main, client_mutex, orderly>>
BY CheckUpdate DEF Wake, Check, ThreadSteps

\* It gets client_mutex.
LEMMA LockEffect ==
  ASSUME TypeOK, NEW t \in Threads, Lock(t)
  PROVE  /\ client_mutex = 0 /\ client_mutex' = t
         /\ \/ threads[t].pc = "lock" /\ Goes(t, "recv")
            \/ threads[t].pc = "timeout_lock" /\ Goes(t, "close")
         /\ UNCHANGED <<backlog, peers, files, clients, master_fds, main, orderly>>
BY GotoUpdate DEF Lock, ThreadSteps

\* It reads a message.
LEMMA ThreadReceiveEffect ==
  ASSUME TypeOK, NEW t \in Threads, ThreadReceive(t), threads[t].slot \in Slots
  PROVE  /\ threads[t].pc = "recv"
         /\ \/ Keeps(threads[t].slot) /\ Goes(t, "unlock")
            \/ Keeps(threads[t].slot) /\ Goes(t, "private")
            \/ /\ Keeps(threads[t].slot) \/ UNCHANGED <<peers, clients>>
               /\ Goes(t, "close")
         /\ UNCHANGED <<backlog, files, master_fds, main, client_mutex, orderly>>
BY GotoUpdate, KeptUpdate, RefusedUpdate DEF ThreadReceive, ThreadSteps

\* It closes its socket.
LEMMA ThreadCloseEffect ==
  ASSUME TypeOK, NEW t \in Threads, ThreadClose(t), threads[t].slot \in Slots
  PROVE  LET th == threads[t]
             f == clients[th.slot].socket_fd
         IN /\ th.pc = "close" /\ Closes(f)
            /\ ThreadBecomes(t, "clear", th.slot, f, th.on, th.set, th.timed)
            /\ UNCHANGED <<backlog, clients, master_fds, main, client_mutex, orderly>>
<1> DEFINE th == threads[t]
<1> DEFINE f == clients[th.slot].socket_fd
<1> DEFINE e == ThreadAt("clear", th.slot, f, th.on, th.set, th.timed)
<1>1. threads \in [Threads -> Thread] /\ th \in Thread /\ f \in Descriptors
  BY Types, ClientFields
<1>2. [th EXCEPT !.pc = "clear", !.fd = f] = e
  BY <1>1, PcFdSet
<1>3. threads' = [threads EXCEPT ![t] = e]
  BY <1>1, <1>2 DEF ThreadClose
<1>8. /\ "clear" \in ThreadSteps /\ th.slot \in Slots \cup {0} /\ th.fd \in Descriptors
     /\ th.on \in Connections \cup {Stdin, Nothing} /\ th.set \in SUBSET Descriptors
     /\ th.timed \in BOOLEAN
  BY <1>1, ThreadFields DEF ThreadSteps
<1>4. ThreadBecomes(t, "clear", th.slot, f, th.on, th.set, th.timed)
  BY <1>1, <1>3, <1>8, ThreadUpdate
<1> QED
  BY <1>1, <1>4, CloseUpdate DEF ThreadClose

\* It reads master_fds.
LEMMA ThreadClearEffect ==
  ASSUME TypeOK, NEW t \in Threads, ThreadClear(t)
  PROVE  LET th == threads[t]
         IN /\ th.pc = "clear"
            /\ ThreadBecomes(t, "zero", th.slot, th.fd, th.on, master_fds, th.timed)
            /\ UNCHANGED <<backlog, peers, files, clients, master_fds, main, client_mutex, orderly>>
<1> DEFINE th == threads[t]
<1> DEFINE e == ThreadAt("zero", th.slot, th.fd, th.on, master_fds, th.timed)
<1>1. threads \in [Threads -> Thread] /\ th \in Thread /\ master_fds \in SUBSET Descriptors
  BY Types
<1>2. [th EXCEPT !.pc = "zero", !.set = master_fds] = e
  BY <1>1, PcSetSet
<1>3. threads' = [threads EXCEPT ![t] = e]
  BY <1>1, <1>2 DEF ThreadClear
<1>8. /\ "zero" \in ThreadSteps /\ th.slot \in Slots \cup {0} /\ th.fd \in Descriptors
     /\ th.on \in Connections \cup {Stdin, Nothing} /\ th.set \in SUBSET Descriptors
     /\ th.timed \in BOOLEAN
  BY <1>1, ThreadFields DEF ThreadSteps
<1>4. ThreadBecomes(t, "zero", th.slot, th.fd, th.on, master_fds, th.timed)
  BY <1>1, <1>3, <1>8, ThreadUpdate
<1> QED
  BY <1>4 DEF ThreadClear

\* It writes master_fds back and clears its slot.
LEMMA ThreadZeroEffect ==
  ASSUME TypeOK, NEW t \in Threads, ThreadZero(t), threads[t].slot \in Slots
  PROVE  LET th == threads[t]
         IN /\ th.pc = "zero" /\ master_fds' = th.set \ {th.fd}
            /\ SlotBecomes(th.slot, FALSE, 0, TRUE)
            /\ ThreadBecomes(t, "unlock", th.slot, 0, Nothing, {}, th.timed)
            /\ UNCHANGED <<backlog, peers, files, main, client_mutex, orderly>>
<1> DEFINE th == threads[t]
<1> DEFINE e == ThreadAt("unlock", th.slot, 0, Nothing, {}, th.timed)
<1>1. threads \in [Threads -> Thread] /\ th \in Thread
  BY Types
<1>2. [NewThread("unlock", th.slot) EXCEPT !.timed = th.timed] = e
  BY DEF NewThread, ThreadAt
<1>3. threads' = [threads EXCEPT ![t] = e]
  BY <1>2 DEF ThreadZero
<1>4. th.timed \in BOOLEAN /\ {} \in SUBSET Descriptors
  BY <1>1, ThreadFields
<1>5. ThreadBecomes(t, "unlock", th.slot, 0, Nothing, {}, th.timed)
  BY <1>3, <1>4, NumDescriptors, ThreadUpdate DEF ThreadSteps
<1>6. SlotBecomes(th.slot, FALSE, 0, TRUE)
  BY NumDescriptors, SlotUpdate DEF ThreadZero, Cleared, SlotWith
<1> QED
  BY <1>5, <1>6 DEF ThreadZero

\* It gives client_mutex back.
LEMMA UnlockEffect ==
  ASSUME TypeOK, NEW t \in Threads, Unlock(t)
  PROVE  /\ threads[t].pc = "unlock" /\ client_mutex' = 0
         /\ \/ Goes(t, "ended") /\ threads[t].timed
            \/ Goes(t, "check")
         /\ UNCHANGED <<backlog, peers, files, clients, master_fds, main, orderly>>
BY GotoUpdate DEF Unlock, ThreadSteps

\* It checks the timeout.
LEMMA CheckTimeoutEffect ==
  ASSUME TypeOK, NEW t \in Threads, CheckTimeout(t)
  PROVE  LET th == threads[t]
         IN /\ th.pc = "check"
            /\ \/ /\ Late(th.slot)
                  /\ ThreadBecomes(t, "timeout_lock", th.slot, th.fd, th.on, th.set, TRUE)
               \/ Goes(t, "loop")
            /\ UNCHANGED <<backlog, peers, files, clients, master_fds, main, client_mutex, orderly>>
<1> DEFINE th == threads[t]
<1> DEFINE e == ThreadAt("timeout_lock", th.slot, th.fd, th.on, th.set, TRUE)
<1>1. threads \in [Threads -> Thread] /\ th \in Thread
  BY Types
<1>2. CASE Late(th.slot)
  <2>1. [th EXCEPT !.pc = "timeout_lock", !.timed = TRUE] = e
    BY <1>1, PcTimedSet
  <2>2. threads' = [threads EXCEPT ![t] = e]
    BY <1>1, <1>2, <2>1 DEF CheckTimeout
  <2>8. /\ "timeout_lock" \in ThreadSteps /\ th.slot \in Slots \cup {0} /\ th.fd \in Descriptors
       /\ th.on \in Connections \cup {Stdin, Nothing} /\ th.set \in SUBSET Descriptors
       /\ th.timed \in BOOLEAN
    BY <1>1, ThreadFields DEF ThreadSteps
  <2>3. ThreadBecomes(t, "timeout_lock", th.slot, th.fd, th.on, th.set, TRUE)
    BY <1>1, <2>2, <2>8, ThreadUpdate
  <2> QED
    BY <1>2, <2>3 DEF CheckTimeout
<1>3. CASE ~Late(th.slot)
  BY <1>3, GotoUpdate DEF CheckTimeout, ThreadSteps
<1> QED
  BY <1>2, <1>3

-----------------------------------------------------------------------------
(* What holds whatever the agents do to one another.                       *)

\* Whoever works on a slot works on one there is, and accept has something
\* to accept.
StepsOK ==
  /\ main.pc \in {"spawn", "unset", "recv", "private", "close", "clear", "sweep_close",
                   "sweep_clear"}
       => main.slot \in Slots
  /\ main.pc \in {"serve", "sweep"} => main.slot # 0
  /\ main.pc = "accept" => backlog # <<>>
  /\ \A t \in Threads : Alive(t) => threads[t].slot \in Slots

\* A thread handles a message or drops its client with client_mutex held.
MutexOK ==
  \A t \in Threads :
    threads[t].pc \in {"recv", "private", "close", "clear", "zero", "unlock"} => client_mutex = t

\* A connection waits once, or is open once.
PeersOK ==
  /\ \A k \in 1 .. Len(backlog) : peers[backlog[k]] = "waiting"
  /\ \A j, k \in 1 .. Len(backlog) : backlog[j] = backlog[k] => j = k
  /\ \A f \in Descriptors :
       files[f] \in Connections => peers[files[f]] \in {"idle", "sent", "closed"}
  /\ \A f, g \in Descriptors : files[f] \in Connections /\ files[f] = files[g] => f = g

\* A free slot holds descriptor 0.
FreeOK == \A i \in Slots : clients[i].is_active \/ clients[i].socket_fd = 0

Basic == TypeOK /\ StepsOK /\ MutexOK /\ PeersOK /\ FreeOK

-----------------------------------------------------------------------------
(* Basic is inductive.  First, conjunct by conjunct, what keeps it.        *)

\* Thread t goes to one of the steps in P.
ThreadMoves(t, P) ==
  /\ threads' \in [Threads -> Thread]
  /\ threads'[t].slot = threads[t].slot /\ threads'[t].pc \in P
  /\ \A u \in Threads : u # t => threads'[u] = threads[u]

\* A thread whose variables are replaced moves.
LEMMA BecomesMoves ==
  ASSUME NEW t \in Threads, NEW step, NEW f, NEW o, NEW s, NEW b, NEW P, step \in P,
         ThreadBecomes(t, step, threads[t].slot, f, o, s, b)
  PROVE  ThreadMoves(t, P)
BY DEF ThreadBecomes, ThreadMoves

\* StepsOK, in a step of the main thread.
LEMMA StepsKeptByMain ==
  ASSUME StepsOK, UNCHANGED threads,
         main'.pc \in {"spawn", "unset", "recv", "private", "close", "clear", "sweep_close",
                       "sweep_clear"}
           => main'.slot \in Slots,
         main'.pc \in {"serve", "sweep"} => main'.slot # 0,
         main'.pc = "accept" => backlog' # <<>>
  PROVE  StepsOK'
<1>1. \A t \in Threads : Alive(t)' => threads'[t].slot \in Slots
  BY DEF StepsOK, Alive
<1> QED
  BY <1>1 DEF StepsOK, Slots

\* StepsOK, in a step of a client thread.
LEMMA StepsKeptByThread ==
  ASSUME StepsOK, NEW t \in Threads, Alive(t), NEW P, ThreadMoves(t, P),
         UNCHANGED <<backlog, main>>
  PROVE  StepsOK'
<1>1. \A u \in Threads : Alive(u)' => threads'[u].slot \in Slots
  BY DEF StepsOK, ThreadMoves, Alive
<1> QED
  BY <1>1 DEF StepsOK, Slots

\* MutexOK, in a step without a client thread.
LEMMA MutexKept ==
  ASSUME MutexOK, UNCHANGED <<threads, client_mutex>>
  PROVE  MutexOK'
BY DEF MutexOK

\* MutexOK, in a step of the thread that has the mutex, takes it, or has not.
LEMMA MutexKeptByThread ==
  ASSUME MutexOK, NEW t \in Threads, NEW P, ThreadMoves(t, P),
         threads'[t].pc \in {"recv", "private", "close", "clear", "zero", "unlock"} => client_mutex' = t,
         client_mutex' = client_mutex \/ client_mutex \in {0, t}
  PROVE  MutexOK'
<1> SUFFICES ASSUME NEW u \in Threads,
                    threads'[u].pc \in {"recv", "private", "close", "clear", "zero", "unlock"}
             PROVE  client_mutex' = u
  BY DEF MutexOK
<1>1. CASE u = t
  BY <1>1
<1>2. CASE u # t
  <2>1. client_mutex = u
    BY <1>2 DEF MutexOK, ThreadMoves
  <2> QED
    BY <1>2, <2>1 DEF Threads
<1> QED
  BY <1>1, <1>2

\* FreeOK, in a step that touches no slot.
LEMMA FreeKept ==
  ASSUME FreeOK, UNCHANGED clients
  PROVE  FreeOK'
BY DEF FreeOK

\* FreeOK, in a step that fills in or clears one slot.
LEMMA FreeKeptBySlot ==
  ASSUME FreeOK, NEW i \in Slots, NEW a, NEW f, NEW s, SlotBecomes(i, a, f, s),
         a = TRUE \/ f = 0 \/ (a = clients[i].is_active /\ f = clients[i].socket_fd)
  PROVE  FreeOK'
BY DEF FreeOK, SlotBecomes

\* PeersOK, in a step that moves no connection.
LEMMA PeersKept ==
  ASSUME PeersOK, UNCHANGED <<backlog, peers, files>>
  PROVE  PeersOK'
BY DEF PeersOK

\* An open connection sends something, or is read from.
LEMMA PeersKeptByTalk ==
  ASSUME TypeOK, PeersOK, NEW c \in Connections, peers[c] # "waiting",
         NEW s \in {"idle", "sent", "closed"}, PeerBecomes(c, s), UNCHANGED <<backlog, files>>
  PROVE  PeersOK'
<1>1. \A k \in 1 .. Len(backlog) : backlog[k] \in Connections
  BY Types
<1>2. \A k \in 1 .. Len(backlog) : peers'[backlog[k]] = "waiting"
  BY <1>1 DEF PeersOK, PeerBecomes
<1>3. \A f \in Descriptors :
        files[f] \in Connections => peers'[files[f]] \in {"idle", "sent", "closed"}
  BY DEF PeersOK, PeerBecomes
<1> QED
  BY <1>2, <1>3 DEF PeersOK

\* PeersOK, when a message has been read.
LEMMA PeersKeptByKeeps ==
  ASSUME TypeOK, PeersOK, NEW i \in Slots, Keeps(i), UNCHANGED <<backlog, files>>
  PROVE  PeersOK'
<1>1. files[clients[i].socket_fd] \in Connections
  BY DEF Keeps
<1> QED
  BY <1>1, PeersKeptByTalk DEF Keeps

\* PeersOK, when a client connects: it did not wait and had no socket.
LEMMA PeersKeptByConnect ==
  ASSUME TypeOK, PeersOK, NEW c \in Connections, peers[c] = "away",
         PeerBecomes(c, "waiting"), backlog' = Append(backlog, c), UNCHANGED files
  PROVE  PeersOK'
<1>1. backlog \in Seq(Connections)
  BY Types
<1>2. /\ Len(backlog') = Len(backlog) + 1 /\ Len(backlog) \in Nat
      /\ backlog'[Len(backlog) + 1] = c
      /\ \A k \in 1 .. Len(backlog) : backlog'[k] = backlog[k]
      /\ \A k \in 1 .. Len(backlog) : backlog[k] \in Connections
  BY <1>1
<1>3. \A k \in 1 .. Len(backlog) : backlog[k] # c
  BY DEF PeersOK
<1>4. \A k \in 1 .. Len(backlog') :
        \/ k = Len(backlog) + 1 /\ backlog'[k] = c
        \/ k \in 1 .. Len(backlog) /\ backlog'[k] = backlog[k]
  BY <1>2
<1>5. \A k \in 1 .. Len(backlog') : peers'[backlog'[k]] = "waiting"
  BY <1>2, <1>3, <1>4 DEF PeersOK, PeerBecomes
<1>6. \A j, k \in 1 .. Len(backlog') : backlog'[j] = backlog'[k] => j = k
  BY <1>3, <1>4 DEF PeersOK
<1>7. \A f \in Descriptors :
        files[f] \in Connections => peers'[files[f]] \in {"idle", "sent", "closed"}
  BY DEF PeersOK, PeerBecomes
<1> QED
  BY <1>5, <1>6, <1>7 DEF PeersOK

\* What is left of the backlog when its first connection has been taken.
LEMMA TailWaits ==
  ASSUME TypeOK, PeersOK, backlog # <<>>, backlog' = Tail(backlog),
         NEW s, PeerBecomes(Head(backlog), s)
  PROVE  /\ \A k \in 1 .. Len(backlog') : peers'[backlog'[k]] = "waiting"
         /\ \A j, k \in 1 .. Len(backlog') : backlog'[j] = backlog'[k] => j = k
         /\ Head(backlog) \in Connections /\ peers[Head(backlog)] = "waiting"
<1>1. backlog \in Seq(Connections)
  BY Types
<1>2. /\ Len(backlog') = Len(backlog) - 1 /\ Len(backlog) \in Nat \ {0}
      /\ \A k \in 1 .. Len(backlog') : backlog'[k] = backlog[k + 1]
      /\ \A k \in 1 .. Len(backlog) : backlog[k] \in Connections
      /\ Head(backlog) = backlog[1]
  BY <1>1
<1>3. \A k \in 1 .. Len(backlog') : k + 1 \in 1 .. Len(backlog) /\ k + 1 # 1
  BY <1>2
<1>4. Head(backlog) \in Connections /\ peers[Head(backlog)] = "waiting"
  BY <1>2 DEF PeersOK
<1>5. \A k \in 1 .. Len(backlog') : backlog[k + 1] # Head(backlog)
  BY <1>2, <1>3 DEF PeersOK
<1>6. \A k \in 1 .. Len(backlog') : peers'[backlog'[k]] = "waiting"
  BY <1>2, <1>3, <1>5 DEF PeersOK, PeerBecomes
<1>7. \A j, k \in 1 .. Len(backlog') : backlog'[j] = backlog'[k] => j = k
  <2> SUFFICES ASSUME NEW j \in 1 .. Len(backlog'), NEW k \in 1 .. Len(backlog'),
                      backlog'[j] = backlog'[k]
               PROVE  j = k
    OBVIOUS
  <2>1. j + 1 = k + 1
    BY <1>2, <1>3 DEF PeersOK
  <2> QED
    BY <2>1
<1> QED
  BY <1>4, <1>6, <1>7

\* PeersOK, when the first connection that waits is turned away.
LEMMA PeersKeptByReject ==
  ASSUME TypeOK, PeersOK, backlog # <<>>, backlog' = Tail(backlog),
         PeerBecomes(Head(backlog), "away"), UNCHANGED files
  PROVE  PeersOK'
<1>1. \A f \in Descriptors :
        files[f] \in Connections => peers'[files[f]] \in {"idle", "sent", "closed"}
  BY TailWaits DEF PeersOK, PeerBecomes
<1> QED
  BY <1>1, TailWaits DEF PeersOK

\* PeersOK, when the first connection that waits is accepted.
LEMMA PeersKeptByAccept ==
  ASSUME TypeOK, PeersOK, backlog # <<>>, backlog' = Tail(backlog),
         PeerBecomes(Head(backlog), "idle"),
         NEW f \in Descriptors, FileBecomes(f, Head(backlog))
  PROVE  PeersOK'
<1>1. Head(backlog) \in Connections /\ peers[Head(backlog)] = "waiting"
  BY TailWaits
<1>2. \A g \in Descriptors : files[g] # Head(backlog)
  BY <1>1 DEF PeersOK
<1>3. \A g \in Descriptors :
        files'[g] \in Connections => peers'[files'[g]] \in {"idle", "sent", "closed"}
  BY <1>1, <1>2 DEF PeersOK, PeerBecomes, FileBecomes
<1>4. \A g, h \in Descriptors : files'[g] \in Connections /\ files'[g] = files'[h] => g = h
  BY <1>2 DEF PeersOK, FileBecomes
<1>5. /\ \A k \in 1 .. Len(backlog') : peers'[backlog'[k]] = "waiting"
      /\ \A j, k \in 1 .. Len(backlog') : backlog'[j] = backlog'[k] => j = k
  BY TailWaits
<1> QED
  BY <1>3, <1>4, <1>5 DEF PeersOK

\* PeersOK, when a descriptor is closed.
LEMMA PeersKeptByClose ==
  ASSUME TypeOK, PeersOK, NEW f \in Descriptors, Closes(f), UNCHANGED backlog
  PROVE  PeersOK'
<1>1. Nothing \notin Connections
  BY ConnectionsAssumption
<1>2. \A k \in 1 .. Len(backlog) : backlog[k] \in Connections /\ backlog[k] # files[f]
  BY Types DEF PeersOK
<1>3. \A k \in 1 .. Len(backlog) : peers'[backlog[k]] = "waiting"
  BY <1>2 DEF PeersOK, Closes
<1>4. \A g \in Descriptors : files'[g] \in Connections => g # f /\ files'[g] = files[g]
  BY <1>1 DEF Closes
<1>5. \A g \in Descriptors :
        files'[g] \in Connections => peers'[files'[g]] \in {"idle", "sent", "closed"}
  BY <1>4 DEF PeersOK, Closes
<1>6. \A g, h \in Descriptors : files'[g] \in Connections /\ files'[g] = files'[h] => g = h
  BY <1>4 DEF PeersOK
<1> QED
  BY <1>3, <1>5, <1>6 DEF PeersOK

-----------------------------------------------------------------------------
(* Then, action by action.                                                 *)

\* Basic, after Connect.
LEMMA ConnectBasic ==
  ASSUME Basic, NEW c \in Connections, Connect(c)
  PROVE  Basic'
<1>1. TypeOK /\ StepsOK /\ MutexOK /\ PeersOK /\ FreeOK
  BY DEF Basic
<1>2. /\ peers[c] = "away" /\ PeerBecomes(c, "waiting") /\ backlog' = Append(backlog, c)
      /\ UNCHANGED <<files, clients, master_fds, main, threads, client_mutex, orderly>>
  BY <1>1, ConnectEffect
<1>3. backlog' \in Seq(Connections) /\ backlog' # <<>>
  BY <1>1, <1>2, Types
<1>4. TypeOK'
  BY <1>1, <1>2, <1>3, Types, TypesSuffice DEF PeerBecomes
<1>5. StepsOK'
  BY <1>1, <1>2, <1>3, StepsKeptByMain DEF StepsOK
<1>6. MutexOK' /\ FreeOK' /\ PeersOK'
  BY <1>1, <1>2, MutexKept, FreeKept, PeersKeptByConnect
<1> QED
  BY <1>4, <1>5, <1>6 DEF Basic

\* Basic, after Talk.
LEMMA TalkBasic ==
  ASSUME Basic, NEW c \in Connections, Talk(c)
  PROVE  Basic'
<1>1. TypeOK /\ StepsOK /\ MutexOK /\ PeersOK /\ FreeOK
  BY DEF Basic
<1>2. /\ peers[c] = "idle" /\ (PeerBecomes(c, "sent") \/ PeerBecomes(c, "closed"))
      /\ UNCHANGED <<backlog, files, clients, master_fds, main, threads, client_mutex, orderly>>
  BY <1>1, TalkEffect
<1>3. peers' \in [Connections -> PeerStates]
  BY <1>2 DEF PeerBecomes
<1>4. TypeOK'
  BY <1>1, <1>2, <1>3, Types, TypesSuffice
<1>5. StepsOK'
  BY <1>1, <1>2, StepsKeptByMain DEF StepsOK
<1>6. MutexOK' /\ FreeOK' /\ PeersOK'
  BY <1>1, <1>2, MutexKept, FreeKept, PeersKeptByTalk
<1> QED
  BY <1>4, <1>5, <1>6 DEF Basic

\* Basic, after TimePasses.
LEMMA TimePassesBasic ==
  ASSUME Basic, NEW i \in Slots, TimePasses(i)
  PROVE  Basic'
<1>1. TypeOK /\ StepsOK /\ MutexOK /\ PeersOK /\ FreeOK
  BY DEF Basic
<1>2. SlotBecomes(i, clients[i].is_active, clients[i].socket_fd, TRUE)
  BY <1>1, TimePassesEffect
<1>3. UNCHANGED <<backlog, peers, files, master_fds, main, threads, client_mutex, orderly>>
  BY <1>1, TimePassesEffect
<1>4. TypeOK'
  BY <1>1, <1>2, <1>3, Types, TypesSuffice DEF SlotBecomes
<1>5. StepsOK'
  BY <1>1, <1>3, StepsKeptByMain DEF StepsOK
<1>6. MutexOK' /\ FreeOK' /\ PeersOK'
  BY <1>1, <1>2, <1>3, MutexKept, FreeKeptBySlot, PeersKept
<1> QED
  BY <1>4, <1>5, <1>6 DEF Basic

\* Basic, after Select.
LEMMA SelectBasic ==
  ASSUME Basic, Select
  PROVE  Basic'
<1>1. TypeOK /\ StepsOK /\ MutexOK /\ PeersOK /\ FreeOK
  BY DEF Basic
<1>3. \E i, r : MainBecomes("wait", i, r) \/ MainBecomes("stopped", i, r)
  BY <1>1, SelectEffect
<1>4. UNCHANGED <<backlog, peers, files, clients, master_fds, threads, client_mutex, orderly>>
  BY <1>1, SelectEffect
<1>5. main' \in MainState
  BY <1>3 DEF MainGoes, MainBecomes
<1>6. TypeOK'
  BY <1>1, <1>3, <1>4, <1>5, Types, TypesSuffice
<1>7. StepsOK'
  BY <1>1, <1>3, <1>4, StepsKeptByMain DEF MainGoes, MainBecomes
<1>8. MutexOK'
  BY <1>1, <1>4, MutexKept
<1>9. FreeOK'
  BY <1>1, <1>4, FreeKept
<1>10. PeersOK'
  BY <1>1, <1>4, PeersKept
<1> QED
  BY <1>6, <1>7, <1>8, <1>9, <1>10 DEF Basic

\* Basic, after SelectReturns.
LEMMA SelectReturnsBasic ==
  ASSUME Basic, SelectReturns
  PROVE  Basic'
<1>1. TypeOK /\ StepsOK /\ MutexOK /\ PeersOK /\ FreeOK
  BY DEF Basic
<1>3. \E i, r : (backlog # <<>> /\ MainBecomes("accept", i, r)) \/ MainBecomes("serve", 1, r)
  BY <1>1, SelectReturnsEffect
<1>4. UNCHANGED <<backlog, peers, files, clients, master_fds, threads, client_mutex, orderly>>
  BY <1>1, SelectReturnsEffect
<1>5. main' \in MainState
  BY <1>3 DEF MainGoes, MainBecomes
<1>6. TypeOK'
  BY <1>1, <1>3, <1>4, <1>5, Types, TypesSuffice
<1>7. StepsOK'
  BY <1>1, <1>3, <1>4, StepsKeptByMain DEF MainGoes, MainBecomes
<1>8. MutexOK'
  BY <1>1, <1>4, MutexKept
<1>9. FreeOK'
  BY <1>1, <1>4, FreeKept
<1>10. PeersOK'
  BY <1>1, <1>4, PeersKept
<1> QED
  BY <1>6, <1>7, <1>8, <1>9, <1>10 DEF Basic

\* Basic, after Reject.
LEMMA RejectBasic ==
  ASSUME Basic, Reject
  PROVE  Basic'
<1>1. TypeOK /\ StepsOK /\ MutexOK /\ PeersOK /\ FreeOK
  BY DEF Basic
<1>2. backlog # <<>>
  BY <1>1 DEF StepsOK, Reject
<1>3. MainGoes("serve", 1)
  BY <1>1, <1>2, RejectEffect
<1>4. UNCHANGED <<files, clients, master_fds, threads, client_mutex, orderly>>
  BY <1>1, <1>2, RejectEffect
<1>5. backlog' = Tail(backlog) /\ PeerBecomes(Head(backlog), "away")
  BY <1>1, <1>2, RejectEffect
<1>6. backlog' \in Seq(Connections)
  BY <1>1, <1>2, <1>5, Types
<1>7. main' \in MainState
  BY <1>3 DEF MainGoes, MainBecomes
<1>8. TypeOK'
  BY <1>1, <1>2, <1>3, <1>4, <1>5, <1>6, <1>7, Types, TypesSuffice DEF PeerBecomes
<1>9. StepsOK'
  BY <1>1, <1>2, <1>3, <1>4, StepsKeptByMain DEF MainGoes, MainBecomes
<1>10. MutexOK'
  BY <1>1, <1>4, MutexKept
<1>11. FreeOK'
  BY <1>1, <1>4, FreeKept
<1>12. PeersOK'
  BY <1>1, <1>2, <1>4, <1>5, PeersKeptByReject
<1> QED
  BY <1>8, <1>9, <1>10, <1>11, <1>12 DEF Basic

\* Basic, after Unset.
LEMMA UnsetBasic ==
  ASSUME Basic, Unset
  PROVE  Basic'
<1>1. TypeOK /\ StepsOK /\ MutexOK /\ PeersOK /\ FreeOK
  BY DEF Basic
<1>3. MainGoes("serve", 1) /\ \E f : ClearMaster(f)
  BY <1>1, UnsetEffect
<1>4. UNCHANGED <<backlog, peers, files, clients, threads, client_mutex>>
  BY <1>1, UnsetEffect
<1>5. master_fds' \in SUBSET Descriptors /\ orderly' \in BOOLEAN
  BY <1>1, <1>3, Types DEF ClearMaster
<1>6. main' \in MainState
  BY <1>3 DEF MainGoes, MainBecomes
<1>7. TypeOK'
  BY <1>1, <1>3, <1>4, <1>5, <1>6, Types, TypesSuffice
<1>8. StepsOK'
  BY <1>1, <1>3, <1>4, StepsKeptByMain DEF MainGoes, MainBecomes
<1>9. MutexOK'
  BY <1>1, <1>4, MutexKept
<1>10. FreeOK'
  BY <1>1, <1>4, FreeKept
<1>11. PeersOK'
  BY <1>1, <1>4, PeersKept
<1> QED
  BY <1>7, <1>8, <1>9, <1>10, <1>11 DEF Basic

\* Basic, after Serve.
LEMMA ServeBasic ==
  ASSUME Basic, Serve
  PROVE  Basic'
<1>1. TypeOK /\ StepsOK /\ MutexOK /\ PeersOK /\ FreeOK
  BY DEF Basic
<1>2. main.slot # 0
  BY <1>1 DEF StepsOK, Serve
<1>3. \/ \E i \in Nat : i # 0 /\ (MainGoes("sweep", i) \/ MainGoes("serve", i))
      \/ MainGoes("recv", main.slot) /\ main.slot \in Slots
  <2>1. main.slot \in Slots => main.slot + 1 \in Nat /\ main.slot + 1 # 0 /\ 1 \in Nat
    BY SizesAssumption DEF Slots
  <2>2. 1 \in Nat /\ 1 # 0
    OBVIOUS
  <2> QED
    BY <1>1, <1>2, <2>1, <2>2, ServeEffect
<1>4. UNCHANGED <<backlog, peers, files, clients, master_fds, threads, client_mutex, orderly>>
  BY <1>1, <1>2, ServeEffect
<1>5. main' \in MainState
  BY <1>3 DEF MainGoes, MainBecomes
<1>6. TypeOK'
  BY <1>1, <1>2, <1>3, <1>4, <1>5, Types, TypesSuffice
<1>7. StepsOK'
  BY <1>1, <1>2, <1>3, <1>4, StepsKeptByMain DEF MainGoes, MainBecomes
<1>8. MutexOK'
  BY <1>1, <1>4, MutexKept
<1>9. FreeOK'
  BY <1>1, <1>4, FreeKept
<1>10. PeersOK'
  BY <1>1, <1>4, PeersKept
<1> QED
  BY <1>6, <1>7, <1>8, <1>9, <1>10 DEF Basic

\* Basic, after MainReceive.
LEMMA MainReceiveBasic ==
  ASSUME Basic, MainReceive
  PROVE  Basic'
<1>1. TypeOK /\ StepsOK /\ MutexOK /\ PeersOK /\ FreeOK
  BY DEF Basic
<1>2. main.slot \in Slots /\ main.slot # 0
  BY <1>1 DEF StepsOK, Slots, MainReceive
<1>3. \/ MainGoes("serve", main.slot + 1) \/ MainGoes("private", main.slot)
      \/ MainGoes("close", main.slot)
  BY <1>1, <1>2, MainReceiveEffect
<1>4. UNCHANGED <<backlog, files, master_fds, threads, client_mutex, orderly>>
  BY <1>1, <1>2, MainReceiveEffect
<1>5. Keeps(main.slot) \/ UNCHANGED <<peers, clients>>
  BY <1>1, <1>2, MainReceiveEffect
<1>6. peers' \in [Connections -> PeerStates] /\ clients' \in [Slots -> Client]
  BY <1>1, <1>5, Types DEF Keeps, PeerBecomes, SlotBecomes
<1>7. main' \in MainState
  BY <1>3 DEF MainGoes, MainBecomes
<1>8. TypeOK'
  BY <1>1, <1>2, <1>3, <1>4, <1>5, <1>6, <1>7, Types, TypesSuffice
<1>9. StepsOK'
  <2>1. main.slot \in Slots => main.slot + 1 # 0
    BY SizesAssumption DEF Slots
  <2> QED
    BY <1>1, <1>2, <1>3, <1>4, <2>1, StepsKeptByMain DEF MainGoes, MainBecomes
<1>10. MutexOK'
  BY <1>1, <1>4, MutexKept
<1>11. FreeOK'
  BY <1>1, <1>2, <1>4, <1>5, FreeKept, FreeKeptBySlot DEF Keeps
<1>12. PeersOK'
  BY <1>1, <1>2, <1>4, <1>5, PeersKept, PeersKeptByKeeps
<1> QED
  BY <1>8, <1>9, <1>10, <1>11, <1>12 DEF Basic

\* Basic, after MainPrivate.
LEMMA MainPrivateBasic ==
  ASSUME Basic, MainPrivate
  PROVE  Basic'
<1>1. TypeOK /\ StepsOK /\ MutexOK /\ PeersOK /\ FreeOK
  BY DEF Basic
<1>2. main.slot \in Slots
  BY <1>1 DEF StepsOK, MainPrivate
<1>3. /\ MainGoes("serve", main.slot + 1) \/ MainGoes("close", main.slot)
      /\ UNCHANGED <<backlog, peers, files, clients, master_fds, threads, client_mutex, orderly>>
  BY <1>1, <1>2, MainPrivateEffect
<1>4. main' \in MainState
  BY <1>3 DEF MainGoes, MainBecomes
<1>5. TypeOK'
  BY <1>1, <1>3, <1>4, Types, TypesSuffice
<1>6. StepsOK'
  <2>1. main.slot + 1 # 0
    BY <1>2, SizesAssumption DEF Slots
  <2> QED
    BY <1>1, <1>2, <1>3, <2>1, StepsKeptByMain DEF MainGoes, MainBecomes
<1>7. MutexOK' /\ FreeOK' /\ PeersOK'
  BY <1>1, <1>3, MutexKept, FreeKept, PeersKept
<1> QED
  BY <1>5, <1>6, <1>7 DEF Basic

\* Basic, after Sweep.
LEMMA SweepBasic ==
  ASSUME Basic, Sweep
  PROVE  Basic'
<1>1. TypeOK /\ StepsOK /\ MutexOK /\ PeersOK /\ FreeOK
  BY DEF Basic
<1>2. main.slot # 0
  BY <1>1 DEF StepsOK, Sweep
<1>3. /\ orderly' \in BOOLEAN
      /\ \/ MainGoes("select", 0)
         \/ MainGoes("sweep_close", main.slot) /\ main.slot \in Slots
         \/ MainGoes("sweep", main.slot + 1) /\ main.slot \in Slots
  <2>1. orderly' \in BOOLEAN
    BY <1>1, <1>2, SweepEffect, Types
  <2> QED
    BY <1>1, <1>2, <2>1, SweepEffect
<1>4. UNCHANGED <<backlog, peers, files, clients, master_fds, threads, client_mutex>>
  BY <1>1, <1>2, SweepEffect
<1>5. main' \in MainState
  BY <1>3 DEF MainGoes, MainBecomes
<1>6. TypeOK'
  BY <1>1, <1>2, <1>3, <1>4, <1>5, Types, TypesSuffice
<1>7. StepsOK'
  <2>1. main.slot \in Slots => main.slot + 1 # 0
    BY SizesAssumption DEF Slots
  <2> QED
    BY <1>1, <1>2, <1>3, <1>4, <2>1, StepsKeptByMain DEF MainGoes, MainBecomes
<1>8. MutexOK'
  BY <1>1, <1>4, MutexKept
<1>9. FreeOK'
  BY <1>1, <1>4, FreeKept
<1>10. PeersOK'
  BY <1>1, <1>4, PeersKept
<1> QED
  BY <1>6, <1>7, <1>8, <1>9, <1>10 DEF Basic

\* Basic, after MainClose.
LEMMA MainCloseBasic ==
  ASSUME Basic, MainClose
  PROVE  Basic'
<1>1. TypeOK /\ StepsOK /\ MutexOK /\ PeersOK /\ FreeOK
  BY DEF Basic
<1>2. main.slot \in Slots /\ main.slot # 0
  BY <1>1 DEF StepsOK, Slots, MainClose
<1>3. MainGoes("clear", main.slot) \/ MainGoes("sweep_clear", main.slot)
  BY <1>1, <1>2, MainCloseEffect
<1>4. UNCHANGED <<backlog, clients, master_fds, threads, client_mutex, orderly>>
  BY <1>1, <1>2, MainCloseEffect
<1>5. Closes(clients[main.slot].socket_fd) /\ clients[main.slot].socket_fd \in Descriptors
  BY <1>1, <1>2, MainCloseEffect, Types, ClientFields
<1>6. peers' \in [Connections -> PeerStates] /\ files' \in [Descriptors -> Connections \cup {Stdin, Nothing}]
  BY <1>5 DEF Closes
<1>7. main' \in MainState
  BY <1>3 DEF MainGoes, MainBecomes
<1>8. TypeOK'
  BY <1>1, <1>2, <1>3, <1>4, <1>5, <1>6, <1>7, Types, TypesSuffice
<1>9. StepsOK'
  BY <1>1, <1>2, <1>3, <1>4, StepsKeptByMain DEF MainGoes, MainBecomes
<1>10. MutexOK'
  BY <1>1, <1>4, MutexKept
<1>11. FreeOK'
  BY <1>1, <1>4, FreeKept
<1>12. PeersOK'
  BY <1>1, <1>4, <1>5, PeersKeptByClose
<1> QED
  BY <1>8, <1>9, <1>10, <1>11, <1>12 DEF Basic

\* Basic, after MainClear.
LEMMA MainClearBasic ==
  ASSUME Basic, MainClear
  PROVE  Basic'
<1>1. TypeOK /\ StepsOK /\ MutexOK /\ PeersOK /\ FreeOK
  BY DEF Basic
<1>2. main.slot \in Slots /\ main.slot # 0
  BY <1>1 DEF StepsOK, Slots, MainClear
<1>3. /\ MainGoes("serve", main.slot + 1) \/ MainGoes("sweep", main.slot + 1)
      /\ \E f : ClearMaster(f)
  BY <1>1, <1>2, MainClearEffect
<1>4. UNCHANGED <<backlog, peers, files, threads, client_mutex>>
  BY <1>1, <1>2, MainClearEffect
<1>5. master_fds' \in SUBSET Descriptors /\ orderly' \in BOOLEAN
  BY <1>1, <1>3, Types DEF ClearMaster
<1>6. SlotBecomes(main.slot, FALSE, 0, TRUE)
  BY <1>1, <1>2, MainClearEffect
<1>7. clients' \in [Slots -> Client]
  BY <1>6 DEF SlotBecomes
<1>8. main' \in MainState
  BY <1>3 DEF MainGoes, MainBecomes
<1>9. TypeOK'
  BY <1>1, <1>2, <1>3, <1>4, <1>5, <1>6, <1>7, <1>8, Types, TypesSuffice
<1>10. StepsOK'
  <2>1. main.slot \in Slots => main.slot + 1 # 0
    BY SizesAssumption DEF Slots
  <2> QED
    BY <1>1, <1>2, <1>3, <1>4, <2>1, StepsKeptByMain DEF MainGoes, MainBecomes
<1>11. MutexOK'
  BY <1>1, <1>4, MutexKept
<1>12. FreeOK'
  BY <1>1, <1>2, <1>6, FreeKeptBySlot
<1>13. PeersOK'
  BY <1>1, <1>4, PeersKept
<1> QED
  BY <1>9, <1>10, <1>11, <1>12, <1>13 DEF Basic

\* Basic, after Accept.
LEMMA AcceptBasic ==
  ASSUME Basic, Accept
  PROVE  Basic'
<1>1. TypeOK /\ StepsOK /\ MutexOK /\ PeersOK /\ FreeOK
  BY DEF Basic
<1>2. backlog # <<>>
  BY <1>1 DEF StepsOK, Accept
<1>3. PICK i \in Slots, f \in Descriptors :
        /\ FileBecomes(f, Head(backlog)) /\ SlotBecomes(i, TRUE, f, FALSE)
        /\ master_fds' = master_fds \cup {f}
        /\ orderly' = (orderly /\ ThreadsOf(i) = {} /\ ~Clearing(f))
        /\ MainGoes("spawn", i)
  BY <1>1, <1>2, AcceptEffect
<1>4. /\ PeerBecomes(Head(backlog), "idle") /\ backlog' = Tail(backlog)
      /\ UNCHANGED <<threads, client_mutex>>
  BY <1>1, <1>2, AcceptEffect
<1>5. /\ backlog' \in Seq(Connections) /\ master_fds' \in SUBSET Descriptors
      /\ orderly' \in BOOLEAN
  BY <1>1, <1>2, <1>3, <1>4, Types
<1>6. TypeOK'
  BY <1>1, <1>3, <1>4, <1>5, Types, TypesSuffice
     DEF PeerBecomes, FileBecomes, SlotBecomes, MainGoes, MainBecomes
<1>7. StepsOK'
  BY <1>1, <1>3, <1>4, StepsKeptByMain DEF MainGoes, MainBecomes
<1>8. MutexOK' /\ FreeOK'
  BY <1>1, <1>3, <1>4, MutexKept, FreeKeptBySlot
<1>9. PeersOK'
  BY <1>1, <1>2, <1>3, <1>4, PeersKeptByAccept
<1> QED
  BY <1>6, <1>7, <1>8, <1>9 DEF Basic

\* Basic, after Spawn.
LEMMA SpawnBasic ==
  ASSUME Basic, Spawn
  PROVE  Basic'
<1>1. TypeOK /\ StepsOK /\ MutexOK /\ PeersOK /\ FreeOK
  BY DEF Basic
<1>2. main.slot \in Slots
  BY <1>1 DEF StepsOK, Spawn
<1>3. UNCHANGED <<backlog, peers, files, clients, master_fds, client_mutex, orderly>>
  BY <1>1, <1>2, SpawnEffect
<1>4. PeersOK' /\ FreeOK'
  BY <1>1, <1>3, PeersKept, FreeKept
<1>5. CASE MainGoes("serve", 1) /\ UNCHANGED threads
  <2>1. TypeOK'
    BY <1>1, <1>3, <1>5, Types, TypesSuffice DEF MainGoes, MainBecomes
  <2>2. StepsOK' /\ MutexOK'
    BY <1>1, <1>3, <1>5, StepsKeptByMain, MutexKept DEF MainGoes, MainBecomes
  <2> QED
    BY <1>4, <2>1, <2>2 DEF Basic
<1>6. ASSUME MainGoes("unset", main.slot), NEW t \in Threads,
             ThreadBecomes(t, "loop", main.slot, 0, Nothing, {}, FALSE)
      PROVE  Basic'
  <2>1. TypeOK'
    BY <1>1, <1>3, <1>6, Types, TypesSuffice DEF MainGoes, MainBecomes, ThreadBecomes
  <2>2. \A u \in Threads : Alive(u)' => threads'[u].slot \in Slots
    BY <1>1, <1>2, <1>6 DEF StepsOK, ThreadBecomes, Alive
  <2>3. StepsOK'
    BY <1>2, <1>6, <2>2 DEF StepsOK, MainGoes, MainBecomes, Slots
  <2>4. MutexOK'
    BY <1>1, <1>3, <1>6 DEF MutexOK, ThreadBecomes
  <2> QED
    BY <1>4, <2>1, <2>3, <2>4 DEF Basic
<1> QED
  BY <1>1, <1>2, <1>5, <1>6, SpawnEffect

\* Basic, after Loop.
LEMMA LoopBasic ==
  ASSUME Basic, NEW t \in Threads, Loop(t)
  PROVE  Basic'
<1>1. TypeOK /\ StepsOK /\ MutexOK /\ PeersOK /\ FreeOK
  BY DEF Basic
<1>2. threads[t].slot \in Slots /\ Alive(t)
  BY <1>1 DEF StepsOK, Alive, Loop
<1>3. Goes(t, "watch") \/ Goes(t, "ended")
  BY <1>1, <1>2, LoopEffect
<1>4. UNCHANGED <<backlog, peers, files, clients, master_fds, main, client_mutex, orderly>>
  BY <1>1, <1>2, LoopEffect
<1>5. ThreadMoves(t, {"watch", "ended"})
  BY <1>3, BecomesMoves DEF Goes
<1>6. threads' \in [Threads -> Thread]
  BY <1>5 DEF ThreadMoves
<1>7. TypeOK'
  BY <1>1, <1>3, <1>4, <1>6, Types, TypesSuffice
<1>8. StepsOK'
  BY <1>1, <1>2, <1>4, <1>5, StepsKeptByThread
<1>9. MutexOK'
  BY <1>1, <1>3, <1>4, <1>5, MutexKeptByThread DEF ThreadMoves
<1>10. FreeOK'
  BY <1>1, <1>4, FreeKept
<1>11. PeersOK'
  BY <1>1, <1>4, PeersKept
<1> QED
  BY <1>7, <1>8, <1>9, <1>10, <1>11 DEF Basic

\* Basic, after Watch.
LEMMA WatchBasic ==
  ASSUME Basic, NEW t \in Threads, Watch(t)
  PROVE  Basic'
<1>1. TypeOK /\ StepsOK /\ MutexOK /\ PeersOK /\ FreeOK
  BY DEF Basic
<1>2. threads[t].slot \in Slots /\ Alive(t)
  BY <1>1 DEF StepsOK, Alive, Watch
<1>3. \/ Restarts(t, "check")
        \/ \E f, o : ThreadBecomes(t, "wait", threads[t].slot, f, o, threads[t].set, threads[t].timed)
  BY <1>1, <1>2, WatchEffect
<1>4. UNCHANGED <<backlog, peers, files, clients, master_fds, main, client_mutex, orderly>>
  BY <1>1, <1>2, WatchEffect
<1>5. ThreadMoves(t, {"check", "wait"})
  BY <1>3, BecomesMoves DEF Restarts
<1>6. threads' \in [Threads -> Thread]
  BY <1>5 DEF ThreadMoves
<1>7. TypeOK'
  BY <1>1, <1>3, <1>4, <1>6, Types, TypesSuffice
<1>8. StepsOK'
  BY <1>1, <1>2, <1>4, <1>5, StepsKeptByThread
<1>9. MutexOK'
  BY <1>1, <1>3, <1>4, <1>5, MutexKeptByThread DEF ThreadMoves
<1>10. FreeOK'
  BY <1>1, <1>4, FreeKept
<1>11. PeersOK'
  BY <1>1, <1>4, PeersKept
<1> QED
  BY <1>7, <1>8, <1>9, <1>10, <1>11 DEF Basic

\* Basic, after Wake.
LEMMA WakeBasic ==
  ASSUME Basic, NEW t \in Threads, Wake(t)
  PROVE  Basic'
<1>1. TypeOK /\ StepsOK /\ MutexOK /\ PeersOK /\ FreeOK
  BY DEF Basic
<1>2. threads[t].slot \in Slots /\ Alive(t)
  BY <1>1 DEF StepsOK, Alive, Wake
<1>3. Restarts(t, "check") \/ Restarts(t, "lock")
  BY <1>1, <1>2, WakeEffect
<1>4. UNCHANGED <<backlog, peers, files, clients, master_fds, main, client_mutex, orderly>>
  BY <1>1, <1>2, WakeEffect
<1>5. ThreadMoves(t, {"check", "lock"})
  BY <1>3, BecomesMoves DEF Restarts
<1>6. threads' \in [Threads -> Thread]
  BY <1>5 DEF ThreadMoves
<1>7. TypeOK'
  BY <1>1, <1>3, <1>4, <1>6, Types, TypesSuffice
<1>8. StepsOK'
  BY <1>1, <1>2, <1>4, <1>5, StepsKeptByThread
<1>9. MutexOK'
  BY <1>1, <1>3, <1>4, <1>5, MutexKeptByThread DEF ThreadMoves
<1>10. FreeOK'
  BY <1>1, <1>4, FreeKept
<1>11. PeersOK'
  BY <1>1, <1>4, PeersKept
<1> QED
  BY <1>7, <1>8, <1>9, <1>10, <1>11 DEF Basic

\* Basic, after Lock.
LEMMA LockBasic ==
  ASSUME Basic, NEW t \in Threads, Lock(t)
  PROVE  Basic'
<1>1. TypeOK /\ StepsOK /\ MutexOK /\ PeersOK /\ FreeOK
  BY DEF Basic
<1>2. threads[t].slot \in Slots /\ Alive(t)
  BY <1>1 DEF StepsOK, Alive, Lock
<1>3. (Goes(t, "recv") \/ Goes(t, "close")) /\ client_mutex = 0 /\ client_mutex' = t
  BY <1>1, <1>2, LockEffect
<1>4. UNCHANGED <<backlog, peers, files, clients, master_fds, main, orderly>>
  BY <1>1, <1>2, LockEffect
<1>5. ThreadMoves(t, {"recv", "close"})
  BY <1>3, BecomesMoves DEF Goes
<1>6. threads' \in [Threads -> Thread]
  BY <1>5 DEF ThreadMoves
<1>7. TypeOK'
  BY <1>1, <1>3, <1>4, <1>6, Types, TypesSuffice
<1>8. StepsOK'
  BY <1>1, <1>2, <1>4, <1>5, StepsKeptByThread
<1>9. MutexOK'
  BY <1>1, <1>3, <1>4, <1>5, MutexKeptByThread DEF ThreadMoves
<1>10. FreeOK'
  BY <1>1, <1>4, FreeKept
<1>11. PeersOK'
  BY <1>1, <1>4, PeersKept
<1> QED
  BY <1>7, <1>8, <1>9, <1>10, <1>11 DEF Basic

\* Basic, after ThreadReceive.
LEMMA ThreadReceiveBasic ==
  ASSUME Basic, NEW t \in Threads, ThreadReceive(t)
  PROVE  Basic'
<1>1. TypeOK /\ StepsOK /\ MutexOK /\ PeersOK /\ FreeOK
  BY DEF Basic
<1>2. threads[t].slot \in Slots /\ Alive(t)
  BY <1>1 DEF StepsOK, Alive, ThreadReceive
<1>3. Goes(t, "unlock") \/ Goes(t, "private") \/ Goes(t, "close")
  BY <1>1, <1>2, ThreadReceiveEffect
<1>4. UNCHANGED <<backlog, files, master_fds, main, client_mutex, orderly>>
  BY <1>1, <1>2, ThreadReceiveEffect
<1>5. ThreadMoves(t, {"unlock", "private", "close"})
  BY <1>3, BecomesMoves DEF Goes
<1>6. threads' \in [Threads -> Thread]
  BY <1>5 DEF ThreadMoves
<1>7. client_mutex = t
  BY <1>1 DEF MutexOK, ThreadReceive
<1>8. Keeps(threads[t].slot) \/ UNCHANGED <<peers, clients>>
  BY <1>1, <1>2, ThreadReceiveEffect
<1>9. peers' \in [Connections -> PeerStates] /\ clients' \in [Slots -> Client]
  BY <1>1, <1>8, Types DEF Keeps, PeerBecomes, SlotBecomes
<1>10. TypeOK'
  BY <1>1, <1>3, <1>4, <1>6, <1>7, <1>8, <1>9, Types, TypesSuffice
<1>11. StepsOK'
  BY <1>1, <1>2, <1>4, <1>5, StepsKeptByThread
<1>12. MutexOK'
  BY <1>1, <1>3, <1>4, <1>5, <1>7, MutexKeptByThread DEF ThreadMoves
<1>13. FreeOK'
  BY <1>1, <1>2, <1>4, <1>8, FreeKept, FreeKeptBySlot DEF Keeps
<1>14. PeersOK'
  BY <1>1, <1>2, <1>4, <1>8, PeersKept, PeersKeptByKeeps
<1> QED
  BY <1>10, <1>11, <1>12, <1>13, <1>14 DEF Basic

\* Basic, after ThreadClose.
LEMMA ThreadCloseBasic ==
  ASSUME Basic, NEW t \in Threads, ThreadClose(t)
  PROVE  Basic'
<1>1. TypeOK /\ StepsOK /\ MutexOK /\ PeersOK /\ FreeOK
  BY DEF Basic
<1>2. threads[t].slot \in Slots /\ Alive(t)
  BY <1>1 DEF StepsOK, Alive, ThreadClose
<1>3. \E f, o, s, b : ThreadBecomes(t, "clear", threads[t].slot, f, o, s, b)
  BY <1>1, <1>2, ThreadCloseEffect
<1>4. UNCHANGED <<backlog, clients, master_fds, main, client_mutex, orderly>>
  BY <1>1, <1>2, ThreadCloseEffect
<1>5. ThreadMoves(t, {"clear"})
  BY <1>3, BecomesMoves
<1>6. threads' \in [Threads -> Thread]
  BY <1>5 DEF ThreadMoves
<1>7. client_mutex = t
  BY <1>1 DEF MutexOK, ThreadClose
<1>8. Closes(clients[threads[t].slot].socket_fd) /\ clients[threads[t].slot].socket_fd \in Descriptors
  BY <1>1, <1>2, ThreadCloseEffect, Types, ClientFields
<1>9. peers' \in [Connections -> PeerStates] /\ files' \in [Descriptors -> Connections \cup {Stdin, Nothing}]
  BY <1>8 DEF Closes
<1>10. TypeOK'
  BY <1>1, <1>3, <1>4, <1>6, <1>7, <1>8, <1>9, Types, TypesSuffice
<1>11. StepsOK'
  BY <1>1, <1>2, <1>4, <1>5, StepsKeptByThread
<1>12. MutexOK'
  BY <1>1, <1>3, <1>4, <1>5, <1>7, MutexKeptByThread DEF ThreadMoves
<1>13. FreeOK'
  BY <1>1, <1>4, FreeKept
<1>14. PeersOK'
  BY <1>1, <1>4, <1>8, PeersKeptByClose
<1> QED
  BY <1>10, <1>11, <1>12, <1>13, <1>14 DEF Basic

\* Basic, after ThreadClear.
LEMMA ThreadClearBasic ==
  ASSUME Basic, NEW t \in Threads, ThreadClear(t)
  PROVE  Basic'
<1>1. TypeOK /\ StepsOK /\ MutexOK /\ PeersOK /\ FreeOK
  BY DEF Basic
<1>2. threads[t].slot \in Slots /\ Alive(t)
  BY <1>1 DEF StepsOK, Alive, ThreadClear
<1>3. \E f, o, s, b : ThreadBecomes(t, "zero", threads[t].slot, f, o, s, b)
  BY <1>1, <1>2, ThreadClearEffect
<1>4. UNCHANGED <<backlog, peers, files, clients, master_fds, main, client_mutex, orderly>>
  BY <1>1, <1>2, ThreadClearEffect
<1>5. ThreadMoves(t, {"zero"})
  BY <1>3, BecomesMoves
<1>6. threads' \in [Threads -> Thread]
  BY <1>5 DEF ThreadMoves
<1>7. client_mutex = t
  BY <1>1 DEF MutexOK, ThreadClear
<1>8. TypeOK'
  BY <1>1, <1>3, <1>4, <1>6, <1>7, Types, TypesSuffice
<1>9. StepsOK'
  BY <1>1, <1>2, <1>4, <1>5, StepsKeptByThread
<1>10. MutexOK'
  BY <1>1, <1>3, <1>4, <1>5, <1>7, MutexKeptByThread DEF ThreadMoves
<1>11. FreeOK'
  BY <1>1, <1>4, FreeKept
<1>12. PeersOK'
  BY <1>1, <1>4, PeersKept
<1> QED
  BY <1>8, <1>9, <1>10, <1>11, <1>12 DEF Basic

\* Basic, after ThreadZero.
LEMMA ThreadZeroBasic ==
  ASSUME Basic, NEW t \in Threads, ThreadZero(t)
  PROVE  Basic'
<1>1. TypeOK /\ StepsOK /\ MutexOK /\ PeersOK /\ FreeOK
  BY DEF Basic
<1>2. threads[t].slot \in Slots /\ Alive(t)
  BY <1>1 DEF StepsOK, Alive, ThreadZero
<1>3. \E f, o, s, b : ThreadBecomes(t, "unlock", threads[t].slot, f, o, s, b)
  BY <1>1, <1>2, ThreadZeroEffect
<1>4. UNCHANGED <<backlog, peers, files, main, client_mutex, orderly>>
  BY <1>1, <1>2, ThreadZeroEffect
<1>5. ThreadMoves(t, {"unlock"})
  BY <1>3, BecomesMoves
<1>6. threads' \in [Threads -> Thread]
  BY <1>5 DEF ThreadMoves
<1>7. client_mutex = t
  BY <1>1 DEF MutexOK, ThreadZero
<1>8. SlotBecomes(threads[t].slot, FALSE, 0, TRUE) /\ master_fds' = threads[t].set \ {threads[t].fd}
  BY <1>1, <1>2, ThreadZeroEffect
<1>9. clients' \in [Slots -> Client] /\ master_fds' \in SUBSET Descriptors
  BY <1>1, <1>8, Types, ThreadFields DEF SlotBecomes
<1>10. TypeOK'
  BY <1>1, <1>3, <1>4, <1>6, <1>7, <1>8, <1>9, Types, TypesSuffice
<1>11. StepsOK'
  BY <1>1, <1>2, <1>4, <1>5, StepsKeptByThread
<1>12. MutexOK'
  BY <1>1, <1>3, <1>4, <1>5, <1>7, MutexKeptByThread DEF ThreadMoves
<1>13. FreeOK'
  BY <1>1, <1>2, <1>8, FreeKeptBySlot
<1>14. PeersOK'
  BY <1>1, <1>4, PeersKept
<1> QED
  BY <1>10, <1>11, <1>12, <1>13, <1>14 DEF Basic

\* Basic, after Unlock.
LEMMA UnlockBasic ==
  ASSUME Basic, NEW t \in Threads, Unlock(t)
  PROVE  Basic'
<1>1. TypeOK /\ StepsOK /\ MutexOK /\ PeersOK /\ FreeOK
  BY DEF Basic
<1>2. threads[t].slot \in Slots /\ Alive(t)
  BY <1>1 DEF StepsOK, Alive, Unlock
<1>3. (Goes(t, "ended") \/ Goes(t, "check")) /\ client_mutex' = 0
  BY <1>1, <1>2, UnlockEffect
<1>4. UNCHANGED <<backlog, peers, files, clients, master_fds, main, orderly>>
  BY <1>1, <1>2, UnlockEffect
<1>5. ThreadMoves(t, {"ended", "check"})
  BY <1>3, BecomesMoves DEF Goes
<1>6. threads' \in [Threads -> Thread]
  BY <1>5 DEF ThreadMoves
<1>7. client_mutex = t
  BY <1>1 DEF MutexOK, Unlock
<1>8. TypeOK'
  BY <1>1, <1>3, <1>4, <1>6, <1>7, Types, TypesSuffice
<1>9. StepsOK'
  BY <1>1, <1>2, <1>4, <1>5, StepsKeptByThread
<1>10. MutexOK'
  BY <1>1, <1>3, <1>4, <1>5, <1>7, MutexKeptByThread DEF ThreadMoves
<1>11. FreeOK'
  BY <1>1, <1>4, FreeKept
<1>12. PeersOK'
  BY <1>1, <1>4, PeersKept
<1> QED
  BY <1>8, <1>9, <1>10, <1>11, <1>12 DEF Basic

\* Basic, after CheckTimeout.
LEMMA CheckTimeoutBasic ==
  ASSUME Basic, NEW t \in Threads, CheckTimeout(t)
  PROVE  Basic'
<1>1. TypeOK /\ StepsOK /\ MutexOK /\ PeersOK /\ FreeOK
  BY DEF Basic
<1>2. threads[t].slot \in Slots /\ Alive(t)
  BY <1>1 DEF StepsOK, Alive, CheckTimeout
<1>3. \/ Goes(t, "loop")
        \/ \E f, o, s, b : ThreadBecomes(t, "timeout_lock", threads[t].slot, f, o, s, b)
  BY <1>1, <1>2, CheckTimeoutEffect
<1>4. UNCHANGED <<backlog, peers, files, clients, master_fds, main, client_mutex, orderly>>
  BY <1>1, <1>2, CheckTimeoutEffect
<1>5. ThreadMoves(t, {"timeout_lock", "loop"})
  BY <1>3, BecomesMoves DEF Goes
<1>6. threads' \in [Threads -> Thread]
  BY <1>5 DEF ThreadMoves
<1>7. TypeOK'
  BY <1>1, <1>3, <1>4, <1>6, Types, TypesSuffice
<1>8. StepsOK'
  BY <1>1, <1>2, <1>4, <1>5, StepsKeptByThread
<1>9. MutexOK'
  BY <1>1, <1>3, <1>4, <1>5, MutexKeptByThread DEF ThreadMoves
<1>10. FreeOK'
  BY <1>1, <1>4, FreeKept
<1>11. PeersOK'
  BY <1>1, <1>4, PeersKept
<1> QED
  BY <1>7, <1>8, <1>9, <1>10, <1>11 DEF Basic

\* Every step keeps Basic.
LEMMA BasicNext == Basic /\ [Next]_vars => Basic'
<1> SUFFICES ASSUME Basic, [Next]_vars PROVE Basic'
  OBVIOUS
<1>1. CASE UNCHANGED vars
  BY <1>1 DEF vars, Basic, TypeOK, StepsOK, MutexOK, PeersOK, FreeOK, Alive
<1>2. CASE Next
  BY <1>2, ConnectBasic, TalkBasic, TimePassesBasic, SelectBasic, SelectReturnsBasic,
     RejectBasic, AcceptBasic, SpawnBasic, UnsetBasic, ServeBasic,
     MainReceiveBasic, MainPrivateBasic, SweepBasic, MainCloseBasic, MainClearBasic, LoopBasic,
     WatchBasic, WakeBasic, LockBasic, ThreadReceiveBasic, ThreadCloseBasic,
     ThreadClearBasic, ThreadZeroBasic, UnlockBasic, CheckTimeoutBasic
     DEF Next, MainStep, ThreadStep
<1> QED
  BY <1>1, <1>2

\* Basic holds when the server starts.
LEMMA BasicInit == Init => Basic
<1> SUFFICES ASSUME Init PROVE Basic
  OBVIOUS
<1> USE SizesAssumption, ConnectionsAssumption, NumDescriptors
<1>1. TypeOK
  BY DEF Init, TypeOK, Cleared, MainSteps, NewThread, ThreadSteps, PeerStates
<1>2. StepsOK /\ MutexOK /\ FreeOK
  BY DEF Init, StepsOK, MutexOK, FreeOK, Alive, NewThread, Cleared
<1>3. PeersOK
  BY DEF Init, PeersOK
<1> QED
  BY <1>1, <1>2, <1>3 DEF Basic

\* Every variable keeps its type, however the agents are interleaved.
THEOREM TypeCorrect == Spec => []TypeOK
<1>1. Basic => TypeOK
  BY DEF Basic
<1> QED
  BY <1>1, BasicInit, BasicNext, PTL DEF Spec
=============================================================================
