----------------------- MODULE ConnectionSlotsOrderly -----------------------
(***************************************************************************)
(* The invariant of ConnectionSlots while nobody comes between an agent    *)
(* and its work, for any number of slots, threads and connections.         *)
(***************************************************************************)
EXTENDS ConnectionSlotsProofs

HasThread(i) == \E t \in Threads : Alive(t) /\ threads[t].slot = i

(* What holds as long as nobody has come between an agent and its work.    *)

\* No slot has two threads.
OneThread ==
  \A t, u \in Threads :
    Alive(t) /\ Alive(u) /\ threads[t].slot = threads[u].slot => t = u

\* Sockets belong to slots, one to one, but for a slot that is being cleared.
SocketsOK ==
  /\ files[0] = Stdin
  /\ \A i \in Slots : clients[i].is_active => clients[i].socket_fd # 0
  /\ \A i, j \in Slots :
       /\ clients[i].is_active /\ clients[j].is_active
       /\ clients[i].socket_fd = clients[j].socket_fd
       => i = j
  /\ \A i \in Slots :
       clients[i].is_active /\ ~BeingCleared(i) => files[clients[i].socket_fd] \in Connections
  /\ \A i \in Slots :
       BeingCleared(i) => clients[i].is_active /\ files[clients[i].socket_fd] = Nothing
  /\ \A f \in Descriptors : files[f] \in Connections =>
       \E i \in Slots : clients[i].is_active /\ clients[i].socket_fd = f

\* What the main thread relies on between two steps.
MainOK ==
  /\ main.pc # "stopped"
  /\ main.pc \in {"spawn", "recv", "private", "close", "clear", "sweep_close", "sweep_clear"}
       => clients[main.slot].is_active /\ ~HasThread(main.slot)
  /\ main.pc = "unset" /\ clients[main.slot].is_active => HasThread(main.slot)
  /\ main.pc = "sweep_close" => clients[main.slot].silent

\* What a client thread relies on between two steps.
ThreadOK(t) ==
  LET th == threads[t]
  IN /\ th.pc \in {"watch", "wait", "lock", "timeout_lock", "recv", "close", "clear", "zero"}
          => clients[th.slot].is_active
     /\ th.pc \in {"wait", "clear", "zero"} => th.fd = clients[th.slot].socket_fd
     /\ th.pc = "wait" => th.on = files[th.fd] /\ th.on \in Connections
     /\ th.pc \in {"lock", "recv"} => Readable(clients[th.slot].socket_fd) /\ ~th.timed
     /\ th.timed /\ th.pc \in {"timeout_lock", "close"} => clients[th.slot].silent
     /\ th.pc = "zero" => th.set = master_fds
     /\ th.pc = "unlock" /\ th.timed => ~clients[th.slot].is_active

ThreadsOK == \A t \in Threads : ThreadOK(t)

\* The slots whose sockets the main thread has yet to look at.
Ahead == IF main.pc \in {"accept", "spawn", "unset"} THEN Slots
         ELSE IF main.pc \in {"serve", "recv"} THEN {j \in Slots : j >= main.slot}
         ELSE IF main.pc \in {"private", "close", "clear"} THEN {j \in Slots : j > main.slot}
         ELSE {}

\* What select has said of these is still true.
ReadsOK ==
  /\ main.pc = "wait" => main.read_fds = master_fds
  /\ main.pc = "accept" => \A f \in main.read_fds : files[f] \in Connections
  /\ \A j \in Ahead : clients[j].is_active /\ clients[j].socket_fd \in main.read_fds =>
       ~HasThread(j) /\ Readable(clients[j].socket_fd)
  /\ main.pc \in {"spawn", "unset"} =>
       ~(clients[main.slot].is_active /\ clients[main.slot].socket_fd \in main.read_fds)
  /\ main.pc = "recv" => clients[main.slot].socket_fd \in main.read_fds

\* The main thread selects on the clients that have no thread.
Selects(i) ==
  clients[i].is_active /\ (~HasThread(i) \/ (main.pc = "unset" /\ main.slot = i))
MasterOK ==
  \A f \in Descriptors :
    f \in master_fds <=> \E i \in Slots : Selects(i) /\ clients[i].socket_fd = f

Undisturbed == OneThread /\ SocketsOK /\ MainOK /\ ThreadsOK /\ ReadsOK /\ MasterOK

IInv == Basic /\ (orderly => Undisturbed)
-----------------------------------------------------------------------------
(* What a step leaves as it is: first the threads and who has one.         *)

\* Constants stay.
LEMMA SameSets == Slots' = Slots /\ Threads' = Threads /\ Descriptors' = Descriptors
BY DEF Slots, Threads, Descriptors

\* No thread moves, and the main thread neither begins nor ends to clear.
LEMMA SameThreads ==
  ASSUME OneThread, UNCHANGED threads
  PROVE  OneThread' /\ \A i \in Slots : HasThread(i)' <=> HasThread(i)
<1>1. \A t : Alive(t)' <=> Alive(t)
  BY DEF Alive
<1> QED
  BY <1>1, SameSets DEF OneThread, HasThread

\* The same slots are being cleared.
LEMMA SameClearing ==
  ASSUME UNCHANGED threads,
         main.pc \notin {"clear", "sweep_clear"}, main'.pc \notin {"clear", "sweep_clear"}
  PROVE  \A i \in Slots : BeingCleared(i)' <=> BeingCleared(i)
<1>1. \A i : ThreadsOf(i)' = ThreadsOf(i)
  BY SameSets DEF ThreadsOf, Alive
<1> QED
  BY <1>1 DEF BeingCleared

\* A thread goes on.
LEMMA ThreadStays ==
  ASSUME OneThread, NEW t \in Threads, NEW P, ThreadMoves(t, P), Alive(t), Alive(t)'
  PROVE  OneThread' /\ \A i \in Slots : HasThread(i)' <=> HasThread(i)
<1>1. \A u \in Threads : (Alive(u)' <=> Alive(u)) /\ threads'[u].slot = threads[u].slot
  BY DEF Alive, ThreadMoves
<1> QED
  BY <1>1, SameSets DEF OneThread, HasThread

\* A thread ends.
LEMMA ThreadLeaves ==
  ASSUME OneThread, NEW t \in Threads, NEW P, ThreadMoves(t, P), Alive(t), ~Alive(t)'
  PROVE  /\ OneThread'
         /\ \A i \in Slots : HasThread(i)' => HasThread(i)
         /\ \A i \in Slots : i # threads[t].slot => (HasThread(i)' <=> HasThread(i))
<1>1. \A u \in Threads : u # t => (Alive(u)' <=> Alive(u)) /\ threads'[u] = threads[u]
  BY DEF Alive, ThreadMoves
<1>2. \A u \in Threads : Alive(u)' => u # t
  OBVIOUS
<1>3. OneThread'
  BY <1>1, <1>2, SameSets DEF OneThread
<1> QED
  BY <1>1, <1>2, <1>3, SameSets DEF HasThread

\* A thread goes on but does not begin or end to clear its slot.
ClearSteps == {"clear", "zero"}

\* The same slots are being cleared.
LEMMA SameClearingThread ==
  ASSUME NEW t \in Threads, NEW P, ThreadMoves(t, P), UNCHANGED main,
         threads[t].pc \notin ClearSteps, P \cap ClearSteps = {}
  PROVE  \A i \in Slots : BeingCleared(i)' <=> BeingCleared(i)
<1>1. \A u \in Threads : threads[u].pc \in ClearSteps => threads'[u] = threads[u]
  BY DEF ThreadMoves
<1>2. \A u \in Threads : threads'[u].pc \in ClearSteps => threads'[u] = threads[u]
  BY DEF ThreadMoves
<1> QED
  BY <1>1, <1>2, SameSets DEF BeingCleared, ThreadsOf, Alive, ClearSteps

\* A thread has closed its socket.
LEMMA ThreadBeginsClearing ==
  ASSUME NEW t \in Threads, ThreadMoves(t, {"clear"}), UNCHANGED main
  PROVE  /\ BeingCleared(threads[t].slot)'
         /\ \A i \in Slots : i # threads[t].slot => (BeingCleared(i)' <=> BeingCleared(i))
<1>1. threads'[t].pc = "clear" /\ threads'[t].slot = threads[t].slot
  BY DEF ThreadMoves
<1>2. t \in ThreadsOf(threads[t].slot)'
  BY <1>1, SameSets DEF ThreadsOf, Alive
<1>3. \A i \in Slots : i # threads[t].slot => ThreadsOf(i)' = ThreadsOf(i) /\ t \notin ThreadsOf(i)
  BY <1>1, SameSets DEF ThreadsOf, Alive, ThreadMoves
<1>4. \A u \in Threads : u # t => threads'[u] = threads[u]
  BY DEF ThreadMoves
<1>5. \A i \in Slots : i # threads[t].slot => (BeingCleared(i)' <=> BeingCleared(i))
  BY <1>3, <1>4 DEF BeingCleared, ThreadsOf
<1> QED
  BY <1>1, <1>2, <1>5 DEF BeingCleared

\* A thread has cleared its slot.
LEMMA ThreadEndsClearing ==
  ASSUME OneThread, NEW t \in Threads, ThreadMoves(t, {"unlock"}), UNCHANGED main, Alive(t),
         main.pc \in {"clear", "sweep_clear"} => main.slot # threads[t].slot
  PROVE  /\ ~BeingCleared(threads[t].slot)'
         /\ \A i \in Slots : i # threads[t].slot => (BeingCleared(i)' <=> BeingCleared(i))
<1>1. threads'[t].pc = "unlock" /\ threads'[t].slot = threads[t].slot
  BY DEF ThreadMoves
<1>2. \A u \in Threads : u # t => threads'[u] = threads[u]
  BY DEF ThreadMoves
<1>3. \A i \in Slots : i # threads[t].slot => ThreadsOf(i)' = ThreadsOf(i) /\ t \notin ThreadsOf(i)
  BY <1>1, <1>2, SameSets DEF ThreadsOf, Alive
<1>4. \A u \in ThreadsOf(threads[t].slot)' : u = t
  BY <1>1, <1>2, SameSets DEF ThreadsOf, Alive, OneThread
<1>5. \A i \in Slots : i # threads[t].slot => (BeingCleared(i)' <=> BeingCleared(i))
  BY <1>2, <1>3 DEF BeingCleared, ThreadsOf
<1> QED
  BY <1>1, <1>4, <1>5 DEF BeingCleared

\* The main thread begins to clear a slot, or has done so.
LEMMA MainBeginsClearing ==
  ASSUME NEW i \in Slots, UNCHANGED threads, main.pc \notin {"clear", "sweep_clear"},
         main'.pc \in {"clear", "sweep_clear"}, main'.slot = i
  PROVE  /\ BeingCleared(i)'
         /\ \A j \in Slots : j # i => (BeingCleared(j)' <=> BeingCleared(j))
<1>1. \A j : ThreadsOf(j)' = ThreadsOf(j)
  BY SameSets DEF ThreadsOf, Alive
<1> QED
  BY <1>1 DEF BeingCleared

\* The main thread has cleared a slot.
LEMMA MainEndsClearing ==
  ASSUME NEW i \in Slots, UNCHANGED threads, main.pc \in {"clear", "sweep_clear"},
         main.slot = i, ~HasThread(i), main'.pc \notin {"clear", "sweep_clear"}
  PROVE  /\ ~BeingCleared(i)'
         /\ \A j \in Slots : j # i => (BeingCleared(j)' <=> BeingCleared(j))
<1>1. \A j : ThreadsOf(j)' = ThreadsOf(j)
  BY SameSets DEF ThreadsOf, Alive
<1>2. ThreadsOf(i) = {}
  BY DEF HasThread, ThreadsOf
<1> QED
  BY <1>1, <1>2 DEF BeingCleared

\* Who clears a slot that has a thread: that thread.
LEMMA ClearedByThread ==
  ASSUME OneThread, MainOK, NEW t \in Threads, Alive(t), BeingCleared(threads[t].slot)
  PROVE  threads[t].pc \in ClearSteps
<1>1. HasThread(threads[t].slot)
  BY DEF HasThread
<1>2. ~(main.pc \in {"clear", "sweep_clear"} /\ main.slot = threads[t].slot)
  BY <1>1 DEF MainOK
<1>3. PICK u \in ThreadsOf(threads[t].slot) : threads[u].pc \in ClearSteps
  BY <1>2 DEF BeingCleared, ClearSteps
<1>4. u = t
  BY DEF OneThread, ThreadsOf
<1> QED
  BY <1>3, <1>4

-----------------------------------------------------------------------------
(* Then, conjunct by conjunct, what keeps the rest.                        *)

\* SocketsOK, in a step that opens and closes nothing.
LEMMA SocketsKept ==
  ASSUME SocketsOK, UNCHANGED files,
         \A i \in Slots : /\ clients'[i].is_active = clients[i].is_active
                          /\ clients'[i].socket_fd = clients[i].socket_fd,
         \A i \in Slots : BeingCleared(i)' <=> BeingCleared(i)
  PROVE  SocketsOK'
BY SameSets DEF SocketsOK

\* SocketsOK, when the socket of an active slot is closed.
LEMMA SocketsKeptByClose ==
  ASSUME TypeOK, SocketsOK, NEW i \in Slots, clients[i].is_active,
         Closes(clients[i].socket_fd), UNCHANGED clients, BeingCleared(i)',
         \A j \in Slots : j # i => (BeingCleared(j)' <=> BeingCleared(j))
  PROVE  SocketsOK'
<1> DEFINE f == clients[i].socket_fd
<1>1. f \in Descriptors /\ 0 \in Descriptors /\ Nothing \notin Connections
      /\ \A j \in Slots : clients[j].socket_fd \in Descriptors
  BY NumDescriptors, ConnectionsAssumption, Types, ClientFields
<1>2. files'[f] = Nothing /\ \A g \in Descriptors : g # f => files'[g] = files[g]
  BY DEF Closes
<1>3. f # 0 /\ \A j \in Slots : clients[j].is_active /\ j # i => clients[j].socket_fd # f
  BY DEF SocketsOK
<1> HIDE DEF f
<1>4. \A j \in Slots : clients[j].is_active /\ ~BeingCleared(j)'
                         => files'[clients[j].socket_fd] \in Connections
  BY <1>1, <1>2, <1>3 DEF SocketsOK
<1>5. \A j \in Slots :
        BeingCleared(j)' => clients[j].is_active /\ files'[clients[j].socket_fd] = Nothing
  BY <1>1, <1>2, <1>3 DEF SocketsOK, f
<1>6. \A g \in Descriptors : files'[g] \in Connections =>
        \E j \in Slots : clients[j].is_active /\ clients[j].socket_fd = g
  BY <1>1, <1>2 DEF SocketsOK
<1>7. files'[0] = Stdin
  BY <1>1, <1>2, <1>3 DEF SocketsOK
<1> QED
  BY <1>4, <1>5, <1>6, <1>7, SameSets DEF SocketsOK

\* SocketsOK, when a slot whose socket is closed is cleared.
LEMMA SocketsKeptByClear ==
  ASSUME SocketsOK, NEW i \in Slots, BeingCleared(i), SlotBecomes(i, FALSE, 0, TRUE),
         UNCHANGED files, ~BeingCleared(i)',
         \A j \in Slots : j # i => (BeingCleared(j)' <=> BeingCleared(j))
  PROVE  SocketsOK'
<1>1. ~clients'[i].is_active /\ \A j \in Slots : j # i => clients'[j] = clients[j]
  BY DEF SlotBecomes
<1>2. Nothing \notin Connections
  BY ConnectionsAssumption
<1>3. \A g \in Descriptors : files[g] \in Connections =>
        \E j \in Slots : j # i /\ clients[j].is_active /\ clients[j].socket_fd = g
  BY <1>2 DEF SocketsOK
<1>4. \A g \in Descriptors : files'[g] \in Connections =>
        \E j \in Slots : clients'[j].is_active /\ clients'[j].socket_fd = g
  BY <1>1, <1>3
<1>5. \A j \in Slots : clients'[j].is_active => j # i /\ clients'[j] = clients[j]
  BY <1>1
<1>6. \A j \in Slots : BeingCleared(j)' => j # i /\ clients'[j] = clients[j]
  BY <1>1
<1>7. /\ \A j \in Slots : clients'[j].is_active => clients'[j].socket_fd # 0
      /\ \A j, k \in Slots :
           /\ clients'[j].is_active /\ clients'[k].is_active
           /\ clients'[j].socket_fd = clients'[k].socket_fd
           => j = k
      /\ \A j \in Slots : clients'[j].is_active /\ ~BeingCleared(j)' =>
           files'[clients'[j].socket_fd] \in Connections
  BY <1>5 DEF SocketsOK
<1>8. \A j \in Slots : BeingCleared(j)' =>
        clients'[j].is_active /\ files'[clients'[j].socket_fd] = Nothing
  BY <1>6 DEF SocketsOK
<1> QED
  BY <1>4, <1>7, <1>8, SameSets DEF SocketsOK

\* A thread that does not move, in a step that does not touch its slot.
LEMMA ThreadKept ==
  ASSUME NEW u \in Threads, ThreadOK(u), threads'[u] = threads[u],
         Alive(u) =>
           LET i == threads[u].slot
               f == clients[i].socket_fd
           IN /\ clients'[i].is_active = clients[i].is_active /\ clients'[i].socket_fd = f
              /\ clients[i].silent => clients'[i].silent
              /\ files'[f] = files[f]
              /\ Readable(f) => Readable(f)',
         threads[u].pc = "zero" => UNCHANGED master_fds
  PROVE  ThreadOK(u)'
<1>1. CASE ~Alive(u)
  BY <1>1 DEF ThreadOK, Alive
<1>2. CASE Alive(u)
  <2> DEFINE i == threads[u].slot
  <2> DEFINE f == clients[i].socket_fd
  <2>1. clients'[i].is_active = clients[i].is_active /\ clients'[i].socket_fd = f
        /\ (clients[i].silent => clients'[i].silent) /\ files'[f] = files[f]
        /\ (Readable(f) => Readable(f)')
    BY <1>2
  <2>2. Readable(f)' => Readable(clients[threads[u].slot].socket_fd)'
    BY <2>1 DEF Readable
  <2> QED
    BY <2>1, <2>2 DEF ThreadOK
<1> QED
  BY <1>1, <1>2

\* All threads, in a step that touches the slots and the set in nothing.
LEMMA ThreadsKept ==
  ASSUME Basic, ThreadsOK, UNCHANGED <<files, threads, master_fds>>,
         \A i \in Slots : /\ clients'[i].is_active = clients[i].is_active
                          /\ clients'[i].socket_fd = clients[i].socket_fd
                          /\ clients[i].silent => clients'[i].silent,
         \A f \in Descriptors : Readable(f) => Readable(f)'
  PROVE  ThreadsOK'
<1> SUFFICES ASSUME NEW u \in Threads PROVE ThreadOK(u)'
  BY SameSets DEF ThreadsOK
<1>1. Alive(u) => threads[u].slot \in Slots
  BY DEF Basic, StepsOK
<1>2. Alive(u) => clients[threads[u].slot].socket_fd \in Descriptors
  BY <1>1, Types, ClientFields DEF Basic
<1>3. ThreadOK(u)
  BY DEF ThreadsOK
<1> DEFINE i == threads[u].slot
<1> DEFINE f == clients[i].socket_fd
<1>4. Alive(u) => /\ clients'[i].is_active = clients[i].is_active /\ clients'[i].socket_fd = f
                  /\ clients[i].silent => clients'[i].silent
                  /\ files'[f] = files[f]
  BY <1>1
<1>5. Alive(u) => (Readable(f) => Readable(f)')
  BY <1>2, <1>4 DEF Readable
<1> QED
  BY <1>3, <1>4, <1>5, ThreadKept

\* MasterOK, in a step that changes neither the set nor who is in it.
LEMMA MasterKept ==
  ASSUME MasterOK, UNCHANGED master_fds,
         \A i \in Slots : Selects(i)' <=> Selects(i),
         \A i \in Slots : Selects(i) => clients'[i].socket_fd = clients[i].socket_fd
  PROVE  MasterOK'
BY SameSets DEF MasterOK

\* MasterOK, when one slot's socket is taken out of the set.
LEMMA MasterKeptByClear ==
  ASSUME MasterOK, SocketsOK, NEW i \in Slots, clients[i].is_active,
         master_fds' = master_fds \ {clients[i].socket_fd}, ~Selects(i)',
         \A j \in Slots : j # i => (Selects(j)' <=> Selects(j)),
         \A j \in Slots : j # i => clients'[j].socket_fd = clients[j].socket_fd
  PROVE  MasterOK'
<1>1. \A j \in Slots : Selects(j) /\ clients[j].socket_fd = clients[i].socket_fd => j = i
  BY DEF SocketsOK, Selects
<1>2. \A f \in Descriptors : f \in master_fds' =>
        \E j \in Slots : j # i /\ Selects(j) /\ clients[j].socket_fd = f
  BY DEF MasterOK
<1>3. \A f \in Descriptors, j \in Slots :
        j # i /\ Selects(j) /\ clients[j].socket_fd = f => f \in master_fds'
  BY <1>1 DEF MasterOK
<1>4. \A f \in Descriptors : f \in master_fds' =>
        \E j \in Slots : Selects(j)' /\ clients'[j].socket_fd = f
  BY <1>2
<1>5. \A f \in Descriptors, j \in Slots :
        Selects(j)' /\ clients'[j].socket_fd = f => f \in master_fds'
  BY <1>3
<1> QED
  BY <1>4, <1>5, SameSets DEF MasterOK

\* ReadsOK, in a step after which select's answer is still true of what is ahead.
LEMMA ReadsKept ==
  ASSUME Basic, ReadsOK, main'.read_fds = main.read_fds,
         main'.pc = "wait" => main.pc = "wait" /\ UNCHANGED master_fds,
         main'.pc = "accept" =>
           main.pc = "accept" /\ \A f \in main.read_fds : files'[f] = files[f],
         \A j \in Ahead' : j \in Ahead,
         \A j \in Ahead' : clients'[j].is_active /\ clients'[j].socket_fd \in main.read_fds =>
           /\ clients[j].is_active /\ clients'[j].socket_fd = clients[j].socket_fd
           /\ ~HasThread(j) /\ Readable(clients[j].socket_fd) =>
                ~HasThread(j)' /\ \A f : f = clients[j].socket_fd => Readable(f)',
         main'.pc \in {"spawn", "unset"} =>
           /\ main.pc \in {"spawn", "unset"} /\ main'.slot = main.slot
           /\ clients'[main.slot].is_active => clients[main.slot].is_active
           /\ clients'[main.slot].is_active =>
                clients'[main.slot].socket_fd = clients[main.slot].socket_fd,
         main'.pc = "recv" =>
           \/ clients'[main'.slot].socket_fd \in main.read_fds
           \/ /\ main.pc = "recv" /\ main'.slot = main.slot
              /\ clients'[main.slot].socket_fd = clients[main.slot].socket_fd
  PROVE  ReadsOK'
<1>1. main'.pc = "wait" => main'.read_fds = master_fds'
  BY DEF ReadsOK
<1>2. main'.pc = "accept" => \A f \in main'.read_fds : files'[f] \in Connections
  BY DEF ReadsOK
<1>3. ASSUME NEW j \in Ahead', clients'[j].is_active, clients'[j].socket_fd \in main'.read_fds
      PROVE  ~HasThread(j)' /\ \A f : f = clients'[j].socket_fd => Readable(f)'
  <2>1. /\ j \in Ahead /\ clients[j].is_active /\ clients'[j].socket_fd = clients[j].socket_fd
        /\ clients[j].socket_fd \in main.read_fds
    BY <1>3
  <2>2. ~HasThread(j) /\ Readable(clients[j].socket_fd)
    BY <2>1 DEF ReadsOK
  <2> QED
    BY <1>3, <2>1, <2>2
<1>4. main'.pc \in {"spawn", "unset"} =>
       ~(clients'[main'.slot].is_active /\ clients'[main'.slot].socket_fd \in main'.read_fds)
  BY DEF ReadsOK
<1>5. main'.pc = "recv" => clients'[main'.slot].socket_fd \in main'.read_fds
  BY DEF ReadsOK
<1> QED
  BY <1>1, <1>2, <1>3, <1>4, <1>5 DEF ReadsOK

-----------------------------------------------------------------------------
(* Steps of the clients.                                                   *)

\* A client sends, connects or is silent: nothing that was readable stops to be.
LEMMA QuietStep ==
  ASSUME Basic, Undisturbed, UNCHANGED <<files, master_fds, main, threads>>,
         \A i \in Slots : /\ clients'[i].is_active = clients[i].is_active
                          /\ clients'[i].socket_fd = clients[i].socket_fd
                          /\ clients[i].silent => clients'[i].silent,
         \A f \in Descriptors : Readable(f) => Readable(f)'
  PROVE  Undisturbed'
<1>1. OneThread /\ SocketsOK /\ MainOK /\ ThreadsOK /\ ReadsOK /\ MasterOK
  BY DEF Undisturbed
<1>2. OneThread' /\ \A i \in Slots : HasThread(i)' <=> HasThread(i)
  BY <1>1, SameThreads
<1>3. \A i \in Slots : BeingCleared(i)' <=> BeingCleared(i)
  BY SameSets DEF BeingCleared, ThreadsOf, Alive
<1>4. SocketsOK' /\ ThreadsOK'
  BY <1>1, <1>3, SocketsKept, ThreadsKept
<1>5. MainOK'
  BY <1>1, <1>2 DEF MainOK, Basic, StepsOK
<1>6. \A i \in Slots : clients[i].socket_fd \in Descriptors
  BY Types, ClientFields DEF Basic
<1>7. Ahead' = Ahead /\ Ahead \subseteq Slots
  BY SameSets DEF Ahead
<1>8. ReadsOK'
  BY <1>1, <1>2, <1>6, <1>7, ReadsKept DEF Basic, StepsOK
<1>9. MasterOK'
  BY <1>1, <1>2, MasterKept DEF Selects
<1> QED
  BY <1>2, <1>4, <1>5, <1>8, <1>9 DEF Undisturbed

\* Connect: the connection has no descriptor yet.
LEMMA ConnectOrderly ==
  ASSUME Basic, Undisturbed, NEW c \in Connections, Connect(c)
  PROVE  Undisturbed'
<1>1. /\ peers[c] = "away" /\ PeerBecomes(c, "waiting")
      /\ UNCHANGED <<files, clients, master_fds, main, threads>>
  BY ConnectEffect DEF Basic
<1>2. \A f \in Descriptors : Readable(f) => Readable(f)'
  BY <1>1 DEF Readable, PeerBecomes
<1> QED
  BY <1>1, <1>2, QuietStep

\* Talk: a socket becomes readable.
LEMMA TalkOrderly ==
  ASSUME Basic, Undisturbed, NEW c \in Connections, Talk(c)
  PROVE  Undisturbed'
<1>1. /\ peers[c] = "idle" /\ (PeerBecomes(c, "sent") \/ PeerBecomes(c, "closed"))
      /\ UNCHANGED <<files, clients, master_fds, main, threads>>
  BY TalkEffect DEF Basic
<1>2. \A f \in Descriptors : Readable(f) => Readable(f)'
  BY <1>1 DEF Readable, PeerBecomes
<1> QED
  BY <1>1, <1>2, QuietStep

\* TimePasses: a client becomes silent.
LEMMA TimePassesOrderly ==
  ASSUME Basic, Undisturbed, NEW i \in Slots, TimePasses(i)
  PROVE  Undisturbed'
<1>1. /\ SlotBecomes(i, clients[i].is_active, clients[i].socket_fd, TRUE)
      /\ UNCHANGED <<peers, files, master_fds, main, threads>>
  BY TimePassesEffect DEF Basic
<1>2. \A j \in Slots : /\ clients'[j].is_active = clients[j].is_active
                       /\ clients'[j].socket_fd = clients[j].socket_fd
                       /\ clients[j].silent => clients'[j].silent
  BY <1>1 DEF SlotBecomes
<1>3. \A f \in Descriptors : Readable(f) => Readable(f)'
  BY <1>1 DEF Readable
<1> QED
  BY <1>1, <1>2, <1>3, QuietStep

-----------------------------------------------------------------------------
(* Steps of the main thread that touch no slot.                            *)

\* The main thread moves on and nothing else changes.
LEMMA MainStepAlone ==
  ASSUME Basic, Undisturbed, MainOK', ReadsOK',
         UNCHANGED <<files, clients, master_fds, threads>>,
         main.pc \notin {"clear", "sweep_clear", "unset"},
         main'.pc \notin {"clear", "sweep_clear", "unset"},
         \A f \in Descriptors : Readable(f) => Readable(f)'
  PROVE  Undisturbed'
<1>1. OneThread /\ SocketsOK /\ MainOK /\ ThreadsOK /\ ReadsOK /\ MasterOK
  BY DEF Undisturbed
<1>2. OneThread' /\ \A i \in Slots : HasThread(i)' <=> HasThread(i)
  BY <1>1, SameThreads
<1>3. \A i \in Slots : BeingCleared(i)' <=> BeingCleared(i)
  BY SameClearing
<1>4. SocketsOK' /\ ThreadsOK'
  BY <1>1, <1>3, SocketsKept, ThreadsKept
<1>5. MasterOK'
  BY <1>1, <1>2, MasterKept DEF Selects
<1> QED
  BY <1>2, <1>4, <1>5 DEF Undisturbed

\* A descriptor in the set is the open socket of a client without a thread.
LEMMA MasterIsOpen ==
  ASSUME Basic, Undisturbed, main.pc \notin {"clear", "sweep_clear", "unset"},
         NEW f \in master_fds
  PROVE  /\ files[f] \in Connections
         /\ \A i \in Slots : clients[i].is_active /\ clients[i].socket_fd = f => ~HasThread(i)
<1>1. f \in Descriptors
  BY Types DEF Basic
<1>2. PICK i \in Slots : clients[i].is_active /\ ~HasThread(i) /\ clients[i].socket_fd = f
  BY <1>1 DEF Undisturbed, MasterOK, Selects
<1>3. ~BeingCleared(i)
  BY <1>2 DEF BeingCleared, HasThread, ThreadsOf
<1> QED
  BY <1>2, <1>3 DEF Undisturbed, SocketsOK

\* Select: what is in the set is open, so that select does not fail.
LEMMA SelectOrderly ==
  ASSUME Basic, Undisturbed, Select
  PROVE  Undisturbed'
<1>1. /\ main.pc = "select"
      /\ \/ MainBecomes("wait", 0, master_fds)
         \/ MainBecomes("stopped", 0, master_fds) /\ \E f \in master_fds : files[f] = Nothing
      /\ UNCHANGED <<peers, files, clients, master_fds, threads>>
  BY SelectEffect DEF Basic
<1>2. \A f \in master_fds : files[f] # Nothing
  BY <1>1, MasterIsOpen, ConnectionsAssumption
<1>3. main'.pc = "wait" /\ main'.read_fds = master_fds'
  BY <1>1, <1>2 DEF MainBecomes
<1>4. MainOK' /\ ReadsOK'
  BY <1>3 DEF MainOK, ReadsOK, Ahead
<1>5. \A f \in Descriptors : Readable(f) => Readable(f)'
  BY <1>1 DEF Readable
<1> QED
  BY <1>1, <1>3, <1>4, <1>5, MainStepAlone

\* SelectReturns: who is ready has no thread.
LEMMA SelectReturnsOrderly ==
  ASSUME Basic, Undisturbed, SelectReturns
  PROVE  Undisturbed'
<1> DEFINE ready == {f \in main.read_fds : Readable(f)}
<1>1. /\ main.pc = "wait" /\ main'.pc \in {"accept", "serve"} /\ main'.slot = 1
      /\ main'.read_fds = ready
      /\ UNCHANGED <<peers, files, clients, master_fds, threads>>
  BY SelectReturnsEffect DEF Basic, MainBecomes
<1>2. main.read_fds = master_fds
  BY <1>1 DEF Undisturbed, ReadsOK
<1>3. \A i \in Slots : HasThread(i)' <=> HasThread(i)
  BY <1>1, SameThreads DEF Undisturbed
<1>4. \A f : Readable(f) <=> Readable(f)'
  BY <1>1 DEF Readable
<1>5. \A f \in ready : /\ files[f] \in Connections
                       /\ \A i \in Slots : clients[i].is_active /\ clients[i].socket_fd = f
                                             => ~HasThread(i)
  BY <1>1, <1>2, MasterIsOpen
<1>6. Ahead' \subseteq Slots
  BY <1>1 DEF Ahead, Slots
<1>7. ReadsOK'
  <2>1. ASSUME NEW j \in Ahead', clients'[j].is_active, clients'[j].socket_fd \in main'.read_fds
        PROVE  ~HasThread(j)' /\ Readable(clients'[j].socket_fd)
    BY <1>1, <1>3, <1>5, <1>6, <2>1
  <2>2. \A j \in Ahead' : clients'[j].is_active /\ clients'[j].socket_fd \in main'.read_fds =>
          ~HasThread(j)' /\ Readable(clients[j].socket_fd)'
    BY <1>1, <1>4, <2>1 DEF Readable
  <2>3. \A f \in main'.read_fds : files'[f] \in Connections
    BY <1>1, <1>5
  <2> QED
    BY <1>1, <2>2, <2>3 DEF ReadsOK
<1>8. MainOK'
  BY <1>1 DEF MainOK
<1> QED
  BY <1>1, <1>4, <1>7, <1>8, MainStepAlone

\* Reject: the connection has no descriptor.
LEMMA RejectOrderly ==
  ASSUME Basic, Undisturbed, Reject
  PROVE  Undisturbed'
<1>0. main.pc = "accept" /\ backlog # <<>>
  BY DEF Reject, Basic, StepsOK
<1>1. /\ main.pc = "accept" /\ main'.pc = "serve" /\ main'.slot = 1
      /\ main'.read_fds = main.read_fds
      /\ backlog' = Tail(backlog) /\ PeerBecomes(Head(backlog), "away") /\ backlog # <<>>
      /\ UNCHANGED <<files, clients, master_fds, threads>>
  BY <1>0, RejectEffect DEF Basic, MainGoes, MainBecomes
<1>2. peers[Head(backlog)] = "waiting"
  BY <1>1, TailWaits DEF Basic
<1>3. \A f \in Descriptors : Readable(f) => Readable(f)'
  BY <1>1, <1>2 DEF Readable, PeerBecomes
<1>4. \A i \in Slots : HasThread(i)' <=> HasThread(i)
  BY <1>1, SameThreads DEF Undisturbed
<1>5. Ahead' = Slots /\ Ahead = Slots
  BY <1>1, SameSets DEF Ahead, Slots
<1>6. ReadsOK'
  BY <1>1, <1>3, <1>4, <1>5, ReadsKept, Types, ClientFields DEF Undisturbed, Basic
<1>7. MainOK'
  BY <1>1 DEF MainOK
<1> QED
  BY <1>1, <1>3, <1>6, <1>7, MainStepAlone

\* pthread_create fails.
LEMMA NoThreadOrderly ==
  ASSUME Basic, Undisturbed, main.pc = "spawn", MainGoes("serve", 1),
         UNCHANGED <<peers, files, clients, master_fds, threads>>
  PROVE  Undisturbed'
<1>1. main'.pc = "serve" /\ main'.slot = 1 /\ main'.read_fds = main.read_fds
  BY DEF MainGoes, MainBecomes
<1>2. \A f : Readable(f) => Readable(f)'
  BY DEF Readable
<1>3. \A i \in Slots : HasThread(i)' <=> HasThread(i)
  BY SameThreads DEF Undisturbed
<1>4. Ahead' = Slots /\ Ahead = Slots
  BY <1>1, SameSets DEF Ahead, Slots
<1>5. ReadsOK'
  BY <1>1, <1>2, <1>3, <1>4, ReadsKept DEF Undisturbed
<1>6. MainOK'
  BY <1>1 DEF MainOK
<1> QED
  BY <1>1, <1>2, <1>5, <1>6, MainStepAlone

\* Serve: a selected slot has no thread, and its message is there.
LEMMA ServeOrderly ==
  ASSUME Basic, Undisturbed, Serve
  PROVE  Undisturbed'
<1> DEFINE i == main.slot
<1>1. main.pc = "serve" /\ i \in 0 .. MaxClients + 1 /\ i # 0
  BY Types, MainFields DEF Serve, Basic, StepsOK
<1>2. /\ \/ i = MaxClients + 1 /\ main'.pc = "sweep" /\ main'.slot = 1
         \/ i \in Slots /\ Selected(i) /\ main'.pc = "recv" /\ main'.slot = i
         \/ i \in Slots /\ main'.pc = "serve" /\ main'.slot = i + 1
      /\ main'.read_fds = main.read_fds
      /\ UNCHANGED <<peers, files, clients, master_fds, threads>>
  BY <1>1, ServeEffect DEF Basic, MainGoes, MainBecomes
<1>3. \A f : Readable(f) => Readable(f)'
  BY <1>2 DEF Readable
<1>4. \A j \in Slots : HasThread(j)' <=> HasThread(j)
  BY <1>2, SameThreads DEF Undisturbed
<1>5. Ahead = {j \in Slots : j >= i}
  BY <1>1 DEF Ahead
<1>6. Ahead' \subseteq Ahead /\ Ahead \subseteq Slots
  <2>1. CASE main'.pc = "sweep"
    BY <1>5, <2>1 DEF Ahead
  <2>2. CASE main'.pc \in {"recv", "serve"}
    <3>1. Ahead' = {j \in Slots : j >= main'.slot}
      BY <2>2, SameSets DEF Ahead
    <3> QED
      BY <1>1, <1>2, <1>5, <2>2, <3>1, SizesAssumption DEF Slots
  <2> QED
    BY <1>2, <2>1, <2>2
<1>7. ReadsOK'
  <2>1. /\ main'.pc \notin {"wait", "accept", "spawn", "unset"}
        /\ \A j \in Ahead : clients'[j] = clients[j]
        /\ \A j \in Ahead : ~HasThread(j) => ~HasThread(j)'
    BY <1>2, <1>4, <1>6
  <2>2. main'.pc = "recv" => clients'[main'.slot].socket_fd \in main.read_fds
    BY <1>2 DEF Selected
  <2> QED
    BY <1>2, <1>3, <1>6, <2>1, <2>2, ReadsKept DEF Undisturbed
<1>8. MainOK'
  <2>1. CASE main'.pc = "recv"
    <3>1. i \in Ahead /\ clients[i].is_active /\ i \in Slots /\ clients[i].socket_fd \in main.read_fds
      BY <1>1, <1>2, <1>5, <2>1, SizesAssumption DEF Selected, Slots
    <3>2. ~HasThread(i)
      BY <3>1 DEF Undisturbed, ReadsOK
    <3>3. \A j \in Slots : j = i => clients'[j].is_active /\ ~HasThread(j)'
      BY <1>2, <1>4, <3>1, <3>2
    <3> QED
      BY <1>2, <2>1, <3>1, <3>3 DEF MainOK
  <2>2. CASE main'.pc # "recv"
    BY <1>2, <2>2 DEF MainOK
  <2> QED
    BY <2>1, <2>2
<1> QED
  BY <1>1, <1>2, <1>3, <1>7, <1>8, MainStepAlone

\* Sweep: the run stays orderly only if the late client has no thread.
LEMMA SweepOrderly ==
  ASSUME Basic, Undisturbed, Sweep, orderly'
  PROVE  Undisturbed'
<1> DEFINE i == main.slot
<1>1. main.pc = "sweep" /\ i # 0
  BY DEF Sweep, Basic, StepsOK
<1>2. /\ \/ main'.pc \in {"select", "sweep"}
         \/ /\ i \in Slots /\ Late(i) /\ main'.pc = "sweep_close" /\ main'.slot = i
            /\ ThreadsOf(i) = {}
      /\ UNCHANGED <<peers, files, clients, master_fds, threads>>
  BY <1>1, SweepEffect DEF Basic, MainGoes, MainBecomes
<1>3. \A f : Readable(f) => Readable(f)'
  BY <1>2 DEF Readable
<1>4. \A j \in Slots : HasThread(j)' <=> HasThread(j)
  BY <1>2, SameThreads DEF Undisturbed
<1>5. ReadsOK'
  BY <1>2 DEF ReadsOK, Ahead
<1>6. MainOK'
  <2>1. CASE main'.pc = "sweep_close"
    <3>1. i \in Slots /\ ~HasThread(i)
      BY <1>2, <2>1 DEF HasThread, ThreadsOf
    <3>2. \A j \in Slots : j = i => ~HasThread(j)'
      BY <1>4, <3>1
    <3> QED
      BY <1>2, <2>1, <3>1, <3>2 DEF MainOK, Late
  <2>2. CASE main'.pc # "sweep_close"
    BY <1>2, <2>2 DEF MainOK
  <2> QED
    BY <2>1, <2>2
<1> QED
  BY <1>1, <1>2, <1>3, <1>5, <1>6, MainStepAlone

-----------------------------------------------------------------------------
(* Steps of a client thread that touch only its own variables.             *)

\* A client thread moves on, or ends on a slot that is free.
LEMMA ThreadStepAlone ==
  ASSUME Basic, Undisturbed, NEW t \in Threads, NEW P, ThreadMoves(t, P), Alive(t),
         UNCHANGED <<peers, files, clients, master_fds, main>>,
         \/ Alive(t)' /\ P \cap ClearSteps = {} /\ threads[t].pc \notin ClearSteps
         \/ threads[t].pc = "clear" /\ P = {"zero"}
         \/ P = {"ended"} /\ threads[t].pc \notin ClearSteps
            /\ ~clients[threads[t].slot].is_active,
         ThreadOK(t)'
  PROVE  Undisturbed'
<1> DEFINE i == threads[t].slot
<1>1. OneThread /\ SocketsOK /\ MainOK /\ ThreadsOK /\ ReadsOK /\ MasterOK
  BY DEF Undisturbed
<1>2. OneThread' /\ \A j \in Slots :
        /\ HasThread(j)' => HasThread(j)
        /\ clients[j].is_active => (HasThread(j)' <=> HasThread(j))
  <2>1. CASE Alive(t)'
    BY <1>1, <2>1, ThreadStays
  <2>2. CASE ~Alive(t)'
    <3>1. ~clients[i].is_active
      BY <2>2 DEF Alive, ThreadMoves
    <3> QED
      BY <1>1, <2>2, <3>1, ThreadLeaves
  <2> QED
    BY <2>1, <2>2
<1>3. \A j \in Slots : BeingCleared(j)' <=> BeingCleared(j)
  <2>1. CASE P \cap ClearSteps = {} /\ threads[t].pc \notin ClearSteps
    BY <2>1, SameClearingThread
  <2>2. CASE threads[t].pc = "clear" /\ P = {"zero"}
    <3>1. \A u \in Threads : /\ threads'[u].slot = threads[u].slot /\ (Alive(u)' <=> Alive(u))
                             /\ threads'[u].pc \in {"clear", "zero"} <=>
                                  threads[u].pc \in {"clear", "zero"}
      BY <2>2 DEF ThreadMoves, Alive
    <3>2. \A j \in Slots : ThreadsOf(j)' = ThreadsOf(j)
      BY <3>1, SameSets DEF ThreadsOf
    <3>3. \A j \in Slots : \A u \in ThreadsOf(j) : u \in Threads
      BY DEF ThreadsOf
    <3> QED
      BY <3>1, <3>2, <3>3 DEF BeingCleared
  <2>3. CASE P = {"ended"} /\ threads[t].pc \notin ClearSteps
    BY <2>3, SameClearingThread DEF ClearSteps
  <2> QED
    BY <2>1, <2>2, <2>3
<1>4. SocketsOK'
  BY <1>1, <1>3, SocketsKept
<1>5. MainOK'
  BY <1>1, <1>2 DEF MainOK, Basic, StepsOK
<1>6. \A f : Readable(f) => Readable(f)'
  BY DEF Readable
<1>7. ThreadsOK'
  <2> SUFFICES ASSUME NEW u \in Threads, u # t PROVE ThreadOK(u)'
    BY SameSets DEF ThreadsOK
  <2> QED
    BY <1>1, <1>6, ThreadKept DEF ThreadsOK, ThreadMoves
<1>8. Ahead' = Ahead /\ Ahead \subseteq Slots
  BY SameSets DEF Ahead
<1>9. ReadsOK'
  BY <1>1, <1>2, <1>6, <1>8, ReadsKept
<1>10. MasterOK'
  BY <1>1, <1>2, MasterKept DEF Selects
<1> QED
  BY <1>2, <1>4, <1>5, <1>7, <1>9, <1>10 DEF Undisturbed

\* Loop: a thread goes on while its slot is active.
LEMMA LoopOrderly ==
  ASSUME Basic, Undisturbed, NEW t \in Threads, Loop(t)
  PROVE  Undisturbed'
<1> DEFINE i == threads[t].slot
<1>1. /\ threads[t].pc = "loop"
      /\ \/ Goes(t, "watch") /\ clients[i].is_active
         \/ Goes(t, "ended") /\ (main.pc = "stopped" \/ ~clients[i].is_active)
      /\ UNCHANGED <<peers, files, clients, master_fds, main>>
  BY LoopEffect DEF Basic
<1>2. Alive(t) /\ threads[t].pc \notin ClearSteps
  BY <1>1 DEF Alive, ClearSteps
<1>3. CASE Goes(t, "watch") /\ clients[i].is_active
  <2>1. ThreadMoves(t, {"watch"}) /\ threads'[t].pc = "watch" /\ threads'[t].slot = i
    BY <1>3 DEF Goes, ThreadBecomes, ThreadMoves
  <2>2. ThreadOK(t)'
    BY <1>1, <1>3, <2>1 DEF ThreadOK
  <2>3. Alive(t)' /\ {"watch"} \cap ClearSteps = {}
    BY <2>1 DEF Alive, ClearSteps
  <2> QED
    BY <1>1, <1>2, <2>1, <2>2, <2>3, ThreadStepAlone
<1>4. CASE Goes(t, "ended") /\ ~clients[i].is_active
  <2>1. ThreadMoves(t, {"ended"}) /\ threads'[t].pc = "ended"
    BY <1>4 DEF Goes, ThreadBecomes, ThreadMoves
  <2>2. ThreadOK(t)'
    BY <2>1 DEF ThreadOK
  <2> QED
    BY <1>1, <1>2, <1>4, <2>1, <2>2, ThreadStepAlone
<1>5. main.pc # "stopped"
  BY DEF Undisturbed, MainOK
<1> QED
  BY <1>1, <1>3, <1>4, <1>5

\* A thread that starts over makes no assumption on its slot.
LEMMA RestartOrderly ==
  ASSUME Basic, Undisturbed, NEW t \in Threads, Restarts(t, "check"),
         Alive(t), threads[t].pc \notin ClearSteps,
         UNCHANGED <<peers, files, clients, master_fds, main>>
  PROVE  Undisturbed'
<1>1. ThreadMoves(t, {"check"}) /\ threads'[t].pc = "check"
  BY DEF Restarts, ThreadBecomes, ThreadMoves
<1>2. ThreadOK(t)' /\ Alive(t)' /\ {"check"} \cap ClearSteps = {}
  BY <1>1 DEF ThreadOK, Alive, ClearSteps
<1> QED
  BY <1>1, <1>2, ThreadStepAlone

\* Watch: nobody else is clearing the slot, so that its socket is open.
LEMMA WatchOrderly ==
  ASSUME Basic, Undisturbed, NEW t \in Threads, Watch(t)
  PROVE  Undisturbed'
<1> DEFINE th == threads[t]
<1> DEFINE i == th.slot
<1> DEFINE f == clients[i].socket_fd
<1>1. th.pc = "watch"
  BY DEF Watch
<1>2. Alive(t) /\ th.pc \notin ClearSteps /\ i \in Slots
  BY <1>1 DEF Alive, ClearSteps, Basic, StepsOK
<1>3. /\ \/ Restarts(t, "check")
         \/ ThreadBecomes(t, "wait", i, f, files[f], th.set, th.timed)
      /\ UNCHANGED <<peers, files, clients, master_fds, main>>
  BY <1>2, WatchEffect DEF Basic
<1>4. CASE ThreadBecomes(t, "wait", i, f, files[f], th.set, th.timed)
  <2>1. clients[i].is_active
    BY <1>1 DEF Undisturbed, ThreadsOK, ThreadOK
  <2>2. ~BeingCleared(i)
    BY <1>2, ClearedByThread DEF Undisturbed
  <2>3. files[f] \in Connections
    BY <1>2, <2>1, <2>2 DEF Undisturbed, SocketsOK
  <2>4. /\ threads'[t].pc = "wait" /\ threads'[t].slot = i /\ threads'[t].fd = f
        /\ threads'[t].on = files[f]
    BY <1>4 DEF ThreadBecomes
  <2>5. ThreadOK(t)'
    BY <1>3, <2>1, <2>3, <2>4 DEF ThreadOK
  <2>6. Alive(t)' /\ {"wait"} \cap ClearSteps = {} /\ ThreadMoves(t, {"wait"})
    BY <1>4, <2>4 DEF Alive, ClearSteps, ThreadBecomes, ThreadMoves
  <2> QED
    BY <1>2, <1>3, <2>5, <2>6, ThreadStepAlone
<1> QED
  BY <1>2, <1>3, <1>4, RestartOrderly

\* Wake: the socket is the one it waited for, and readable.
LEMMA WakeOrderly ==
  ASSUME Basic, Undisturbed, NEW t \in Threads, Wake(t)
  PROVE  Undisturbed'
<1> DEFINE th == threads[t]
<1>1. /\ th.pc = "wait"
      /\ \/ Restarts(t, "check")
         \/ /\ files[th.fd] = th.on => Readable(th.fd) \/ th.on = Stdin
            /\ clients[th.slot].socket_fd = th.fd /\ Restarts(t, "lock")
      /\ UNCHANGED <<peers, files, clients, master_fds, main>>
  BY WakeEffect DEF Basic
<1>2. Alive(t) /\ th.pc \notin ClearSteps
  BY <1>1 DEF Alive, ClearSteps
<1>3. ASSUME files[th.fd] = th.on => Readable(th.fd) \/ th.on = Stdin,
             clients[th.slot].socket_fd = th.fd, Restarts(t, "lock")
      PROVE  Undisturbed'
  <2>1. clients[th.slot].is_active /\ th.on = files[th.fd] /\ th.on \in Connections
    BY <1>1 DEF Undisturbed, ThreadsOK, ThreadOK
  <2>2. Readable(th.fd)
    BY <1>3, <2>1, ConnectionsAssumption
  <2>3. threads'[t].pc = "lock" /\ threads'[t].slot = th.slot /\ threads'[t].timed = FALSE
    BY <1>3 DEF Restarts, ThreadBecomes
  <2>4. Readable(clients[threads[t].slot].socket_fd)'
    BY <1>1, <1>3, <2>2, <2>3 DEF Readable
  <2>5. ThreadOK(t)'
    BY <1>1, <2>1, <2>3, <2>4 DEF ThreadOK
  <2>6. Alive(t)' /\ {"lock"} \cap ClearSteps = {} /\ ThreadMoves(t, {"lock"})
    BY <1>3, <2>3 DEF Alive, ClearSteps, Restarts, ThreadBecomes, ThreadMoves
  <2> QED
    BY <1>1, <1>2, <2>5, <2>6, ThreadStepAlone
<1> QED
  BY <1>1, <1>2, <1>3, RestartOrderly

\* Lock: nobody else reads from the socket meanwhile.
LEMMA LockOrderly ==
  ASSUME Basic, Undisturbed, NEW t \in Threads, Lock(t)
  PROVE  Undisturbed'
<1> DEFINE th == threads[t]
<1>1. /\ \/ th.pc = "lock" /\ Goes(t, "recv")
         \/ th.pc = "timeout_lock" /\ Goes(t, "close")
      /\ UNCHANGED <<peers, files, clients, master_fds, main>>
  BY LockEffect DEF Basic
<1>2. Alive(t) /\ th.pc \notin ClearSteps /\ ThreadOK(t)
  BY <1>1 DEF Alive, ClearSteps, Undisturbed, ThreadsOK
<1>3. CASE th.pc = "lock" /\ Goes(t, "recv")
  <2>1. threads'[t].pc = "recv" /\ threads'[t].slot = th.slot /\ threads'[t].timed = th.timed
    BY <1>3 DEF Goes, ThreadBecomes
  <2>2. Readable(clients[threads[t].slot].socket_fd)'
    BY <1>1, <1>2, <1>3, <2>1 DEF Readable, ThreadOK
  <2>3. ThreadOK(t)'
    BY <1>1, <1>2, <1>3, <2>1, <2>2 DEF ThreadOK
  <2>4. Alive(t)' /\ {"recv"} \cap ClearSteps = {} /\ ThreadMoves(t, {"recv"})
    BY <1>3, <2>1 DEF Alive, ClearSteps, Goes, ThreadBecomes, ThreadMoves
  <2> QED
    BY <1>1, <1>2, <2>3, <2>4, ThreadStepAlone
<1>4. CASE th.pc = "timeout_lock" /\ Goes(t, "close")
  <2>1. threads'[t].pc = "close" /\ threads'[t].slot = th.slot /\ threads'[t].timed = th.timed
    BY <1>4 DEF Goes, ThreadBecomes
  <2>2. ThreadOK(t)'
    BY <1>1, <1>2, <1>4, <2>1 DEF ThreadOK
  <2>3. Alive(t)' /\ {"close"} \cap ClearSteps = {} /\ ThreadMoves(t, {"close"})
    BY <1>4, <2>1 DEF Alive, ClearSteps, Goes, ThreadBecomes, ThreadMoves
  <2> QED
    BY <1>1, <1>2, <2>2, <2>3, ThreadStepAlone
<1> QED
  BY <1>1, <1>3, <1>4

\* ThreadClear: the copy of the set is up to date.
LEMMA ThreadClearOrderly ==
  ASSUME Basic, Undisturbed, NEW t \in Threads, ThreadClear(t)
  PROVE  Undisturbed'
<1> DEFINE th == threads[t]
<1>1. /\ th.pc = "clear"
      /\ ThreadBecomes(t, "zero", th.slot, th.fd, th.on, master_fds, th.timed)
      /\ UNCHANGED <<peers, files, clients, master_fds, main>>
  BY ThreadClearEffect DEF Basic
<1>2. Alive(t) /\ ThreadOK(t)
  BY <1>1 DEF Alive, Undisturbed, ThreadsOK
<1>3. /\ threads'[t].pc = "zero" /\ threads'[t].slot = th.slot /\ threads'[t].fd = th.fd
      /\ threads'[t].set = master_fds
  BY <1>1 DEF ThreadBecomes
<1>4. ThreadOK(t)'
  BY <1>1, <1>2, <1>3 DEF ThreadOK
<1>5. ThreadMoves(t, {"zero"})
  BY <1>1 DEF ThreadBecomes, ThreadMoves
<1> QED
  BY <1>1, <1>2, <1>4, <1>5, ThreadStepAlone

\* Unlock: a thread that ends has cleared its slot.
LEMMA UnlockOrderly ==
  ASSUME Basic, Undisturbed, NEW t \in Threads, Unlock(t)
  PROVE  Undisturbed'
<1> DEFINE th == threads[t]
<1>1. /\ th.pc = "unlock"
      /\ \/ Goes(t, "ended") /\ th.timed
         \/ Goes(t, "check")
      /\ UNCHANGED <<peers, files, clients, master_fds, main>>
  BY UnlockEffect DEF Basic
<1>2. Alive(t) /\ th.pc \notin ClearSteps /\ ThreadOK(t)
  BY <1>1 DEF Alive, ClearSteps, Undisturbed, ThreadsOK
<1>3. CASE Goes(t, "ended") /\ th.timed
  <2>1. threads'[t].pc = "ended" /\ ThreadMoves(t, {"ended"})
    BY <1>3 DEF Goes, ThreadBecomes, ThreadMoves
  <2>2. ThreadOK(t)' /\ ~clients[th.slot].is_active
    BY <1>1, <1>2, <1>3, <2>1 DEF ThreadOK
  <2> QED
    BY <1>1, <1>2, <2>1, <2>2, ThreadStepAlone
<1>4. CASE Goes(t, "check")
  <2>1. threads'[t].pc = "check" /\ ThreadMoves(t, {"check"})
    BY <1>4 DEF Goes, ThreadBecomes, ThreadMoves
  <2>2. ThreadOK(t)' /\ Alive(t)' /\ {"check"} \cap ClearSteps = {}
    BY <2>1 DEF ThreadOK, Alive, ClearSteps
  <2> QED
    BY <1>1, <1>2, <2>1, <2>2, ThreadStepAlone
<1> QED
  BY <1>1, <1>3, <1>4

\* CheckTimeout: the client is silent now.
LEMMA CheckTimeoutOrderly ==
  ASSUME Basic, Undisturbed, NEW t \in Threads, CheckTimeout(t)
  PROVE  Undisturbed'
<1> DEFINE th == threads[t]
<1>1. /\ th.pc = "check"
      /\ \/ /\ Late(th.slot)
            /\ ThreadBecomes(t, "timeout_lock", th.slot, th.fd, th.on, th.set, TRUE)
         \/ Goes(t, "loop")
      /\ UNCHANGED <<peers, files, clients, master_fds, main>>
  BY CheckTimeoutEffect DEF Basic
<1>2. Alive(t) /\ th.pc \notin ClearSteps
  BY <1>1 DEF Alive, ClearSteps
<1>3. CASE Late(th.slot) /\ ThreadBecomes(t, "timeout_lock", th.slot, th.fd, th.on, th.set, TRUE)
  <2>1. threads'[t].pc = "timeout_lock" /\ threads'[t].slot = th.slot
    BY <1>3 DEF ThreadBecomes
  <2>2. ThreadOK(t)'
    BY <1>1, <1>3, <2>1 DEF ThreadOK, Late
  <2>3. Alive(t)' /\ {"timeout_lock"} \cap ClearSteps = {} /\ ThreadMoves(t, {"timeout_lock"})
    BY <1>3, <2>1 DEF Alive, ClearSteps, ThreadBecomes, ThreadMoves
  <2> QED
    BY <1>1, <1>2, <2>2, <2>3, ThreadStepAlone
<1>4. CASE Goes(t, "loop")
  <2>1. threads'[t].pc = "loop" /\ ThreadMoves(t, {"loop"})
    BY <1>4 DEF Goes, ThreadBecomes, ThreadMoves
  <2>2. ThreadOK(t)' /\ Alive(t)' /\ {"loop"} \cap ClearSteps = {}
    BY <2>1 DEF ThreadOK, Alive, ClearSteps
  <2> QED
    BY <1>1, <1>2, <2>1, <2>2, ThreadStepAlone
<1> QED
  BY <1>1, <1>3, <1>4

-----------------------------------------------------------------------------
(* recv, by the main thread and by a client thread.                        *)

\* A message that is read is read from one socket.
LEMMA KeepsView ==
  ASSUME Basic, NEW i \in Slots, Keeps(i) \/ UNCHANGED <<peers, clients>>, UNCHANGED files
  PROVE  /\ \A j \in Slots : /\ clients'[j].is_active = clients[j].is_active
                             /\ clients'[j].socket_fd = clients[j].socket_fd
         /\ \A j \in Slots : j # i => clients'[j] = clients[j]
         /\ \A f \in Descriptors : f # clients[i].socket_fd => (Readable(f) => Readable(f)')
<1>1. CASE UNCHANGED <<peers, clients>>
  BY <1>1 DEF Readable
<1>2. CASE Keeps(i)
  <2> DEFINE f == clients[i].socket_fd
  <2>1. /\ files[f] \in Connections /\ PeerBecomes(files[f], "idle")
        /\ SlotBecomes(i, clients[i].is_active, f, FALSE)
    BY <1>2 DEF Keeps
  <2>2. f \in Descriptors
    BY Types, ClientFields DEF Basic
  <2>3. \A g \in Descriptors : g # f => files[g] \notin Connections \/ files[g] # files[f]
    BY <2>1, <2>2 DEF Basic, PeersOK
  <2>4. \A g \in Descriptors : g # f => (Readable(g) => Readable(g)')
    BY <2>1, <2>3 DEF Readable, PeerBecomes
  <2> QED
    BY <2>1, <2>4 DEF SlotBecomes
<1> QED
  BY <1>1, <1>2

\* No other slot holds the socket of an active one.
LEMMA OtherSocket ==
  ASSUME Basic, SocketsOK, NEW i \in Slots, clients[i].is_active
  PROVE  \A j \in Slots : /\ clients[j].socket_fd \in Descriptors
                          /\ j # i => clients[j].socket_fd # clients[i].socket_fd
BY Types, ClientFields DEF SocketsOK, Basic, FreeOK

\* MainReceive: the slots ahead have other sockets.
LEMMA MainReceiveOrderly ==
  ASSUME Basic, Undisturbed, MainReceive
  PROVE  Undisturbed'
<1> DEFINE i == main.slot
<1>1. main.pc = "recv" /\ i \in Slots
  BY DEF MainReceive, Basic, StepsOK
<1>2. /\ Keeps(i) \/ UNCHANGED <<peers, clients>>
      /\ \/ main'.pc = "serve" /\ main'.slot = i + 1
         \/ main'.pc \in {"private", "close"} /\ main'.slot = i
      /\ main'.read_fds = main.read_fds
      /\ UNCHANGED <<files, master_fds, threads>>
  BY <1>1, MainReceiveEffect DEF Basic, MainGoes, MainBecomes
<1>3. OneThread /\ SocketsOK /\ MainOK /\ ThreadsOK /\ ReadsOK /\ MasterOK
  BY DEF Undisturbed
<1>4. clients[i].is_active /\ ~HasThread(i)
  BY <1>1, <1>3 DEF MainOK
<1>5. OneThread' /\ \A j \in Slots : HasThread(j)' <=> HasThread(j)
  BY <1>2, <1>3, SameThreads
<1>6. \A j \in Slots : BeingCleared(j)' <=> BeingCleared(j)
  BY <1>1, <1>2, SameClearing
<1>7. /\ \A j \in Slots : /\ clients'[j].is_active = clients[j].is_active
                          /\ clients'[j].socket_fd = clients[j].socket_fd
      /\ \A j \in Slots : j # i => clients'[j] = clients[j]
      /\ \A f \in Descriptors : f # clients[i].socket_fd => (Readable(f) => Readable(f)')
  BY <1>1, <1>2, KeepsView
<1>8. \A j \in Slots : /\ clients[j].socket_fd \in Descriptors
                       /\ j # i => clients[j].socket_fd # clients[i].socket_fd
  BY <1>1, <1>3, <1>4, OtherSocket
<1>9. SocketsOK'
  BY <1>2, <1>3, <1>6, <1>7, SocketsKept
<1>10. MasterOK'
  BY <1>1, <1>2, <1>3, <1>5, <1>7, MasterKept DEF Selects
<1>11. MainOK'
  <2>1. \A j \in Slots : j = i => clients'[j].is_active /\ ~HasThread(j)'
    BY <1>4, <1>5, <1>7
  <2> QED
    BY <1>1, <1>2, <2>1 DEF MainOK
<1>12. ThreadsOK'
  <2> SUFFICES ASSUME NEW u \in Threads PROVE ThreadOK(u)'
    BY SameSets DEF ThreadsOK
  <2> DEFINE j == threads[u].slot
  <2> DEFINE f == clients[j].socket_fd
  <2>1. Alive(u) => j \in Slots /\ j # i
    BY <1>4 DEF HasThread, Basic, StepsOK
  <2>2. ThreadOK(u)
    BY <1>3 DEF ThreadsOK
  <2>3. Alive(u) => clients'[j] = clients[j] /\ f \in Descriptors /\ f # clients[i].socket_fd
    BY <1>7, <1>8, <2>1
  <2>4. Alive(u) => (Readable(f) => \A g : g = f => Readable(g)')
    BY <1>7, <2>3
  <2>5. Alive(u) => (Readable(f) => Readable(f)')
    BY <1>2, <2>3, <2>4 DEF Readable
  <2> QED
    BY <1>2, <2>2, <2>3, <2>5, ThreadKept
<1>13. \A j \in Ahead' : j \in Ahead /\ j \in Slots /\ j # i
  <2>1. Ahead' = {j \in Slots : j > i}
    BY <1>1, <1>2, SameSets, SizesAssumption DEF Ahead, Slots
  <2>2. Ahead = {j \in Slots : j >= i}
    BY <1>1 DEF Ahead
  <2> QED
    BY <1>1, <2>1, <2>2 DEF Slots
<1>14. ReadsOK'
  BY <1>2, <1>3, <1>5, <1>7, <1>8, <1>13, ReadsKept
<1> QED
  BY <1>3, <1>5, <1>9, <1>10, <1>11, <1>12, <1>14 DEF Undisturbed

\* MainPrivate: the slots ahead are the same, and nothing is touched.
LEMMA MainPrivateOrderly ==
  ASSUME Basic, Undisturbed, MainPrivate
  PROVE  Undisturbed'
<1> DEFINE i == main.slot
<1>1. main.pc = "private" /\ i \in Slots
  BY DEF MainPrivate, Basic, StepsOK
<1>2. /\ \/ main'.pc = "serve" /\ main'.slot = i + 1
         \/ main'.pc = "close" /\ main'.slot = i
      /\ main'.read_fds = main.read_fds
      /\ UNCHANGED <<peers, files, clients, master_fds, threads>>
  BY <1>1, MainPrivateEffect DEF Basic, MainGoes, MainBecomes
<1>3. \A f : Readable(f) => Readable(f)'
  BY <1>2 DEF Readable
<1>4. \A j \in Slots : HasThread(j)' <=> HasThread(j)
  BY <1>2, SameThreads DEF Undisturbed
<1>5. Ahead' \subseteq Ahead /\ Ahead \subseteq Slots
  <2>1. Ahead = {j \in Slots : j > i}
    BY <1>1 DEF Ahead
  <2>2. Ahead' = {j \in Slots : j > i}
    BY <1>1, <1>2, SameSets, SizesAssumption DEF Ahead, Slots
  <2> QED
    BY <2>1, <2>2
<1>6. ReadsOK'
  <2>1. /\ main'.pc \notin {"wait", "accept", "spawn", "unset", "recv"}
        /\ \A j \in Ahead : clients'[j] = clients[j]
        /\ \A j \in Ahead : ~HasThread(j) => ~HasThread(j)'
    BY <1>2, <1>4, <1>5
  <2> QED
    BY <1>2, <1>3, <1>5, <2>1, ReadsKept DEF Undisturbed
<1>7. MainOK'
  <2>1. clients[i].is_active /\ ~HasThread(i)
    BY <1>1 DEF Undisturbed, MainOK
  <2>2. \A j \in Slots : j = i => clients'[j].is_active /\ ~HasThread(j)'
    BY <1>2, <1>4, <2>1
  <2> QED
    BY <1>1, <1>2, <2>2 DEF MainOK
<1> QED
  BY <1>1, <1>2, <1>3, <1>6, <1>7, MainStepAlone

\* ThreadReceive: the main thread has nothing to do with the slot.
LEMMA ThreadReceiveOrderly ==
  ASSUME Basic, Undisturbed, NEW t \in Threads, ThreadReceive(t)
  PROVE  Undisturbed'
<1> DEFINE i == threads[t].slot
<1>1. threads[t].pc = "recv" /\ Alive(t) /\ i \in Slots
  BY DEF ThreadReceive, Basic, StepsOK, Alive
<1>2. /\ Keeps(i) \/ UNCHANGED <<peers, clients>>
      /\ Goes(t, "unlock") \/ Goes(t, "private") \/ Goes(t, "close")
      /\ UNCHANGED <<files, master_fds, main>>
  BY <1>1, ThreadReceiveEffect DEF Basic
<1>3. OneThread /\ SocketsOK /\ MainOK /\ ThreadsOK /\ ReadsOK /\ MasterOK
  BY DEF Undisturbed
<1>4. clients[i].is_active /\ HasThread(i) /\ ~threads[t].timed
  BY <1>1, <1>3 DEF ThreadsOK, ThreadOK, HasThread
<1>5. /\ threads'[t].pc \in {"unlock", "private", "close"} /\ threads'[t].slot = i
      /\ threads'[t].timed = threads[t].timed
      /\ \A u \in Threads : u # t => threads'[u] = threads[u]
      /\ ThreadMoves(t, {"unlock", "private", "close"})
  BY <1>2 DEF Goes, ThreadBecomes, ThreadMoves
<1>6. Alive(t)' /\ {"unlock", "private", "close"} \cap ClearSteps = {} /\ threads[t].pc \notin ClearSteps
  BY <1>1, <1>5 DEF Alive, ClearSteps
<1>7. OneThread' /\ \A j \in Slots : HasThread(j)' <=> HasThread(j)
  BY <1>1, <1>3, <1>5, <1>6, ThreadStays
<1>8. \A j \in Slots : BeingCleared(j)' <=> BeingCleared(j)
  BY <1>2, <1>5, <1>6, SameClearingThread
<1>9. /\ \A j \in Slots : /\ clients'[j].is_active = clients[j].is_active
                          /\ clients'[j].socket_fd = clients[j].socket_fd
      /\ \A j \in Slots : j # i => clients'[j] = clients[j]
      /\ \A f \in Descriptors : f # clients[i].socket_fd => (Readable(f) => Readable(f)')
  BY <1>1, <1>2, KeepsView
<1>10. \A j \in Slots : /\ clients[j].socket_fd \in Descriptors
                        /\ j # i => clients[j].socket_fd # clients[i].socket_fd
  BY <1>1, <1>3, <1>4, OtherSocket
<1>11. SocketsOK'
  BY <1>2, <1>3, <1>8, <1>9, SocketsKept
<1>12. MasterOK'
  BY <1>2, <1>3, <1>7, <1>9, MasterKept DEF Selects
<1>13. MainOK'
  <2>1. main.pc = "sweep_close" => main.slot \in Slots /\ main.slot # i
    BY <1>3, <1>4 DEF MainOK, Basic, StepsOK
  <2> QED
    BY <1>2, <1>3, <1>7, <1>9, <2>1 DEF MainOK, Basic, StepsOK
<1>14. ThreadsOK'
  <2>1. ThreadOK(t)'
    BY <1>1, <1>4, <1>5, <1>9 DEF ThreadOK
  <2> SUFFICES ASSUME NEW u \in Threads, u # t PROVE ThreadOK(u)'
    BY <2>1, SameSets DEF ThreadsOK
  <2> DEFINE j == threads[u].slot
  <2> DEFINE f == clients[j].socket_fd
  <2>2. Alive(u) => j \in Slots /\ j # i
    BY <1>1, <1>3 DEF OneThread, Basic, StepsOK
  <2>3. ThreadOK(u) /\ threads'[u] = threads[u]
    BY <1>3, <1>5 DEF ThreadsOK
  <2>4. Alive(u) => clients'[j] = clients[j] /\ f \in Descriptors /\ f # clients[i].socket_fd
    BY <1>9, <1>10, <2>2
  <2>5. Alive(u) => (Readable(f) => \A g : g = f => Readable(g)')
    BY <1>9, <2>4
  <2>6. Alive(u) => (Readable(f) => Readable(f)')
    BY <2>3, <2>4, <2>5 DEF Readable
  <2> QED
    BY <1>2, <2>3, <2>4, <2>6, ThreadKept
<1>15. Ahead' = Ahead /\ Ahead \subseteq Slots
  BY <1>2, SameSets DEF Ahead
<1>16. ReadsOK'
  <2>1. ASSUME NEW j \in Ahead', clients'[j].is_active, clients'[j].socket_fd \in main.read_fds
        PROVE  /\ clients[j].is_active /\ clients'[j].socket_fd = clients[j].socket_fd
               /\ ~HasThread(j) /\ Readable(clients[j].socket_fd) =>
                    ~HasThread(j)' /\ \A f : f = clients[j].socket_fd => Readable(f)'
    <3>1. j \in Ahead /\ j \in Slots /\ clients[j].is_active
          /\ clients'[j].socket_fd = clients[j].socket_fd
      BY <1>9, <1>15, <2>1
    <3>2. ~HasThread(j) => j # i
      BY <1>4
    <3> QED
      BY <1>7, <1>9, <1>10, <3>1, <3>2
  <2> QED
    BY <1>2, <1>3, <1>9, <1>15, <2>1, ReadsKept DEF Basic, StepsOK
<1> QED
  BY <1>7, <1>11, <1>12, <1>13, <1>14, <1>16 DEF Undisturbed

-----------------------------------------------------------------------------
(* close, by the main thread and by a client thread.                       *)

\* One descriptor is closed, and one connection.
LEMMA ClosesView ==
  ASSUME Basic, NEW f \in Descriptors, Closes(f)
  PROVE  \A g \in Descriptors : g # f => files'[g] = files[g] /\ (Readable(g) => Readable(g)')
<1>1. \A g \in Descriptors : g # f => files'[g] = files[g]
  BY DEF Closes
<1>2. \A g \in Descriptors : g # f => files[g] \notin Connections \/ files[g] # files[f]
  BY DEF Basic, PeersOK
<1>3. \A c \in Connections : peers'[c] = IF c = files[f] THEN "away" ELSE peers[c]
  BY DEF Closes
<1> QED
  BY <1>1, <1>2, <1>3 DEF Readable

\* MainClose: the slot has no thread, and the others have other sockets.
LEMMA MainCloseOrderly ==
  ASSUME Basic, Undisturbed, MainClose
  PROVE  Undisturbed'
<1> DEFINE i == main.slot
<1> DEFINE f == clients[i].socket_fd
<1>1. main.pc \in {"close", "sweep_close"} /\ i \in Slots
  BY DEF MainClose, Basic, StepsOK
<1>2. /\ \/ main.pc = "close" /\ main'.pc = "clear"
         \/ main.pc = "sweep_close" /\ main'.pc = "sweep_clear"
      /\ main'.slot = i /\ main'.read_fds = main.read_fds
      /\ Closes(f) /\ UNCHANGED <<clients, master_fds, threads>>
  BY <1>1, MainCloseEffect DEF Basic, MainGoes, MainBecomes
<1>3. OneThread /\ SocketsOK /\ MainOK /\ ThreadsOK /\ ReadsOK /\ MasterOK
  BY DEF Undisturbed
<1>4. clients[i].is_active /\ ~HasThread(i)
  BY <1>1, <1>3 DEF MainOK
<1>5. OneThread' /\ \A j \in Slots : HasThread(j)' <=> HasThread(j)
  BY <1>2, <1>3, SameThreads
<1>6. /\ \A k : k = i => BeingCleared(k)'
      /\ \A j \in Slots : j # i => (BeingCleared(j)' <=> BeingCleared(j))
  BY <1>1, <1>2, MainBeginsClearing
<1>7. \A j \in Slots : /\ clients[j].socket_fd \in Descriptors
                       /\ j # i => clients[j].socket_fd # f
  BY <1>1, <1>3, <1>4, OtherSocket
<1>8. \A g \in Descriptors : g # f => files'[g] = files[g] /\ (Readable(g) => Readable(g)')
  BY <1>1, <1>2, <1>7, ClosesView
<1>9. SocketsOK'
  <2>1. PICK k \in Slots : k = i
    BY <1>1
  <2> QED
    BY <1>2, <1>3, <1>4, <1>6, <2>1, SocketsKeptByClose DEF Basic
<1>10. MasterOK'
  BY <1>1, <1>2, <1>3, <1>5, MasterKept DEF Selects
<1>11. MainOK'
  <2>1. \A j \in Slots : j = i => clients'[j].is_active /\ ~HasThread(j)'
    BY <1>2, <1>4, <1>5
  <2> QED
    BY <1>1, <1>2, <2>1 DEF MainOK
<1>12. ThreadsOK'
  <2> SUFFICES ASSUME NEW u \in Threads PROVE ThreadOK(u)'
    BY SameSets DEF ThreadsOK
  <2> DEFINE j == threads[u].slot
  <2> DEFINE g == clients[j].socket_fd
  <2>1. Alive(u) => j \in Slots /\ j # i
    BY <1>4 DEF HasThread, Basic, StepsOK
  <2>2. ThreadOK(u)
    BY <1>3 DEF ThreadsOK
  <2>3. Alive(u) => g \in Descriptors /\ g # f
    BY <1>7, <2>1
  <2>4. Alive(u) => files'[g] = files[g] /\ (Readable(g) => \A h : h = g => Readable(h)')
    BY <1>8, <2>3
  <2>5. Alive(u) => (Readable(g) => Readable(g)')
    BY <1>2, <2>4 DEF Readable
  <2> QED
    BY <1>2, <2>2, <2>4, <2>5, ThreadKept
<1>13. \A j \in Ahead' : j \in Ahead /\ j \in Slots /\ j # i
  BY <1>1, <1>2, SameSets DEF Ahead, Slots
<1>14. ReadsOK'
  BY <1>1, <1>2, <1>3, <1>5, <1>7, <1>8, <1>13, ReadsKept
<1> QED
  BY <1>5, <1>9, <1>10, <1>11, <1>12, <1>14 DEF Undisturbed

\* ThreadClose: the main thread has not selected on the socket.
LEMMA ThreadCloseOrderly ==
  ASSUME Basic, Undisturbed, NEW t \in Threads, ThreadClose(t)
  PROVE  Undisturbed'
<1> DEFINE i == threads[t].slot
<1> DEFINE f == clients[i].socket_fd
<1>1. threads[t].pc = "close" /\ Alive(t) /\ i \in Slots
  BY DEF ThreadClose, Basic, StepsOK, Alive
<1>2. /\ Closes(f)
      /\ ThreadBecomes(t, "clear", i, f, threads[t].on, threads[t].set, threads[t].timed)
      /\ UNCHANGED <<clients, master_fds, main>>
  BY <1>1, ThreadCloseEffect DEF Basic
<1>3. OneThread /\ SocketsOK /\ MainOK /\ ThreadsOK /\ ReadsOK /\ MasterOK
  BY DEF Undisturbed
<1>4. clients[i].is_active /\ HasThread(i)
  BY <1>1, <1>3 DEF ThreadsOK, ThreadOK, HasThread
<1>5. /\ threads'[t].pc = "clear" /\ threads'[t].slot = i /\ threads'[t].fd = f
      /\ \A u \in Threads : u # t => threads'[u] = threads[u]
      /\ ThreadMoves(t, {"clear"})
  BY <1>2 DEF ThreadBecomes, ThreadMoves
<1>6. OneThread' /\ \A j \in Slots : HasThread(j)' <=> HasThread(j)
  BY <1>1, <1>3, <1>5, ThreadStays DEF Alive
<1>7. /\ \A k : k = i => BeingCleared(k)'
      /\ \A j \in Slots : j # i => (BeingCleared(j)' <=> BeingCleared(j))
  <2>1. BeingCleared(threads[t].slot)'
        /\ \A j \in Slots : j # i => (BeingCleared(j)' <=> BeingCleared(j))
    BY <1>2, <1>5, ThreadBeginsClearing
  <2> QED
    BY <1>5, <2>1
<1>8. \A j \in Slots : /\ clients[j].socket_fd \in Descriptors
                       /\ j # i => clients[j].socket_fd # f
  BY <1>1, <1>3, <1>4, OtherSocket
<1>9. \A g \in Descriptors : g # f => files'[g] = files[g] /\ (Readable(g) => Readable(g)')
  BY <1>1, <1>2, <1>8, ClosesView
<1>10. SocketsOK'
  <2>1. PICK k \in Slots : k = i
    BY <1>1
  <2> QED
    BY <1>2, <1>3, <1>4, <1>7, <2>1, SocketsKeptByClose DEF Basic
<1>11. MasterOK'
  BY <1>2, <1>3, <1>6, MasterKept DEF Selects
<1>12. MainOK'
  BY <1>2, <1>3, <1>6 DEF MainOK, Basic, StepsOK
<1>13. ThreadsOK'
  <2>1. ThreadOK(t)'
    BY <1>2, <1>4, <1>5 DEF ThreadOK
  <2> SUFFICES ASSUME NEW u \in Threads, u # t PROVE ThreadOK(u)'
    BY <2>1, SameSets DEF ThreadsOK
  <2> DEFINE j == threads[u].slot
  <2> DEFINE g == clients[j].socket_fd
  <2>2. Alive(u) => j \in Slots /\ j # i
    BY <1>1, <1>3 DEF OneThread, Basic, StepsOK
  <2>3. ThreadOK(u) /\ threads'[u] = threads[u]
    BY <1>3, <1>5 DEF ThreadsOK
  <2>4. Alive(u) => g \in Descriptors /\ g # f
    BY <1>8, <2>2
  <2>5. Alive(u) => files'[g] = files[g] /\ (Readable(g) => \A h : h = g => Readable(h)')
    BY <1>9, <2>4
  <2>6. Alive(u) => (Readable(g) => Readable(g)')
    BY <1>2, <2>3, <2>5 DEF Readable
  <2> QED
    BY <1>2, <2>3, <2>5, <2>6, ThreadKept
<1>14. Ahead' = Ahead /\ Ahead \subseteq Slots
  BY <1>2, SameSets DEF Ahead
<1>15. \A j \in Ahead : clients[j].is_active /\ clients[j].socket_fd \in main.read_fds => j # i
  BY <1>3, <1>4 DEF ReadsOK
<1>16. main.pc = "accept" => \A g \in main.read_fds : files'[g] = files[g]
  <2>1. main.pc = "accept" => f \notin main.read_fds
    BY <1>1, <1>4, <1>15 DEF Ahead
  <2> QED
    BY <1>9, <2>1, Types, MainFields DEF Basic
<1>17. ReadsOK'
  BY <1>2, <1>3, <1>6, <1>8, <1>9, <1>14, <1>15, <1>16, ReadsKept
<1> QED
  BY <1>6, <1>10, <1>11, <1>12, <1>13, <1>17 DEF Undisturbed

-----------------------------------------------------------------------------
(* FD_CLR and memset, by the main thread and by a client thread.           *)

\* A thread that clears its slot has the number of its socket.
LEMMA ClearingThread ==
  ASSUME Basic, Undisturbed, NEW i \in Slots, BeingCleared(i),
         main.pc \notin {"clear", "sweep_clear"}
  PROVE  Clearing(clients[i].socket_fd)
<1>1. PICK t \in ThreadsOf(i) : threads[t].pc \in {"clear", "zero"}
  BY DEF BeingCleared
<1>2. t \in Threads /\ threads[t].slot = i /\ ThreadOK(t)
  BY DEF ThreadsOf, Undisturbed, ThreadsOK
<1> QED
  BY <1>1, <1>2 DEF ThreadOK, Clearing

\* Unset: the slot has its thread, or has been cleared by it already.
LEMMA UnsetOrderly ==
  ASSUME Basic, Undisturbed, Unset, orderly'
  PROVE  Undisturbed'
<1> DEFINE i == main.slot
<1> DEFINE f == clients[i].socket_fd
<1>1. main.pc = "unset" /\ i \in Slots
  BY DEF Unset, Basic, StepsOK
<1>2. /\ main'.pc = "serve" /\ main'.slot = 1 /\ main'.read_fds = main.read_fds
      /\ master_fds' = master_fds \ {f} /\ (f \in master_fds => ~Clearing(f))
      /\ UNCHANGED <<peers, files, clients, threads>>
  BY UnsetEffect DEF Basic, MainGoes, MainBecomes, ClearMaster
<1>3. OneThread /\ SocketsOK /\ MainOK /\ ThreadsOK /\ ReadsOK /\ MasterOK
  BY DEF Undisturbed
<1>4. OneThread' /\ \A j \in Slots : HasThread(j)' <=> HasThread(j)
  BY <1>2, <1>3, SameThreads
<1>5. \A j \in Slots : BeingCleared(j)' <=> BeingCleared(j)
  BY <1>1, <1>2, SameClearing
<1>6. SocketsOK'
  BY <1>2, <1>3, <1>5, SocketsKept
<1>7. \A g : Readable(g) => Readable(g)'
  BY <1>2 DEF Readable
<1>8. Ahead = Slots /\ Ahead' = Slots
  BY <1>1, <1>2, SameSets DEF Ahead, Slots
<1>9. ReadsOK'
  BY <1>1, <1>2, <1>3, <1>4, <1>7, <1>8, ReadsKept
<1>10. MainOK'
  BY <1>2 DEF MainOK
<1>11. ThreadsOK'
  <2> SUFFICES ASSUME NEW u \in Threads PROVE ThreadOK(u)'
    BY SameSets DEF ThreadsOK
  <2>1. threads[u].pc = "zero" => UNCHANGED master_fds
    BY <1>2 DEF Clearing
  <2>2. ThreadOK(u)
    BY <1>3 DEF ThreadsOK
  <2> QED
    BY <1>2, <1>7, <2>1, <2>2, ThreadKept
<1>12. \A j \in Slots : Selects(j)' <=> clients[j].is_active /\ ~HasThread(j)
  BY <1>2, <1>4 DEF Selects
<1>13. MasterOK'
  <2>1. CASE clients[i].is_active
    <3>1. HasThread(i)
      BY <1>1, <1>3, <2>1 DEF MainOK
    <3>2. \A j \in Slots : IF j = i THEN ~Selects(j)' ELSE Selects(j)' <=> Selects(j)
      BY <1>12, <3>1 DEF Selects
    <3>3. PICK k \in Slots : k = i
      BY <1>1
    <3> QED
      BY <1>2, <1>3, <2>1, <3>2, <3>3, MasterKeptByClear
  <2>2. CASE ~clients[i].is_active
    <3>1. f = 0 /\ 0 \in Descriptors
      BY <1>1, <2>2, NumDescriptors DEF Basic, FreeOK
    <3>2. 0 \notin master_fds
      BY <1>3, <3>1 DEF MasterOK, SocketsOK, Selects
    <3>3. \A j \in Slots : Selects(j)' <=> Selects(j)
      BY <1>12, <2>2 DEF Selects
    <3> QED
      BY <1>2, <1>3, <3>1, <3>2, <3>3, MasterKept
  <2> QED
    BY <2>1, <2>2
<1> QED
  BY <1>4, <1>6, <1>9, <1>10, <1>11, <1>13 DEF Undisturbed

\* MainClear: no thread holds a copy of the set.
LEMMA MainClearOrderly ==
  ASSUME Basic, Undisturbed, MainClear, orderly'
  PROVE  Undisturbed'
<1> DEFINE i == main.slot
<1> DEFINE f == clients[i].socket_fd
<1>1. main.pc \in {"clear", "sweep_clear"} /\ i \in Slots
  BY DEF MainClear, Basic, StepsOK
<1>2. /\ \/ main.pc = "clear" /\ main'.pc = "serve" /\ main'.slot = i + 1
         \/ main.pc = "sweep_clear" /\ main'.pc = "sweep"
      /\ main'.read_fds = main.read_fds
      /\ master_fds' = master_fds \ {f} /\ (f \in master_fds => ~Clearing(f))
      /\ SlotBecomes(i, FALSE, 0, TRUE)
      /\ UNCHANGED <<peers, files, threads>>
  BY <1>1, MainClearEffect DEF Basic, MainGoes, MainBecomes, ClearMaster
<1>3. OneThread /\ SocketsOK /\ MainOK /\ ThreadsOK /\ ReadsOK /\ MasterOK
  BY DEF Undisturbed
<1>4. clients[i].is_active /\ ~HasThread(i) /\ BeingCleared(i)
  BY <1>1, <1>3 DEF MainOK, BeingCleared
<1>5. OneThread' /\ \A j \in Slots : HasThread(j)' <=> HasThread(j)
  BY <1>2, <1>3, SameThreads
<1>6. PICK k \in Slots : k = i
  BY <1>1
<1>7. /\ ~BeingCleared(k)'
      /\ \A j \in Slots : j # k => (BeingCleared(j)' <=> BeingCleared(j))
  BY <1>1, <1>2, <1>4, <1>6, MainEndsClearing
<1>8. SocketsOK'
  BY <1>2, <1>3, <1>4, <1>6, <1>7, SocketsKeptByClear
<1>9. ~clients'[k].is_active /\ \A j \in Slots : j # k => clients'[j] = clients[j]
  BY <1>2, <1>6 DEF SlotBecomes
<1>10. MasterOK'
  <2>1. ~Selects(k)' /\ \A j \in Slots : j # k => (Selects(j)' <=> Selects(j))
    BY <1>1, <1>2, <1>5, <1>9 DEF Selects
  <2> QED
    BY <1>2, <1>3, <1>4, <1>6, <1>9, <2>1, MasterKeptByClear
<1>11. MainOK'
  BY <1>2 DEF MainOK
<1>12. \A g : Readable(g) => Readable(g)'
  BY <1>2 DEF Readable
<1>13. f \in master_fds
  BY <1>3, <1>4, <1>6, Types, ClientFields DEF MasterOK, Selects, Basic
<1>14. ThreadsOK'
  <2> SUFFICES ASSUME NEW u \in Threads PROVE ThreadOK(u)'
    BY SameSets DEF ThreadsOK
  <2>1. threads[u].pc # "zero"
    BY <1>2, <1>13 DEF Clearing
  <2>2. ThreadOK(u)
    BY <1>3 DEF ThreadsOK
  <2>3. Alive(u) => clients'[threads[u].slot] = clients[threads[u].slot]
    BY <1>4, <1>6, <1>9 DEF HasThread, Basic, StepsOK
  <2>4. Alive(u) => (Readable(clients[threads[u].slot].socket_fd)
                       => Readable(clients[threads[u].slot].socket_fd)')
    BY <1>2, <2>3 DEF Readable
  <2> QED
    BY <1>2, <2>1, <2>2, <2>3, <2>4, ThreadKept
<1>15. \A j \in Ahead' : j \in Ahead /\ j \in Slots /\ j # k
  <2>1. CASE main'.pc = "sweep"
    BY <2>1 DEF Ahead
  <2>2. CASE main'.pc = "serve"
    <3>1. Ahead' = {j \in Slots : j >= i + 1}
      BY <1>2, <2>2, SameSets DEF Ahead
    <3>2. Ahead = {j \in Slots : j > i}
      BY <1>2, <2>2 DEF Ahead
    <3> QED
      BY <1>1, <1>6, <3>1, <3>2 DEF Slots
  <2> QED
    BY <1>2, <2>1, <2>2
<1>16. ReadsOK'
  BY <1>2, <1>3, <1>5, <1>9, <1>12, <1>15, ReadsKept
<1> QED
  BY <1>5, <1>8, <1>10, <1>11, <1>14, <1>16 DEF Undisturbed

\* ThreadZero: only one thread clears at a time, and its copy is up to date.
LEMMA ThreadZeroOrderly ==
  ASSUME Basic, Undisturbed, NEW t \in Threads, ThreadZero(t)
  PROVE  Undisturbed'
<1> DEFINE i == threads[t].slot
<1> DEFINE f == clients[i].socket_fd
<1>1. threads[t].pc = "zero" /\ Alive(t) /\ i \in Slots
  BY DEF ThreadZero, Basic, StepsOK, Alive
<1>2. /\ master_fds' = threads[t].set \ {threads[t].fd}
      /\ SlotBecomes(i, FALSE, 0, TRUE)
      /\ ThreadBecomes(t, "unlock", i, 0, Nothing, {}, threads[t].timed)
      /\ UNCHANGED <<peers, files, main, client_mutex>>
  BY <1>1, ThreadZeroEffect DEF Basic
<1>3. OneThread /\ SocketsOK /\ MainOK /\ ThreadsOK /\ ReadsOK /\ MasterOK
  BY DEF Undisturbed
<1>4. clients[i].is_active /\ HasThread(i) /\ BeingCleared(i) /\ master_fds' = master_fds \ {f}
  BY <1>1, <1>2, <1>3 DEF ThreadsOK, ThreadOK, HasThread, BeingCleared, ThreadsOf
<1>5. /\ threads'[t].pc = "unlock" /\ threads'[t].slot = i
      /\ \A u \in Threads : u # t => threads'[u] = threads[u]
      /\ ThreadMoves(t, {"unlock"})
  BY <1>2 DEF ThreadBecomes, ThreadMoves
<1>6. OneThread' /\ \A j \in Slots : HasThread(j)' <=> HasThread(j)
  BY <1>1, <1>3, <1>5, ThreadStays DEF Alive
<1>7. PICK k \in Slots : k = i
  BY <1>1
<1>8. main.pc \in {"spawn", "recv", "private", "close", "clear", "sweep_close", "sweep_clear"}
        => main.slot \in Slots /\ main.slot # k
  BY <1>3, <1>4, <1>7 DEF MainOK, Basic, StepsOK
<1>9. /\ ~BeingCleared(k)'
      /\ \A j \in Slots : j # k => (BeingCleared(j)' <=> BeingCleared(j))
  <2>1. ~BeingCleared(threads[t].slot)'
        /\ \A j \in Slots : j # i => (BeingCleared(j)' <=> BeingCleared(j))
    BY <1>1, <1>2, <1>3, <1>5, <1>7, <1>8, ThreadEndsClearing
  <2> QED
    BY <1>5, <1>7, <2>1
<1>10. SocketsOK'
  BY <1>2, <1>3, <1>4, <1>7, <1>9, SocketsKeptByClear
<1>11. ~clients'[k].is_active /\ \A j \in Slots : j # k => clients'[j] = clients[j]
  BY <1>2, <1>7 DEF SlotBecomes
<1>12. MasterOK'
  <2>1. ~Selects(k)' /\ \A j \in Slots : j # k => (Selects(j)' <=> Selects(j))
    BY <1>2, <1>6, <1>11 DEF Selects
  <2> QED
    BY <1>3, <1>4, <1>7, <1>11, <2>1, MasterKeptByClear
<1>13. MainOK'
  BY <1>2, <1>3, <1>6, <1>8, <1>11 DEF MainOK, Basic, StepsOK
<1>14. \A g : Readable(g) => Readable(g)'
  BY <1>2 DEF Readable
<1>15. ThreadsOK'
  <2>1. ThreadOK(t)'
    BY <1>5, <1>7, <1>11 DEF ThreadOK
  <2> SUFFICES ASSUME NEW u \in Threads, u # t PROVE ThreadOK(u)'
    BY <2>1, SameSets DEF ThreadsOK
  <2>2. threads[u].pc # "zero"
    BY <1>1 DEF Basic, MutexOK
  <2>3. ThreadOK(u) /\ threads'[u] = threads[u]
    BY <1>3, <1>5 DEF ThreadsOK
  <2>4. Alive(u) => clients'[threads[u].slot] = clients[threads[u].slot]
    BY <1>1, <1>3, <1>7, <1>11 DEF OneThread, Basic, StepsOK
  <2>5. Alive(u) => (Readable(clients[threads[u].slot].socket_fd)
                       => Readable(clients[threads[u].slot].socket_fd)')
    BY <1>2, <2>3, <2>4 DEF Readable
  <2> QED
    BY <1>2, <2>2, <2>3, <2>4, <2>5, ThreadKept
<1>16. Ahead' = Ahead /\ Ahead \subseteq Slots
  BY <1>2, SameSets DEF Ahead
<1>17. main.pc = "wait" => UNCHANGED master_fds
  <2>1. main.pc = "wait" => \A j \in Slots : Selects(j) => clients[j].socket_fd # f
    BY <1>3, <1>4, <1>7 DEF Selects, SocketsOK
  <2>2. f \in Descriptors
    BY <1>7, Types, ClientFields DEF Basic
  <2> QED
    BY <1>3, <1>4, <2>1, <2>2 DEF MasterOK
<1>18. ReadsOK'
  BY <1>2, <1>3, <1>6, <1>8, <1>11, <1>14, <1>16, <1>17, ReadsKept DEF Basic, StepsOK
<1> QED
  BY <1>6, <1>10, <1>12, <1>13, <1>15, <1>18 DEF Undisturbed

-----------------------------------------------------------------------------
(* A new connection, and a new thread.                                     *)

\* Accept: no thread is left on the slot, and none clears the descriptor.
LEMMA AcceptOrderly ==
  ASSUME Basic, Undisturbed, Accept, orderly'
  PROVE  Undisturbed'
<1>1. main.pc = "accept" /\ backlog # <<>>
  BY DEF Accept, Basic, StepsOK
<1>2. PICK i \in Slots, f \in Descriptors :
        /\ ~clients[i].is_active /\ files[f] = Nothing
        /\ FileBecomes(f, Head(backlog))
        /\ SlotBecomes(i, TRUE, f, FALSE)
        /\ master_fds' = master_fds \cup {f}
        /\ orderly' = (orderly /\ ThreadsOf(i) = {} /\ ~Clearing(f))
        /\ MainGoes("spawn", i)
  BY <1>1, AcceptEffect DEF Basic
<1>3. /\ Head(backlog) \in Connections /\ PeerBecomes(Head(backlog), "idle")
      /\ UNCHANGED threads
  BY <1>1, AcceptEffect DEF Basic
<1>4. main'.pc = "spawn" /\ main'.slot = i /\ main'.read_fds = main.read_fds
  BY <1>2 DEF MainGoes, MainBecomes
<1>5. OneThread /\ SocketsOK /\ MainOK /\ ThreadsOK /\ ReadsOK /\ MasterOK
  BY DEF Undisturbed
<1>6. ~Clearing(f) /\ ~HasThread(i)
  BY <1>2 DEF HasThread, ThreadsOf
<1>7. OneThread' /\ \A j \in Slots : HasThread(j)' <=> HasThread(j)
  BY <1>3, <1>5, SameThreads
<1>8. \A j \in Slots : BeingCleared(j)' <=> BeingCleared(j)
  BY <1>1, <1>3, <1>4, SameClearing
<1>9. /\ clients'[i].is_active /\ clients'[i].socket_fd = f
      /\ \A j \in Slots : j # i => clients'[j] = clients[j]
  BY <1>2 DEF SlotBecomes
<1>10. files'[f] \in Connections /\ \A g \in Descriptors : g # f => files'[g] = files[g]
  BY <1>2, <1>3 DEF FileBecomes
<1>11. f # 0 /\ 0 \in Descriptors /\ Nothing \notin Connections
  BY <1>2, <1>5, NumDescriptors, ConnectionsAssumption DEF SocketsOK
<1>12. \A j \in Slots : /\ clients[j].socket_fd \in Descriptors
                        /\ clients[j].socket_fd # f
  <2> SUFFICES ASSUME NEW j \in Slots, clients[j].socket_fd = f PROVE FALSE
    BY Types, ClientFields DEF Basic
  <2>1. clients[j].is_active
    BY <1>11 DEF Basic, FreeOK
  <2>2. BeingCleared(j)
    BY <1>2, <1>5, <1>11, <2>1 DEF SocketsOK
  <2> QED
    BY <1>1, <1>6, <2>2, ClearingThread
<1>13. \A g \in Descriptors : g # f => (Readable(g) => Readable(g)')
  <2>1. peers[Head(backlog)] = "waiting"
    BY <1>1, <1>3 DEF Accept, Basic, PeersOK
  <2>2. \A g \in Descriptors : g # f /\ Readable(g) => files[g] # Head(backlog)
    BY <2>1 DEF Readable
  <2> QED
    BY <1>3, <1>10, <2>2 DEF Readable, PeerBecomes
<1>14. \A j \in Slots : clients[j].is_active \/ BeingCleared(j) => j # i
  BY <1>2, <1>5 DEF SocketsOK
<1>15. SocketsOK'
  <2>1. files'[0] = Stdin
    BY <1>5, <1>10, <1>11 DEF SocketsOK
  <2>2. /\ \A j \in Slots : clients'[j].is_active => clients'[j].socket_fd # 0
        /\ \A j, k \in Slots :
             /\ clients'[j].is_active /\ clients'[k].is_active
             /\ clients'[j].socket_fd = clients'[k].socket_fd
             => j = k
    BY <1>5, <1>9, <1>11, <1>12 DEF SocketsOK
  <2>3. /\ \A j \in Slots : clients'[j].is_active /\ ~BeingCleared(j)' =>
             files'[clients'[j].socket_fd] \in Connections
        /\ \A j \in Slots : BeingCleared(j)' =>
             clients'[j].is_active /\ files'[clients'[j].socket_fd] = Nothing
    BY <1>5, <1>8, <1>9, <1>10, <1>12, <1>14 DEF SocketsOK
  <2>4. \A g \in Descriptors : files'[g] \in Connections =>
          \E j \in Slots : clients'[j].is_active /\ clients'[j].socket_fd = g
    BY <1>5, <1>9, <1>10, <1>14 DEF SocketsOK
  <2> QED
    BY <2>1, <2>2, <2>3, <2>4, SameSets DEF SocketsOK
<1>16. MainOK'
  <2>1. \A j \in Slots : j = i => clients'[j].is_active /\ ~HasThread(j)'
    BY <1>6, <1>7, <1>9
  <2> QED
    BY <1>4, <2>1 DEF MainOK
<1>17. ThreadsOK'
  <2> SUFFICES ASSUME NEW u \in Threads PROVE ThreadOK(u)'
    BY SameSets DEF ThreadsOK
  <2> DEFINE j == threads[u].slot
  <2> DEFINE g == clients[j].socket_fd
  <2>1. threads[u].pc # "zero" /\ ThreadOK(u)
    BY <1>5, <1>6 DEF Clearing, ThreadsOK
  <2>2. Alive(u) => j \in Slots /\ j # i
    BY <1>6 DEF HasThread, Basic, StepsOK
  <2>3. Alive(u) => clients'[j] = clients[j] /\ files'[g] = files[g]
                    /\ (Readable(g) => \A h : h = g => Readable(h)')
    BY <1>9, <1>10, <1>12, <1>13, <2>2
  <2>4. Alive(u) => (Readable(g) => Readable(g)')
    BY <1>3, <2>3 DEF Readable
  <2> QED
    BY <1>3, <2>1, <2>3, <2>4, ThreadKept
<1>18. f \notin main.read_fds
  BY <1>1, <1>2, <1>5, <1>11 DEF ReadsOK
<1>19. ReadsOK'
  <2>1. Ahead = Slots /\ Ahead' = Slots
    BY <1>1, <1>4, SameSets DEF Ahead
  <2>2. ASSUME NEW j \in Slots, clients'[j].is_active,
               clients'[j].socket_fd \in main'.read_fds
        PROVE  ~HasThread(j)' /\ \A h : h = clients'[j].socket_fd => Readable(h)'
    <3>1. j # i /\ clients'[j] = clients[j]
      BY <1>4, <1>9, <1>18, <2>2
    <3>2. ~HasThread(j) /\ Readable(clients[j].socket_fd)
      BY <1>4, <1>5, <2>1, <2>2, <3>1 DEF ReadsOK
    <3> QED
      BY <1>7, <1>12, <1>13, <3>1, <3>2
  <2>3. ~(clients'[main'.slot].is_active /\ clients'[main'.slot].socket_fd \in main'.read_fds)
    BY <1>4, <1>9, <1>18
  <2> QED
    BY <1>4, <2>1, <2>2, <2>3 DEF ReadsOK
<1>20. MasterOK'
  <2>1. Selects(i)' /\ ~Selects(i)
    BY <1>2, <1>6, <1>7, <1>9 DEF Selects
  <2>2. \A j \in Slots : j # i => (Selects(j)' <=> Selects(j))
    BY <1>1, <1>4, <1>7, <1>9 DEF Selects
  <2>3. \A g \in Descriptors : g \in master_fds' =>
          \E j \in Slots : Selects(j)' /\ clients'[j].socket_fd = g
    BY <1>2, <1>5, <1>9, <2>1, <2>2 DEF MasterOK
  <2>4. \A g \in Descriptors, j \in Slots :
          Selects(j)' /\ clients'[j].socket_fd = g => g \in master_fds'
    BY <1>2, <1>5, <1>9, <2>1, <2>2 DEF MasterOK
  <2> QED
    BY <2>3, <2>4, SameSets DEF MasterOK
<1> QED
  BY <1>7, <1>15, <1>16, <1>17, <1>19, <1>20 DEF Undisturbed

\* Spawn: the slot had no thread.
LEMMA SpawnOrderly ==
  ASSUME Basic, Undisturbed, Spawn
  PROVE  Undisturbed'
<1> DEFINE i == main.slot
<1>1. main.pc = "spawn" /\ i \in Slots
  BY DEF Spawn, Basic, StepsOK
<1>2. /\ \/ /\ MainGoes("unset", i)
            /\ \E t \in Threads : /\ threads[t].pc = "unused"
                                  /\ ThreadBecomes(t, "loop", i, 0, Nothing, {}, FALSE)
         \/ MainGoes("serve", 1) /\ UNCHANGED threads
      /\ UNCHANGED <<peers, files, clients, master_fds>>
  BY <1>1, SpawnEffect DEF Basic
<1>3. ASSUME MainGoes("unset", i), NEW t \in Threads, threads[t].pc = "unused",
             ThreadBecomes(t, "loop", i, 0, Nothing, {}, FALSE)
      PROVE  Undisturbed'
  <2>1. OneThread /\ SocketsOK /\ MainOK /\ ThreadsOK /\ ReadsOK /\ MasterOK
    BY DEF Undisturbed
  <2>2. main'.pc = "unset" /\ main'.slot = i /\ main'.read_fds = main.read_fds
    BY <1>3 DEF MainGoes, MainBecomes
  <2>3. /\ threads'[t].pc = "loop" /\ threads'[t].slot = i
        /\ \A u \in Threads : u # t => threads'[u] = threads[u]
    BY <1>3 DEF ThreadBecomes
  <2>4. clients[i].is_active /\ ~HasThread(i)
    BY <1>1, <2>1 DEF MainOK
  <2>5. /\ Alive(t)' /\ ~Alive(t)
        /\ \A u \in Threads : u # t => (Alive(u)' <=> Alive(u)) /\ threads'[u] = threads[u]
    BY <1>3, <2>3 DEF Alive
  <2>6. OneThread'
    <3>1. \A u \in Threads : Alive(u) => threads[u].slot # i
      BY <2>4 DEF HasThread
    <3> QED
      BY <2>1, <2>3, <2>5, <3>1, SameSets DEF OneThread
  <2>7. /\ \A k : k = i => HasThread(k)'
        /\ \A j \in Slots : j # i => (HasThread(j)' <=> HasThread(j))
    BY <2>3, <2>5, SameSets DEF HasThread
  <2>8. \A j \in Slots : BeingCleared(j)' <=> BeingCleared(j)
    <3>1. \A u \in Threads : threads[u].pc \in ClearSteps => threads'[u] = threads[u]
      BY <1>3, <2>3 DEF ClearSteps
    <3>2. \A u \in Threads : threads'[u].pc \in ClearSteps => threads'[u] = threads[u]
      BY <2>3 DEF ClearSteps
    <3> QED
      BY <1>1, <2>2, <3>1, <3>2, SameSets DEF BeingCleared, ThreadsOf, Alive, ClearSteps
  <2>9. SocketsOK'
    BY <1>2, <2>1, <2>8, SocketsKept
  <2>10. MainOK'
    <3>1. \A j \in Slots : j = i => HasThread(j)'
      BY <2>7
    <3> QED
      BY <1>1, <2>2, <3>1 DEF MainOK
  <2>11. \A g : Readable(g) => Readable(g)'
    BY <1>2 DEF Readable
  <2>12. ThreadsOK'
    <3>1. ThreadOK(t)'
      BY <2>3 DEF ThreadOK
    <3> SUFFICES ASSUME NEW u \in Threads, u # t PROVE ThreadOK(u)'
      BY <3>1, SameSets DEF ThreadsOK
    <3>2. ThreadOK(u) /\ threads'[u] = threads[u]
      BY <2>1, <2>3 DEF ThreadsOK
    <3>3. Readable(clients[threads[u].slot].socket_fd)
            => Readable(clients[threads[u].slot].socket_fd)'
      BY <1>2, <3>2 DEF Readable
    <3> QED
      BY <1>2, <3>2, <3>3, ThreadKept
  <2>13. Ahead = Slots /\ Ahead' = Slots
    BY <1>1, <2>2, SameSets DEF Ahead
  <2>14. ~(clients[i].is_active /\ clients[i].socket_fd \in main.read_fds)
    BY <1>1, <2>1 DEF ReadsOK
  <2>15. ReadsOK'
    BY <1>1, <1>2, <2>1, <2>2, <2>7, <2>11, <2>13, <2>14, ReadsKept
  <2>16. MasterOK'
    <3>1. \A j \in Slots : Selects(j)' <=> Selects(j)
      BY <1>1, <1>2, <2>2, <2>4, <2>7 DEF Selects
    <3> QED
      BY <1>2, <2>1, <3>1, MasterKept
  <2> QED
    BY <2>6, <2>9, <2>10, <2>12, <2>15, <2>16 DEF Undisturbed
<1> QED
  BY <1>1, <1>2, <1>3, NoThreadOrderly

-----------------------------------------------------------------------------
(* The invariant, and what follows from it.                                *)

\* What has come between an agent and its work is not undone.
LEMMA OrderlyBefore == TypeOK /\ [Next]_vars /\ orderly' => orderly
<1> SUFFICES ASSUME TypeOK, [Next]_vars, orderly' PROVE orderly
  OBVIOUS
<1>1. CASE UNCHANGED vars
  BY <1>1 DEF vars
<1>2. CASE \E c \in Connections : Connect(c) \/ Talk(c)
  BY <1>2 DEF Connect, Talk
<1>3. CASE \E i \in Slots : TimePasses(i)
  BY <1>3 DEF TimePasses
<1>4. CASE MainStep
  BY <1>4 DEF MainStep, Select, SelectReturns, Reject, Accept, Spawn, Unset, Serve, MainReceive,
     MainPrivate, Sweep, MainClose, MainClear, ClearMaster
<1>5. CASE \E t \in Threads : ThreadStep(t)
  BY <1>5 DEF ThreadStep, Loop, Watch, Wake, Lock, ThreadReceive, ThreadClose, ThreadClear,
     ThreadZero, Unlock, CheckTimeout
<1> QED
  BY <1>1, <1>2, <1>3, <1>4, <1>5 DEF Next

\* The invariant holds when the server starts.
LEMMA InitIInv == Init => IInv
<1> SUFFICES ASSUME Init PROVE Basic /\ Undisturbed
  BY DEF IInv
<1>1. Basic
  BY BasicInit
<1>2. /\ \A t \in Threads : threads[t].pc = "unused" /\ ~Alive(t)
      /\ \A i \in Slots : ~clients[i].is_active
      /\ main.pc = "select" /\ master_fds = {}
      /\ files[0] = Stdin /\ \A f \in Descriptors : files[f] \notin Connections
  BY NumDescriptors, ConnectionsAssumption DEF Init, Alive, NewThread, Cleared
<1>3. OneThread /\ MainOK /\ ThreadsOK /\ ReadsOK /\ MasterOK
  BY <1>2 DEF OneThread, MainOK, ThreadsOK, ThreadOK, ReadsOK, Ahead, MasterOK, Selects
<1>4. \A i \in Slots : ~BeingCleared(i)
  BY <1>2 DEF BeingCleared, ThreadsOf
<1>5. SocketsOK
  BY <1>2, <1>4 DEF SocketsOK
<1> QED
  BY <1>1, <1>3, <1>5 DEF Undisturbed

\* Every step keeps the invariant.
LEMMA NextIInv == IInv /\ [Next]_vars => IInv'
<1> SUFFICES ASSUME IInv, [Next]_vars PROVE IInv'
  OBVIOUS
<1>1. Basic /\ Basic'
  BY BasicNext DEF IInv
<1>2. SUFFICES ASSUME orderly' PROVE Undisturbed'
  BY <1>1 DEF IInv
<1>3. Undisturbed
  BY <1>1, <1>2, OrderlyBefore DEF IInv, Basic
<1>4. CASE UNCHANGED vars
  <2>1. UNCHANGED <<peers, files, clients, master_fds, main, threads>>
    BY <1>4 DEF vars
  <2>2. \A f : Readable(f) => Readable(f)'
    BY <2>1 DEF Readable
  <2> QED
    BY <1>1, <1>3, <2>1, <2>2, QuietStep
<1>5. CASE Next
  BY <1>1, <1>2, <1>3, <1>5, ConnectOrderly, TalkOrderly, TimePassesOrderly, SelectOrderly,
     SelectReturnsOrderly, RejectOrderly, AcceptOrderly, SpawnOrderly, UnsetOrderly,
     ServeOrderly, MainReceiveOrderly, MainPrivateOrderly, SweepOrderly, MainCloseOrderly,
     MainClearOrderly,
     LoopOrderly, WatchOrderly, WakeOrderly, LockOrderly, ThreadReceiveOrderly,
     ThreadCloseOrderly, ThreadClearOrderly, ThreadZeroOrderly, UnlockOrderly,
     CheckTimeoutOrderly
     DEF Next, MainStep, ThreadStep
<1> QED
  BY <1>4, <1>5

\* Basic holds always, and Undisturbed while the run is orderly.
THEOREM Invariance == Spec => []IInv
BY InitIInv, NextIInv, PTL DEF Spec

\* While the run is orderly, the main thread selects on exactly the clients
\* that have no thread, and select never fails on a closed descriptor.
THEOREM MasterSetIsExact == Spec => []MasterSetExact
<1>1. IInv => MasterSetExact
  <2> SUFFICES ASSUME Basic, Undisturbed, main.pc \in {"select", "wait", "stopped"}
               PROVE  /\ main.pc # "stopped"
                      /\ master_fds = {clients[i].socket_fd :
                                         i \in {j \in Slots \ FreeSlots : ThreadsOf(j) = {}}}
    BY DEF IInv, MasterSetExact
  <2>1. \A i \in Slots : Selects(i) <=> i \in {j \in Slots \ FreeSlots : ThreadsOf(j) = {}}
    BY DEF Selects, HasThread, ThreadsOf, FreeSlots
  <2>2. \A f \in master_fds : f \in Descriptors
    BY Types DEF Basic
  <2>3. \A i \in Slots : clients[i].socket_fd \in Descriptors
    BY Types, ClientFields DEF Basic
  <2>4. main.pc # "stopped"
    BY DEF Undisturbed, MainOK
  <2> HIDE DEF Undisturbed
  <2>5. \A f : f \in master_fds <=> \E i \in Slots : Selects(i) /\ clients[i].socket_fd = f
    BY <2>2, <2>3 DEF Undisturbed, MasterOK
  <2> QED
    BY <2>1, <2>4, <2>5
<1> QED
  BY <1>1, Invariance, PTL

\* While the run is orderly, every open connection has one slot and every
\* active slot an open connection, and the standard input is never closed.
THEOREM DescriptorsAreOwned == Spec => []DescriptorsOwned
<1>1. IInv => DescriptorsOwned
  <2> SUFFICES ASSUME Basic, Undisturbed
               PROVE  /\ \A f \in Descriptors : files[f] \in Connections =>
                           Cardinality({i \in Slots : clients[i].is_active
                                                      /\ clients[i].socket_fd = f}) = 1
                      /\ \A i \in Slots : clients[i].is_active /\ ~BeingCleared(i) =>
                           files[clients[i].socket_fd] \in Connections
                      /\ files[0] = Stdin
    BY DEF IInv, DescriptorsOwned
  <2>1. ASSUME NEW f \in Descriptors, files[f] \in Connections
        PROVE  Cardinality({i \in Slots : clients[i].is_active /\ clients[i].socket_fd = f}) = 1
    <3>1. PICK i \in Slots : clients[i].is_active /\ clients[i].socket_fd = f
      BY <2>1 DEF Undisturbed, SocketsOK
    <3>2. {j \in Slots : clients[j].is_active /\ clients[j].socket_fd = f} = {i}
      BY <3>1 DEF Undisturbed, SocketsOK
    <3> QED
      BY <3>2, FS_Singleton
  <2> QED
    BY <2>1 DEF Undisturbed, SocketsOK
<1> QED
  BY <1>1, Invariance, PTL

\* While the run is orderly, nobody waits in recv.
THEOREM RecvDoesNotBlock == Spec => []RecvNeverBlocks
<1>1. IInv => RecvNeverBlocks
  <2> SUFFICES ASSUME Basic, Undisturbed PROVE RecvNeverBlocks
    BY DEF IInv, RecvNeverBlocks
  <2>1. ASSUME main.pc = "recv" PROVE Readable(clients[main.slot].socket_fd)
    <3>1. main.slot \in Slots /\ main.slot \in Ahead /\ clients[main.slot].is_active
      BY <2>1 DEF Basic, StepsOK, Ahead, Undisturbed, MainOK, Slots
    <3> QED
      BY <2>1, <3>1 DEF Undisturbed, ReadsOK
  <2>2. \A t \in Threads : threads[t].pc = "recv" => Readable(clients[threads[t].slot].socket_fd)
    BY DEF Undisturbed, ThreadsOK, ThreadOK
  <2> QED
    BY <2>1, <2>2 DEF RecvNeverBlocks
<1> QED
  BY <1>1, Invariance, PTL
=============================================================================
