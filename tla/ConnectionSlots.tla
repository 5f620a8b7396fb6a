--------------------------- MODULE ConnectionSlots ---------------------------
(***************************************************************************)
(* The connections of server/server.c: the slots of the client table, the  *)
(* descriptors in them, the set that the main thread selects on, and the   *)
(* threads of the pool, from accept to close.  What a request does to      *)
(* rooms is left to ChatServer and ServerThreads; here a handler is a      *)
(* recv, the client_mutex that a private message locks, and a result that  *)
(* keeps the client or drops it.                                           *)
(*                                                                         *)
(* A slot that passes from one connection to the next while an agent still *)
(* works for the first is the subject of this module, so each read of a    *)
(* slot is a step of its own.  Filling a slot in and clearing it (memset)  *)
(* are one step each.  The descriptors of the listening and the multicast  *)
(* socket, which no slot ever holds, are left out; descriptor 0 is the     *)
(* standard input, and what the socket_fd of a cleared slot means.         *)
(***************************************************************************)
EXTENDS Integers, FiniteSets, Sequences

CONSTANTS
  MaxClients,    \* MAX_CLIENTS
  PoolSize,      \* THREAD_POOL_SIZE
  Connections,   \* how many clients are connected at a time, at most
  Stdin,         \* what descriptor 0 refers to when the server starts
  Nothing        \* what a closed descriptor refers to

ASSUME SizesAssumption == MaxClients \in Nat /\ PoolSize \in Nat
ASSUME ConnectionsAssumption ==
  /\ IsFiniteSet(Connections)
  /\ Stdin \notin Connections /\ Nothing \notin Connections \cup {Stdin}

VARIABLES
  backlog,       \* connections that wait for accept
  peers,         \* per connection: its client's end
  files,         \* what each descriptor refers to
  clients,       \* server_t.clients: is_active, socket_fd, age of last_activity
  master_fds,    \* server_t.master_fds
  main,          \* where the main thread is, with its local variables
  threads,       \* thread_pool, and where each thread is
  client_mutex,  \* who holds it; 0 if nobody does
  orderly        \* history: nothing has come between an agent and its work

vars == <<backlog, peers, files, clients, master_fds, main, threads,
          client_mutex, orderly>>

Slots == 1 .. MaxClients
Threads == 1 .. PoolSize
Descriptors == 0 .. Cardinality(Connections)

\* memset: socket_fd is 0, and last_activity lies 30 seconds back and more.
Cleared == [is_active |-> FALSE, socket_fd |-> 0, silent |-> TRUE]

MainSteps == {"select", "wait", "accept", "spawn", "unset", "serve", "recv",
              "private", "close", "clear", "sweep", "sweep_close", "sweep_clear",
              "stopped"}
ThreadSteps == {"unused", "loop", "watch", "wait", "lock", "recv", "private",
                "close", "clear", "zero", "unlock", "check", "timeout_lock", "ended"}

NewThread(step, i) ==
  [pc |-> step, slot |-> i, fd |-> 0, on |-> Nothing, set |-> {}, timed |-> FALSE]

Init ==
  /\ backlog = <<>>
  /\ peers = [c \in Connections |-> "away"]
  /\ files = [f \in Descriptors |-> IF f = 0 THEN Stdin ELSE Nothing]
  /\ clients = [i \in Slots |-> Cleared]
  /\ master_fds = {}
  /\ main = [pc |-> "select", slot |-> 0, read_fds |-> {}]
  /\ threads = [t \in Threads |-> NewThread("unused", 0)]
  /\ client_mutex = 0
  /\ orderly = TRUE

IsFirst(x, S) == x \in S /\ \A y \in S : x <= y

FreeSlots == {i \in Slots : ~clients[i].is_active}
FreeDescriptors == {f \in Descriptors : files[f] = Nothing}
Unused == {t \in Threads : threads[t].pc = "unused"}
Alive(t) == threads[t].pc \notin {"unused", "ended"}
ThreadsOf(i) == {t \in Threads : Alive(t) /\ threads[t].slot = i}

\* A thread is about to take descriptor f out of master_fds, or between
\* reading the set and writing it (FD_CLR takes no lock).
Clearing(f) ==
  \E t \in Threads : threads[t].pc = "zero" \/ (threads[t].pc = "clear" /\ threads[t].fd = f)

Readable(f) == files[f] \in Connections /\ peers[files[f]] \in {"sent", "closed"}

\* The client of slot i has sent nothing for CONNECTION_TIMEOUT_SEC.
Late(i) == clients[i].is_active /\ clients[i].silent

\* close; the client sees the end of its connection.
Close(f) ==
  /\ files' = [files EXCEPT ![f] = Nothing]
  /\ peers' = [c \in Connections |-> IF c = files[f] THEN "away" ELSE peers[c]]

-----------------------------------------------------------------------------
(* The clients.  What a client sends before it hangs up is read first.     *)

Connect(c) ==
  /\ peers[c] = "away"
  /\ peers' = [peers EXCEPT ![c] = "waiting"]
  /\ backlog' = Append(backlog, c)
  /\ UNCHANGED <<files, clients, master_fds, main, threads, client_mutex, orderly>>

Talk(c) ==
  /\ peers[c] = "idle"
  /\ \E s \in {"sent", "closed"} : peers' = [peers EXCEPT ![c] = s]
  /\ UNCHANGED <<backlog, files, clients, master_fds, main, threads, client_mutex, orderly>>

\* CONNECTION_TIMEOUT_SEC go by without a request from the client of slot i.
TimePasses(i) ==
  /\ clients[i].is_active /\ ~clients[i].silent
  /\ clients' = [clients EXCEPT ![i].silent = TRUE]
  /\ UNCHANGED <<backlog, peers, files, master_fds, main, threads, client_mutex, orderly>>

-----------------------------------------------------------------------------
(* recv and the handler.  On a descriptor that is closed or no socket recv *)
(* fails at once; on one with nothing to read it waits.                    *)

Kept(i) ==
  LET f == clients[i].socket_fd
  IN /\ files[f] \in Connections /\ peers[files[f]] = "sent"
     /\ peers' = [peers EXCEPT ![files[f]] = "idle"]
     /\ clients' = [clients EXCEPT ![i].silent = FALSE]

\* The client is gone, or its request is one that gets it dropped.
Refused(i) ==
  LET f == clients[i].socket_fd
  IN \/ files[f] \notin Connections /\ UNCHANGED <<peers, clients>>
     \/ /\ files[f] \in Connections /\ peers[files[f]] = "closed"
        /\ UNCHANGED <<peers, clients>>
     \/ Kept(i)

-----------------------------------------------------------------------------
(* The main thread: server_run, handle_new_connection, create_client_thread.*)

MainGoto(step, i) == main' = [main EXCEPT !.pc = step, !.slot = i]

\* A closed descriptor in the set makes select fail, and server_run return.
Select ==
  /\ main.pc = "select"
  /\ main' = [pc |-> IF \A f \in master_fds : files[f] # Nothing
                     THEN "wait" ELSE "stopped",
              slot |-> 0, read_fds |-> master_fds]
  /\ UNCHANGED <<backlog, peers, files, clients, master_fds, threads, client_mutex, orderly>>

\* Mutant: new connections wait for the clients to be silent.
SelectReturnsMutant ==
  LET ready == {f \in main.read_fds : Readable(f)}
  IN /\ main.pc = "wait"
     /\ ready # {} \/ backlog # <<>>
     /\ main' = [pc |-> IF ready = {} THEN "accept" ELSE "serve",
                 slot |-> 1, read_fds |-> ready]
     /\ UNCHANGED <<backlog, peers, files, clients, master_fds, threads, client_mutex, orderly>>

SelectReturns ==
  LET ready == {f \in main.read_fds : Readable(f)}
  IN /\ main.pc = "wait"
     /\ ready # {} \/ backlog # <<>>
     /\ main' = [pc |-> IF backlog # <<>> THEN "accept" ELSE "serve",
                 slot |-> 1, read_fds |-> ready]
     /\ UNCHANGED <<backlog, peers, files, clients, master_fds, threads, client_mutex, orderly>>

\* FD_CLR; a thread in the middle of its own loses the change.
ClearMaster(f) ==
  /\ master_fds' = master_fds \ {f}
  /\ orderly' = (orderly /\ (f \in master_fds => ~Clearing(f)))

\* Accept the connection and close it again: all slots are taken.
Reject ==
  /\ main.pc = "accept" /\ FreeSlots = {}
  /\ backlog' = Tail(backlog)
  /\ peers' = [peers EXCEPT ![Head(backlog)] = "away"]
  /\ MainGoto("serve", 1)
  /\ UNCHANGED <<files, clients, master_fds, threads, client_mutex, orderly>>

\* The first free slot may be one whose last thread is not done yet.
Accept ==
  /\ main.pc = "accept"
  /\ \E i \in FreeSlots, f \in FreeDescriptors :
       /\ IsFirst(i, FreeSlots) /\ IsFirst(f, FreeDescriptors)
       /\ files' = [files EXCEPT ![f] = Head(backlog)]
       /\ clients' = [clients EXCEPT ![i] = [is_active |-> TRUE, socket_fd |-> f,
                                             silent |-> FALSE]]
       /\ master_fds' = master_fds \cup {f}
       /\ orderly' = (orderly /\ ThreadsOf(i) = {} /\ ~Clearing(f))
       /\ MainGoto("spawn", i)
  /\ peers' = [peers EXCEPT ![Head(backlog)] = "idle"]
  /\ backlog' = Tail(backlog)
  /\ UNCHANGED <<threads, client_mutex>>

\* create_client_thread: a slot of the pool is used once, and pthread_create
\* may fail.
Spawn ==
  /\ main.pc = "spawn"
  /\ \/ \E t \in Unused :
          /\ IsFirst(t, Unused)
          /\ threads' = [threads EXCEPT ![t] = NewThread("loop", main.slot)]
          /\ MainGoto("unset", main.slot)
     \/ MainGoto("serve", 1) /\ UNCHANGED threads
  /\ UNCHANGED <<backlog, peers, files, clients, master_fds, client_mutex, orderly>>

\* Mutant: the client of the new thread stays in the set.
UnsetMutant ==
  /\ main.pc = "unset"
  /\ MainGoto("serve", 1)
  /\ UNCHANGED <<backlog, peers, files, clients, master_fds, threads, client_mutex, orderly>>

\* The thread is running already when its client is taken out of the set.
Unset ==
  /\ main.pc = "unset"
  /\ ClearMaster(clients[main.slot].socket_fd)
  /\ MainGoto("serve", 1)
  /\ UNCHANGED <<backlog, peers, files, clients, threads, client_mutex>>

\* Mutant: the loop ends one slot early.
SlotsDoneMutant(i) == i >= MaxClients

\* The end of the loops over the slots.
SlotsDone(i) == i > MaxClients

\* Mutant: select's answer is not looked at.
SelectedMutant(i) == clients[i].is_active

Selected(i) == clients[i].is_active /\ clients[i].socket_fd \in main.read_fds

Serve ==
  LET i == main.slot
  IN /\ main.pc = "serve"
     /\ CASE SlotsDone(i) -> MainGoto("sweep", 1)
          [] ~SlotsDone(i) /\ Selected(i) -> MainGoto("recv", i)
          [] OTHER -> MainGoto("serve", i + 1)
     /\ UNCHANGED <<backlog, peers, files, clients, master_fds, threads, client_mutex, orderly>>

\* Mutant: the slot after the one served is passed over.
MainReceiveMutant ==
  LET i == main.slot
  IN /\ main.pc = "recv"
     /\ \/ Kept(i) /\ MainGoto("serve", i + 2)
        \/ Kept(i) /\ MainGoto("private", i)
        \/ Refused(i) /\ MainGoto("close", i)
     /\ UNCHANGED <<backlog, files, master_fds, threads, client_mutex, orderly>>

\* A private message waits for client_mutex, which this thread does not hold.
MainReceive ==
  LET i == main.slot
  IN /\ main.pc = "recv"
     /\ \/ Kept(i) /\ MainGoto("serve", i + 1)
        \/ Kept(i) /\ MainGoto("private", i)
        \/ Refused(i) /\ MainGoto("close", i)
     /\ UNCHANGED <<backlog, files, master_fds, threads, client_mutex, orderly>>

\* The rest of handle_private_message, from lock to unlock: the message is
\* sent, or it is not, or there is no such user, and the sender is dropped.
MainPrivate ==
  /\ main.pc = "private" /\ client_mutex = 0
  /\ \/ MainGoto("serve", main.slot + 1)
     \/ MainGoto("close", main.slot)
  /\ UNCHANGED <<backlog, peers, files, clients, master_fds, threads, client_mutex, orderly>>

\* The timeout sweep, of all clients, those with a thread included.
Sweep ==
  LET i == main.slot
      late == ~SlotsDone(i) /\ Late(i)
  IN /\ main.pc = "sweep"
     /\ CASE SlotsDone(i) -> MainGoto("select", 0)
          [] late -> MainGoto("sweep_close", i)
          [] OTHER -> MainGoto("sweep", i + 1)
     /\ orderly' = (orderly /\ (late => ThreadsOf(i) = {}))
     /\ UNCHANGED <<backlog, peers, files, clients, master_fds, threads, client_mutex>>

\* Both ways to drop a client close its socket, and read its slot again for
\* the number to take out of the set.
MainClose ==
  LET i == main.slot
  IN /\ main.pc \in {"close", "sweep_close"}
     /\ Close(clients[i].socket_fd)
     /\ MainGoto(IF main.pc = "close" THEN "clear" ELSE "sweep_clear", i)
     /\ UNCHANGED <<backlog, clients, master_fds, threads, client_mutex, orderly>>

MainClear ==
  LET i == main.slot
  IN /\ main.pc \in {"clear", "sweep_clear"}
     /\ ClearMaster(clients[i].socket_fd)
     /\ clients' = [clients EXCEPT ![i] = Cleared]
     /\ MainGoto(IF main.pc = "clear" THEN "serve" ELSE "sweep", i + 1)
     /\ UNCHANGED <<backlog, peers, files, threads, client_mutex>>

-----------------------------------------------------------------------------
(* A client thread: client_thread_handler.                                 *)

Goto(t, step) == threads' = [threads EXCEPT ![t].pc = step]
Check(t) == threads' = [threads EXCEPT ![t] = NewThread("check", threads[t].slot)]

Loop(t) ==
  /\ threads[t].pc = "loop"
  /\ Goto(t, IF main.pc # "stopped" /\ clients[threads[t].slot].is_active
             THEN "watch" ELSE "ended")
  /\ UNCHANGED <<backlog, peers, files, clients, master_fds, main, client_mutex, orderly>>

\* The thread's own select; it fails on a closed descriptor.
Watch(t) ==
  LET f == clients[threads[t].slot].socket_fd
  IN /\ threads[t].pc = "watch"
     /\ IF files[f] = Nothing THEN Check(t)
        ELSE threads' = [threads EXCEPT ![t].pc = "wait", ![t].fd = f,
                                        ![t].on = files[f]]
     /\ UNCHANGED <<backlog, peers, files, clients, master_fds, main, client_mutex, orderly>>

\* select returns: there is something to read, or it has waited for 30 s.
\* It keeps a socket that is closed meanwhile, which may still receive, and
\* the standard input may have something to read as well.
Wake(t) ==
  LET f == threads[t].fd
      sure == files[f] = threads[t].on /\ Readable(f)
      maybe == files[f] # threads[t].on \/ threads[t].on = Stdin
  IN /\ threads[t].pc = "wait"
     /\ \/ /\ sure \/ maybe
           /\ IF clients[threads[t].slot].socket_fd = f
              THEN threads' = [threads EXCEPT ![t] = NewThread("lock", threads[t].slot)]
              ELSE Check(t)
        \/ ~sure /\ Check(t)
     /\ UNCHANGED <<backlog, peers, files, clients, master_fds, main, client_mutex, orderly>>

Lock(t) ==
  /\ threads[t].pc \in {"lock", "timeout_lock"}
  /\ client_mutex = 0
  /\ client_mutex' = t
  /\ Goto(t, IF threads[t].pc = "lock" THEN "recv" ELSE "close")
  /\ UNCHANGED <<backlog, peers, files, clients, master_fds, main, orderly>>

\* Mutant: the socket of a client that is dropped is not closed.
ThreadReceiveMutant(t) ==
  LET i == threads[t].slot
  IN /\ threads[t].pc = "recv"
     /\ \/ Kept(i) /\ (Goto(t, "unlock") \/ Goto(t, "private"))
        \/ /\ Refused(i)
           /\ threads' = [threads EXCEPT ![t].pc = "clear", ![t].fd = clients[i].socket_fd]
     /\ UNCHANGED <<backlog, files, master_fds, main, client_mutex, orderly>>

\* handle_client_message, with client_mutex held.  A private message locks
\* it once more, for which this thread then waits for ever: no action leaves
\* "private".
ThreadReceive(t) ==
  LET i == threads[t].slot
  IN /\ threads[t].pc = "recv"
     /\ \/ Kept(i) /\ Goto(t, "unlock")
        \/ Kept(i) /\ Goto(t, "private")
        \/ Refused(i) /\ Goto(t, "close")
     /\ UNCHANGED <<backlog, files, master_fds, main, client_mutex, orderly>>

ThreadClose(t) ==
  LET f == clients[threads[t].slot].socket_fd
  IN /\ threads[t].pc = "close"
     /\ Close(f)
     /\ threads' = [threads EXCEPT ![t].pc = "clear", ![t].fd = f]
     /\ UNCHANGED <<backlog, clients, master_fds, main, client_mutex, orderly>>

\* FD_CLR reads a word of the set and writes it back.
ThreadClear(t) ==
  /\ threads[t].pc = "clear"
  /\ threads' = [threads EXCEPT ![t].pc = "zero", ![t].set = master_fds]
  /\ UNCHANGED <<backlog, peers, files, clients, master_fds, main, client_mutex, orderly>>

ThreadZero(t) ==
  LET th == threads[t]
  IN /\ th.pc = "zero"
     /\ master_fds' = th.set \ {th.fd}
     /\ clients' = [clients EXCEPT ![th.slot] = Cleared]
     /\ threads' = [threads EXCEPT ![t] = [NewThread("unlock", th.slot) EXCEPT !.timed = th.timed]]
     /\ UNCHANGED <<backlog, peers, files, main, client_mutex, orderly>>

\* Mutant: the thread that ends keeps client_mutex.
UnlockMutant(t) ==
  /\ threads[t].pc = "unlock"
  /\ client_mutex' = IF threads[t].timed THEN t ELSE 0
  /\ Goto(t, IF threads[t].timed THEN "ended" ELSE "check")
  /\ UNCHANGED <<backlog, peers, files, clients, master_fds, main, orderly>>

Unlock(t) ==
  /\ threads[t].pc = "unlock"
  /\ client_mutex' = 0
  /\ Goto(t, IF threads[t].timed THEN "ended" ELSE "check")
  /\ UNCHANGED <<backlog, peers, files, clients, master_fds, main, orderly>>

\* The timeout is checked before client_mutex is locked, and not again.
CheckTimeout(t) ==
  LET i == threads[t].slot
  IN /\ threads[t].pc = "check"
     /\ IF Late(i)
        THEN threads' = [threads EXCEPT ![t].pc = "timeout_lock", ![t].timed = TRUE]
        ELSE Goto(t, "loop")
     /\ UNCHANGED <<backlog, peers, files, clients, master_fds, main, client_mutex, orderly>>

-----------------------------------------------------------------------------

MainStep ==
  \/ Select \/ SelectReturns \/ Reject \/ Accept \/ Spawn \/ Unset
  \/ Serve \/ MainReceive \/ MainPrivate \/ Sweep \/ MainClose \/ MainClear

ThreadStep(t) ==
  \/ Loop(t) \/ Watch(t) \/ Wake(t) \/ Lock(t) \/ ThreadReceive(t)
  \/ ThreadClose(t) \/ ThreadClear(t) \/ ThreadZero(t) \/ Unlock(t) \/ CheckTimeout(t)

Next ==
  \/ \E c \in Connections : Connect(c) \/ Talk(c)
  \/ \E i \in Slots : TimePasses(i)
  \/ MainStep
  \/ \E t \in Threads : ThreadStep(t)

Spec == Init /\ [][Next]_vars

\* A thread that can go on does; clients do what they like, and nobody is
\* promised client_mutex.
FairSpec == Spec /\ WF_vars(MainStep) /\ \A t \in Threads : WF_vars(ThreadStep(t))

-----------------------------------------------------------------------------
(* Properties.                                                             *)

TypeOK ==
  /\ backlog \in Seq(Connections)
  /\ peers \in [Connections -> {"away", "waiting", "idle", "sent", "closed"}]
  /\ files \in [Descriptors -> Connections \cup {Stdin, Nothing}]
  /\ clients \in [Slots -> [is_active : BOOLEAN, socket_fd : Descriptors,
                            silent : BOOLEAN]]
  /\ master_fds \subseteq Descriptors
  /\ main \in [pc : MainSteps, slot : 0 .. MaxClients + 1,
               read_fds : SUBSET Descriptors]
  /\ threads \in [Threads -> [pc : ThreadSteps, slot : Slots \cup {0},
                              fd : Descriptors, on : Connections \cup {Stdin, Nothing},
                              set : SUBSET Descriptors, timed : BOOLEAN]]
  /\ client_mutex \in Threads \cup {0}
  /\ orderly \in BOOLEAN

\* As long as no agent has come between another one and its slot:

\* The main thread selects on the sockets of exactly those clients that have
\* no thread: nobody is left unserved, nobody is served twice, and select
\* never finds a closed descriptor in the set, which would end the server.
MasterSetExact ==
  orderly /\ main.pc \in {"select", "wait", "stopped"} =>
    /\ master_fds = {clients[i].socket_fd : i \in {j \in Slots \ FreeSlots : ThreadsOf(j) = {}}}
    /\ main.pc # "stopped"

\* Slot i has lost its socket already but is not cleared yet.
BeingCleared(i) ==
  \/ main.pc \in {"clear", "sweep_clear"} /\ main.slot = i
  \/ \E t \in ThreadsOf(i) : threads[t].pc \in {"clear", "zero"}

\* Every open connection is in one slot, every active slot has an open
\* connection: none is leaked, none is closed under the client that has
\* been given its number meanwhile, and the standard input stays open.
DescriptorsOwned ==
  orderly =>
    /\ \A f \in Descriptors : files[f] \in Connections =>
         Cardinality({i \in Slots : clients[i].is_active /\ clients[i].socket_fd = f}) = 1
    /\ \A i \in Slots : clients[i].is_active /\ ~BeingCleared(i) =>
         files[clients[i].socket_fd] \in Connections
    /\ files[0] = Stdin

\* Sockets block, but recv is only called when there is something to read:
\* the main thread never hangs on one client, nor a client thread with
\* client_mutex held, on which all the others would wait.
RecvNeverBlocks ==
  orderly =>
    /\ main.pc = "recv" => Readable(clients[main.slot].socket_fd)
    /\ \A t \in Threads :
         threads[t].pc = "recv" => Readable(clients[threads[t].slot].socket_fd)

\* A thread that hangs at a private message never gives client_mutex back,
\* and other threads may always get it first: the main thread, at a private
\* message from a client it serves itself, may wait for it for ever.
MainWaitsForEver == <>[](main.pc = "private")

\* Unless it does, a connection that waits is accepted or turned away,
\* whatever the other connections and the threads do.
AcceptedEventually ==
  \/ MainWaitsForEver
  \/ \A c \in Connections : orderly /\ peers[c] = "waiting" ~> peers[c] # "waiting" \/ ~orderly

\* A client thread gives client_mutex back, on each path through its loop
\* that does not end at a private message.
ClientMutexReleased ==
  \A t \in Threads :
    orderly /\ client_mutex = t ~> client_mutex # t \/ ~orderly \/ threads[t].pc = "private"

\* Unless the main thread waits for ever, it reads a request from a client
\* that has no thread, or it has dropped the client for its silence first.
RequestsHeard ==
  LET Asks(i) == /\ clients[i].is_active /\ clients[i].socket_fd \in master_fds
                 /\ Readable(clients[i].socket_fd)
  IN \/ MainWaitsForEver
     \/ \A i \in Slots : orderly /\ Asks(i) ~> ~Asks(i) \/ ~orderly

\* create_client_thread may fail: "Continue with select() mode for this
\* client" (server.c:240).  Every client has a thread or is selected on.
EveryClientServed ==
  \A i \in Slots :
    clients[i].is_active /\ ~BeingCleared(i) /\ ~(main.pc = "spawn" /\ main.slot = i) =>
      ThreadsOf(i) # {} \/ clients[i].socket_fd \in master_fds

=============================================================================
