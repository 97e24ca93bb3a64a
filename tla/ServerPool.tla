----------------------------- MODULE ServerPool -----------------------------
(***************************************************************************)
(* The daemon of the Linux server (Linux/server/source_server.c): the      *)
(* accept loop of main(), the worker pool running protocol(), and the      *)
(* reload of the configuration file by handlerSighup().                    *)
(*                                                                         *)
(* main and every worker are processes with a program counter.  A step of  *)
(* theirs makes at most one access to a location another process or the    *)
(* signal handler also accesses, so every interleaving of the program is   *)
(* an interleaving of these actions.  The build does not optimise          *)
(* (Linux/makefile passes -Wall -Wextra only), hence plain variables that  *)
(* are shared without a lock are read and written in program order.        *)
(*                                                                         *)
(* What a conversation with a client does is a single step here (Finish);  *)
(* Handshake.tla models how it begins.                                     *)
(***************************************************************************)
EXTENDS Integers, Sequences, FiniteSets

CONSTANTS
  Conns,            \* the connections clients open, each at most once
  NoFd,             \* the file descriptor -1
  Garbage,          \* what an uninitialised int of the heap holds
  MAX_ACCEPT,       \* connections after which the daemon terminates
  MAX_THREADS_NUM,  \* largest pool the program accepts
  MAX_PORT_NUMBER,  \* largest port the program accepts
  StartThreads,     \* threads_number when the daemon starts
  StartPort,        \* port_number when the daemon starts
  ConfigFiles,      \* contents of the configuration file at a SIGHUP
  MaxSighups,       \* bound on the SIGHUPs of a behaviour
  ResizeAt,         \* points of main at which a SIGHUP may change the pool size
  RebindAt          \* points of main at which a SIGHUP may change the port

NoPort == -1                         \* last_port_number before the first bind
Ports  == 1 .. MAX_PORT_NUMBER
Slots  == 0 .. MAX_THREADS_NUM - 1   \* indices of the array threads

MainPC ==
  { "top", "malloc", "create", "portcheck", "lastport", "bind", "temp", "wait",
    "check", "accept", "accepting", "scan", "assign", "unlock", "stop",
    "stopunlock", "join", "free", "restart", "terminated", "failed", "undefined" }

\* "failed" is exit(EXIT_FAILURE); "undefined" is an access outside the array,
\* to a slot nobody initialised, or to the array after it was freed.
Exited == { "terminated", "failed", "undefined" }

WorkerPC == { "none", "lock", "checkfd", "serve", "clearfd", "clearstate", "post", "exit" }

ASSUME PoolAssumption ==
  /\ NoFd \notin Conns /\ Garbage \notin Conns /\ NoFd # Garbage
  /\ MAX_ACCEPT \in Nat \ {0}
  /\ MAX_THREADS_NUM \in Nat \ {0}
  /\ MAX_PORT_NUMBER \in Nat \ {0}
  /\ StartThreads \in 1 .. MAX_THREADS_NUM
  /\ StartPort \in Ports
  /\ ConfigFiles \subseteq [port : Int, threads : Int]
  /\ MaxSighups \in Nat
  /\ ResizeAt \subseteq MainPC /\ RebindAt \subseteq MainPC

VARIABLES
  mpc, idx, conn_fd, max, alloc,                   \* main: pc, loop index, locals,
  last_port_number, threads_number_temp,           \*   length of the array threads
  threads_number, port_number, force_restart,      \* globals the handler writes
  sighups,
  sem,                                             \* the semaphore `mutex`
  state, fd, mutex, wpc,                           \* struct my_thread, one per slot
  open, listen_fd, backlog,                        \* listening sockets, by port
  client                                           \* what became of a connection

mainVars == <<idx, conn_fd, max, alloc, last_port_number, threads_number_temp>>
mainRest == <<conn_fd, max, alloc, last_port_number, threads_number_temp>>   \* without idx
confVars == <<threads_number, port_number, force_restart, sighups>>
slotVars == <<state, fd, mutex, wpc>>
netVars  == <<open, listen_fd, backlog, client>>
vars     == <<mpc, mainVars, confVars, sem, slotVars, netVars>>

ClientState == { "new", "queued", "accepted", "closed", "reset", "dropped" }

Init ==
  /\ mpc = "top" /\ idx = 0 /\ conn_fd = NoFd /\ max = MAX_ACCEPT /\ alloc = 0
  /\ last_port_number = NoPort /\ threads_number_temp = 0
  /\ threads_number = StartThreads /\ port_number = StartPort
  /\ force_restart = FALSE /\ sighups = 0
  /\ sem = 0
  /\ state = [i \in Slots |-> 0] /\ fd = [i \in Slots |-> Garbage]
  /\ mutex = [i \in Slots |-> FALSE] /\ wpc = [i \in Slots |-> "none"]
  /\ open = {} /\ listen_fd = NoPort /\ backlog = [p \in Ports |-> <<>>]
  /\ client = [c \in Conns |-> "new"]

-----------------------------------------------------------------------------
(* Faults.  Each of these is a definition below with a slip a change to the  *)
(* code could make; README.md says which property notices which.             *)

\* The semaphore is not initialised anew after a reload.
SemInitOnTop ==
  /\ mpc = "top" /\ max > 0 /\ mpc' = "malloc"
  /\ sem' = sem + threads_number
  /\ UNCHANGED <<mainVars, confVars, slotVars, netVars>>

\* threads_number_temp is saved the first time only.
SaveThreadsNumberOnce ==
  /\ mpc = "temp" /\ mpc' = "wait"
  /\ threads_number_temp' = IF threads_number_temp = 0 THEN threads_number ELSE threads_number_temp
  /\ UNCHANGED <<idx, conn_fd, max, alloc, last_port_number, confVars, sem, slotVars, netVars>>

\* force_restart is not looked at before accept().
CheckNothing ==
  /\ mpc = "check" /\ mpc' = "accept"
  /\ UNCHANGED <<mainVars, confVars, sem, slotVars, netVars>>

\* conn_fd keeps the last connection when a restart breaks the loop.
CheckRestartKeepsConn ==
  /\ mpc = "check"
  /\ IF force_restart THEN idx' = 0 /\ mpc' = "stop" ELSE mpc' = "accept" /\ UNCHANGED idx
  /\ UNCHANGED <<mainRest, confVars, sem, slotVars, netVars>>

\* state is not set when the slot is assigned.
AssignWithoutState ==
  /\ mpc = "assign" /\ mpc' = "unlock"
  /\ fd' = [fd EXCEPT ![idx] = conn_fd]
  /\ UNCHANGED <<mainVars, confVars, sem, state, mutex, wpc, netVars>>

\* The worker is not woken.
UnlockForgotten ==
  /\ mpc = "unlock" /\ mpc' = "wait"
  /\ max' = max - 1
  /\ UNCHANGED <<idx, conn_fd, alloc, last_port_number, threads_number_temp, confVars, sem, slotVars, netVars>>

\* fd is overwritten whether or not the slot is busy.
StopWithoutState ==
  /\ mpc = "stop" /\ idx < threads_number_temp /\ mpc' = "stopunlock"
  /\ idx < alloc /\ wpc[idx] # "none"
  /\ fd' = [fd EXCEPT ![idx] = NoFd]
  /\ UNCHANGED <<mainVars, confVars, sem, state, mutex, wpc, netVars>>

\* last_port_number remembers the first port only.
LastPortOnce ==
  /\ mpc = "lastport" /\ mpc' = "bind"
  /\ last_port_number' = IF last_port_number = NoPort THEN port_number ELSE last_port_number
  /\ UNCHANGED <<idx, conn_fd, max, alloc, threads_number_temp, confVars, sem, slotVars, netVars>>

\* The permit is not given back.
PostForgotten(i) ==
  /\ wpc[i] = "post" /\ wpc' = [wpc EXCEPT ![i] = "lock"]
  /\ UNCHANGED <<sem, state, fd, mutex, client>>

\* The upper bound of the pool size is not checked.
ReloadedThreadsUnbounded(cfg) == IF cfg.threads > 0 THEN cfg.threads ELSE threads_number

-----------------------------------------------------------------------------
(* main: building the pool and the listening socket.                        *)

\* sem_init.  The guard is `while (max)`: the loop is re-entered only after a
\* reload, and then max > 0 (ServerPoolProofs.tla).
SemInit ==
  /\ mpc = "top" /\ max > 0 /\ mpc' = "malloc"
  /\ sem' = threads_number
  /\ UNCHANGED <<mainVars, confVars, slotVars, netVars>>

\* threads_number is read again, for the size of the array.
AllocThreads ==
  /\ mpc = "malloc" /\ mpc' = "create"
  /\ alloc' = threads_number
  /\ idx' = 0
  /\ UNCHANGED <<conn_fd, max, last_port_number, threads_number_temp, confVars, sem, slotVars, netVars>>

\* ... and again at every turn of the loop.  main locks the slot's mutex before
\* it creates the thread; fd stays uninitialised.
CreateThread ==
  /\ mpc = "create" /\ idx < threads_number /\ idx < alloc
  /\ state' = [state EXCEPT ![idx] = 0]
  /\ mutex' = [mutex EXCEPT ![idx] = TRUE]
  /\ wpc' = [wpc EXCEPT ![idx] = "lock"]
  /\ idx' = idx + 1
  /\ UNCHANGED <<mpc, mainRest, confVars, sem, fd, netVars>>

CreateDone ==
  /\ mpc = "create" /\ idx >= threads_number /\ mpc' = "portcheck"
  /\ UNCHANGED <<mainVars, confVars, sem, slotVars, netVars>>

PortCheck ==
  /\ mpc = "portcheck" /\ mpc' = IF last_port_number # port_number THEN "lastport" ELSE "temp"
  /\ UNCHANGED <<mainVars, confVars, sem, slotVars, netVars>>

LastPort ==
  /\ mpc = "lastport" /\ mpc' = "bind"
  /\ last_port_number' = port_number
  /\ UNCHANGED <<idx, conn_fd, max, alloc, threads_number_temp, confVars, sem, slotVars, netVars>>

\* socket, bind and listen on server_port, read once more from port_number.
\* Bind exits the process if another socket still listens on the port.
BindListen ==
  /\ mpc = "bind"
  /\ \/ /\ port_number \notin open
        /\ open' = open \cup {port_number}
        /\ listen_fd' = port_number
        /\ mpc' = "temp"
     \/ /\ port_number \in open
        /\ mpc' = "failed"
        /\ UNCHANGED <<open, listen_fd>>
  /\ UNCHANGED <<mainVars, confVars, sem, slotVars, backlog, client>>

SaveThreadsNumber ==
  /\ mpc = "temp" /\ mpc' = "wait"
  /\ threads_number_temp' = threads_number
  /\ UNCHANGED <<idx, conn_fd, max, alloc, last_port_number, confVars, sem, slotVars, netVars>>

-----------------------------------------------------------------------------
(* main: the accept loop.                                                   *)

SemWait ==
  /\ mpc = "wait" /\ max > 0 /\ sem > 0 /\ mpc' = "check"
  /\ sem' = sem - 1
  /\ UNCHANGED <<mainVars, confVars, slotVars, netVars>>

AllAccepted ==
  /\ mpc = "wait" /\ max = 0 /\ mpc' = "stop"
  /\ idx' = 0
  /\ UNCHANGED <<mainRest, confVars, sem, slotVars, netVars>>

CheckRestart ==
  /\ mpc = "check"
  /\ \/ /\ force_restart
        /\ conn_fd' = NoFd
        /\ idx' = 0
        /\ mpc' = "stop"
     \/ /\ ~force_restart
        /\ mpc' = "accept"
        /\ UNCHANGED <<conn_fd, idx>>
  /\ UNCHANGED <<max, alloc, last_port_number, threads_number_temp, confVars, sem, slotVars, netVars>>

\* main enters accept().  On a descriptor that was closed accept() fails with
\* EBADF and Accept exits the process.
EnterAccept ==
  /\ mpc = "accept" /\ mpc' = IF listen_fd \in open THEN "accepting" ELSE "failed"
  /\ UNCHANGED <<mainVars, confVars, sem, slotVars, netVars>>

Accepted ==
  /\ mpc = "accepting" /\ backlog[listen_fd] # <<>> /\ mpc' = "scan"
  /\ conn_fd' = Head(backlog[listen_fd])
  /\ backlog' = [backlog EXCEPT ![listen_fd] = Tail(@)]
  /\ client' = [client EXCEPT ![Head(backlog[listen_fd])] = "accepted"]
  /\ idx' = 0
  /\ UNCHANGED <<max, alloc, last_port_number, threads_number_temp, confVars, sem, slotVars, open, listen_fd>>

\* One turn of the search for a free slot: `i < threads_number` reads the
\* global, `threads[i].state` races with the worker that writes it.
ScanBusy ==
  /\ mpc = "scan" /\ idx < threads_number
  /\ idx < alloc /\ wpc[idx] # "none"
  /\ state[idx] = 1
  /\ idx' = idx + 1
  /\ UNCHANGED <<mpc, mainRest, confVars, sem, slotVars, netVars>>

ScanFree ==
  /\ mpc = "scan" /\ idx < threads_number /\ mpc' = "assign"
  /\ idx < alloc /\ wpc[idx] # "none"
  /\ state[idx] = 0
  /\ UNCHANGED <<mainVars, confVars, sem, slotVars, netVars>>

\* The for loop ends without a free slot: nobody serves or closes conn_fd.
ScanExhausted ==
  /\ mpc = "scan" /\ idx >= threads_number /\ mpc' = "wait"
  /\ client' = [client EXCEPT ![conn_fd] = "dropped"]
  /\ UNCHANGED <<mainVars, confVars, sem, slotVars, open, listen_fd, backlog>>

\* The worker reads the slot only once it owns the mutex, so that writing state,
\* fd, address and timestamp is one step.
AssignThread ==
  /\ mpc = "assign" /\ mpc' = "unlock"
  /\ state' = [state EXCEPT ![idx] = 1]
  /\ fd' = [fd EXCEPT ![idx] = conn_fd]
  /\ UNCHANGED <<mainVars, confVars, sem, mutex, wpc, netVars>>

UnlockThread ==
  /\ mpc = "unlock" /\ mpc' = "wait"
  /\ mutex' = [mutex EXCEPT ![idx] = FALSE]
  /\ max' = max - 1
  /\ UNCHANGED <<idx, conn_fd, alloc, last_port_number, threads_number_temp, confVars, sem, state, fd, wpc, netVars>>

-----------------------------------------------------------------------------
(* main: stopping the pool, then exit or restart.                           *)

StopThread ==
  /\ mpc = "stop" /\ idx < threads_number_temp /\ mpc' = "stopunlock"
  /\ idx < alloc /\ wpc[idx] # "none"
  /\ fd' = IF state[idx] = 0 THEN [fd EXCEPT ![idx] = NoFd] ELSE fd
  /\ UNCHANGED <<mainVars, confVars, sem, state, mutex, wpc, netVars>>

\* Unlocking a mutex that is already unlocked leaves it unlocked.
StopUnlock ==
  /\ mpc = "stopunlock" /\ mpc' = "join"
  /\ mutex' = [mutex EXCEPT ![idx] = FALSE]
  /\ UNCHANGED <<mainVars, confVars, sem, state, fd, wpc, netVars>>

JoinThread ==
  /\ mpc = "join" /\ wpc[idx] = "exit" /\ mpc' = "stop"
  /\ idx' = idx + 1
  /\ UNCHANGED <<mainRest, confVars, sem, slotVars, netVars>>

StopDone ==
  /\ mpc = "stop" /\ idx >= threads_number_temp /\ mpc' = "free"
  /\ UNCHANGED <<mainVars, confVars, sem, slotVars, netVars>>

\* Free(threads), and Close(listen_fd) if the port changed: the kernel resets
\* the connections still in the backlog.
FreeThreads ==
  /\ mpc = "free" /\ mpc' = "restart"
  /\ \A i \in Slots : wpc[i] \in {"none", "exit"}
  /\ alloc' = 0
  /\ state' = [i \in Slots |-> 0] /\ fd' = [i \in Slots |-> Garbage]
  /\ mutex' = [i \in Slots |-> FALSE] /\ wpc' = [i \in Slots |-> "none"]
  /\ \/ /\ last_port_number # port_number
        /\ open' = open \ {listen_fd}
        /\ backlog' = [backlog EXCEPT ![listen_fd] = <<>>]
        /\ client' = [c \in Conns |-> IF \E k \in DOMAIN backlog[listen_fd] : backlog[listen_fd][k] = c
                                      THEN "reset" ELSE client[c]]
     \/ /\ last_port_number = port_number
        /\ UNCHANGED <<open, backlog, client>>
  /\ UNCHANGED <<idx, conn_fd, max, last_port_number, threads_number_temp, confVars, sem, listen_fd>>

\* `if (-1 != conn_fd) break;` ends the daemon, otherwise the reload is over.
ExitOrRestart ==
  /\ mpc = "restart"
  /\ \/ /\ conn_fd # NoFd
        /\ mpc' = "terminated"
        /\ UNCHANGED force_restart
     \/ /\ conn_fd = NoFd
        /\ force_restart' = FALSE
        /\ mpc' = "top"
  /\ UNCHANGED <<mainVars, threads_number, port_number, sighups, sem, slotVars, netVars>>

\* The loops above leave the array, meet a slot without a thread, or free the
\* array under a thread that still runs.
UndefinedAccess ==
  /\ \/ mpc = "create" /\ idx < threads_number /\ idx >= alloc
     \/ mpc = "scan"   /\ idx < threads_number /\ (idx >= alloc \/ wpc[idx] = "none")
     \/ mpc = "stop"   /\ idx < threads_number_temp /\ (idx >= alloc \/ wpc[idx] = "none")
     \/ mpc = "free"   /\ \E i \in Slots : wpc[i] \notin {"none", "exit"}
  /\ mpc' = "undefined"
  /\ UNCHANGED <<mainVars, confVars, sem, slotVars, netVars>>

Main ==
  \/ SemInit \/ AllocThreads \/ CreateThread \/ CreateDone
  \/ PortCheck \/ LastPort \/ BindListen \/ SaveThreadsNumber
  \/ SemWait \/ AllAccepted \/ CheckRestart \/ EnterAccept \/ Accepted
  \/ ScanBusy \/ ScanFree \/ ScanExhausted \/ AssignThread \/ UnlockThread
  \/ StopThread \/ StopUnlock \/ JoinThread \/ StopDone
  \/ FreeThreads \/ ExitOrRestart \/ UndefinedAccess

-----------------------------------------------------------------------------
(* protocol(): the worker in slot i.  It never unlocks the mutex: main does.*)

Lock(i) ==
  /\ wpc[i] = "lock" /\ ~mutex[i] /\ wpc' = [wpc EXCEPT ![i] = "checkfd"]
  /\ mutex' = [mutex EXCEPT ![i] = TRUE]
  /\ UNCHANGED <<sem, state, fd, client>>

CheckFd(i) ==
  /\ wpc[i] = "checkfd" /\ wpc' = [wpc EXCEPT ![i] = IF fd[i] # NoFd THEN "serve" ELSE "exit"]
  /\ UNCHANGED <<sem, state, fd, mutex, client>>

\* The conversation: authentication, command, log line, shutdown and Close.
Finish(i) ==
  /\ wpc[i] = "serve" /\ wpc' = [wpc EXCEPT ![i] = "clearfd"]
  /\ client' = [client EXCEPT ![fd[i]] = "closed"]
  /\ UNCHANGED <<sem, state, fd, mutex>>

ClearFd(i) ==
  /\ wpc[i] = "clearfd" /\ wpc' = [wpc EXCEPT ![i] = "clearstate"]
  /\ fd' = [fd EXCEPT ![i] = NoFd]
  /\ UNCHANGED <<sem, state, mutex, client>>

ClearState(i) ==
  /\ wpc[i] = "clearstate" /\ wpc' = [wpc EXCEPT ![i] = "post"]
  /\ state' = [state EXCEPT ![i] = 0]
  /\ UNCHANGED <<sem, fd, mutex, client>>

SemPost(i) ==
  /\ wpc[i] = "post" /\ wpc' = [wpc EXCEPT ![i] = "lock"]
  /\ sem' = sem + 1
  /\ UNCHANGED <<state, fd, mutex, client>>

Worker(i) ==
  /\ mpc \notin Exited
  /\ Lock(i) \/ CheckFd(i) \/ Finish(i) \/ ClearFd(i) \/ ClearState(i) \/ SemPost(i)
  /\ UNCHANGED <<mpc, mainVars, confVars, open, listen_fd, backlog>>

-----------------------------------------------------------------------------
(* The environment: clients connect, the operator sends SIGHUP.             *)

Connect(c) ==
  /\ mpc \notin Exited
  /\ client[c] = "new"
  /\ \E p \in open : backlog' = [backlog EXCEPT ![p] = Append(@, c)]
  /\ client' = [client EXCEPT ![c] = "queued"]
  /\ UNCHANGED <<mpc, mainVars, confVars, sem, slotVars, open, listen_fd>>

\* setThreadsNumber and setPortNumber with force_reloading set: a value in range
\* replaces the current one, a missing or invalid one (here also 0) leaves it.
ReloadedThreads(cfg) == IF cfg.threads \in 1 .. MAX_THREADS_NUM THEN cfg.threads ELSE threads_number
ReloadedPort(cfg)    == IF cfg.port \in Ports THEN cfg.port ELSE port_number

\* What the signal does to the system call main is in: accept() and a blocked
\* sem_wait() return early (sigaction without SA_RESTART), and the result of
\* sem_wait is not looked at.  Elsewhere, also just before main blocks in
\* sem_wait, only the handler runs.  (Linux runs the handler of a signal sent to
\* the process on its main thread while that one does not block it.)
Interrupt ==
  \/ /\ mpc = "accepting"
     /\ conn_fd' = NoFd /\ idx' = 0 /\ mpc' = "stop"
  \/ /\ mpc = "wait" /\ max > 0 /\ sem = 0
     /\ mpc' = "check" /\ UNCHANGED <<conn_fd, idx>>
  \/ /\ mpc # "accepting"
     /\ UNCHANGED <<mpc, conn_fd, idx>>

Sighup ==
  /\ mpc \notin Exited /\ sighups < MaxSighups
  /\ sighups' = sighups + 1
  /\ force_restart' = TRUE
  /\ \E cfg \in ConfigFiles :
       /\ threads_number' = ReloadedThreads(cfg)
       /\ port_number' = ReloadedPort(cfg)
  /\ threads_number' # threads_number => mpc \in ResizeAt
  /\ port_number' # port_number => mpc \in RebindAt
  /\ Interrupt
  /\ UNCHANGED <<max, alloc, last_port_number, threads_number_temp, sem, slotVars, netVars>>

Next ==
  \/ Main
  \/ \E i \in Slots : Worker(i)
  \/ \E c \in Conns : Connect(c)
  \/ Sighup

Spec == Init /\ [][Next]_vars

\* main and the workers are threads the kernel schedules.  Fairness of Finish is
\* the assumption that every conversation ends: clients answer or hang up, and
\* the commands run for them terminate.
FairSpec == Spec /\ WF_vars(Main) /\ \A i \in Slots : WF_vars(Worker(i))

-----------------------------------------------------------------------------
(* Properties.                                                              *)

\* The points at which main relies on the pool size it read before: it has used
\* threads_number once and uses it again without looking at force_restart.
ResizeUnsafe == {"malloc", "create", "portcheck", "lastport", "bind", "temp", "accept", "scan"}
\* The points between the decision to close the socket and the end of bind().
RebindUnsafe == {"restart", "top", "malloc", "create", "portcheck", "lastport", "bind"}

\* The values each variable may hold; in particular max never runs below zero
\* (it is unsigned, `while (max)` would not stop) and no index passes the array.
TypeOK ==
  /\ mpc \in MainPC /\ idx \in 0 .. MAX_THREADS_NUM
  /\ conn_fd \in Conns \cup {NoFd} /\ max \in 0 .. MAX_ACCEPT
  /\ alloc \in 0 .. MAX_THREADS_NUM /\ threads_number_temp \in 0 .. MAX_THREADS_NUM
  /\ last_port_number \in Ports \cup {NoPort}
  /\ threads_number \in 1 .. MAX_THREADS_NUM /\ port_number \in Ports
  /\ force_restart \in BOOLEAN /\ sighups \in 0 .. MaxSighups
  /\ sem \in Nat
  /\ state \in [Slots -> {0, 1}] /\ fd \in [Slots -> Conns \cup {NoFd, Garbage}]
  /\ mutex \in [Slots -> BOOLEAN] /\ wpc \in [Slots -> WorkerPC]
  /\ open \subseteq Ports /\ listen_fd \in Ports \cup {NoPort}
  /\ backlog \in [Ports -> Seq(Conns)]
  /\ client \in [Conns -> ClientState]

\* Slots main may hand out, and workers that freed a slot but did not yet give
\* the permit back; main may hand out a slot before its worker has posted.
FreeSlots == { i \in Slots : wpc[i] # "none" /\ state[i] = 0 }
Posting   == { i \in Slots : wpc[i] = "post" }

\* The permit main took in sem_wait and has not yet spent on a slot.
Held == IF mpc \in {"check", "accept", "accepting", "scan", "assign"} THEN 1 ELSE 0

\* Between the creation of the pool and its stop.  A pending restart is left out
\* at "check", which an interrupted sem_wait reaches without a permit.
Serving == \/ mpc \in { "portcheck", "lastport", "bind", "temp", "wait", "accept",
                        "accepting", "scan", "assign", "unlock" }
           \/ mpc = "check" /\ ~force_restart

\* The semaphore counts the free slots exactly: a permit in circulation, in main's
\* hand or about to be posted for every free slot, none lost, none in excess.
PermitsCountFreeSlots ==
  Serving => sem + Held + Cardinality(Posting) = Cardinality(FreeSlots)

\* The search of main() for a slot cannot fail: having a permit, every connection
\* it accepts is given to a worker and so answered and closed.
NoConnectionDropped == \A c \in Conns : client[c] # "dropped"

\* A connection main accepted and nobody closed yet is either in main's hand or
\* in one slot; no two slots hold the same one, and a worker talks only to a
\* connection that is still open.
ExclusiveService ==
  /\ \A c \in Conns :
       client[c] = "accepted" =>
         \/ mpc \in {"scan", "assign", "undefined"} /\ conn_fd = c
         \/ \E i \in Slots : fd[i] = c /\ wpc[i] \in {"post", "lock", "checkfd", "serve"}
  /\ \A i, j \in Slots : fd[i] = fd[j] /\ fd[i] \in Conns => i = j
  /\ \A i \in Slots : wpc[i] = "serve" =>
       fd[i] \in Conns /\ client[fd[i]] = "accepted" /\ state[i] = 1

\* The daemon terminates only after MAX_ACCEPT connections were assigned to a
\* worker and every one of these conversations has ended.
TerminatesWhenDone ==
  mpc = "terminated" =>
    /\ Cardinality({c \in Conns : client[c] = "closed"}) = MAX_ACCEPT
    /\ \A c \in Conns : client[c] # "accepted"

\* Neither the loops over the array nor free() touch memory they may not.
NoUndefinedAccess == mpc # "undefined"

\* While main waits for connections and no restart is pending, exactly one port
\* is open, and it is the one the configuration asks for.
ListenPortAgrees ==
  mpc = "accepting" /\ ~force_restart => open = {port_number} /\ listen_fd = port_number

\* An accepted connection is eventually closed, whenever a reload comes and whatever
\* it changes in the pool; except that main lets it go, or leaves the array, where
\* NoConnectionDropped and NoUndefinedAccess do not hold.
AcceptedIsClosed ==
  \A c \in Conns : client[c] = "accepted" ~>
    (client[c] \in {"closed", "dropped"} \/ mpc = "undefined")

\* A connection that waits in the backlog is eventually accepted, or reset by a
\* change of the port, unless the daemon has used up its MAX_ACCEPT connections or
\* a reload is under way (the stop of the pool may hang, see the next property).
QueuedIsAccepted ==
  \A c \in Conns : client[c] = "queued" ~> (client[c] # "queued" \/ max = 0 \/ force_restart)

\* "numero di connessioni dopo le quali il server terminera' l'esecuzione"
\* (source_server.c:693): once the last one is assigned the daemon terminates.
TerminatesAfterMaxAccept == max = 0 ~> mpc = "terminated"

-----------------------------------------------------------------------------
(* The pool implements ConnectionService: a connection is served from accept()*)
(* to close(), the budget is spent when it is accepted, and the capacity is   *)
(* the length of the array of slots.                                          *)

Phase == [ new |-> "waiting", queued |-> "waiting", accepted |-> "served",
           closed |-> "answered", reset |-> "refused", dropped |-> "dropped" ]

Service == INSTANCE ConnectionService WITH
  conn     <- [c \in Conns |-> Phase[client[c]]],
  budget   <- max - (IF mpc \in {"scan", "assign", "unlock"} THEN 1 ELSE 0),
  capacity <- alloc,
  running  <- mpc # "terminated"

\* Every step of the pool is a step of the service or changes nothing it shows:
\* in particular the array is allocated or freed only when no conversation runs.
ImplementsService == Service!Spec
=============================================================================
