-------------------------- MODULE ServerPoolProofs ---------------------------
(***************************************************************************)
(* Proofs about the daemon of ServerPool, for every pool size, port range, *)
(* number of connections and sequence of reloads.                          *)
(***************************************************************************)
EXTENDS ServerPool, FiniteSetTheorems, TLAPS

-----------------------------------------------------------------------------
(* Type correctness.                                                        *)

\* main indexes the array only inside it, and it counts max down only after
\* having found it positive.
IndexInRange == mpc \in {"assign", "unlock", "stopunlock", "join"} => idx < MAX_THREADS_NUM
BudgetLeft ==
  /\ mpc \in { "top", "malloc", "create", "portcheck", "lastport", "bind", "temp", "check",
               "accept", "accepting", "scan", "assign", "unlock" } => max > 0
  /\ mpc \in {"scan", "assign", "unlock"} => conn_fd \in Conns
  /\ mpc = "wait" /\ max = 0 => conn_fd \in Conns
  /\ mpc \in {"stop", "stopunlock", "join", "free", "restart"} /\ conn_fd = NoFd => max > 0
SocketBound ==
  /\ mpc = "accepting" => listen_fd \in open
  /\ mpc \notin {"bind", "failed"} /\ last_port_number # NoPort => listen_fd \in Ports
  /\ mpc \in { "bind", "temp", "wait", "check", "accept", "accepting", "scan", "assign", "unlock",
               "stop", "stopunlock", "join", "free" } => last_port_number # NoPort

TypeInv == TypeOK /\ IndexInRange /\ BudgetLeft /\ SocketBound

\* The daemon starts with every variable in its range.
LEMMA TypeInvInit == Init => TypeInv
<1>1. <<>> \in Seq(Conns)
      OBVIOUS
<1>2. [p \in Ports |-> <<>>] \in [Ports -> Seq(Conns)]
      BY <1>1
<1>3. StartPort \in Ports /\ StartThreads \in 1 .. MAX_THREADS_NUM /\ MAX_ACCEPT \in Nat \ {0}
      /\ MAX_THREADS_NUM \in Nat \ {0} /\ MaxSighups \in Nat
      BY PoolAssumption DEF PoolAssumption
<1> SUFFICES ASSUME Init PROVE TypeInv
    OBVIOUS
<1>4. /\ mpc \in MainPC /\ conn_fd \in Conns \cup {NoFd}
      /\ last_port_number \in Ports \cup {NoPort} /\ force_restart \in BOOLEAN
      BY DEF Init, MainPC
<1>8. /\ idx \in 0 .. MAX_THREADS_NUM /\ max \in 0 .. MAX_ACCEPT
      /\ alloc \in 0 .. MAX_THREADS_NUM /\ threads_number_temp \in 0 .. MAX_THREADS_NUM
      /\ sighups \in 0 .. MaxSighups /\ sem \in Nat
      BY <1>3 DEF Init
<1>5. /\ threads_number \in 1 .. MAX_THREADS_NUM /\ port_number \in Ports
      /\ state \in [Slots -> {0, 1}] /\ fd \in [Slots -> Conns \cup {NoFd, Garbage}]
      /\ mutex \in [Slots -> BOOLEAN] /\ wpc \in [Slots -> WorkerPC]
      /\ open \subseteq Ports /\ listen_fd \in Ports \cup {NoPort}
      /\ client \in [Conns -> ClientState]
      BY <1>3 DEF Init, WorkerPC, ClientState
<1>6. backlog \in [Ports -> Seq(Conns)]
      BY <1>2 DEF Init
<1>7. IndexInRange /\ BudgetLeft /\ SocketBound
      BY <1>3 DEF Init, IndexInRange, BudgetLeft, SocketBound
<1> QED BY <1>4, <1>5, <1>6, <1>7, <1>8 DEF TypeInv, TypeOK

USE DEF MainPC, WorkerPC, ClientState, Slots, Ports, NoPort, vars, mainVars, mainRest,
        confVars, slotVars, netVars

\* No step of main() leaves the ranges: in particular no loop index passes the array,
\* and max is decremented only where it is positive.
LEMMA TypeInvMain == TypeInv /\ Main => TypeInv'
<1> USE PoolAssumption DEF PoolAssumption, TypeInv, TypeOK, IndexInRange, BudgetLeft, SocketBound
<1> SUFFICES ASSUME TypeInv, Main PROVE TypeInv'
    OBVIOUS
<1>1. CASE SemInit BY <1>1 DEF SemInit
<1>2. CASE AllocThreads BY <1>2, SMTT(30) DEF AllocThreads
<1>3. CASE CreateThread BY <1>3 DEF CreateThread
<1>4. CASE CreateDone BY <1>4 DEF CreateDone
<1>5. CASE PortCheck BY <1>5 DEF PortCheck
<1>6. CASE LastPort BY <1>6 DEF LastPort
<1>7. CASE BindListen
  <2>1. open' \subseteq Ports /\ listen_fd' \in Ports \cup {NoPort} /\ (mpc' = "temp" => listen_fd' \in Ports)
        BY <1>7 DEF BindListen
  <2>2. mpc = "bind" /\ mpc' \in {"temp", "failed"} /\ UNCHANGED <<mainVars, confVars, sem, slotVars, backlog, client>>
        BY <1>7 DEF BindListen
  <2>3. mpc' = "temp" => last_port_number # NoPort
        BY <2>2
  <2> HIDE DEF Ports, Slots
  <2> QED BY <2>1, <2>2, <2>3
<1>8. CASE SaveThreadsNumber BY <1>8 DEF SaveThreadsNumber
<1>9. CASE SemWait BY <1>9 DEF SemWait
<1>10. CASE AllAccepted BY <1>10 DEF AllAccepted
<1>11. CASE CheckRestart BY <1>11 DEF CheckRestart
<1>12. CASE EnterAccept BY <1>12 DEF EnterAccept
<1>13. CASE Accepted BY <1>13 DEF Accepted
<1>14. CASE ScanBusy BY <1>14 DEF ScanBusy
<1>15. CASE ScanFree BY <1>15 DEF ScanFree
<1>16. CASE ScanExhausted BY <1>16 DEF ScanExhausted
<1>17. CASE AssignThread BY <1>17 DEF AssignThread
<1>18. CASE UnlockThread BY <1>18 DEF UnlockThread
<1>19. CASE StopThread BY <1>19 DEF StopThread
<1>20. CASE StopUnlock BY <1>20 DEF StopUnlock
<1>21. CASE JoinThread BY <1>21 DEF JoinThread
<1>22. CASE StopDone BY <1>22 DEF StopDone
<1>23. CASE FreeThreads
  <2>1. client' \in [Conns -> ClientState] BY <1>23 DEF FreeThreads
  <2>2. backlog' \in [Ports -> Seq(Conns)]
    <3>1. <<>> \in Seq(Conns)
          OBVIOUS
    <3> QED BY <1>23, <3>1 DEF FreeThreads
  <2>3. /\ state' \in [Slots -> {0, 1}] /\ fd' \in [Slots -> Conns \cup {NoFd, Garbage}]
        /\ mutex' \in [Slots -> BOOLEAN] /\ wpc' \in [Slots -> WorkerPC]
        BY <1>23 DEF FreeThreads
  <2>4. open' \subseteq Ports /\ alloc' \in 0 .. MAX_THREADS_NUM
    <3>1. open' = open \ {listen_fd} \/ open' = open
          BY <1>23 DEF FreeThreads
    <3>2. alloc' = 0
          BY <1>23 DEF FreeThreads
    <3>3. open' \subseteq Ports
          BY <3>1
    <3>4. alloc' \in 0 .. MAX_THREADS_NUM
          BY <3>2
    <3> QED BY <3>3, <3>4
  <2>5. mpc' = "restart" /\ UNCHANGED <<idx, conn_fd, max, last_port_number, threads_number_temp, confVars, sem, listen_fd>>
        BY <1>23 DEF FreeThreads
  <2>6. mpc = "free"
        BY <1>23 DEF FreeThreads
  <2> HIDE DEF Ports, Slots
  <2> QED BY <2>1, <2>2, <2>3, <2>4, <2>5, <2>6
<1>24. CASE ExitOrRestart BY <1>24 DEF ExitOrRestart
<1>25. CASE UndefinedAccess BY <1>25 DEF UndefinedAccess
<1> QED BY <1>1, <1>2, <1>3, <1>4, <1>5, <1>6, <1>7, <1>8, <1>9, <1>10, <1>11, <1>12, <1>13,
           <1>14, <1>15, <1>16, <1>17, <1>18, <1>19, <1>20, <1>21, <1>22, <1>23, <1>24, <1>25
           DEF Main

\* Nor does a step of a worker, of a client or of handlerSighup().
LEMMA TypeInvStep == TypeInv /\ [Next]_vars => TypeInv'
<1> USE PoolAssumption DEF PoolAssumption, TypeInv, TypeOK, IndexInRange, BudgetLeft, SocketBound
<1> SUFFICES ASSUME TypeInv, [Next]_vars PROVE TypeInv'
    OBVIOUS
<1>1. CASE Main BY <1>1, TypeInvMain
<1>2. ASSUME NEW i \in Slots, Worker(i) PROVE TypeInv'
  <2>1. CASE Lock(i)
    <3>1. mutex' \in [Slots -> BOOLEAN] BY <1>2, <2>1 DEF Lock
    <3>2. wpc' \in [Slots -> WorkerPC] BY <1>2, <2>1 DEF Lock
    <3> QED BY <1>2, <2>1, <3>1, <3>2 DEF Worker, Lock
  <2>2. CASE CheckFd(i) BY <1>2, <2>2 DEF Worker, CheckFd
  <2>3. CASE Finish(i)
    <3>1. client' \in [Conns -> ClientState] BY <1>2, <2>3 DEF Finish
    <3>2. wpc' \in [Slots -> WorkerPC] BY <1>2, <2>3 DEF Finish
    <3> QED BY <1>2, <2>3, <3>1, <3>2 DEF Worker, Finish
  <2>4. CASE ClearFd(i) BY <1>2, <2>4 DEF Worker, ClearFd
  <2>5. CASE ClearState(i) BY <1>2, <2>5 DEF Worker, ClearState
  <2>6. CASE SemPost(i) BY <1>2, <2>6 DEF Worker, SemPost
  <2> QED BY <1>2, <2>1, <2>2, <2>3, <2>4, <2>5, <2>6 DEF Worker
<1>3. ASSUME NEW c \in Conns, Connect(c) PROVE TypeInv'
      BY <1>3 DEF Connect
<1>4. CASE Sighup
  <2>1. /\ threads_number' \in 1 .. MAX_THREADS_NUM /\ port_number' \in Ports
        /\ force_restart' = TRUE /\ sighups' \in 0 .. MaxSighups
        BY <1>4 DEF Sighup, ReloadedThreads, ReloadedPort
  <2>2. UNCHANGED <<max, alloc, last_port_number, threads_number_temp, sem, slotVars, netVars>> /\ Interrupt
        BY <1>4 DEF Sighup
  <2> QED BY <2>1, <2>2 DEF Interrupt
<1>5. CASE UNCHANGED vars BY <1>5
<1> QED BY <1>1, <1>2, <1>3, <1>4, <1>5 DEF Next

\* Every variable keeps its type and main stays within the array and the budget.
THEOREM TypeCorrect == Spec => []TypeOK
<1>1. TypeInv => TypeOK
      BY DEF TypeInv
<1> QED BY TypeInvInit, TypeInvStep, <1>1, PTL DEF Spec

-----------------------------------------------------------------------------
(* The pool.  The inductive invariant, in parts named for what they relate. *)

PoolPC == { "portcheck", "lastport", "bind", "temp", "wait", "check", "accept", "accepting",
            "scan", "assign", "unlock", "stop", "stopunlock", "join", "free" }
StopPC == {"stop", "stopunlock", "join", "free"}

\* Outside the life of the array no slot has a thread; the loop of pthread_create makes
\* them one by one.
PoolBuilt ==
  /\ mpc \in {"top", "malloc", "restart", "terminated"} => \A i \in Slots : wpc[i] = "none"
  /\ mpc = "create" => /\ \A i \in Slots : wpc[i] = IF i < idx THEN "lock" ELSE "none"
                       /\ \A i \in Slots : state[i] = 0

\* What a slot holds at each point of its worker.
SlotInv ==
  \A i \in Slots :
    /\ state[i] = 0 => fd[i] \notin Conns /\ wpc[i] \in {"none", "lock", "checkfd", "post", "exit"}
    /\ state[i] = 1 => wpc[i] \notin {"none", "exit"}
    /\ state[i] = 1 /\ wpc[i] \in {"lock", "checkfd", "serve", "post"} =>
         fd[i] \in Conns /\ client[fd[i]] = "accepted"
    /\ wpc[i] = "clearfd" => fd[i] \in Conns /\ client[fd[i]] = "closed"
    /\ wpc[i] = "clearstate" => fd[i] = NoFd
    /\ wpc[i] = "none" => fd[i] = Garbage
    /\ state[i] = 0 /\ wpc[i] \in {"checkfd", "post", "exit"} => fd[i] = NoFd
    /\ state[i] = 0 /\ wpc[i] = "lock" /\ ~mutex[i] => fd[i] = NoFd

\* While main is not stopping the pool no worker leaves its loop: an idle one
\* is blocked on its mutex, a busy one owns it.
NobodyExits ==
  mpc \notin StopPC \cup {"undefined"} =>
    \A i \in Slots :
      /\ wpc[i] # "exit"
      /\ state[i] = 0 => wpc[i] # "checkfd" /\ (wpc[i] # "none" => mutex[i])
      /\ wpc[i] \in {"checkfd", "serve", "clearfd", "clearstate"} => mutex[i]

\* The slot main has chosen.
ChosenSlot ==
  /\ mpc = "assign" => state[idx] = 0 /\ wpc[idx] # "none"
  /\ mpc = "unlock" => state[idx] = 1 /\ wpc[idx] \in {"lock", "post"} /\ mutex[idx]

\* The connection in main's hand is open and in no slot.
InHand == mpc \in {"scan", "assign"} => client[conn_fd] = "accepted" /\ \A i \in Slots : fd[i] # conn_fd

\* Every open connection has a holder, no two slots hold the same one.
Holders ==
  /\ \A c \in Conns : client[c] = "accepted" =>
       \/ mpc \in {"scan", "assign", "undefined"} /\ conn_fd = c
       \/ \E i \in Slots : fd[i] = c /\ wpc[i] \in {"post", "lock", "checkfd", "serve"}
  /\ \A i, j \in Slots : fd[i] = fd[j] /\ fd[i] \in Conns => i = j

\* A connection waits in one backlog, once, and is nobody's yet.
BacklogInv ==
  /\ \A p \in Ports : \A k \in DOMAIN backlog[p] : client[backlog[p][k]] = "queued"
  /\ \A p, q \in Ports : \A j \in DOMAIN backlog[p], k \in DOMAIN backlog[q] :
       backlog[p][j] = backlog[q][k] => p = q /\ j = k

\* The stop loop has joined the slots it passed, and main keeps the last connection
\* only if it was the last of all.
StopInv ==
  /\ mpc \in {"stop", "stopunlock", "join"} => \A i \in Slots : i < idx => wpc[i] = "exit"
  /\ mpc = "stopunlock" /\ state[idx] = 0 => fd[idx] = NoFd
  /\ mpc \in {"stop", "stopunlock", "join", "free", "restart"} /\ conn_fd # NoFd => max = 0
  /\ mpc = "terminated" => max = 0

\* What holds whenever a reload comes.
CoreInv ==
  /\ PoolBuilt /\ SlotInv /\ NobodyExits /\ ChosenSlot
  /\ InHand /\ Holders /\ BacklogInv /\ StopInv

\* Before the first pool exists there is nothing to count.
LEMMA CoreInvInit == Init => CoreInv
<1> SUFFICES ASSUME Init PROVE CoreInv
    OBVIOUS
<1>1. PoolBuilt /\ ChosenSlot /\ InHand /\ StopInv /\ BacklogInv
      BY DEF Init, PoolBuilt, ChosenSlot, InHand, StopInv, BacklogInv
<1>2. SlotInv /\ NobodyExits /\ Holders
      BY PoolAssumption DEF PoolAssumption, Init, SlotInv, NobodyExits, StopPC, Holders
<1> QED BY <1>1, <1>2 DEF CoreInv

\* The connection in a slot was accepted and is not back in a backlog.
LEMMA ConnInSlot ==
  ASSUME TypeInv, CoreInv, NEW i \in Slots, fd[i] \in Conns
  PROVE  client[fd[i]] \in {"accepted", "closed"}
<1>1. SlotInv /\ state[i] \in {0, 1} /\ wpc[i] \in WorkerPC /\ NoFd \notin Conns
      BY PoolAssumption DEF PoolAssumption, TypeInv, TypeOK, CoreInv
<1>2. state[i] = 1 /\ wpc[i] \in {"lock", "checkfd", "serve", "post", "clearfd"}
      BY <1>1 DEF SlotInv
<1> QED BY <1>1, <1>2 DEF SlotInv

\* Taking the first connection of one backlog leaves the others where they are.
LEMMA AcceptedKeepsBacklog == ASSUME TypeInv, CoreInv, Accepted PROVE BacklogInv'
<1> DEFINE p == listen_fd
           c == Head(backlog[p])
<1>1. /\ p \in Ports /\ backlog[p] # <<>>
      /\ backlog' = [backlog EXCEPT ![p] = Tail(@)] /\ client' = [client EXCEPT ![c] = "accepted"]
      /\ backlog \in [Ports -> Seq(Conns)] /\ client \in [Conns -> ClientState]
      BY DEF Accepted, TypeInv, TypeOK, SocketBound
<1>2. BacklogInv
      BY DEF CoreInv
<1> HIDE DEF Ports, ClientState
<1>3. backlog[p] \in Seq(Conns) /\ c = backlog[p][1] /\ 1 \in DOMAIN backlog[p]
      BY <1>1
<1>4. \A k \in DOMAIN Tail(backlog[p]) :
        k + 1 \in DOMAIN backlog[p] /\ Tail(backlog[p])[k] = backlog[p][k + 1] /\ k + 1 # 1 /\ k \in Nat
      BY <1>1, <1>3
<1>5. backlog'[p] = Tail(backlog[p]) /\ \A q \in Ports : q # p => backlog'[q] = backlog[q]
      BY <1>1
<1>6. ASSUME NEW q \in Ports, NEW k \in DOMAIN backlog'[q]
      PROVE  \E j \in DOMAIN backlog[q] :
               backlog'[q][k] = backlog[q][j] /\ (q = p => j = k + 1 /\ j # 1) /\ (q # p => j = k)
  <2>1. CASE q = p BY <2>1, <1>4, <1>5
  <2>2. CASE q # p BY <2>2, <1>5
  <2> QED BY <2>1, <2>2
<1>7. ASSUME NEW q \in Ports, NEW k \in DOMAIN backlog'[q] PROVE client'[backlog'[q][k]] = "queued"
  <2>1. PICK j \in DOMAIN backlog[q] : backlog'[q][k] = backlog[q][j] /\ (q = p => j # 1)
        BY <1>6
  <2>2. backlog[q][j] \in Conns
        BY <1>1
  <2>3. backlog[q][j] # c /\ client[backlog[q][j]] = "queued"
        BY <1>1, <1>2, <1>3, <2>1 DEF BacklogInv
  <2> QED BY <1>1, <2>1, <2>2, <2>3
<1>8. ASSUME NEW q \in Ports, NEW r \in Ports, NEW j \in DOMAIN backlog'[q], NEW k \in DOMAIN backlog'[r],
             backlog'[q][j] = backlog'[r][k]
      PROVE  q = r /\ j = k
  <2>1. PICK m \in DOMAIN backlog[q] :
          backlog'[q][j] = backlog[q][m] /\ (q = p => m = j + 1) /\ (q # p => m = j)
        BY <1>6
  <2>2. PICK n \in DOMAIN backlog[r] :
          backlog'[r][k] = backlog[r][n] /\ (r = p => n = k + 1) /\ (r # p => n = k)
        BY <1>6
  <2>3. q = r /\ m = n
    <3>1. backlog[q][m] = backlog[r][n]
          BY <1>8, <2>1, <2>2
    <3> QED BY <1>2, <3>1 DEF BacklogInv
  <2>4. q = p => j \in Nat /\ k \in Nat
        BY <1>4, <1>5, <2>3
  <2> QED BY <2>1, <2>2, <2>3, <2>4
<1> QED BY <1>7, <1>8 DEF BacklogInv

\* A new connection joins one backlog, at its end.
LEMMA ConnectKeepsBacklog ==
  ASSUME TypeInv, CoreInv, NEW c \in Conns, Connect(c) PROVE BacklogInv'
<1>1. /\ BacklogInv /\ backlog \in [Ports -> Seq(Conns)] /\ client \in [Conns -> ClientState]
      /\ client[c] = "new" /\ client' = [client EXCEPT ![c] = "queued"] /\ open \subseteq Ports
      BY DEF Connect, TypeInv, TypeOK, CoreInv
<1>2. PICK p \in Ports : backlog' = [backlog EXCEPT ![p] = Append(@, c)]
      BY <1>1 DEF Connect
<1> HIDE DEF Ports, ClientState
<1>3. backlog'[p] = Append(backlog[p], c) /\ \A q \in Ports : q # p => backlog'[q] = backlog[q]
      BY <1>1, <1>2
<1>4. \A k \in DOMAIN Append(backlog[p], c) :
        \/ k \in DOMAIN backlog[p] /\ Append(backlog[p], c)[k] = backlog[p][k]
        \/ k = Len(backlog[p]) + 1 /\ Append(backlog[p], c)[k] = c
      BY <1>1
<1>5. ASSUME NEW q \in Ports, NEW k \in DOMAIN backlog'[q]
      PROVE  \/ k \in DOMAIN backlog[q] /\ backlog'[q][k] = backlog[q][k] /\ backlog[q][k] # c
                /\ backlog[q][k] \in Conns
             \/ q = p /\ k = Len(backlog[p]) + 1 /\ backlog'[q][k] = c
  <2>1. \A j \in DOMAIN backlog[q] : backlog[q][j] \in Conns /\ backlog[q][j] # c
        BY <1>1 DEF BacklogInv
  <2>2. CASE q = p BY <1>3, <1>4, <2>1, <2>2
  <2>3. CASE q # p BY <1>3, <2>1, <2>3
  <2> QED BY <2>2, <2>3
<1>6. ASSUME NEW q \in Ports, NEW k \in DOMAIN backlog'[q] PROVE client'[backlog'[q][k]] = "queued"
      BY <1>1, <1>5 DEF BacklogInv
<1>7. ASSUME NEW q \in Ports, NEW r \in Ports, NEW j \in DOMAIN backlog'[q], NEW k \in DOMAIN backlog'[r],
             backlog'[q][j] = backlog'[r][k]
      PROVE  q = r /\ j = k
  <2>1. CASE /\ j \in DOMAIN backlog[q] /\ backlog'[q][j] = backlog[q][j] /\ backlog[q][j] # c
             /\ backlog[q][j] \in Conns
    <3>1. k \in DOMAIN backlog[r] /\ backlog'[r][k] = backlog[r][k]
          BY <1>5, <1>7, <2>1
    <3>2. backlog[q][j] = backlog[r][k]
          BY <1>7, <2>1, <3>1
    <3> QED BY <1>1, <2>1, <3>1, <3>2 DEF BacklogInv
  <2>2. CASE q = p /\ j = Len(backlog[p]) + 1 /\ backlog'[q][j] = c
        BY <1>5, <1>7, <2>2
  <2> QED BY <1>5, <2>1, <2>2
<1> QED BY <1>6, <1>7 DEF BacklogInv

\* Closing the listening socket empties its backlog and resets who waited there.
LEMMA FreeKeepsBacklog == ASSUME TypeInv, CoreInv, FreeThreads PROVE BacklogInv'
<1>1. BacklogInv /\ listen_fd \in Ports /\ backlog \in [Ports -> Seq(Conns)]
      BY DEF FreeThreads, TypeInv, TypeOK, SocketBound, CoreInv
<1> HIDE DEF Ports
<1>2. CASE UNCHANGED <<open, backlog, client>>
      BY <1>1, <1>2 DEF BacklogInv
<1>3. CASE /\ backlog' = [backlog EXCEPT ![listen_fd] = <<>>]
           /\ client' = [c \in Conns |-> IF \E k \in DOMAIN backlog[listen_fd] : backlog[listen_fd][k] = c
                                         THEN "reset" ELSE client[c]]
  <2>1. ASSUME NEW p \in Ports, NEW k \in DOMAIN backlog'[p] PROVE p # listen_fd /\ backlog'[p] = backlog[p]
        BY <1>1, <1>3
  <2>2. ASSUME NEW p \in Ports, NEW k \in DOMAIN backlog'[p] PROVE client'[backlog'[p][k]] = "queued"
    <3>1. p # listen_fd /\ backlog'[p] = backlog[p] /\ k \in DOMAIN backlog[p]
          BY <2>1
    <3>2. backlog[p][k] \in Conns /\ client[backlog[p][k]] = "queued"
          BY <1>1, <3>1 DEF BacklogInv
    <3>3. ~ \E j \in DOMAIN backlog[listen_fd] : backlog[listen_fd][j] = backlog[p][k]
          BY <1>1, <3>1 DEF BacklogInv
    <3> QED BY <1>3, <3>1, <3>2, <3>3
  <2> QED BY <1>1, <2>1, <2>2 DEF BacklogInv
<1> QED BY <1>2, <1>3 DEF FreeThreads

\* The relations between main's position, the slots and their threads survive every step
\* of main(), whatever a reload did to the pool size.
LEMMA CoreInvMain == ASSUME TypeInv, CoreInv, Main PROVE CoreInv'
<1> USE PoolAssumption DEF PoolAssumption, TypeInv, TypeOK, IndexInRange, BudgetLeft, SocketBound,
        CoreInv, PoolBuilt, SlotInv, NobodyExits, ChosenSlot, InHand, Holders,
        BacklogInv, StopInv, StopPC
<1>1. CASE SemInit BY <1>1 DEF SemInit
<1>2. CASE AllocThreads BY <1>2 DEF AllocThreads
<1>3. CASE CreateThread BY <1>3 DEF CreateThread
<1>4. CASE CreateDone BY <1>4 DEF CreateDone
<1>5. CASE PortCheck BY <1>5 DEF PortCheck
<1>6. CASE LastPort BY <1>6 DEF LastPort
<1>7. CASE BindListen
  <2>1. mpc = "bind" /\ mpc' \in {"temp", "failed"}
        BY <1>7 DEF BindListen
  <2>2. UNCHANGED <<mainVars, confVars, sem, slotVars, backlog, client>>
        BY <1>7 DEF BindListen
  <2> QED BY <2>1, <2>2
<1>8. CASE SaveThreadsNumber BY <1>8 DEF SaveThreadsNumber
<1>9. CASE SemWait BY <1>9 DEF SemWait
<1>10. CASE AllAccepted BY <1>10 DEF AllAccepted
<1>11. CASE CheckRestart BY <1>11 DEF CheckRestart
<1>12. CASE EnterAccept BY <1>12 DEF EnterAccept
<1>13. CASE Accepted
  <2> DEFINE p == listen_fd
             c == Head(backlog[p])
  <2>1. /\ p \in Ports /\ backlog[p] \in Seq(Conns) /\ backlog[p] # <<>>
        /\ c = backlog[p][1] /\ 1 \in DOMAIN backlog[p]
        BY <1>13 DEF Accepted
  <2>2. c \in Conns /\ client[c] = "queued"
        BY <2>1
  <2>3. /\ client' = [client EXCEPT ![c] = "accepted"] /\ conn_fd' = c /\ mpc = "accepting" /\ mpc' = "scan"
        /\ idx' = 0 /\ backlog' = [backlog EXCEPT ![p] = Tail(@)]
        /\ UNCHANGED <<max, alloc, last_port_number, threads_number_temp, confVars, sem, slotVars>>
        BY <1>13 DEF Accepted
  <2>4. ASSUME NEW i \in Slots, fd[i] = c PROVE FALSE
    <3>1. client[fd[i]] \in {"accepted", "closed"}
      <4> HIDE DEF TypeInv, CoreInv
      <4> QED BY <2>2, <2>4, ConnInSlot
    <3> QED BY <2>2, <2>4, <3>1
  <2>5. ChosenSlot'
        BY <2>3
  <2>6. BacklogInv'
        BY <1>13, AcceptedKeepsBacklog
  <2>7. SlotInv'
    <3> SUFFICES ASSUME NEW j \in Slots PROVE (SlotInv!(j))'
        OBVIOUS
    <3>1. fd[j] \in Conns => fd[j] # c /\ client'[fd[j]] = client[fd[j]]
          BY <2>3, <2>4, SMTT(30)
    <3> QED BY <2>3, <3>1
  <2>9. InHand'
    <3>1. client'[c] = "accepted" /\ conn_fd' = c /\ fd' = fd
          BY <2>2, <2>3
    <3>2. \A i \in Slots : fd[i] # c
          BY <2>4
    <3> QED BY <3>1, <3>2
  <2>10. Holders'
    <3>1. ASSUME NEW d \in Conns, client'[d] = "accepted", d # c
          PROVE  \E i \in Slots : fd'[i] = d /\ wpc'[i] \in {"post", "lock", "checkfd", "serve"}
      <4>1. client[d] = "accepted" /\ mpc \notin {"scan", "assign", "undefined"}
            BY <2>2, <2>3, <3>1
      <4> QED BY <2>3, <4>1
    <3> QED BY <2>3, <3>1
  <2>8. PoolBuilt' /\ NobodyExits' /\ StopInv'
        BY <2>3
  <2> QED BY <2>5, <2>6, <2>7, <2>8, <2>9, <2>10
<1>14. CASE ScanBusy BY <1>14 DEF ScanBusy
<1>15. CASE ScanFree BY <1>15 DEF ScanFree
<1>16. CASE ScanExhausted BY <1>16 DEF ScanExhausted
<1>17. CASE AssignThread BY <1>17 DEF AssignThread
<1>18. CASE UnlockThread BY <1>18 DEF UnlockThread
<1>19. CASE StopThread BY <1>19 DEF StopThread
<1>20. CASE StopUnlock BY <1>20 DEF StopUnlock
<1>21. CASE JoinThread BY <1>21 DEF JoinThread
<1>22. CASE StopDone BY <1>22 DEF StopDone
<1>23. CASE FreeThreads
  <2>1. /\ mpc = "free" /\ mpc' = "restart" /\ UNCHANGED <<conn_fd, max>>
        /\ \A i \in Slots : wpc[i] \in {"none", "exit"}
        /\ state' = [i \in Slots |-> 0] /\ fd' = [i \in Slots |-> Garbage]
        /\ mutex' = [i \in Slots |-> FALSE] /\ wpc' = [i \in Slots |-> "none"]
        BY <1>23 DEF FreeThreads
  <2>2. \A c \in Conns : client'[c] \in {client[c], "reset"}
        BY <1>23 DEF FreeThreads
  <2>3. \A c \in Conns : client[c] # "accepted"
        BY <2>1
  <2>4. BacklogInv'
        BY <1>23, FreeKeepsBacklog
  <2>5. SlotInv' /\ Holders' /\ InHand'
        BY <2>1, <2>2, <2>3
  <2>6. PoolBuilt' /\ NobodyExits' /\ ChosenSlot' /\ StopInv'
        BY <2>1
  <2> QED BY <2>4, <2>5, <2>6
<1>24. CASE ExitOrRestart BY <1>24 DEF ExitOrRestart
<1>25. CASE UndefinedAccess BY <1>25 DEF UndefinedAccess
<1> QED BY <1>1, <1>2, <1>3, <1>4, <1>5, <1>6, <1>7, <1>8, <1>9, <1>10, <1>11, <1>12, <1>13, <1>14, <1>15, <1>16, <1>17, <1>18, <1>19, <1>20, <1>21, <1>22, <1>23, <1>24, <1>25 DEF Main

\* They survive every step of protocol() in any slot.
LEMMA CoreInvWorker ==
  ASSUME TypeInv, CoreInv, NEW i \in Slots, Worker(i) PROVE CoreInv'
<1> USE PoolAssumption DEF PoolAssumption, TypeInv, TypeOK, IndexInRange, BudgetLeft, SocketBound,
        CoreInv, PoolBuilt, SlotInv, NobodyExits, ChosenSlot, InHand, Holders,
        BacklogInv, StopInv, StopPC
<1>1. CASE Lock(i)
  <2>1. /\ wpc[i] = "lock" /\ ~mutex[i] /\ UNCHANGED <<state, fd, client, mpc, mainVars, confVars, sem, backlog>>
        /\ wpc'[i] = "checkfd" /\ mutex'[i] = TRUE
        /\ \A j \in Slots : j # i => wpc'[j] = wpc[j] /\ mutex'[j] = mutex[j]
        BY <1>1 DEF Worker, Lock
  <2>2. SlotInv'
    <3> SUFFICES ASSUME NEW j \in Slots PROVE (SlotInv!(j))'
        OBVIOUS
    <3>1. CASE j = i BY <2>1, <3>1
    <3>2. CASE j # i BY <2>1, <3>2
    <3> QED BY <3>1, <3>2
  <2>3. NobodyExits'
    <3> SUFFICES ASSUME mpc \notin StopPC \cup {"undefined"}, NEW j \in Slots PROVE (NobodyExits!2!(j))'
        BY <2>1
    <3>1. CASE j = i BY <2>1, <3>1
    <3>2. CASE j # i BY <2>1, <3>2
    <3> QED BY <3>1, <3>2
  <2>4. Holders'
    <3>1. ASSUME NEW c \in Conns, client[c] = "accepted", ~(mpc \in {"scan", "assign", "undefined"} /\ conn_fd = c)
          PROVE  \E j \in Slots : fd'[j] = c /\ wpc'[j] \in {"post", "lock", "checkfd", "serve"}
      <4>1. PICK j \in Slots : fd[j] = c /\ wpc[j] \in {"post", "lock", "checkfd", "serve"}
            BY <3>1
      <4>2. wpc'[j] \in {"post", "lock", "checkfd", "serve"}
            BY <2>1, <4>1
      <4> QED BY <2>1, <4>1, <4>2
    <3> QED BY <2>1, <3>1
  <2>5. PoolBuilt'
        BY <2>1
  <2>6. InHand'
        BY <2>1
  <2>8. ChosenSlot'
    <3>1. mpc = "unlock" => idx # i /\ idx \in Slots
          BY <2>1
    <3> QED BY <2>1, <3>1
  <2>7. StopInv' /\ BacklogInv'
        BY <2>1
  <2> QED BY <2>2, <2>3, <2>4, <2>5, <2>6, <2>7, <2>8
<1>2. CASE CheckFd(i)
  <2>1. SlotInv'
        BY <1>2 DEF Worker, CheckFd
  <2>2. NobodyExits'
        BY <1>2 DEF Worker, CheckFd
  <2>3. Holders'
        BY <1>2 DEF Worker, CheckFd
  <2>4. PoolBuilt' /\ ChosenSlot' /\ InHand'
        BY <1>2 DEF Worker, CheckFd
  <2>5. StopInv'
        BY <1>2 DEF Worker, CheckFd
  <2>6. BacklogInv'
        BY <1>2 DEF Worker, CheckFd
  <2> QED BY <2>1, <2>2, <2>3, <2>4, <2>5, <2>6
<1>3. CASE Finish(i)
  <2> DEFINE c == fd[i]
  <2>1. wpc[i] = "serve" /\ state[i] = 1 /\ c \in Conns /\ client[c] = "accepted"
    <3>1. wpc[i] = "serve" /\ state[i] \in {0, 1}
          BY <1>3 DEF Finish
    <3> QED BY <3>1
  <2>2. /\ UNCHANGED <<state, fd, mutex, mpc, mainVars, confVars, backlog, sem>>
        /\ client'[c] = "closed" /\ \A d \in Conns : d # c => client'[d] = client[d]
        /\ wpc'[i] = "clearfd" /\ \A j \in Slots : j # i => wpc'[j] = wpc[j]
        BY <1>3, <2>1 DEF Worker, Finish
  <2>3. \A j \in Slots : j # i => fd[j] # c
        BY <2>1
  <2>4. SlotInv'
    <3> SUFFICES ASSUME NEW j \in Slots PROVE (SlotInv!(j))'
        OBVIOUS
    <3>1. CASE j = i BY <2>1, <2>2, <3>1
    <3>2. CASE j # i BY <2>2, <2>3, <3>2
    <3> QED BY <3>1, <3>2
  <2>5. Holders'
    <3>1. ASSUME NEW d \in Conns, client'[d] = "accepted", ~(mpc \in {"scan", "assign", "undefined"} /\ conn_fd = d)
          PROVE  \E j \in Slots : fd'[j] = d /\ wpc'[j] \in {"post", "lock", "checkfd", "serve"}
      <4>1. d # c /\ client[d] = "accepted"
            BY <2>2, <3>1
      <4>2. PICK j \in Slots : fd[j] = d /\ wpc[j] \in {"post", "lock", "checkfd", "serve"}
            BY <3>1, <4>1
      <4> QED BY <2>2, <4>1, <4>2, ZenonT(60)
    <3> QED BY <2>2, <3>1
  <2>6. InHand'
        BY <2>1, <2>2
  <2>7. BacklogInv'
    <3>1. \A p \in Ports : \A k \in DOMAIN backlog[p] : backlog[p][k] # c /\ backlog[p][k] \in Conns
          BY <2>1
    <3> QED BY <2>2, <3>1
  <2>8. NobodyExits'
        BY <2>1, <2>2
  <2>9. PoolBuilt'
        BY <2>1, <2>2
  <2>10. ChosenSlot' /\ StopInv'
        BY <2>1, <2>2
  <2> QED BY <2>4, <2>5, <2>6, <2>7, <2>8, <2>9, <2>10
<1>4. CASE ClearFd(i)
  <2>1. /\ wpc[i] = "clearfd" /\ UNCHANGED <<state, client, mpc, mutex, mainVars, confVars, sem, backlog>>
        /\ wpc'[i] = "clearstate" /\ fd'[i] = NoFd
        /\ \A j \in Slots : j # i => wpc'[j] = wpc[j] /\ fd'[j] = fd[j]
        BY <1>4 DEF Worker, ClearFd
  <2>2. state[i] = 1 /\ fd[i] \in Conns /\ client[fd[i]] = "closed"
        BY <2>1
  <2>3. SlotInv'
    <3> SUFFICES ASSUME NEW j \in Slots PROVE (SlotInv!(j))'
        OBVIOUS
    <3>1. CASE j = i BY <2>1, <2>2, <3>1
    <3>2. CASE j # i BY <2>1, <3>2
    <3> QED BY <3>1, <3>2
  <2>4. Holders'
    <3>1. ASSUME NEW d \in Conns, client[d] = "accepted", ~(mpc \in {"scan", "assign", "undefined"} /\ conn_fd = d)
          PROVE  \E j \in Slots : fd'[j] = d /\ wpc'[j] \in {"post", "lock", "checkfd", "serve"}
      <4>1. PICK j \in Slots : fd[j] = d /\ wpc[j] \in {"post", "lock", "checkfd", "serve"}
            BY <3>1
      <4> QED BY <2>1, <4>1
    <3> HIDE DEF TypeInv, TypeOK, PoolBuilt, SlotInv, NobodyExits, ChosenSlot, InHand, BacklogInv, StopInv
    <3>2. NoFd \notin Conns /\ UNCHANGED <<mpc, conn_fd>>
          BY <2>1
    <3>3. \A j, k \in Slots : fd'[j] = fd'[k] /\ fd'[j] \in Conns => j = k
          BY <2>1, <3>2
    <3> QED BY <2>1, <3>1, <3>2, <3>3
  <2>5. InHand'
        BY <2>1
  <2>6. NobodyExits'
        BY <2>1, <2>2
  <2>9. ChosenSlot'
    <3>1. mpc = "unlock" => idx # i /\ idx \in Slots
          BY <2>1
    <3> QED BY <2>1, <3>1
  <2>7. PoolBuilt'
        BY <2>1
  <2>8. StopInv' /\ BacklogInv'
        BY <2>1, <2>2
  <2> QED BY <2>3, <2>4, <2>5, <2>6, <2>7, <2>8, <2>9
<1>5. CASE ClearState(i) BY <1>5 DEF Worker, ClearState
<1>6. CASE SemPost(i) BY <1>6 DEF Worker, SemPost
<1> QED BY <1>1, <1>2, <1>3, <1>4, <1>5, <1>6 DEF Worker

\* They survive a client's connect() and handlerSighup(), also where the signal cuts
\* accept() or sem_wait() short.
LEMMA CoreInvEnvironment ==
  ASSUME TypeInv, CoreInv, (\E c \in Conns : Connect(c)) \/ Sighup PROVE CoreInv'
<1> USE PoolAssumption DEF PoolAssumption, TypeInv, TypeOK, IndexInRange, BudgetLeft, SocketBound,
        CoreInv, PoolBuilt, SlotInv, NobodyExits, ChosenSlot, InHand, Holders,
        BacklogInv, StopInv, StopPC
<1>1. ASSUME NEW c \in Conns, Connect(c) PROVE CoreInv'
  <2>1. client[c] = "new" /\ client' = [client EXCEPT ![c] = "queued"]
        /\ UNCHANGED <<mpc, mainVars, confVars, sem, slotVars, open, listen_fd>>
        BY <1>1 DEF Connect
  <2>2. \A i \in Slots : fd[i] # c
    <3> SUFFICES ASSUME NEW i \in Slots, fd[i] = c PROVE FALSE
        OBVIOUS
    <3> HIDE DEF TypeInv, CoreInv
    <3> QED BY <2>1, ConnInSlot
  <2>3. BacklogInv'
    <3> HIDE DEF TypeInv, CoreInv
    <3> QED BY <1>1, ConnectKeepsBacklog
  <2>4. SlotInv' /\ InHand'
        BY <2>1, <2>2
  <2>5. Holders'
    <3>1. ASSUME NEW d \in Conns, client'[d] = "accepted"
          PROVE  \/ mpc' \in {"scan", "assign", "undefined"} /\ conn_fd' = d
                 \/ \E i \in Slots : fd'[i] = d /\ wpc'[i] \in {"post", "lock", "checkfd", "serve"}
      <4>1. client[d] = "accepted"
            BY <2>1, <3>1
      <4> QED BY <2>1, <4>1
    <3> HIDE DEF TypeInv, TypeOK, PoolBuilt, SlotInv, NobodyExits, ChosenSlot, InHand, BacklogInv, StopInv
    <3> QED BY <2>1, <3>1
  <2>6. PoolBuilt' /\ NobodyExits' /\ ChosenSlot' /\ StopInv'
        BY <2>1
  <2> QED BY <2>3, <2>4, <2>5, <2>6
<1>2. CASE Sighup
  <2>1. /\ mpc \notin Exited /\ force_restart' = TRUE /\ Interrupt
        /\ UNCHANGED <<max, alloc, last_port_number, threads_number_temp, sem, slotVars, netVars>>
        BY <1>2 DEF Sighup
  <2>4. CASE mpc = "accepting" /\ conn_fd' = NoFd /\ idx' = 0 /\ mpc' = "stop"
        BY <2>1, <2>4
  <2>5. CASE mpc = "wait" /\ mpc' = "check" /\ UNCHANGED <<conn_fd, idx>>
        BY <2>1, <2>5
  <2>6. CASE mpc # "accepting" /\ UNCHANGED <<mpc, conn_fd, idx>>
        BY <2>1, <2>6 DEF Exited
  <2> QED BY <2>1, <2>4, <2>5, <2>6 DEF Interrupt
<1> QED BY <1>1, <1>2

\* No step of anybody breaks them.
LEMMA CoreInvStep == TypeInv /\ CoreInv /\ [Next]_vars => CoreInv'
<1> SUFFICES ASSUME TypeInv, CoreInv, [Next]_vars PROVE CoreInv'
    OBVIOUS
<1>1. CASE UNCHANGED vars
      BY <1>1 DEF CoreInv, PoolBuilt, SlotInv, NobodyExits, ChosenSlot, InHand, Holders, BacklogInv, StopInv
<1>2. CASE Next
      BY <1>2, CoreInvMain, CoreInvWorker, CoreInvEnvironment DEF Next
<1> QED BY <1>1, <1>2

\* So these relations hold whenever reloads come and whatever they change.
THEOREM CoreInvariant == Spec => [](TypeInv /\ CoreInv)
<1>1. Init => TypeInv /\ CoreInv
      BY TypeInvInit, CoreInvInit
<1>2. TypeInv /\ CoreInv /\ [Next]_vars => (TypeInv /\ CoreInv)'
      BY TypeInvStep, CoreInvStep
<1> QED BY <1>1, <1>2, PTL DEF Spec

\* main and protocol(): no connection is ever lost while somebody serves it, or served by
\* two workers, whatever reloads do to the pool.
THEOREM AlwaysExclusive == Spec => []ExclusiveService
<1>1. TypeInv /\ CoreInv => ExclusiveService
  <2> SUFFICES ASSUME TypeInv, CoreInv PROVE ExclusiveService
      OBVIOUS
  <2>1. Holders /\ SlotInv /\ state \in [Slots -> {0, 1}]
        BY DEF TypeInv, TypeOK, CoreInv
  <2>2. ASSUME NEW i \in Slots, wpc[i] = "serve"
        PROVE  fd[i] \in Conns /\ client[fd[i]] = "accepted" /\ state[i] = 1
        BY <2>1, <2>2 DEF SlotInv
  <2> QED BY <2>1, <2>2 DEF Holders, ExclusiveService
<1> QED BY <1>1, CoreInvariant, PTL

-----------------------------------------------------------------------------
(* The sizes: what holds if no reload changes the pool size in one of the    *)
(* windows ResizeUnsafe.                                                     *)

SafeWindows == ResizeAt \cap ResizeUnsafe = {}

\* Slots have a thread exactly below alloc, once the pool is built.
SlotsHaveThreads ==
  /\ mpc = "create" => idx <= alloc
  /\ mpc \in PoolPC => \A i \in Slots : wpc[i] # "none" <=> i < alloc

\* Where main uses threads_number again it is still the length of the array.
SizesAgree ==
  /\ mpc = "malloc" => sem = threads_number
  /\ mpc = "create" => sem = alloc
  /\ mpc \in {"create", "portcheck", "lastport", "bind", "temp", "accept", "accepting", "scan"}
       => threads_number = alloc
  /\ mpc \in {"wait", "check", "assign", "unlock"} => threads_number = alloc \/ force_restart
  /\ mpc \in {"wait", "check", "accept", "accepting", "scan", "assign", "unlock", "stop", "stopunlock", "join"}
       => threads_number_temp = alloc

\* The search for a slot has one in front of it; the loop of pthread_join passes them all.
SlotAhead == mpc = "scan" => \E j \in Slots : j >= idx /\ j < alloc /\ state[j] = 0
AllJoined == mpc = "free" => \A i \in Slots : wpc[i] \in {"none", "exit"}

SizedInv == SlotsHaveThreads /\ SizesAgree /\ SlotAhead /\ AllJoined /\ NoConnectionDropped /\ NoUndefinedAccess

PoolInv == CoreInv /\ SizedInv /\ PermitsCountFreeSlots

\* Before the first pool exists there is nothing to count.
LEMMA PoolInvInit == Init => PoolInv
<1> SUFFICES ASSUME Init PROVE PoolInv
    OBVIOUS
<1>1. SlotsHaveThreads /\ SizesAgree /\ SlotAhead /\ AllJoined
      BY DEF Init, SlotsHaveThreads, SizesAgree, SlotAhead, AllJoined, PoolPC
<1>2. NoConnectionDropped /\ NoUndefinedAccess /\ PermitsCountFreeSlots
      BY DEF Init, NoConnectionDropped, NoUndefinedAccess, PermitsCountFreeSlots, Serving
<1> QED BY <1>1, <1>2, CoreInvInit DEF PoolInv, SizedInv

\* A permit in main's hand is a free slot somewhere in the array.
LEMMA PermitMeansFreeSlot ==
  ASSUME TypeInv, SizedInv, PermitsCountFreeSlots, mpc = "accepting"
  PROVE  \E j \in Slots : j >= 0 /\ j < alloc /\ state[j] = 0
<1>1. sem + 1 + Cardinality(Posting) = Cardinality(FreeSlots)
      BY DEF PermitsCountFreeSlots, Serving, Held
<1>2. IsFiniteSet(Slots) /\ Posting \subseteq Slots
  <2>1. 0 \in Int /\ MAX_THREADS_NUM - 1 \in Int
        BY PoolAssumption DEF PoolAssumption
  <2> QED BY <2>1, FS_Interval DEF Posting
<1>3. Cardinality(Posting) \in Nat
      BY <1>2, FS_Subset, FS_CardinalityType
<1>4. FreeSlots # {}
  <2>1. sem \in Nat
        BY DEF TypeInv, TypeOK
  <2>2. Cardinality({}) = 0
        BY FS_EmptySet
  <2> QED BY <1>1, <1>3, <2>1, <2>2
<1> QED BY <1>4 DEF FreeSlots, SizedInv, SlotsHaveThreads, PoolPC, TypeInv, TypeOK

\* main() keeps to the size of its array, and finds the slot it has a permit for.
LEMMA SizedInvMain ==
  ASSUME TypeInv, CoreInv, SizedInv, PermitsCountFreeSlots, Main PROVE SizedInv'
<1> USE PoolAssumption DEF PoolAssumption, TypeInv, TypeOK, SizedInv, SlotsHaveThreads, SizesAgree, SlotAhead,
        AllJoined, NoConnectionDropped, NoUndefinedAccess, PoolPC
<1>1. CASE SemInit BY <1>1 DEF SemInit
<1>2. CASE AllocThreads BY <1>2 DEF AllocThreads
<1>3. CASE CreateThread BY <1>3 DEF CreateThread
<1>4. CASE CreateDone BY <1>4 DEF CreateDone, CoreInv, PoolBuilt
<1>5. CASE PortCheck \/ LastPort \/ SaveThreadsNumber
  <2>1. CASE PortCheck BY <2>1 DEF PortCheck
  <2>2. CASE LastPort BY <2>2 DEF LastPort
  <2>3. CASE SaveThreadsNumber BY <2>3 DEF SaveThreadsNumber
  <2> QED BY <1>5, <2>1, <2>2, <2>3
<1>6. CASE BindListen
  <2>1. /\ mpc = "bind" /\ mpc' \in {"temp", "failed"}
        /\ UNCHANGED <<mainVars, confVars, sem, slotVars, backlog, client>>
        BY <1>6 DEF BindListen
  <2> QED BY <2>1
<1>7. CASE SemWait \/ AllAccepted \/ CheckRestart \/ EnterAccept
  <2>1. CASE SemWait BY <2>1 DEF SemWait
  <2>2. CASE AllAccepted BY <2>2 DEF AllAccepted
  <2>3. CASE CheckRestart BY <2>3 DEF CheckRestart
  <2>4. CASE EnterAccept BY <2>4 DEF EnterAccept
  <2> QED BY <1>7, <2>1, <2>2, <2>3, <2>4
<1>8. CASE Accepted
  <2>1. /\ mpc = "accepting" /\ mpc' = "scan" /\ idx' = 0
        /\ client' = [client EXCEPT ![Head(backlog[listen_fd])] = "accepted"]
        /\ UNCHANGED <<alloc, threads_number_temp, confVars, sem, slotVars>>
        BY <1>8 DEF Accepted
  <2>2. SlotAhead'
        BY <2>1, PermitMeansFreeSlot
  <2>3. NoConnectionDropped'
        BY <2>1
  <2> QED BY <2>1, <2>2, <2>3
<1>9. CASE ScanBusy BY <1>9 DEF ScanBusy
<1>10. CASE ScanFree BY <1>10 DEF ScanFree
<1>11. CASE ScanExhausted BY <1>11 DEF ScanExhausted
<1>12. CASE AssignThread \/ UnlockThread
  <2>1. CASE AssignThread BY <2>1 DEF AssignThread
  <2>2. CASE UnlockThread BY <2>2 DEF UnlockThread
  <2> QED BY <1>12, <2>1, <2>2
<1>13. CASE StopThread \/ StopUnlock \/ JoinThread
  <2>1. CASE StopThread BY <2>1 DEF StopThread
  <2>2. CASE StopUnlock BY <2>2 DEF StopUnlock
  <2>3. CASE JoinThread BY <2>3 DEF JoinThread
  <2> QED BY <1>13, <2>1, <2>2, <2>3
<1>14. CASE StopDone
      BY <1>14 DEF StopDone, CoreInv, StopInv
<1>15. CASE FreeThreads
  <2>1. mpc' = "restart" /\ \A c \in Conns : client'[c] \in {client[c], "reset"}
        BY <1>15 DEF FreeThreads
  <2> QED BY <2>1
<1>16. CASE ExitOrRestart BY <1>16 DEF ExitOrRestart
<1>17. CASE UndefinedAccess BY <1>17 DEF UndefinedAccess
<1> QED BY <1>1, <1>2, <1>3, <1>4, <1>5, <1>6, <1>7, <1>8, <1>9, <1>10, <1>11, <1>12, <1>13, <1>14,
           <1>15, <1>16, <1>17 DEF Main

\* The other threads, the clients and the handler leave the sizes alone.
LEMMA SizedInvOthers ==
  ASSUME SafeWindows, TypeInv, CoreInv, SizedInv,
         (\E i \in Slots : Worker(i)) \/ (\E c \in Conns : Connect(c)) \/ Sighup
  PROVE  SizedInv'
<1> USE PoolAssumption DEF PoolAssumption, TypeInv, TypeOK, SizedInv, SlotsHaveThreads, SizesAgree, SlotAhead,
        AllJoined, NoConnectionDropped, NoUndefinedAccess, PoolPC
<1>1. ASSUME NEW i \in Slots, Worker(i) PROVE SizedInv'
  <2>1. /\ wpc[i] # "none" /\ (wpc[i] \in {"none", "exit"} <=> FALSE) /\ UNCHANGED <<mpc, mainVars, confVars>>
        /\ \E l \in WorkerPC \ {"none"} : wpc' = [wpc EXCEPT ![i] = l]
        BY <1>1 DEF Worker, Lock, CheckFd, Finish, ClearFd, ClearState, SemPost
  <2>2. state' = state \/ state' = [state EXCEPT ![i] = 0]
        BY <1>1 DEF Worker, Lock, CheckFd, Finish, ClearFd, ClearState, SemPost
  <2>3. sem' = sem \/ wpc[i] = "post"
        BY <1>1 DEF Worker, Lock, CheckFd, Finish, ClearFd, ClearState, SemPost
  <2>4. mpc \in {"malloc", "create"} => wpc[i] # "post"
        BY DEF CoreInv, PoolBuilt
  <2>5. NoConnectionDropped'
        BY <1>1 DEF Worker, Lock, CheckFd, Finish, ClearFd, ClearState, SemPost
  <2>6. SlotsHaveThreads' /\ AllJoined' /\ NoUndefinedAccess'
        BY <2>1
  <2>7. SizesAgree'
        BY <2>1, <2>3, <2>4
  <2>8. SlotAhead'
        BY <2>1, <2>2
  <2> QED BY <2>5, <2>6, <2>7, <2>8
<1>2. ASSUME NEW c \in Conns, Connect(c) PROVE SizedInv'
      BY <1>2 DEF Connect
<1>3. CASE Sighup
  <2>1. /\ mpc \notin Exited /\ force_restart' = TRUE /\ Interrupt
        /\ UNCHANGED <<max, alloc, last_port_number, threads_number_temp, sem, slotVars, netVars>>
        BY <1>3 DEF Sighup
  <2>2. threads_number' # threads_number => mpc \notin ResizeUnsafe
        BY <1>3 DEF Sighup, SafeWindows
  <2>3. CASE mpc = "accepting" /\ conn_fd' = NoFd /\ idx' = 0 /\ mpc' = "stop"
        BY <2>1, <2>2, <2>3
  <2>4. CASE mpc = "wait" /\ mpc' = "check" /\ UNCHANGED <<conn_fd, idx>>
        BY <2>1, <2>2, <2>4
  <2>5. CASE mpc # "accepting" /\ UNCHANGED <<mpc, conn_fd, idx>>
        BY <2>1, <2>2, <2>5 DEF ResizeUnsafe, Exited
  <2> QED BY <2>1, <2>3, <2>4, <2>5 DEF Interrupt
<1> QED BY <1>1, <1>2, <1>3

\* The semaphore and the slots move together, whoever moves them.
LEMMA PermitsStep ==
  ASSUME TypeInv, PoolInv, [Next]_vars, SizedInv' PROVE PermitsCountFreeSlots'
<1> DEFINE F == Cardinality(FreeSlots)
           P == Cardinality(Posting)
<1>1. /\ IsFiniteSet(Slots) /\ FreeSlots \subseteq Slots /\ Posting \subseteq Slots
      /\ IsFiniteSet(FreeSlots) /\ IsFiniteSet(Posting) /\ F \in Nat /\ P \in Nat
  <2>1. IsFiniteSet(Slots)
    <3>1. 0 \in Int /\ MAX_THREADS_NUM - 1 \in Int
          BY PoolAssumption DEF PoolAssumption
    <3> QED BY <3>1, FS_Interval
  <2>2. FreeSlots \subseteq Slots /\ Posting \subseteq Slots
        BY DEF FreeSlots, Posting
  <2> QED BY <2>1, <2>2, FS_Subset, FS_CardinalityType
<1>2. Serving => sem + Held + P = F
      BY DEF PoolInv, PermitsCountFreeSlots
<1>3. sem \in Nat /\ wpc \in [Slots -> WorkerPC] /\ state \in [Slots -> {0, 1}] /\ force_restart \in BOOLEAN
      BY DEF TypeInv, TypeOK
<1> SUFFICES ASSUME Serving' PROVE sem' + Held' + P' = F'
    BY DEF PermitsCountFreeSlots
<1>4. ASSUME FreeSlots' = FreeSlots, Posting' = Posting, Serving, sem' + Held' = sem + Held
      PROVE  sem' + Held' + P' = F'
      BY <1>1, <1>2, <1>3, <1>4 DEF Held
<1>5. ASSUME UNCHANGED <<state, wpc>> PROVE FreeSlots' = FreeSlots /\ Posting' = Posting
      BY <1>5 DEF FreeSlots, Posting
<1>6. CASE Main
  <2>1. CASE CreateDone
    <3>1. /\ sem = alloc /\ idx = alloc /\ alloc \in Nat /\ alloc <= MAX_THREADS_NUM /\ MAX_THREADS_NUM \in Nat
          /\ \A i \in Slots : state[i] = 0 /\ wpc[i] = IF i < alloc THEN "lock" ELSE "none"
          /\ UNCHANGED <<sem, state, wpc>> /\ mpc' = "portcheck"
          BY <2>1, PoolAssumption DEF CreateDone, PoolAssumption, PoolInv, CoreInv, PoolBuilt, SizedInv, SizesAgree, SlotsHaveThreads, TypeInv, TypeOK
    <3>2. Posting' = {} /\ FreeSlots' = 0 .. alloc - 1
      <4>1. \A i \in Slots : wpc[i] # "post" /\ (wpc[i] # "none" <=> i < alloc) /\ state[i] = 0
            BY <3>1
      <4>2. Posting = {} /\ FreeSlots = { i \in Slots : i < alloc }
            BY <4>1 DEF Posting, FreeSlots
      <4>3. { i \in Slots : i < alloc } = 0 .. alloc - 1
            BY <3>1
      <4> QED BY <3>1, <4>2, <4>3, <1>5
    <3>3. F' = alloc /\ P' = 0
      <4>1. Cardinality(0 .. alloc - 1) = alloc
        <5>1. 0 \in Int /\ alloc - 1 \in Int
              BY <3>1
        <5>2. Cardinality(0 .. alloc - 1) = IF 0 > alloc - 1 THEN 0 ELSE (alloc - 1) - 0 + 1
              BY <5>1, FS_Interval
        <5> QED BY <3>1, <5>2
      <4> QED BY <3>2, <4>1, FS_EmptySet
    <3>4. Held' = 0 /\ sem' = alloc
          BY <3>1 DEF Held
    <3> QED BY <3>1, <3>3, <3>4
  <2>2. CASE SemWait
        BY <2>2, <1>3, <1>4, <1>5 DEF SemWait, Serving, Held
  <2>3. CASE AssignThread
    <3>1. /\ idx \in Slots /\ state[idx] = 0 /\ wpc[idx] # "none" /\ state' = [state EXCEPT ![idx] = 1]
          /\ UNCHANGED <<sem, wpc>> /\ mpc = "assign" /\ mpc' = "unlock"
          BY <2>3, PoolAssumption DEF PoolAssumption, AssignThread, PoolInv, CoreInv, ChosenSlot, TypeInv, TypeOK, IndexInRange
    <3>2. FreeSlots' = FreeSlots \ {idx} /\ idx \in FreeSlots /\ Posting' = Posting
          BY <3>1, <1>3 DEF FreeSlots, Posting
    <3>3. F' = F - 1
          BY <3>2, <1>1, FS_RemoveElement
    <3>4. Held = 1 /\ Held' = 0 /\ Serving
          BY <3>1 DEF Held, Serving
    <3> QED BY <1>1, <1>2, <1>3, <3>1, <3>2, <3>3, <3>4
  <2>4. CASE ScanExhausted
    <3>1. conn_fd \in Conns /\ client'[conn_fd] = "dropped"
          BY <2>4 DEF ScanExhausted, TypeInv, TypeOK, BudgetLeft
    <3> QED BY <3>1 DEF SizedInv, NoConnectionDropped
  <2>5. CASE PortCheck \/ LastPort \/ BindListen \/ SaveThreadsNumber
        BY <2>5, <1>4, <1>5 DEF PortCheck, LastPort, BindListen, SaveThreadsNumber, Serving, Held
  <2>6. CASE CheckRestart \/ EnterAccept \/ Accepted
        BY <2>6, <1>4, <1>5 DEF CheckRestart, EnterAccept, Accepted, Serving, Held
  <2>7. CASE ScanBusy \/ ScanFree \/ UnlockThread
        BY <2>7, <1>4, <1>5 DEF ScanBusy, ScanFree, UnlockThread, Serving, Held
  <2>8. CASE SemInit \/ AllocThreads \/ CreateThread \/ AllAccepted
        BY <2>8 DEF SemInit, AllocThreads, CreateThread, AllAccepted, Serving
  <2>9. CASE StopThread \/ StopUnlock \/ JoinThread \/ StopDone
        BY <2>9 DEF StopThread, StopUnlock, JoinThread, StopDone, Serving
  <2>10. CASE FreeThreads \/ ExitOrRestart \/ UndefinedAccess
        BY <2>10 DEF FreeThreads, ExitOrRestart, UndefinedAccess, Serving
  <2> QED BY <1>6, <2>1, <2>2, <2>3, <2>4, <2>5, <2>6, <2>7, <2>8, <2>9, <2>10 DEF Main
<1>7. ASSUME NEW i \in Slots, Worker(i) PROVE sem' + Held' + P' = F'
  <2>1. UNCHANGED <<mpc, force_restart>> /\ Serving /\ Held' = Held
        BY <1>7 DEF Worker, Serving, Held
  <2>2. CASE ClearState(i)
    <3>1. state[i] = 1 /\ wpc[i] = "clearstate" /\ UNCHANGED sem
          /\ state' = [state EXCEPT ![i] = 0] /\ wpc' = [wpc EXCEPT ![i] = "post"]
          BY <2>2, <1>3 DEF ClearState, PoolInv, CoreInv, SlotInv
    <3>2. /\ FreeSlots' = FreeSlots \cup {i} /\ i \notin FreeSlots
          /\ Posting' = Posting \cup {i} /\ i \notin Posting
          BY <3>1, <1>3 DEF FreeSlots, Posting
    <3>3. F' = F + 1 /\ P' = P + 1
          BY <3>2, <1>1, FS_AddElement
    <3> QED BY <1>1, <1>2, <1>3, <2>1, <3>1, <3>3 DEF Held
  <2>3. CASE SemPost(i)
    <3>1. wpc[i] = "post" /\ wpc' = [wpc EXCEPT ![i] = "lock"] /\ sem' = sem + 1 /\ UNCHANGED state
          BY <2>3 DEF SemPost
    <3>2. FreeSlots' = FreeSlots /\ Posting' = Posting \ {i} /\ i \in Posting
          BY <3>1, <1>3 DEF FreeSlots, Posting
    <3>3. P' = P - 1
          BY <3>2, <1>1, FS_RemoveElement
    <3> QED BY <1>1, <1>2, <1>3, <2>1, <3>1, <3>2, <3>3 DEF Held
  <2>4. ASSUME NEW l \in {"checkfd", "serve", "exit", "clearfd", "clearstate"},
               wpc' = [wpc EXCEPT ![i] = l], wpc[i] \notin {"none", "post"}, UNCHANGED <<state, sem>>
        PROVE  sem' + Held' + P' = F'
    <3>1. FreeSlots' = FreeSlots /\ Posting' = Posting
          BY <1>3, <2>4 DEF FreeSlots, Posting
    <3> QED BY <3>1, <1>4, <2>1, <2>4
  <2>5. CASE Lock(i) \/ CheckFd(i) \/ Finish(i) \/ ClearFd(i)
        BY <2>4, <2>5 DEF Lock, CheckFd, Finish, ClearFd
  <2> QED BY <1>7, <2>2, <2>3, <2>5 DEF Worker
<1>8. ASSUME NEW c \in Conns, Connect(c) PROVE sem' + Held' + P' = F'
      BY <1>8, <1>4, <1>5 DEF Connect, Serving, Held
<1>9. CASE Sighup
      BY <1>9, <1>4, <1>5 DEF Sighup, Interrupt, Serving, Held
<1>10. CASE UNCHANGED vars
      BY <1>10, <1>4, <1>5 DEF Serving, Held
<1> QED BY <1>6, <1>7, <1>8, <1>9, <1>10 DEF Next

\* Every step keeps the whole invariant, the count of the permits included.
LEMMA PoolInvStep == SafeWindows /\ TypeInv /\ PoolInv /\ [Next]_vars => PoolInv'
<1> SUFFICES ASSUME SafeWindows, TypeInv, PoolInv, [Next]_vars PROVE PoolInv'
    OBVIOUS
<1>1. SizedInv'
  <2>1. CASE UNCHANGED vars
        BY <2>1 DEF PoolInv, SizedInv, SlotsHaveThreads, SizesAgree, SlotAhead, AllJoined,
                    NoConnectionDropped, NoUndefinedAccess
  <2>2. CASE Next
        BY <2>2, SizedInvMain, SizedInvOthers DEF Next, PoolInv
  <2> QED BY <2>1, <2>2
<1> QED BY <1>1, CoreInvStep, PermitsStep DEF PoolInv

\* The inductive invariant holds throughout, if no reload changes the pool size
\* in one of the windows ResizeUnsafe.
THEOREM PoolInvariant == SafeWindows => (Spec => [](TypeInv /\ PoolInv))
<1> SUFFICES ASSUME SafeWindows PROVE Spec => [](TypeInv /\ PoolInv)
    OBVIOUS
<1>1. Init => TypeInv /\ PoolInv
      BY TypeInvInit, PoolInvInit
<1>2. TypeInv /\ PoolInv /\ [Next]_vars => (TypeInv /\ PoolInv)'
      BY TypeInvStep, PoolInvStep
<1> QED BY <1>1, <1>2, PTL DEF Spec

\* Then the semaphore counts the free slots exactly,
THEOREM PermitsAlwaysCount == SafeWindows => (Spec => []PermitsCountFreeSlots)
<1>1. PoolInv => PermitsCountFreeSlots
      BY DEF PoolInv
<1> QED BY <1>1, PoolInvariant, PTL

\* every connection main accepts finds a slot, and
THEOREM NeverDropped == SafeWindows => (Spec => []NoConnectionDropped)
<1>1. PoolInv => NoConnectionDropped
      BY DEF PoolInv, SizedInv
<1> QED BY <1>1, PoolInvariant, PTL

\* the array is only used inside its bounds and during its life.
THEOREM NeverUndefined == SafeWindows => (Spec => []NoUndefinedAccess)
<1>1. PoolInv => NoUndefinedAccess
      BY DEF PoolInv, SizedInv
<1> QED BY <1>1, PoolInvariant, PTL
=============================================================================
