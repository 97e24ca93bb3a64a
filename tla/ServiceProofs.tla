---------------------------- MODULE ServiceProofs -----------------------------
(***************************************************************************)
(* What the clients of the Linux daemon can rely on, proved from the       *)
(* invariants of ServerPoolProofs: that it terminates when its connections *)
(* are served, that it listens where the configuration says, and that it   *)
(* implements ConnectionService.                                           *)
(***************************************************************************)
EXTENDS ServerPoolProofs

USE DEF MainPC, WorkerPC, ClientState, Slots, Ports, NoPort, vars, mainVars, mainRest,
        confVars, slotVars, netVars

-----------------------------------------------------------------------------
(* The end of the daemon.                                                   *)

\* max counts the connections that are still to be handed to a worker; one that main
\* gives up gives its turn back.
TakenOver == {c \in Conns : client[c] \in {"accepted", "closed"}}
Counted == MAX_ACCEPT - max + (IF mpc \in {"scan", "assign", "unlock"} THEN 1 ELSE 0)
CountInv ==
  /\ IsFiniteSet(TakenOver)
  /\ mpc # "undefined" => Cardinality(TakenOver) = Counted


\* Which connection accept() returns, and what becomes of it.
LEMMA AcceptedTakes ==
  ASSUME TypeInv, CoreInv, Accepted
  PROVE  \E c \in Conns : /\ client[c] = "queued" /\ client' = [client EXCEPT ![c] = "accepted"]
                          /\ conn_fd' = c
<1> DEFINE p == listen_fd
           c == Head(backlog[p])
<1>1. /\ p \in Ports /\ backlog[p] \in Seq(Conns) /\ backlog[p] # <<>>
      BY DEF Accepted, TypeInv, TypeOK, SocketBound
<1>2. c \in Conns /\ c = backlog[p][1] /\ 1 \in DOMAIN backlog[p]
      BY <1>1
<1>3. client[c] = "queued"
      BY <1>1, <1>2 DEF CoreInv, BacklogInv
<1> QED BY <1>2, <1>3 DEF Accepted

\* Closing the socket resets connections that wait, and no other.
LEMMA ResetWereQueued ==
  ASSUME TypeInv, CoreInv, FreeThreads, NEW c \in Conns
  PROVE  client'[c] = client[c] \/ (client[c] = "queued" /\ client'[c] = "reset")
<1>1. listen_fd \in Ports
      BY DEF FreeThreads, TypeInv, SocketBound
<1>2. ASSUME NEW k \in DOMAIN backlog[listen_fd], backlog[listen_fd][k] = c PROVE client[c] = "queued"
      BY <1>1, <1>2 DEF CoreInv, BacklogInv
<1> QED BY <1>2 DEF FreeThreads

\* Nobody is served where no slot has a thread.
LEMMA NobodyServed ==
  ASSUME CoreInv, \A i \in Slots : wpc[i] \in {"none", "exit"}, mpc \notin {"scan", "assign", "undefined"}
  PROVE  \A c \in Conns : client[c] # "accepted"
BY DEF CoreInv, Holders

\* The budget is full before the first accept().
LEMMA CountInit == Init => CountInv
<1> SUFFICES ASSUME Init PROVE CountInv
    OBVIOUS
<1>1. TakenOver = {} /\ Counted = 0
      BY PoolAssumption DEF PoolAssumption, Init, TakenOver, Counted
<1> QED BY <1>1, FS_EmptySet DEF CountInv

\* Every step of main moves max together with the connection in its hand; no step of
\* another takes a connection back.
LEMMA CountStep == ASSUME TypeInv, CoreInv, CountInv, [Next]_vars PROVE CountInv'
<1> USE PoolAssumption DEF PoolAssumption, TypeInv, TypeOK
<1>1. ASSUME TakenOver' = TakenOver, mpc' = "undefined" \/ (mpc # "undefined" /\ Counted' = Counted)
      PROVE  CountInv'
      BY <1>1 DEF CountInv
<1>2. ASSUME UNCHANGED client PROVE TakenOver' = TakenOver
      BY <1>2 DEF TakenOver
<1>3. CASE Accepted
  <2>1. PICK c \in Conns : client[c] = "queued" /\ client' = [client EXCEPT ![c] = "accepted"]
        BY <1>3, AcceptedTakes
  <2>2. TakenOver' = TakenOver \cup {c} /\ c \notin TakenOver
        BY <2>1 DEF TakenOver
  <2>3. Counted \in Int /\ Counted' = Counted + 1 /\ mpc # "undefined"
        BY <1>3 DEF Accepted, Counted
  <2> QED BY <2>2, <2>3, FS_AddElement DEF CountInv
<1>4. CASE ScanExhausted
  <2>1. conn_fd \in Conns /\ client[conn_fd] = "accepted" /\ client' = [client EXCEPT ![conn_fd] = "dropped"]
        BY <1>4 DEF ScanExhausted, CoreInv, InHand, BudgetLeft
  <2>2. TakenOver' = TakenOver \ {conn_fd} /\ conn_fd \in TakenOver
        BY <2>1 DEF TakenOver
  <2>3. Counted \in Int /\ Counted' = Counted - 1 /\ mpc # "undefined"
        BY <1>4 DEF ScanExhausted, Counted
  <2> QED BY <2>2, <2>3, FS_RemoveElement DEF CountInv
<1>5. CASE UnlockThread
  <2>1. Counted' = Counted /\ mpc # "undefined" /\ UNCHANGED client
        BY <1>5 DEF UnlockThread, Counted
  <2> QED BY <1>1, <1>2, <2>1
<1>6. CASE FreeThreads
  <2>1. TakenOver' = TakenOver
        BY <1>6, ResetWereQueued DEF TakenOver
  <2> QED BY <1>1, <1>6, <2>1 DEF FreeThreads, Counted
<1>7. CASE UndefinedAccess
      BY <1>1, <1>2, <1>7 DEF UndefinedAccess
<1>8. CASE SemInit \/ AllocThreads \/ CreateThread \/ CreateDone \/ PortCheck \/ LastPort \/ BindListen
           \/ SaveThreadsNumber
  <2>1. UNCHANGED <<max, client>> /\ mpc # "undefined" /\ mpc \notin {"scan", "assign", "unlock"}
        /\ mpc' \notin {"scan", "assign", "unlock"}
        BY <1>8 DEF SemInit, AllocThreads, CreateThread, CreateDone, PortCheck, LastPort, BindListen,
                    SaveThreadsNumber
  <2> QED BY <1>1, <1>2, <2>1 DEF Counted
<1>9. CASE SemWait \/ AllAccepted \/ CheckRestart \/ EnterAccept \/ StopThread \/ StopUnlock \/ JoinThread
           \/ StopDone \/ ExitOrRestart
  <2>1. UNCHANGED <<max, client>> /\ mpc # "undefined" /\ mpc \notin {"scan", "assign", "unlock"}
        /\ mpc' \notin {"scan", "assign", "unlock"}
        BY <1>9 DEF SemWait, AllAccepted, CheckRestart, EnterAccept, StopThread, StopUnlock, JoinThread,
                    StopDone, ExitOrRestart
  <2> QED BY <1>1, <1>2, <2>1 DEF Counted
<1>10. CASE ScanBusy \/ ScanFree \/ AssignThread
  <2>1. UNCHANGED <<max, client>> /\ mpc \in {"scan", "assign", "unlock"} /\ mpc' \in {"scan", "assign", "unlock"}
        BY <1>10 DEF ScanBusy, ScanFree, AssignThread
  <2> QED BY <1>1, <1>2, <2>1 DEF Counted
<1>11. ASSUME NEW i \in Slots, Worker(i) PROVE CountInv'
  <2>1. Counted' = Counted /\ mpc # "undefined"
        BY <1>11 DEF Worker, Counted, Exited
  <2>2. CASE Finish(i)
    <3>1. fd[i] \in Conns /\ client[fd[i]] = "accepted" /\ client' = [client EXCEPT ![fd[i]] = "closed"]
      <4>1. wpc[i] = "serve" /\ state[i] \in {0, 1}
            BY <2>2 DEF Finish
      <4> QED BY <2>2, <4>1 DEF Finish, CoreInv, SlotInv
    <3>2. TakenOver' = TakenOver
          BY <3>1 DEF TakenOver
    <3> QED BY <1>1, <2>1, <3>2
  <2>3. CASE UNCHANGED client
        BY <1>1, <1>2, <2>1, <2>3
  <2> QED BY <1>11, <2>2, <2>3 DEF Worker, Lock, CheckFd, ClearFd, ClearState, SemPost
<1>12. ASSUME NEW c \in Conns, Connect(c) PROVE CountInv'
  <2>1. TakenOver' = TakenOver
        BY <1>12 DEF Connect, TakenOver
  <2> QED BY <1>1, <1>12, <2>1 DEF Connect, Counted, Exited
<1>13. CASE Sighup
  <2>1. UNCHANGED <<max, client>> /\ mpc # "undefined" /\ Interrupt
        BY <1>13 DEF Sighup, Exited
  <2>2. mpc' = mpc \/ (mpc \in {"accepting", "wait"} /\ mpc' \in {"stop", "check"})
        BY <2>1 DEF Interrupt
  <2>3. Counted' = Counted
        BY <2>1, <2>2 DEF Counted
  <2>4. TakenOver' = TakenOver
        BY <1>2, <2>1
  <2> QED BY <1>1, <2>1, <2>3, <2>4
<1>14. CASE UNCHANGED vars
  <2>1. TakenOver' = TakenOver /\ Counted' = Counted
        BY <1>14 DEF TakenOver, Counted
  <2> QED BY <1>1, <1>14, <2>1
<1> QED BY <1>3, <1>4, <1>5, <1>6, <1>7, <1>8, <1>9, <1>10, <1>11, <1>12, <1>13, <1>14 DEF Next, Main

\* The loop `while (max)` and the exit behind it: the daemon ends by itself only when
\* MAX_ACCEPT conversations are over, whatever reloads did meanwhile.
THEOREM EndsWhenDone == Spec => []TerminatesWhenDone
<1>1. TypeInv /\ CoreInv /\ CountInv => TerminatesWhenDone
  <2> SUFFICES ASSUME TypeInv, CoreInv, CountInv, mpc = "terminated"
               PROVE  /\ Cardinality({c \in Conns : client[c] = "closed"}) = MAX_ACCEPT
                      /\ \A c \in Conns : client[c] # "accepted"
      BY DEF TerminatesWhenDone
  <2>1. \A c \in Conns : client[c] # "accepted"
        BY NobodyServed DEF CoreInv, PoolBuilt
  <2>2. max = 0
        BY DEF CoreInv, StopInv
  <2>3. TakenOver = {c \in Conns : client[c] = "closed"}
        BY <2>1 DEF TakenOver
  <2>4. Cardinality(TakenOver) = MAX_ACCEPT
        BY <2>2, PoolAssumption DEF PoolAssumption, CountInv, Counted
  <2> QED BY <2>1, <2>3, <2>4
<1>2. TypeInv /\ CoreInv /\ CountInv /\ [Next]_vars => CountInv'
      BY CountStep
<1> QED BY CoreInvariant, CountInit, <1>1, <1>2, PTL DEF Spec

-----------------------------------------------------------------------------
(* The listening socket.                                                    *)

SafeRebinds == RebindAt \cap RebindUnsafe = {}

\* From the end of bind() to the decision to close, one socket listens, on the port
\* last bound; from there to the next bind() it does if the port stays the same.
PortInv ==
  /\ mpc \in { "temp", "wait", "check", "accept", "accepting", "scan", "assign", "unlock",
               "stop", "stopunlock", "join", "free" } =>
       /\ open = {listen_fd} /\ listen_fd = last_port_number
       /\ port_number = last_port_number \/ force_restart
  /\ mpc \in {"restart", "top", "malloc", "create", "portcheck"} =>
       open = IF last_port_number = port_number THEN {listen_fd} ELSE {}
  /\ mpc \in {"restart", "top", "malloc", "create", "portcheck"} /\ last_port_number = port_number =>
       listen_fd = last_port_number
  /\ mpc = "lastport" => open = {}
  /\ mpc = "bind" => open = {} /\ last_port_number = port_number

\* The daemon starts without a socket.
LEMMA PortInit == Init => PortInv
BY PoolAssumption DEF PoolAssumption, Init, PortInv

\* Every step keeps the socket and the configuration together, if a reload changes the
\* port outside the windows RebindUnsafe.
LEMMA PortStep == SafeRebinds /\ PortInv /\ [Next]_vars => PortInv'
<1> SUFFICES ASSUME SafeRebinds, PortInv, [Next]_vars PROVE PortInv'
    OBVIOUS
<1> USE DEF PortInv
<1>1. CASE PortCheck \/ LastPort \/ BindListen
      BY <1>1 DEF PortCheck, LastPort, BindListen
<1>2. CASE FreeThreads \/ ExitOrRestart
      BY <1>2 DEF FreeThreads, ExitOrRestart
<1>3. CASE SemInit \/ AllocThreads \/ CreateThread \/ CreateDone \/ SaveThreadsNumber
      BY <1>3 DEF SemInit, AllocThreads, CreateThread, CreateDone, SaveThreadsNumber
<1>4. CASE SemWait \/ AllAccepted \/ CheckRestart \/ EnterAccept \/ Accepted \/ ScanBusy \/ ScanFree
           \/ ScanExhausted
      BY <1>4 DEF SemWait, AllAccepted, CheckRestart, EnterAccept, Accepted, ScanBusy, ScanFree, ScanExhausted
<1>5. CASE AssignThread \/ UnlockThread \/ StopThread \/ StopUnlock \/ JoinThread \/ StopDone \/ UndefinedAccess
      BY <1>5 DEF AssignThread, UnlockThread, StopThread, StopUnlock, JoinThread, StopDone, UndefinedAccess
<1>6. CASE (\E i \in Slots : Worker(i)) \/ (\E c \in Conns : Connect(c)) \/ UNCHANGED vars
      BY <1>6 DEF Worker, Connect
<1>7. CASE Sighup
  <2>1. /\ force_restart' = TRUE /\ UNCHANGED <<last_port_number, open, listen_fd>>
        /\ port_number' # port_number => mpc \notin RebindUnsafe
        /\ mpc' = mpc \/ (mpc = "accepting" /\ mpc' = "stop") \/ (mpc = "wait" /\ mpc' = "check")
        BY <1>7 DEF Sighup, SafeRebinds, Interrupt
  <2> QED BY <2>1 DEF RebindUnsafe
<1> QED BY <1>1, <1>2, <1>3, <1>4, <1>5, <1>6, <1>7 DEF Next, Main

\* handlerSighup and the rebinding in main: when the daemon waits for connections and no
\* reload is under way it listens on the port the configuration asks for, and on no other.
THEOREM PortAlwaysAgrees == SafeRebinds => (Spec => []ListenPortAgrees)
<1> SUFFICES ASSUME SafeRebinds PROVE Spec => []ListenPortAgrees
    OBVIOUS
<1>1. PortInv => ListenPortAgrees
      BY DEF PortInv, ListenPortAgrees
<1>2. PortInv /\ [Next]_vars => PortInv'
      BY PortStep
<1> QED BY PortInit, <1>1, <1>2, PTL DEF Spec

-----------------------------------------------------------------------------
(* The pool implements the service.                                         *)

\* The state of the service that a state of the daemon stands for.
AConn == [c \in Conns |-> Phase[client[c]]]
ABudget == max - (IF mpc \in {"scan", "assign", "unlock"} THEN 1 ELSE 0)
ARunning == mpc # "terminated"
AServed == {c \in Conns : client[c] = "accepted"}

\* The words of the service for what became of a connection.
LEMMA Phases ==
  /\ Phase["new"] = "waiting" /\ Phase["queued"] = "waiting" /\ Phase["accepted"] = "served"
  /\ Phase["closed"] = "answered" /\ Phase["reset"] = "refused" /\ Phase["dropped"] = "dropped"
BY DEF Phase

\* Things that each have a place of their own are no more than the places.
LEMMA PlacesBound ==
  ASSUME NEW S, NEW T, IsFiniteSet(T), NEW f, \A c \in S : \E i \in T : f[i] = c
  PROVE  IsFiniteSet(S) /\ Cardinality(S) <= Cardinality(T)
<1> DEFINE place == [c \in S |-> CHOOSE i \in T : f[i] = c]
<1>1. \A c \in S : place[c] \in T /\ f[place[c]] = c
      OBVIOUS
<1>2. place \in [S -> T]
      BY <1>1
<1> HIDE DEF place
<1>3. place \in Injection(S, T)
      BY <1>1, <1>2 DEF Injection, IsInjective
<1> QED BY <1>3, FS_Injection

\* The service counts as the pool does.
LEMMA SameCardinality == \A S : Service!Cardinality(S) = Cardinality(S)
BY DEF Service!Cardinality, Cardinality

\* The connections the service serves are the open ones.
LEMMA ServedConns == TypeInv => Service!Served = AServed
<1> SUFFICES ASSUME TypeInv, NEW c \in Conns PROVE AConn[c] = "served" <=> client[c] = "accepted"
    BY DEF Service!Served, AServed, AConn
<1>1. client[c] \in ClientState
      BY DEF TypeInv, TypeOK
<1> QED BY <1>1, Phases DEF AConn

\* When main calls accept() it has room: one slot of the array is free, and each open
\* connection is in one of the others.
LEMMA RoomForOne ==
  ASSUME TypeInv, PoolInv, mpc = "accepting" PROVE Cardinality(AServed) < alloc
<1>1. PICK j \in Slots : j >= 0 /\ j < alloc /\ state[j] = 0
      BY PermitMeansFreeSlot DEF PoolInv
<1>2. alloc \in Nat /\ j \in 0 .. alloc - 1
      BY <1>1, PoolAssumption DEF PoolAssumption, TypeInv, TypeOK
<1>3. ASSUME NEW c \in AServed PROVE \E i \in (0 .. alloc - 1) \ {j} : fd[i] = c
  <2>1. PICK i \in Slots : fd[i] = c /\ wpc[i] \in {"post", "lock", "checkfd", "serve"}
        BY <1>3 DEF AServed, PoolInv, CoreInv, Holders
  <2>2. i < alloc
        BY <2>1 DEF PoolInv, SizedInv, SlotsHaveThreads, PoolPC
  <2>3. c \in Conns /\ i # j
        BY <1>1, <1>3, <2>1 DEF AServed, PoolInv, CoreInv, SlotInv
  <2>4. i \in 0 .. alloc - 1
        BY <1>2, <2>2
  <2> QED BY <2>1, <2>3, <2>4
<1>4. IsFiniteSet((0 .. alloc - 1) \ {j}) /\ Cardinality((0 .. alloc - 1) \ {j}) = alloc - 1
  <2>1. 0 \in Int /\ alloc - 1 \in Int
        BY <1>2
  <2>2. /\ IsFiniteSet(0 .. alloc - 1)
        /\ Cardinality(0 .. alloc - 1) = IF 0 > alloc - 1 THEN 0 ELSE (alloc - 1) - 0 + 1
        BY <2>1, FS_Interval
  <2>3. Cardinality(0 .. alloc - 1) = alloc
        BY <1>2, <2>2
  <2> HIDE DEF Slots
  <2>4. /\ IsFiniteSet((0 .. alloc - 1) \ {j})
        /\ Cardinality((0 .. alloc - 1) \ {j}) = Cardinality(0 .. alloc - 1) - 1
        BY <1>2, <2>2, FS_RemoveElement
  <2> QED BY <2>3, <2>4
<1>5. IsFiniteSet(AServed) /\ Cardinality(AServed) <= alloc - 1
      BY <1>3, <1>4, PlacesBound
<1> QED BY <1>2, <1>5, FS_CardinalityType

\* A daemon that just started serves nobody.
LEMMA RefinesInit == Init => Service!Init
<1> SUFFICES ASSUME Init PROVE Service!Init
    OBVIOUS
<1>1. \A c \in Conns : Phase[client[c]] = "waiting"
      BY Phases DEF Init
<1>2. max - (IF mpc \in {"scan", "assign", "unlock"} THEN 1 ELSE 0) = MAX_ACCEPT
      BY PoolAssumption DEF PoolAssumption, Init
<1> QED BY <1>1, <1>2 DEF Init, Service!Init

\* Every step of main is a step of the service, or nothing it shows.
LEMMA RefinesMain ==
  ASSUME TypeInv, PoolInv, PoolInv', Main PROVE [Service!Next]_(Service!svars)
<1> USE PoolAssumption DEF PoolAssumption
<1>0. client \in [Conns -> ClientState] /\ max \in Nat /\ alloc \in Nat /\ threads_number \in Nat
      BY DEF TypeInv, TypeOK
<1>1. ASSUME UNCHANGED <<AConn, ABudget, alloc, ARunning>> PROVE [Service!Next]_(Service!svars)
      BY <1>1 DEF AConn, ABudget, ARunning, Service!svars
<1>2. ASSUME UNCHANGED client PROVE UNCHANGED AConn
      BY <1>2 DEF AConn
<1>3. ASSUME UNCHANGED <<client, max, alloc>>, mpc \notin {"scan", "assign", "unlock", "terminated"},
             mpc' \notin {"scan", "assign", "unlock", "terminated"}
      PROVE  [Service!Next]_(Service!svars)
      BY <1>1, <1>2, <1>3 DEF ABudget, ARunning
<1>4. CASE SemInit \/ CreateThread \/ CreateDone \/ PortCheck \/ LastPort \/ BindListen \/ SaveThreadsNumber
      BY <1>3, <1>4 DEF SemInit, CreateThread, CreateDone, PortCheck, LastPort, BindListen, SaveThreadsNumber
<1>5. CASE SemWait \/ AllAccepted \/ CheckRestart \/ EnterAccept \/ StopThread \/ StopUnlock \/ JoinThread
           \/ StopDone
      BY <1>3, <1>5 DEF SemWait, AllAccepted, CheckRestart, EnterAccept, StopThread, StopUnlock, JoinThread,
                        StopDone
<1>6. CASE ScanBusy \/ ScanFree \/ AssignThread
  <2>1. UNCHANGED <<client, max, alloc>> /\ mpc \in {"scan", "assign", "unlock"}
        /\ mpc' \in {"scan", "assign", "unlock"}
        BY <1>6 DEF ScanBusy, ScanFree, AssignThread
  <2> QED BY <1>1, <1>2, <2>1 DEF ABudget, ARunning
<1>7. CASE UnlockThread
  <2>1. UNCHANGED <<ABudget, alloc, ARunning>>
        BY <1>0, <1>7 DEF UnlockThread, ABudget, ARunning
  <2> QED BY <1>1, <1>2, <1>7, <2>1 DEF UnlockThread
<1>8. CASE AllocThreads
  <2>1. /\ mpc = "malloc" /\ mpc' = "create" /\ alloc' = threads_number /\ UNCHANGED <<client, max>>
        BY <1>8 DEF AllocThreads
  <2>2. AServed = {}
    <3>1. \A c \in Conns : client[c] # "accepted"
          BY <2>1, NobodyServed DEF PoolInv, CoreInv, PoolBuilt
    <3> QED BY <3>1 DEF AServed
  <2>3. AConn' = [c \in Conns |-> IF c \in {} THEN "refused" ELSE AConn[c]]
        BY <1>2, <2>1 DEF AConn
  <2>4. UNCHANGED <<ABudget, ARunning>> /\ ARunning /\ alloc' \in Nat
        BY <1>0, <2>1 DEF ABudget, ARunning
  <2>5. Service!Reconfigure
        BY <2>2, <2>3, <2>4, ServedConns DEF Service!Reconfigure, AConn, ABudget, ARunning
  <2> QED BY <2>5 DEF Service!Next
<1>9. CASE Accepted
  <2>1. PICK c \in Conns : client[c] = "queued" /\ client' = [client EXCEPT ![c] = "accepted"]
        BY <1>9, AcceptedTakes DEF PoolInv
  <2>2. mpc = "accepting" /\ mpc' = "scan" /\ UNCHANGED <<max, alloc>>
        BY <1>9 DEF Accepted
  <2>3. AConn[c] = "waiting"
        BY <2>1, Phases DEF AConn
  <2>4. AConn' = [AConn EXCEPT ![c] = "served"]
        BY <1>0, <2>1, Phases DEF AConn
  <2>5. ABudget > 0 /\ ABudget' = ABudget - 1 /\ ARunning /\ ARunning'
        BY <1>0, <2>2 DEF ABudget, ARunning, TypeInv, BudgetLeft
  <2>6. Service!Cardinality(Service!Served) < alloc
        BY <2>2, RoomForOne, ServedConns, SameCardinality
  <2>7. Service!Admit(c)
        BY <2>2, <2>3, <2>4, <2>5, <2>6 DEF Service!Admit, AConn, ABudget, ARunning
  <2> QED BY <2>7 DEF Service!Next
<1>10. CASE ScanExhausted
  <2>1. conn_fd \in Conns /\ client'[conn_fd] = "dropped"
        BY <1>0, <1>10 DEF ScanExhausted, TypeInv, BudgetLeft
  <2> QED BY <2>1 DEF PoolInv, SizedInv, NoConnectionDropped
<1>11. CASE FreeThreads
  <2>1. mpc = "free" /\ mpc' = "restart" /\ alloc' = 0 /\ UNCHANGED max
        BY <1>11 DEF FreeThreads
  <2>2. AServed = {}
    <3>1. \A c \in Conns : client[c] # "accepted"
          BY <1>11, NobodyServed DEF FreeThreads, PoolInv
    <3> QED BY <3>1 DEF AServed
  <2>3. PICK R \in SUBSET {c \in Conns : client[c] = "queued"} :
          client' = [c \in Conns |-> IF c \in R THEN "reset" ELSE client[c]]
    <3>1. CASE UNCHANGED client
      <4>1. client' = [c \in Conns |-> IF c \in {} THEN "reset" ELSE client[c]]
            BY <1>0, <3>1
      <4>2. {} \in SUBSET {c \in Conns : client[c] = "queued"}
            OBVIOUS
      <4> QED BY <4>1, <4>2
    <3>2. CASE client' = [c \in Conns |-> IF \E k \in DOMAIN backlog[listen_fd] : backlog[listen_fd][k] = c
                                          THEN "reset" ELSE client[c]]
      <4> DEFINE Q == {c \in Conns : \E k \in DOMAIN backlog[listen_fd] : backlog[listen_fd][k] = c}
      <4>1. ASSUME NEW c \in Q PROVE client[c] = "queued"
        <5>1. listen_fd \in Ports
              BY <2>1 DEF TypeInv, SocketBound
        <5> QED BY <4>1, <5>1 DEF PoolInv, CoreInv, BacklogInv
      <4>2. client' = [c \in Conns |-> IF c \in Q THEN "reset" ELSE client[c]]
            BY <3>2
      <4> HIDE DEF Q
      <4>3. Q \in SUBSET {c \in Conns : client[c] = "queued"}
            BY <4>1 DEF Q
      <4> QED BY <4>2, <4>3
    <3> QED BY <1>11, <3>1, <3>2 DEF FreeThreads
  <2>4. R \in SUBSET {c \in Conns : AConn[c] = "waiting"}
        BY Phases DEF AConn
  <2>5. AConn' = [c \in Conns |-> IF c \in R THEN "refused" ELSE AConn[c]]
        BY <2>3, Phases DEF AConn
  <2>6. UNCHANGED <<ABudget, ARunning>> /\ ARunning /\ alloc' \in Nat
        BY <2>1 DEF ABudget, ARunning
  <2>7. Service!Reconfigure
        BY <2>2, <2>4, <2>5, <2>6, ServedConns DEF Service!Reconfigure, AConn, ABudget, ARunning
  <2> QED BY <2>7 DEF Service!Next
<1>12. CASE ExitOrRestart
  <2>1. mpc = "restart" /\ UNCHANGED <<client, max, alloc>>
        BY <1>12 DEF ExitOrRestart
  <2>2. CASE mpc' = "top"
        BY <1>3, <2>1, <2>2
  <2>3. CASE mpc' = "terminated"
    <3>1. AServed = {}
      <4>1. \A c \in Conns : client[c] # "accepted"
            BY <2>1, NobodyServed DEF PoolInv, CoreInv, PoolBuilt
      <4> QED BY <4>1 DEF AServed
    <3>2. max = 0
          BY <2>1, <2>3 DEF PoolInv, CoreInv, StopInv
    <3>3. ABudget = 0 /\ ABudget' = 0
      <4>1. max' = 0 /\ mpc' = "terminated"
            BY <2>1, <2>3, <3>2
      <4>2. ABudget = max - 0 /\ ABudget' = max' - 0
            BY <2>1, <4>1 DEF ABudget
      <4> QED BY <3>2, <4>1, <4>2
    <3>5. ARunning /\ ~ARunning'
          BY <2>1, <2>3 DEF ARunning
    <3>4. Service!Terminate
          BY <1>2, <2>1, <3>1, <3>3, <3>5, ServedConns DEF Service!Terminate, AConn, ABudget, ARunning
    <3> QED BY <3>4 DEF Service!Next
  <2> QED BY <1>12, <2>2, <2>3 DEF ExitOrRestart
<1>13. CASE UndefinedAccess
      BY <1>13 DEF UndefinedAccess, PoolInv, SizedInv, NoUndefinedAccess
<1> QED BY <1>4, <1>5, <1>6, <1>7, <1>8, <1>9, <1>10, <1>11, <1>12, <1>13 DEF Main

\* So is every step of a worker, a client or the handler: the service sees the end of a
\* conversation and nothing else of theirs.
LEMMA RefinesStep ==
  ASSUME TypeInv, PoolInv, PoolInv', [Next]_vars PROVE [Service!Next]_(Service!svars)
<1>0. client \in [Conns -> ClientState]
      BY DEF TypeInv, TypeOK
<1>1. ASSUME UNCHANGED <<AConn, ABudget, alloc, ARunning>> PROVE [Service!Next]_(Service!svars)
      BY <1>1 DEF AConn, ABudget, ARunning, Service!svars
<1>2. ASSUME UNCHANGED client PROVE UNCHANGED AConn
      BY <1>2 DEF AConn
<1>3. ASSUME NEW i \in Slots, Worker(i) PROVE [Service!Next]_(Service!svars)
  <2>1. UNCHANGED <<mpc, max, alloc>> /\ ARunning /\ UNCHANGED <<ABudget, ARunning>>
        BY <1>3 DEF Worker, Exited, ABudget, ARunning
  <2>2. CASE Finish(i)
    <3>1. PICK c \in Conns : c = fd[i] /\ client[c] = "accepted" /\ client' = [client EXCEPT ![c] = "closed"]
      <4>1. wpc[i] = "serve" /\ state[i] \in {0, 1}
            BY <2>2 DEF Finish, TypeInv, TypeOK
      <4> QED BY <2>2, <4>1 DEF Finish, PoolInv, CoreInv, SlotInv
    <3>2. AConn[c] = "served"
          BY <3>1, Phases DEF AConn
    <3>3. AConn' = [AConn EXCEPT ![c] = "answered"]
          BY <1>0, <3>1, Phases DEF AConn
    <3>4. Service!Answer(c)
          BY <2>1, <3>2, <3>3 DEF Service!Answer, AConn, ABudget, ARunning
    <3> QED BY <3>4 DEF Service!Next
  <2>3. CASE UNCHANGED client
        BY <1>1, <1>2, <2>1, <2>3
  <2> QED BY <1>3, <2>2, <2>3 DEF Worker, Lock, CheckFd, ClearFd, ClearState, SemPost
<1>4. ASSUME NEW c \in Conns, Connect(c) PROVE [Service!Next]_(Service!svars)
  <2>1. AConn' = AConn
        BY <1>0, <1>4, Phases DEF Connect, AConn
  <2>2. UNCHANGED <<ABudget, alloc, ARunning>>
        BY <1>4 DEF Connect, ABudget, ARunning
  <2> QED BY <1>1, <2>1, <2>2
<1>5. CASE Sighup
  <2>1. UNCHANGED <<client, max, alloc>> /\ Interrupt /\ mpc \notin Exited
        BY <1>5 DEF Sighup
  <2>2. mpc' = mpc \/ (mpc \in {"accepting", "wait"} /\ mpc' \in {"stop", "check"})
        BY <2>1 DEF Interrupt
  <2>3. UNCHANGED <<ABudget, ARunning>>
        BY <2>1, <2>2 DEF ABudget, ARunning, Exited
  <2> QED BY <1>1, <1>2, <2>1, <2>3
<1>6. CASE UNCHANGED vars
  <2>1. UNCHANGED <<AConn, ABudget, alloc, ARunning>>
        BY <1>6 DEF AConn, ABudget, ARunning
  <2> QED BY <1>1, <2>1
<1> QED BY <1>3, <1>4, <1>5, <1>6, RefinesMain DEF Next

\* The daemon is the service, for any pool, number of connections and sequence of reloads
\* outside the windows: never more connections than slots, MAX_ACCEPT in all, each one
\* answered, and the array replaced only while nobody is served.
THEOREM PoolImplementsService == SafeWindows => (Spec => ImplementsService)
<1> SUFFICES ASSUME SafeWindows PROVE Spec => ImplementsService
    OBVIOUS
<1>1. TypeInv /\ PoolInv /\ PoolInv' /\ [Next]_vars => [Service!Next]_(Service!svars)
      BY RefinesStep
<1> QED BY PoolInvariant, RefinesInit, <1>1, PTL DEF Spec, ImplementsService, Service!Spec
=============================================================================
