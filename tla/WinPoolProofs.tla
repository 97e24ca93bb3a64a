---------------------------- MODULE WinPoolProofs -----------------------------
(***************************************************************************)
(* Proofs about the Windows pool of WinPool, for every number of threads,  *)
(* of connections per thread and of clients.                               *)
(***************************************************************************)
EXTENDS WinPool, FiniteSetTheorems, TLAPS

-----------------------------------------------------------------------------
(* The inductive invariant, in parts named for what they relate.            *)

\* main indexes thState only inside it, counts nothing before its loop, stays below
\* the limit while it has a client, and creates the threads in the order of the slots.
MainInv ==
  /\ mpc \in {"create", "handle", "resume"} => idx < THREADS
  /\ mpc \in {"create", "handle"} => count = 0
  /\ mpc \in {"wait", "scan", "resume"} => count < LIMIT
  /\ mpc \in {"wait", "scan"} => clientSock \in Conns /\ client[clientSock] = "held"
  /\ mpc = "create" => \A i \in Slots : i >= idx => wpc[i] = "none"
  /\ mpc = "handle" => \A i \in Slots : i > idx => wpc[i] = "none"

\* Where a thread is not inside a conversation or on its way out of one.
Resting == {"none", "start", "suspended", "running", "suspend"}

\* What the unlocked fields of a slot hold at each point of its thread.
SlotInv ==
  \A i \in Slots :
    /\ wpc[i] \in Resting \cup {"exited"} => (state[i] <=> sock[i] = INVALID_SOCKET)
    /\ wpc[i] \in Resting /\ ~state[i] => client[sock[i]] = "assigned"
    /\ wpc[i] = "serve" => ~state[i] /\ sock[i] \in Conns /\ client[sock[i]] = "talking"
    /\ wpc[i] = "free" => ~state[i] /\ sock[i] \in Conns /\ client[sock[i]] = "answered"
    /\ wpc[i] \in {"release", "clear"} => state[i] /\ sock[i] \in Conns /\ client[sock[i]] = "answered"
    /\ wpc[i] = "exited" /\ ~state[i] => client[sock[i]] \in {"assigned", "broken"}

\* A connection that was handed over and did not end well keeps its slot; no two slots
\* hold the same one.
Holders ==
  /\ \A c \in Conns : client[c] \in {"assigned", "talking", "broken"} =>
       \E i \in Slots : sock[i] = c /\ ~state[i]
  /\ \A i, j \in Slots : sock[i] = sock[j] /\ sock[i] # INVALID_SOCKET => i = j

CoreInv == TypeOK /\ MainInv /\ SlotInv /\ Holders

\* The slots a permit may stand for.
Backing == {i \in Slots : state[i] /\ wpc[i] # "release"}

\* The permit main took in WaitForSingleObject and has not yet spent.
Held == IF mpc = "scan" THEN 1 ELSE 0

\* main counts the connections it handed over; only a worker that ends the process
\* comes between the two.
HandedOver == {c \in Conns : client[c] \in {"assigned", "talking", "answered", "broken"}}
Counted == count + (IF mpc = "resume" THEN 1 ELSE 0)
CountInv ==
  /\ IsFiniteSet(HandedOver)
  /\ mpc # "exited" => Cardinality(HandedOver) = Counted

\* What main saw before it left stays true: no thread runs any more.
StopInv == mpc = "stopped" => count = LIMIT /\ \A i \in Slots : state[i]

PoolInv == CoreInv /\ PermitsBacked /\ CountInv /\ StopInv

\* Where threads reach their suspension before main looks at them (ParkedTail), a
\* search that main began with a permit still has a free slot in front of it.
ParkedTail == "tail" \notin Preempt
SlotAhead == mpc = "scan" => \E i \in Slots : i >= idx /\ SlotIsFree(i)

-----------------------------------------------------------------------------
USE DEF MainPC, WorkerPC, Slots, vars, Resting

\* The bound on the connections is a number, and one the program can reach.
LEMMA LimitIsNat == LIMIT \in Nat /\ LIMIT > 0
BY WinPoolAssumption DEF WinPoolAssumption, LIMIT

\* One slot for each thread.
LEMMA SlotsFinite == IsFiniteSet(Slots) /\ Cardinality(Slots) = THREADS
<1>1. 0 \in Int /\ THREADS - 1 \in Int /\ THREADS \in Nat /\ THREADS > 0
      BY WinPoolAssumption DEF WinPoolAssumption
<1>2. Cardinality(0 .. THREADS - 1) = IF 0 > THREADS - 1 THEN 0 ELSE (THREADS - 1) - 0 + 1
      BY <1>1, FS_Interval
<1> QED BY <1>1, <1>2, FS_Interval

\* The pool starts with every slot free and every permit in the semaphore.
LEMMA PoolInvInit == Init => PoolInv
<1> USE WinPoolAssumption DEF WinPoolAssumption
<1> SUFFICES ASSUME Init PROVE PoolInv
    OBVIOUS
<1>1. TypeOK
      BY LimitIsNat DEF Init, TypeOK
<1>2. MainInv /\ SlotInv /\ Holders
      BY DEF Init, MainInv, SlotInv, Holders
<1>3. PermitsBacked
  <2>1. Backing = Slots /\ sem = THREADS /\ mpc = "create"
        BY DEF Init, Backing
  <2>2. sem + (IF mpc = "scan" THEN 1 ELSE 0) <= Cardinality(Backing)
        BY <2>1, SlotsFinite
  <2> QED BY <2>2 DEF PermitsBacked, Backing
<1>4. CountInv
  <2>1. HandedOver = {} /\ count = 0 /\ mpc = "create"
        BY DEF Init, HandedOver
  <2> QED BY <2>1, FS_EmptySet DEF CountInv, Counted
<1>5. StopInv
      BY DEF Init, StopInv
<1> QED BY <1>1, <1>2, <1>3, <1>4, <1>5 DEF PoolInv, CoreInv

\* Every step of main keeps the relations between main, the slots and the threads.
LEMMA CoreInvMain == ASSUME CoreInv, Main PROVE CoreInv'
<1> USE WinPoolAssumption, LimitIsNat DEF WinPoolAssumption, CoreInv, TypeOK, MainInv, SlotInv, Holders
<1> HIDE DEF LIMIT
<1>1. CASE CreateThread BY <1>1 DEF CreateThread
<1>2. CASE StoreHandle BY <1>2 DEF StoreHandle
<1>3. ASSUME NEW c \in Conns, Accept(c) PROVE CoreInv'
      BY <1>3 DEF Accept
<1>4. CASE WaitSemaphore BY <1>4 DEF WaitSemaphore
<1>5. CASE Scan
  <2>1. mpc = "scan" /\ idx \in Slots /\ clientSock \in Conns /\ client[clientSock] = "held"
        BY <1>5 DEF Scan
  <2>2. CASE SlotIsFree(idx)
    <3>1. /\ state[idx] /\ sock[idx] = INVALID_SOCKET
          /\ state' = [state EXCEPT ![idx] = FALSE] /\ sock' = [sock EXCEPT ![idx] = clientSock]
          /\ client' = [client EXCEPT ![clientSock] = "assigned"] /\ mpc' = "resume"
          /\ UNCHANGED <<idx, clientSock, count, sem, handle, wpc>>
          BY <1>5, <2>2 DEF Scan, SlotIsFree
    <3>2. wpc[idx] \in Resting \cup {"exited"}
          BY <2>1, <3>1
    <3>3. \A i \in Slots : sock[i] # clientSock
          BY <2>1
    <3>4. SlotInv'
      <4> SUFFICES ASSUME NEW i \in Slots PROVE (SlotInv!(i))'
          OBVIOUS
      <4>1. CASE i = idx BY <2>1, <3>1, <3>2, <4>1
      <4>2. CASE i # idx BY <2>1, <3>1, <3>3, <4>2
      <4> QED BY <4>1, <4>2
    <3>5. Holders'
      <4>1. ASSUME NEW c \in Conns, client'[c] \in {"assigned", "talking", "broken"}
            PROVE  \E i \in Slots : sock'[i] = c /\ ~state'[i]
        <5>1. CASE c = clientSock BY <2>1, <3>1, <5>1
        <5>2. CASE c # clientSock
          <6>1. PICK i \in Slots : sock[i] = c /\ ~state[i]
                BY <3>1, <4>1, <5>2
          <6> QED BY <3>1, <6>1
        <5> QED BY <5>1, <5>2
      <4> QED BY <2>1, <3>1, <3>3, <4>1
    <3> QED BY <2>1, <3>1, <3>4, <3>5
  <2>3. CASE ~SlotIsFree(idx)
        BY <1>5, <2>1, <2>3 DEF Scan
  <2> QED BY <2>2, <2>3
<1>6. CASE NoSlot BY <1>6 DEF NoSlot
<1>7. CASE Resume BY <1>7 DEF Resume
<1>8. CASE Stop BY <1>8 DEF Stop
<1> QED BY <1>1, <1>2, <1>3, <1>4, <1>5, <1>6, <1>7, <1>8 DEF Main

\* So does every step of a thread, whatever main is doing.
LEMMA CoreInvWorker == ASSUME CoreInv, NEW i \in Slots, Worker(i) PROVE CoreInv'
<1> USE WinPoolAssumption, LimitIsNat DEF WinPoolAssumption, CoreInv, TypeOK, MainInv, SlotInv, Holders
<1> HIDE DEF LIMIT
<1>1. CASE FirstSuspend(i) BY <1>1 DEF FirstSuspend
<1>2. CASE TakeSocket(i)
  <2>1. CASE sock[i] = INVALID_SOCKET
        BY <1>2, <2>1 DEF TakeSocket
  <2>2. CASE sock[i] # INVALID_SOCKET
    <3> DEFINE c == sock[i]
    <3>1. c \in Conns /\ ~state[i] /\ client[c] = "assigned"
          BY <1>2, <2>2 DEF TakeSocket
    <3>2. /\ wpc' = [wpc EXCEPT ![i] = "serve"] /\ client' = [client EXCEPT ![c] = "talking"]
          /\ UNCHANGED <<mpc, idx, clientSock, count, sem, state, sock, handle>>
          BY <1>2, <2>2 DEF TakeSocket
    <3>3. \A j \in Slots : j # i => sock[j] # c
          BY <2>2
    <3>4. SlotInv'
      <4> SUFFICES ASSUME NEW j \in Slots PROVE (SlotInv!(j))'
          OBVIOUS
      <4>1. CASE j = i BY <3>1, <3>2, <4>1
      <4>2. CASE j # i BY <3>2, <3>3, <4>2
      <4> QED BY <4>1, <4>2
    <3>5. Holders'
      <4>1. ASSUME NEW d \in Conns, client'[d] \in {"assigned", "talking", "broken"}
            PROVE  \E j \in Slots : sock'[j] = d /\ ~state'[j]
        <5>1. CASE d = c BY <3>1, <3>2, <5>1
        <5>2. CASE d # c BY <3>2, <4>1, <5>2
        <5> QED BY <5>1, <5>2
      <4> QED BY <3>2, <4>1
    <3>6. TypeOK'
          BY <3>1, <3>2
    <3>7. MainInv'
      <4>1. clientSock = c => mpc \notin {"wait", "scan"}
            BY <3>1
      <4>2. \A j \in Slots : wpc[j] = "none" => wpc'[j] = "none"
            BY <1>2, <3>2 DEF TakeSocket
      <4> QED BY <3>1, <3>2, <4>1, <4>2
    <3> HIDE DEF TypeOK, MainInv, SlotInv, Holders
    <3> QED BY <3>4, <3>5, <3>6, <3>7
  <2> QED BY <2>1, <2>2
<1>3. CASE Converse(i) BY <1>3 DEF Converse
<1>4. CASE ConversationFails(i) BY <1>4 DEF ConversationFails
<1>5. CASE ProcessFails(i) BY <1>5 DEF ProcessFails
<1>6. CASE FreeSlot(i) BY <1>6 DEF FreeSlot
<1>7. CASE Release(i) BY <1>7 DEF Release
<1>8. CASE ClearSocket(i) BY <1>8 DEF ClearSocket
<1>9. CASE SuspendSelf(i) BY <1>9 DEF SuspendSelf
<1> QED BY <1>1, <1>2, <1>3, <1>4, <1>5, <1>6, <1>7, <1>8, <1>9 DEF Worker

\* So does a client that connects, and a step of nobody.
LEMMA CoreInvStep == CoreInv /\ [Next]_vars => CoreInv'
<1> SUFFICES ASSUME CoreInv, [Next]_vars PROVE CoreInv'
    OBVIOUS
<1>1. ASSUME NEW c \in Conns, Connect(c) PROVE CoreInv'
      BY <1>1, WinPoolAssumption DEF Connect, WinPoolAssumption, CoreInv, TypeOK, MainInv, SlotInv, Holders
<1>2. CASE UNCHANGED vars
      BY <1>2 DEF CoreInv, TypeOK, MainInv, SlotInv, Holders
<1> QED BY <1>1, <1>2, CoreInvMain, CoreInvWorker DEF Next

\* The order of the sums below, for numbers the backends know to be numbers.
LEMMA SumsInOrder ==
  \A a, b, c, d, e \in Int :
    a + b <= e /\ ((c = a /\ d <= b) \/ c + d = a + b) => c + d <= e
OBVIOUS

\* A permit never outnumbers the slots it stands for.
LEMMA PermitsStep == ASSUME CoreInv, PermitsBacked, [Next]_vars PROVE PermitsBacked'
<1> DEFINE B == Cardinality(Backing)
<1>1. sem + Held <= B
      BY DEF PermitsBacked, Backing, Held
<1>2. /\ Backing \subseteq Slots /\ Backing' \subseteq Slots
      /\ IsFiniteSet(Backing) /\ IsFiniteSet(Backing') /\ B \in Nat /\ B' \in Nat
  <2>1. Backing \subseteq Slots /\ Backing' \subseteq Slots
        BY DEF Backing
  <2> QED BY <2>1, SlotsFinite, FS_Subset, FS_CardinalityType
<1>3. sem \in Nat /\ sem' \in Nat /\ Held \in Nat /\ Held' \in Nat
  <2>1. CoreInv'
        BY CoreInvStep
  <2> QED BY <2>1, WinPoolAssumption DEF WinPoolAssumption, Held, CoreInv, TypeOK
<1> SUFFICES sem' + Held' <= B'
    BY DEF PermitsBacked, Backing, Held
<1>4. ASSUME Backing' = Backing, (sem' = sem /\ Held' <= Held) \/ sem' + Held' = sem + Held
      PROVE  sem' + Held' <= B'
  <2>1. B' = B
        BY <1>4
  <2> HIDE DEF B
  <2>2. sem \in Int /\ Held \in Int /\ sem' \in Int /\ Held' \in Int /\ B \in Int
        BY <1>2, <1>3
  <2>3. sem' + Held' <= B
        BY <1>1, <1>4, <2>2, SumsInOrder
  <2> QED BY <2>1, <2>3
<1> USE DEF CoreInv, TypeOK
<1>5. ASSUME UNCHANGED <<state, wpc>> PROVE Backing' = Backing
      BY <1>5 DEF Backing
<1>6. CASE CreateThread
  <2>1. wpc[idx] # "release"
        BY <1>6, WinPoolAssumption DEF WinPoolAssumption, CreateThread, MainInv
  <2>2. Backing' = Backing
        BY <1>6, <2>1 DEF Held, CreateThread, Backing
  <2> QED BY <1>4, <1>6, <2>2 DEF Held, CreateThread
<1>7. CASE StoreHandle \/ NoSlot \/ Stop
  <2>1. sem' = sem /\ Held' <= Held /\ UNCHANGED <<state, wpc>>
        BY <1>7 DEF Held, StoreHandle, NoSlot, Stop
  <2> QED BY <1>3, <1>4, <1>5, <2>1
<1>8. ASSUME NEW c \in Conns, Accept(c) \/ Connect(c) PROVE sem' + Held' <= B'
  <2>1. sem' = sem /\ Held' = Held /\ UNCHANGED <<state, wpc>>
        BY <1>8 DEF Held, Accept, Connect
  <2> QED BY <1>3, <1>4, <1>5, <2>1
<1>9. CASE WaitSemaphore
      BY <1>3, <1>4, <1>5, <1>9 DEF Held, WaitSemaphore
<1>10. CASE Scan
  <2>1. CASE SlotIsFree(idx)
    <3>1. Held = 1 /\ Held' = 0 /\ state' = [state EXCEPT ![idx] = FALSE] /\ UNCHANGED <<sem, wpc>>
          BY <1>10, <2>1 DEF Held, Scan
    <3>2. Backing' = Backing \ {idx}
          BY <3>1 DEF Backing
    <3>3. B' >= B - 1
          BY <1>2, <3>2, FS_RemoveElement
    <3> QED BY <1>1, <1>2, <1>3, <3>1, <3>3
  <2>2. CASE ~SlotIsFree(idx)
        BY <1>3, <1>4, <1>5, <1>10, <2>2 DEF Held, Scan
  <2> QED BY <2>1, <2>2
<1>11. CASE Resume
  <2>1. Backing' = Backing
        BY <1>11 DEF Held, Resume, Backing
  <2> QED BY <1>3, <1>4, <1>11, <2>1 DEF Held, Resume
<1>12. ASSUME NEW i \in Slots, Worker(i) PROVE sem' + Held' <= B'
  <2>1. CASE Release(i)
    <3>1. /\ wpc[i] = "release" /\ state[i] /\ wpc' = [wpc EXCEPT ![i] = "clear"]
          /\ sem' <= sem + 1 /\ sem' \in Nat /\ Held' = Held /\ UNCHANGED state
          BY <1>3, <2>1 DEF Held, Release, SlotInv
    <3>2. Backing' = Backing \cup {i} /\ i \notin Backing
          BY <3>1 DEF Backing
    <3>3. B' = B + 1
          BY <1>2, <3>2, FS_AddElement
    <3> QED BY <1>1, <1>2, <1>3, <3>1, <3>3
  <2>2. CASE FreeSlot(i)
    <3>1. wpc[i] = "free" /\ ~state[i] /\ wpc'[i] = "release" /\ Held' = Held /\ UNCHANGED sem
          /\ \A j \in Slots : j # i => wpc'[j] = wpc[j] /\ state'[j] = state[j]
          BY <2>2 DEF Held, FreeSlot, SlotInv
    <3>2. Backing' = Backing
          BY <3>1 DEF Backing
    <3> QED BY <1>3, <1>4, <3>1, <3>2
  <2>3. ASSUME wpc[i] # "release", UNCHANGED <<state, sem>>, Held' <= Held,
               NEW l \in WorkerPC \ {"release"}, wpc' = [wpc EXCEPT ![i] = l]
        PROVE  sem' + Held' <= B'
    <3>1. Backing' = Backing
          BY <2>3 DEF Backing
    <3> QED BY <1>3, <1>4, <2>3, <3>1
  <2>4. CASE FirstSuspend(i) \/ TakeSocket(i) \/ Converse(i)
        BY <2>3, <2>4 DEF Held, FirstSuspend, TakeSocket, Converse
  <2>5. CASE ConversationFails(i) \/ ProcessFails(i) \/ ClearSocket(i) \/ SuspendSelf(i)
        BY <2>3, <2>5 DEF Held, ConversationFails, ProcessFails, ClearSocket, SuspendSelf
  <2> QED BY <1>12, <2>1, <2>2, <2>4, <2>5 DEF Worker
<1>13. CASE UNCHANGED vars
      BY <1>3, <1>4, <1>5, <1>13 DEF Held
<1> QED BY <1>6, <1>7, <1>8, <1>9, <1>10, <1>11, <1>12, <1>13 DEF Next, Main

\* main counts every connection it hands over, and no conversation takes one back.
LEMMA CountStep == ASSUME CoreInv, CountInv, [Next]_vars PROVE CountInv'
<1> USE WinPoolAssumption DEF WinPoolAssumption, CoreInv, TypeOK
<1>1. ASSUME HandedOver' = HandedOver, mpc' = "exited" \/ (mpc # "exited" /\ Counted' = Counted)
      PROVE  CountInv'
      BY <1>1 DEF CountInv
<1>2. ASSUME mpc' \notin {"resume", "exited"}, mpc \notin {"resume", "exited"}, UNCHANGED <<count, client>>
      PROVE  CountInv'
      BY <1>1, <1>2 DEF Counted, HandedOver
<1>3. CASE CreateThread \/ StoreHandle \/ WaitSemaphore \/ Stop
      BY <1>2, <1>3 DEF CreateThread, StoreHandle, WaitSemaphore, Stop
<1>4. ASSUME NEW c \in Conns, Accept(c) PROVE CountInv'
  <2>1. HandedOver' = HandedOver
        BY <1>4 DEF Accept, HandedOver
  <2> QED BY <1>1, <1>4, <2>1 DEF Accept, Counted
<1>5. CASE Scan
  <2>1. mpc = "scan" /\ clientSock \in Conns /\ client[clientSock] = "held" /\ count' = count
        BY <1>5 DEF Scan, MainInv
  <2>2. CASE SlotIsFree(idx)
    <3>1. client' = [client EXCEPT ![clientSock] = "assigned"] /\ mpc' = "resume"
          BY <1>5, <2>2 DEF Scan
    <3>2. HandedOver' = HandedOver \cup {clientSock} /\ clientSock \notin HandedOver
          BY <2>1, <3>1 DEF HandedOver
    <3>3. Counted = count /\ Counted' = count + 1 /\ mpc # "exited"
          BY <2>1, <3>1 DEF Counted
    <3> QED BY <3>2, <3>3, FS_AddElement DEF CountInv
  <2>3. CASE ~SlotIsFree(idx)
        BY <1>2, <1>5, <2>1, <2>3 DEF Scan
  <2> QED BY <2>2, <2>3
<1>6. CASE NoSlot
  <2>1. HandedOver' = HandedOver
        BY <1>6 DEF NoSlot, HandedOver, MainInv
  <2> QED BY <1>1, <1>6, <2>1 DEF NoSlot, Counted
<1>7. CASE Resume
  <2>1. HandedOver' = HandedOver
        BY <1>7 DEF Resume, HandedOver
  <2> QED BY <1>1, <1>7, <2>1, LimitIsNat DEF Resume, Counted
<1>8. ASSUME NEW i \in Slots, Worker(i) PROVE CountInv'
  <2>1. HandedOver' = HandedOver
    <3>1. CASE TakeSocket(i) BY <3>1 DEF TakeSocket, HandedOver, SlotInv
    <3>2. CASE Converse(i) BY <3>2 DEF Converse, HandedOver, SlotInv
    <3>3. CASE ConversationFails(i) BY <3>3 DEF ConversationFails, HandedOver, SlotInv
    <3>4. CASE ProcessFails(i) BY <3>4 DEF ProcessFails, HandedOver, SlotInv
    <3>5. CASE FirstSuspend(i) \/ FreeSlot(i) \/ Release(i) \/ ClearSocket(i) \/ SuspendSelf(i)
          BY <3>5 DEF FirstSuspend, FreeSlot, Release, ClearSocket, SuspendSelf, HandedOver
    <3> QED BY <1>8, <3>1, <3>2, <3>3, <3>4, <3>5 DEF Worker
  <2>2. mpc # "exited" /\ (mpc' = "exited" \/ UNCHANGED <<mpc, count>>)
        BY <1>8 DEF Worker, Alive, FirstSuspend, TakeSocket, Converse, ConversationFails,
                    ProcessFails, FreeSlot, Release, ClearSocket, SuspendSelf
  <2> QED BY <1>1, <2>1, <2>2 DEF Counted
<1>9. ASSUME NEW c \in Conns, Connect(c) PROVE CountInv'
  <2>1. HandedOver' = HandedOver
        BY <1>9 DEF Connect, HandedOver
  <2> QED BY <1>1, <1>9, <2>1 DEF Connect, Counted, Alive
<1>10. CASE UNCHANGED vars
  <2>1. HandedOver' = HandedOver /\ Counted' = Counted
        BY <1>10 DEF HandedOver, Counted
  <2> QED BY <1>1, <1>10, <2>1
<1> QED BY <1>3, <1>4, <1>5, <1>6, <1>7, <1>8, <1>9, <1>10 DEF Next, Main

\* Nothing happens after main left the loop of accept().
LEMMA StopStep == ASSUME CoreInv, StopInv, [Next]_vars PROVE StopInv'
<1> USE DEF StopInv
<1>1. CASE Stop
      BY <1>1, LimitIsNat DEF Stop, CoreInv, TypeOK
<1>2. ASSUME mpc # "stopped", mpc' # "stopped" PROVE StopInv'
      BY <1>2
<1>3. CASE CreateThread \/ StoreHandle \/ WaitSemaphore \/ Scan \/ NoSlot \/ Resume
      BY <1>2, <1>3 DEF CreateThread, StoreHandle, WaitSemaphore, Scan, NoSlot, Resume
<1>4. ASSUME NEW c \in Conns, Accept(c) \/ Connect(c) PROVE StopInv'
      BY <1>2, <1>4 DEF Accept, Connect, Alive
<1>5. ASSUME NEW i \in Slots, Worker(i) PROVE StopInv'
      BY <1>2, <1>5 DEF Worker, Alive, FirstSuspend, TakeSocket, Converse, ConversationFails,
                        ProcessFails, FreeSlot, Release, ClearSocket, SuspendSelf
<1>6. CASE UNCHANGED vars BY <1>6
<1> QED BY <1>1, <1>3, <1>4, <1>5, <1>6 DEF Next, Main

\* The invariant holds in every state of every behaviour.
LEMMA PoolInvHolds == Spec => []PoolInv
<1>1. PoolInv /\ [Next]_vars => PoolInv'
      BY CoreInvStep, PermitsStep, CountStep, StopStep DEF PoolInv
<1> QED BY PoolInvInit, <1>1, PTL DEF Spec

\* Every variable of main and of its threads stays within its type: no step indexes
\* thState outside it and the semaphore never counts beyond its maximum.
THEOREM TypeCorrect == Spec => []TypeOK
<1>1. PoolInv => TypeOK
      BY DEF PoolInv, CoreInv
<1> QED BY PoolInvHolds, <1>1, PTL

\* WaitForSingleObject in main and ReleaseSemaphore in the threads: a permit always
\* stands for a slot of its own that is not in use.
THEOREM PermitsAlwaysBacked == Spec => []PermitsBacked
<1>1. PoolInv => PermitsBacked
      BY DEF PoolInv
<1> QED BY PoolInvHolds, <1>1, PTL

\* The hand-over through the unlocked fields of struct thread never gives a connection
\* to two threads, or takes one from its thread.
THEOREM AlwaysExclusive == Spec => []ExclusiveService
<1>1. PoolInv => ExclusiveService
      BY DEF PoolInv, CoreInv, SlotInv, Holders, ExclusiveService
<1> QED BY PoolInvHolds, <1>1, PTL

\* The busy loop at the end of main: the server ends by itself only after LIMIT
\* conversations that all came to their end.
THEOREM EndsWhenDone == Spec => []TerminatesWhenDone
<1>1. PoolInv => TerminatesWhenDone
  <2> SUFFICES ASSUME PoolInv, mpc = "stopped"
               PROVE  /\ count = LIMIT
                      /\ Cardinality({c \in Conns : client[c] = "answered"}) = LIMIT
                      /\ \A c \in Conns : client[c] \notin {"assigned", "talking"}
      BY DEF TerminatesWhenDone
  <2>1. count = LIMIT /\ \A c \in Conns : client[c] \notin {"assigned", "talking", "broken"}
        BY DEF PoolInv, CoreInv, StopInv, Holders
  <2>2. HandedOver = {c \in Conns : client[c] = "answered"}
        BY <2>1 DEF HandedOver
  <2>3. Cardinality(HandedOver) = count
        BY <2>1, LimitIsNat DEF PoolInv, CountInv, Counted
  <2> QED BY <2>1, <2>2, <2>3
<1> QED BY PoolInvHolds, <1>1, PTL

-----------------------------------------------------------------------------
(* No connection is dropped, where the threads keep up.                     *)

\* A permit taken with every thread at rest stands for a slot with nothing in it, and
\* only main itself fills one.
LEMMA SlotAheadStep ==
  ASSUME ParkedTail, PoolInv, SlotAhead, [Next]_vars PROVE SlotAhead'
<1> USE WinPoolAssumption DEF WinPoolAssumption, PoolInv, CoreInv, TypeOK, SlotAhead
<1>1. ASSUME mpc' # "scan" PROVE SlotAhead'
      BY <1>1
<1>2. ASSUME UNCHANGED <<mpc, idx>>, \A i \in Slots : SlotIsFree(i) => SlotIsFree(i)'
      PROVE  SlotAhead'
      BY <1>2
<1>3. CASE WaitSemaphore
  <2>1. Backing # {}
    <3>1. mpc = "wait" /\ sem > 0 /\ sem \in Nat
          BY <1>3 DEF WaitSemaphore
    <3>2. sem + 0 <= Cardinality({i \in Slots : state[i] /\ wpc[i] # "release"})
          BY <3>1 DEF PermitsBacked
    <3> HIDE DEF PoolInv
    <3>3. ASSUME Backing = {} PROVE FALSE
      <4>1. sem + 0 <= 0
            BY <3>2, <3>3, FS_EmptySet DEF Backing
      <4> QED BY <3>1, <4>1
    <3> QED BY <3>3
  <2>2. PICK i \in Slots : state[i] /\ wpc[i] # "release"
        BY <2>1 DEF Backing
  <2>3. wpc[i] \in Resting \cup {"exited"}
        BY <1>3, <2>2 DEF WaitSemaphore, WorkersParked, ParkedTail, SlotInv
  <2>4. SlotIsFree(i)
        BY <2>2, <2>3 DEF SlotIsFree, SlotInv
  <2> QED BY <1>3, <2>4 DEF WaitSemaphore, SlotIsFree
<1>4. CASE Scan
  <2>1. CASE SlotIsFree(idx)
        BY <1>1, <1>4, <2>1 DEF Scan
  <2>2. CASE ~SlotIsFree(idx)
    <3>1. PICK i \in Slots : i >= idx /\ SlotIsFree(i)
          BY <1>4 DEF Scan
    <3>2. i >= idx + 1
          BY <2>2, <3>1
    <3>3. idx' = idx + 1 /\ UNCHANGED <<state, sock>>
          BY <1>4, <2>2 DEF Scan
    <3> QED BY <3>1, <3>2, <3>3 DEF SlotIsFree
  <2> QED BY <2>1, <2>2
<1>5. CASE CreateThread \/ StoreHandle \/ NoSlot \/ Resume \/ Stop
      BY <1>1, <1>5 DEF CreateThread, StoreHandle, NoSlot, Resume, Stop
<1>6. ASSUME NEW c \in Conns, Accept(c) PROVE SlotAhead'
      BY <1>1, <1>6 DEF Accept
<1>7. ASSUME NEW c \in Conns, Connect(c) PROVE SlotAhead'
      BY <1>2, <1>7 DEF Connect, SlotIsFree
<1>8. ASSUME NEW i \in Slots, Worker(i) PROVE SlotAhead'
  <2>1. mpc' = "exited" \/ UNCHANGED <<mpc, idx>>
        BY <1>8 DEF Worker, FirstSuspend, TakeSocket, Converse, ConversationFails,
                    ProcessFails, FreeSlot, Release, ClearSocket, SuspendSelf
  <2>2. \A j \in Slots : SlotIsFree(j) => SlotIsFree(j)'
        BY <1>8 DEF SlotIsFree, Worker, FirstSuspend, TakeSocket, Converse, ConversationFails,
                    ProcessFails, FreeSlot, Release, ClearSocket, SuspendSelf
  <2> QED BY <1>1, <1>2, <2>1, <2>2
<1>9. CASE UNCHANGED vars
      BY <1>2, <1>9 DEF SlotIsFree
<1> QED BY <1>3, <1>4, <1>5, <1>6, <1>7, <1>8, <1>9 DEF Next, Main

\* The search then finds its slot, so the way out of the loop is never taken.
LEMMA NoSlotNever == ASSUME PoolInv, SlotAhead PROVE ~NoSlot
BY WinPoolAssumption DEF WinPoolAssumption, SlotAhead, NoSlot

\* The loop over thState in main: a connection that was accepted gets a thread, as
\* long as a thread on its way to SuspendThread gets there before main looks at it.
THEOREM NeverDropped == ParkedTail => (Spec => []NoConnectionDropped)
<1> SUFFICES ASSUME ParkedTail PROVE Spec => []NoConnectionDropped
    OBVIOUS
<1> DEFINE Inv == PoolInv /\ SlotAhead /\ NoConnectionDropped
<1>1. Init => SlotAhead /\ NoConnectionDropped
      BY DEF Init, SlotAhead, NoConnectionDropped
<1>2. PoolInv /\ SlotAhead /\ [Next]_vars => SlotAhead'
      BY SlotAheadStep
<1>3. PoolInv /\ SlotAhead /\ NoConnectionDropped /\ [Next]_vars => NoConnectionDropped'
  <2> SUFFICES ASSUME PoolInv, SlotAhead, NoConnectionDropped, [Next]_vars
               PROVE  NoConnectionDropped'
      OBVIOUS
  <2> USE DEF NoConnectionDropped
  <2>1. client \in [Conns -> {"new", "queued", "held", "assigned", "talking", "answered", "broken", "dropped"}]
        BY DEF PoolInv, CoreInv, TypeOK
  <2>2. ASSUME NEW c, NEW l \in {"queued", "held", "assigned", "talking", "answered", "broken"},
               client' = [client EXCEPT ![c] = l]
        PROVE  NoConnectionDropped'
        BY <2>1, <2>2
  <2>3. CASE UNCHANGED client BY <2>3
  <2>4. CASE Main
    <3>1. ASSUME NEW c \in Conns, Accept(c) PROVE NoConnectionDropped'
          BY <2>2, <3>1 DEF Accept
    <3>2. CASE Scan BY <2>2, <2>3, <3>2 DEF Scan
    <3>3. CASE CreateThread \/ StoreHandle \/ WaitSemaphore \/ Resume \/ Stop
          BY <2>3, <3>3 DEF CreateThread, StoreHandle, WaitSemaphore, Resume, Stop
    <3> QED BY <2>4, <3>1, <3>2, <3>3, NoSlotNever DEF Main
  <2>5. ASSUME NEW i \in Slots, Worker(i) PROVE NoConnectionDropped'
        BY <2>2, <2>3, <2>5 DEF Worker, FirstSuspend, TakeSocket, Converse, ConversationFails,
                    ProcessFails, FreeSlot, Release, ClearSocket, SuspendSelf
  <2>6. ASSUME NEW c \in Conns, Connect(c) PROVE NoConnectionDropped'
        BY <2>2, <2>6 DEF Connect
  <2>7. CASE UNCHANGED vars BY <2>3, <2>7
  <2> QED BY <2>4, <2>5, <2>6, <2>7 DEF Next
<1> QED BY PoolInvHolds, <1>1, <1>2, <1>3, PTL DEF Spec

-----------------------------------------------------------------------------
(* The pool implements the service, where no client fails half-way.         *)

\* The state of the service that a state of the pool stands for.
AConn == [c \in Conns |-> Phase[client[c]]]
ABudget == LIMIT - count - (IF mpc = "resume" THEN 1 ELSE 0)
ACapacity == IF mpc \in {"create", "handle"} THEN 0 ELSE THREADS
ARunning == mpc # "stopped"
AServed == {c \in Conns : client[c] \in {"assigned", "talking"}}

\* The words of the service for what became of a connection.
LEMMA Phases ==
  /\ Phase["new"] = "waiting" /\ Phase["queued"] = "waiting" /\ Phase["held"] = "waiting"
  /\ Phase["assigned"] = "served" /\ Phase["talking"] = "served"
  /\ Phase["answered"] = "answered" /\ Phase["broken"] = "broken" /\ Phase["dropped"] = "dropped"
BY DEF Phase

\* Things that each have a place of their own are no more than the places.
LEMMA PlacesBound ==
  ASSUME NEW S, NEW T, IsFiniteSet(T), NEW f, \A c \in S : \E i \in T : f[i] = c
  PROVE  IsFiniteSet(S) /\ Cardinality(S) <= Cardinality(T)
<1> DEFINE place == [c \in S |-> CHOOSE i \in T : f[i] = c]
<1>1. \A c \in S : place[c] \in T /\ f[place[c]] = c
      OBVIOUS
<1>2. place \in [S -> T]
      BY <1>1
<1> HIDE DEF place
<1>3. place \in Injection(S, T)
      BY <1>1, <1>2 DEF Injection, IsInjective
<1> QED BY <1>3, FS_Injection

\* The service counts as the pool does.
LEMMA SameCardinality == \A S : Service!Cardinality(S) = Cardinality(S)
BY DEF Service!Cardinality, Cardinality

\* What a client of the service sees of the connections.
LEMMA ServedConns == TypeOK => Service!Served = AServed
<1> SUFFICES ASSUME TypeOK, NEW c \in Conns
             PROVE  AConn[c] = "served" <=> client[c] \in {"assigned", "talking"}
    BY DEF Service!Served, AServed, AConn
<1>1. client[c] \in {"new", "queued", "held", "assigned", "talking", "answered", "broken", "dropped"}
      BY DEF TypeOK
<1> QED BY <1>1, Phases DEF AConn

\* main does not fill a slot while all of them are in use.
LEMMA RoomForOne ==
  ASSUME PoolInv, NEW i \in Slots, SlotIsFree(i)
  PROVE  Cardinality(AServed) < THREADS
<1>1. \A c \in AServed : \E j \in Slots \ {i} : sock[j] = c
      BY DEF PoolInv, CoreInv, Holders, AServed, SlotIsFree
<1>2. IsFiniteSet(Slots \ {i}) /\ Cardinality(Slots \ {i}) = THREADS - 1
      BY SlotsFinite, FS_RemoveElement
<1>3. IsFiniteSet(AServed) /\ Cardinality(AServed) <= THREADS - 1
      BY <1>1, <1>2, PlacesBound
<1> QED BY <1>3, FS_CardinalityType, WinPoolAssumption DEF WinPoolAssumption

\* A pool that was not started yet serves nobody.
LEMMA RefinesInit == Init => Service!Init
<1> SUFFICES ASSUME Init PROVE Service!Init
    OBVIOUS
<1>1. \A c \in Conns : Phase[client[c]] = "waiting"
      BY Phases DEF Init
<1>2. LIMIT - count - (IF mpc = "resume" THEN 1 ELSE 0) = LIMIT
      BY LimitIsNat DEF Init
<1> QED BY <1>1, <1>2 DEF Init, Service!Init

\* Every step of the pool is one of the service, or nothing the service shows.
LEMMA RefinesStep ==
  ASSUME ParkedTail, ~ClientsFail, PoolInv, SlotAhead, [Next]_vars
  PROVE  [Service!Next]_(Service!svars)
<1> USE WinPoolAssumption, LimitIsNat DEF WinPoolAssumption
<1> DEFINE StateOf == {"new", "queued", "held", "assigned", "talking", "answered", "broken", "dropped"}
<1>0. TypeOK /\ TypeOK' /\ client \in [Conns -> StateOf]
      BY CoreInvStep DEF PoolInv, CoreInv, TypeOK
<1>1. ASSUME UNCHANGED <<AConn, ABudget, ACapacity, ARunning>> PROVE [Service!Next]_(Service!svars)
      BY <1>1 DEF AConn, ABudget, ACapacity, ARunning, Service!svars
<1>2. ASSUME UNCHANGED client PROVE UNCHANGED AConn
      BY <1>2 DEF AConn
<1>3. ASSUME NEW c \in Conns, NEW l, client' = [client EXCEPT ![c] = l], Phase[l] = Phase[client[c]]
      PROVE  UNCHANGED AConn
      BY <1>0, <1>3 DEF AConn
<1>4. ASSUME NEW c \in Conns, NEW l, client' = [client EXCEPT ![c] = l]
      PROVE  AConn' = [AConn EXCEPT ![c] = Phase[l]]
      BY <1>0, <1>4 DEF AConn
<1>5. CASE CreateThread \/ WaitSemaphore
      BY <1>1, <1>2, <1>5 DEF CreateThread, WaitSemaphore, ABudget, ACapacity, ARunning
<1>6. CASE StoreHandle
  <2>1. UNCHANGED client /\ UNCHANGED <<ABudget, ARunning>>
        BY <1>6 DEF StoreHandle, ABudget, ARunning
  <2>2. CASE mpc' = "create"
        BY <1>1, <1>2, <1>6, <2>1, <2>2 DEF StoreHandle, ACapacity
  <2>3. CASE mpc' = "accept"
    <3>1. HandedOver = {}
      <4>1. Cardinality(HandedOver) = 0 /\ IsFiniteSet(HandedOver)
            BY <1>6 DEF StoreHandle, PoolInv, CoreInv, MainInv, CountInv, Counted
      <4> QED BY <4>1, FS_EmptySet
    <3>2. AServed = {}
          BY <3>1 DEF AServed, HandedOver
    <3>3. AConn' = [c \in Conns |-> IF c \in {} THEN "refused" ELSE AConn[c]]
          BY <1>2, <2>1 DEF AConn
    <3>4. ARunning /\ ACapacity' \in Nat
          BY <1>6, <2>3 DEF StoreHandle, ARunning, ACapacity
    <3>5. Service!Reconfigure
          BY <1>0, <2>1, <3>2, <3>3, <3>4, ServedConns
          DEF Service!Reconfigure, AConn, ABudget, ACapacity, ARunning
    <3> QED BY <3>5 DEF Service!Next
  <2> QED BY <1>6, <2>2, <2>3 DEF StoreHandle
<1>7. ASSUME NEW c \in Conns, Accept(c) \/ Connect(c) PROVE [Service!Next]_(Service!svars)
  <2>1. UNCHANGED AConn
        BY <1>3, <1>7, Phases DEF Accept, Connect
  <2> QED BY <1>1, <1>7, <2>1 DEF Accept, Connect, ABudget, ACapacity, ARunning
<1>8. CASE Scan
  <2>1. CASE SlotIsFree(idx)
    <3>1. idx \in Slots /\ clientSock \in Conns /\ client[clientSock] = "held" /\ count < LIMIT
          BY <1>0, <1>8 DEF Scan, PoolInv, CoreInv, MainInv, TypeOK
    <3>2. /\ mpc = "scan" /\ mpc' = "resume" /\ count' = count
          /\ client' = [client EXCEPT ![clientSock] = "assigned"]
          BY <1>8, <2>1 DEF Scan
    <3>3. PICK c \in Conns : c = clientSock
          BY <3>1
    <3>4. AConn[c] = "waiting" /\ AConn' = [AConn EXCEPT ![c] = "served"]
      <4>1. AConn[c] = "waiting"
            BY <3>1, <3>3, Phases DEF AConn
      <4>2. AConn' = [AConn EXCEPT ![c] = Phase["assigned"]]
            BY <1>4, <3>2, <3>3
      <4> QED BY <4>1, <4>2, Phases
    <3>5. ABudget > 0 /\ ABudget' = ABudget - 1 /\ ARunning /\ ARunning' /\ ACapacity = THREADS /\ ACapacity' = THREADS
          BY <1>0, <3>1, <3>2 DEF ABudget, ACapacity, ARunning, TypeOK
    <3>6. Service!Cardinality(Service!Served) < ACapacity
          BY <1>0, <2>1, <3>1, <3>5, RoomForOne, ServedConns, SameCardinality
    <3>7. Service!Admit(c)
          BY <3>4, <3>5, <3>6 DEF Service!Admit, AConn, ABudget, ACapacity, ARunning
    <3> QED BY <3>7 DEF Service!Next
  <2>2. CASE ~SlotIsFree(idx)
        BY <1>1, <1>2, <1>8, <2>2 DEF Scan, ABudget, ACapacity, ARunning
  <2> QED BY <2>1, <2>2
<1>9. CASE NoSlot
      BY <1>9, NoSlotNever
<1>10. CASE Resume
  <2>1. UNCHANGED <<ABudget, ACapacity, ARunning>>
        BY <1>0, <1>10 DEF Resume, ABudget, ACapacity, ARunning, TypeOK
  <2> QED BY <1>1, <1>2, <1>10, <2>1 DEF Resume
<1>11. CASE Stop
  <2>1. AServed = {}
        BY <1>11 DEF Stop, AServed, PoolInv, CoreInv, Holders
  <2>2. ABudget = 0 /\ ARunning /\ ~ARunning' /\ UNCHANGED <<ABudget, ACapacity>>
        BY <1>0, <1>11 DEF Stop, ABudget, ARunning, ACapacity, TypeOK
  <2>3. UNCHANGED AConn
        BY <1>2, <1>11 DEF Stop
  <2>4. Service!Terminate
        BY <1>0, <2>1, <2>2, <2>3, ServedConns DEF Service!Terminate, AConn, ABudget, ACapacity, ARunning
  <2> QED BY <2>4 DEF Service!Next
<1>12. ASSUME NEW i \in Slots, Worker(i) PROVE [Service!Next]_(Service!svars)
  <2>1. UNCHANGED <<mpc, count>> /\ mpc # "stopped" /\ UNCHANGED <<ABudget, ACapacity, ARunning>>
        BY <1>12 DEF Worker, Alive, FirstSuspend, TakeSocket, Converse, ConversationFails, ProcessFails,
                     FreeSlot, Release, ClearSocket, SuspendSelf, ABudget, ACapacity, ARunning
  <2>2. CASE UNCHANGED client
        BY <1>1, <1>2, <2>1, <2>2
  <2>3. CASE TakeSocket(i) /\ sock[i] # INVALID_SOCKET
    <3>1. sock[i] \in Conns /\ client[sock[i]] = "assigned" /\ client' = [client EXCEPT ![sock[i]] = "talking"]
          BY <1>0, <2>3 DEF TakeSocket, PoolInv, CoreInv, SlotInv, TypeOK
    <3>2. UNCHANGED AConn
          BY <1>3, <3>1, Phases
    <3> QED BY <1>1, <2>1, <3>2
  <2>4. CASE Converse(i)
    <3>1. PICK c \in Conns : c = sock[i] /\ client[c] = "talking" /\ client' = [client EXCEPT ![c] = "answered"]
          BY <2>4 DEF Converse, PoolInv, CoreInv, SlotInv
    <3>2. AConn[c] = "served" /\ AConn' = [AConn EXCEPT ![c] = "answered"] /\ ARunning
      <4>1. AConn[c] = "served" /\ ARunning
            BY <2>1, <3>1, Phases DEF AConn, ARunning
      <4>2. AConn' = [AConn EXCEPT ![c] = Phase["answered"]]
            BY <1>4, <3>1
      <4> QED BY <4>1, <4>2, Phases
    <3>3. Service!Answer(c)
          BY <2>1, <3>2 DEF Service!Answer, AConn, ABudget, ACapacity, ARunning
    <3> QED BY <3>3 DEF Service!Next
  <2> QED BY <1>12, <2>2, <2>3, <2>4 DEF Worker, FirstSuspend, TakeSocket, ConversationFails, ProcessFails,
                                         FreeSlot, Release, ClearSocket, SuspendSelf
<1>13. CASE UNCHANGED vars
  <2>1. UNCHANGED <<AConn, ABudget, ACapacity, ARunning>>
        BY <1>13 DEF vars, AConn, ABudget, ACapacity, ARunning
  <2> QED BY <1>1, <2>1
<1> QED BY <1>5, <1>6, <1>7, <1>8, <1>9, <1>10, <1>11, <1>12, <1>13 DEF Next, Main

\* The Windows server is the service the Linux daemon is, for any number of threads:
\* at most THREADS connections at a time, LIMIT in all, every one answered before it
\* ends; as long as the clients do not fail and the threads keep up.
THEOREM PoolImplementsService == ParkedTail /\ ~ClientsFail => (Spec => ImplementsService)
<1> SUFFICES ASSUME ParkedTail, ~ClientsFail PROVE Spec => ImplementsService
    OBVIOUS
<1>1. Init => SlotAhead
      BY DEF Init, SlotAhead
<1>2. PoolInv /\ SlotAhead /\ [Next]_vars => SlotAhead'
      BY SlotAheadStep
<1>3. PoolInv /\ SlotAhead /\ [Next]_vars => [Service!Next]_(Service!svars)
      BY RefinesStep
<1> QED BY PoolInvHolds, RefinesInit, <1>1, <1>2, <1>3, PTL DEF Spec, ImplementsService, Service!Spec
=============================================================================
