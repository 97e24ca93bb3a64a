------------------------------- MODULE WinPool -------------------------------
(***************************************************************************)
(* The Windows server (Windows/Server/server.c): the accept loop of main() *)
(* and a fixed pool of threads running protocol(), which park themselves   *)
(* with SuspendThread and are woken with ResumeThread.  A slot is handed   *)
(* over through three unlocked fields: state, sock and the suspension.     *)
(*                                                                         *)
(* A step makes at most one access to what the other threads see.  A       *)
(* conversation is one step; Handshake.tla models how it begins.           *)
(***************************************************************************)
EXTENDS Integers, FiniteSets

CONSTANTS
  Conns,          \* the connections clients open, each at most once
  INVALID_SOCKET,
  THREADS,        \* the local `threads` of main
  PER_THREAD,     \* connections served per thread before the server ends: 6
  ClientsFail,    \* TRUE: a conversation may fail half-way
  Preempt         \* "start", "tail": where a worker may fall behind main

LIMIT == THREADS * PER_THREAD
Slots == 0 .. THREADS - 1

ASSUME WinPoolAssumption ==
  /\ INVALID_SOCKET \notin Conns
  /\ THREADS \in Nat \ {0} /\ PER_THREAD \in Nat \ {0}
  /\ ClientsFail \in BOOLEAN /\ Preempt \subseteq {"start", "tail"}

VARIABLES
  mpc, idx, clientSock, count,   \* main
  sem,
  state, sock, handle,           \* struct thread, one per slot; handle: stored or not
  wpc,
  client                         \* what became of a connection

vars == <<mpc, idx, clientSock, count, sem, state, sock, handle, wpc, client>>

\* "stopped" is exit(0), "exited" exit(1) from a worker.
MainPC == {"create", "handle", "accept", "wait", "scan", "resume", "stopped", "exited"}
\* "running": about to read info->sock.  "exited": ExitThread(1).
WorkerPC == {"none", "start", "suspended", "running", "serve",
             "free", "release", "clear", "suspend", "exited"}

Init ==
  /\ mpc = "create" /\ idx = 0 /\ clientSock = INVALID_SOCKET /\ count = 0
  /\ sem = THREADS
  /\ state = [i \in Slots |-> TRUE]
  /\ sock = [i \in Slots |-> INVALID_SOCKET]   \* set before the thread that reads it
  /\ handle = [i \in Slots |-> FALSE]
  /\ wpc = [i \in Slots |-> "none"]
  /\ client = [c \in Conns |-> "new"]

Alive == mpc \notin {"stopped", "exited"}

\* Scheduling: where Preempt does not allow it, main waits for a worker that is
\* still on its way to its suspension.
WorkersParked ==
  /\ "start" \in Preempt \/ \A i \in Slots : wpc[i] # "start"
  /\ "tail" \in Preempt \/ \A i \in Slots : wpc[i] \notin {"clear", "suspend"}

-----------------------------------------------------------------------------
(* main.                                                                    *)

\* _CreateThread: the thread runs at once ...
CreateThread ==
  /\ mpc = "create" /\ mpc' = "handle"
  /\ wpc' = [wpc EXCEPT ![idx] = "start"]
  /\ UNCHANGED <<idx, clientSock, count, sem, state, sock, handle, client>>

\* ... and its handle is stored when the call returns.
StoreHandle ==
  /\ mpc = "handle"
  /\ handle' = [handle EXCEPT ![idx] = TRUE]
  /\ idx' = IF idx + 1 < THREADS THEN idx + 1 ELSE 0
  /\ mpc' = IF idx + 1 < THREADS THEN "create" ELSE "accept"
  /\ UNCHANGED <<clientSock, count, sem, state, sock, wpc, client>>

\* Fault: the bound on the connections is not looked at.
AcceptAlways(c) ==
  /\ mpc = "accept" /\ client[c] = "queued"
  /\ clientSock' = c /\ client' = [client EXCEPT ![c] = "held"]
  /\ mpc' = "wait"
  /\ UNCHANGED <<idx, count, sem, state, sock, handle, wpc>>

Accept(c) ==
  /\ mpc = "accept" /\ count < LIMIT /\ client[c] = "queued"
  /\ clientSock' = c /\ client' = [client EXCEPT ![c] = "held"]
  /\ mpc' = "wait"
  /\ UNCHANGED <<idx, count, sem, state, sock, handle, wpc>>

\* Fault: the wait does not take the permit.
WaitOnly ==
  /\ mpc = "wait" /\ sem > 0 /\ WorkersParked
  /\ idx' = 0 /\ mpc' = "scan"
  /\ UNCHANGED <<clientSock, count, sem, state, sock, handle, wpc, client>>

WaitSemaphore ==
  /\ mpc = "wait" /\ sem > 0 /\ WorkersParked
  /\ sem' = sem - 1 /\ idx' = 0 /\ mpc' = "scan"
  /\ UNCHANGED <<clientSock, count, state, sock, handle, wpc, client>>

\* Fault in SlotIsFree: the socket is not looked at.
StateIsFree(i) == state[i]
SlotIsFree(i) == state[i] /\ sock[i] = INVALID_SOCKET

\* One round of the loop over thState.
Scan ==
  /\ mpc = "scan" /\ idx < THREADS /\ WorkersParked
  /\ IF SlotIsFree(idx)
     THEN /\ state' = [state EXCEPT ![idx] = FALSE]
          /\ sock' = [sock EXCEPT ![idx] = clientSock]
          /\ client' = [client EXCEPT ![clientSock] = "assigned"]
          /\ mpc' = "resume" /\ UNCHANGED idx
     ELSE /\ idx' = idx + 1
          /\ UNCHANGED <<mpc, state, sock, client>>
  /\ UNCHANGED <<clientSock, count, sem, handle, wpc>>

\* The loop ends without a slot: the permit is spent and nothing keeps the socket.
NoSlot ==
  /\ mpc = "scan" /\ idx = THREADS
  /\ client' = [client EXCEPT ![clientSock] = "dropped"]
  /\ mpc' = "accept"
  /\ UNCHANGED <<idx, clientSock, count, sem, state, sock, handle, wpc>>

\* Fault: the thread is not resumed.
ResumeForgotten ==
  /\ mpc = "resume" /\ mpc' = "accept" /\ count' = count + 1
  /\ UNCHANGED <<idx, clientSock, sem, state, sock, handle, wpc, client>>

\* ResumeThread: nothing happens to a thread that is not suspended.
Resume ==
  /\ mpc = "resume"
  /\ wpc' = IF wpc[idx] = "suspended" THEN [wpc EXCEPT ![idx] = "running"] ELSE wpc
  /\ count' = count + 1 /\ mpc' = "accept"
  /\ UNCHANGED <<idx, clientSock, sem, state, sock, handle, client>>

\* Fault: the server ends whatever its threads do.
StopAtOnce ==
  /\ mpc = "accept" /\ count >= LIMIT
  /\ mpc' = "stopped"
  /\ UNCHANGED <<idx, clientSock, count, sem, state, sock, handle, wpc, client>>

\* Fault: one connection more than the bound is waited for.
StopBeyond ==
  /\ mpc = "accept" /\ count > LIMIT /\ \A i \in Slots : state[i]
  /\ mpc' = "stopped"
  /\ UNCHANGED <<idx, clientSock, count, sem, state, sock, handle, wpc, client>>

\* The busy loop at the end; a state only turns TRUE there, so one look is enough.
Stop ==
  /\ mpc = "accept" /\ count >= LIMIT /\ \A i \in Slots : state[i]
  /\ mpc' = "stopped"
  /\ UNCHANGED <<idx, clientSock, count, sem, state, sock, handle, wpc, client>>

Main ==
  \/ CreateThread \/ StoreHandle
  \/ \E c \in Conns : Accept(c)
  \/ WaitSemaphore \/ Scan \/ NoSlot \/ Resume \/ Stop

-----------------------------------------------------------------------------
(* A worker.                                                                *)

\* The first SuspendThread(info->handle); with a handle not yet stored it fails
\* and the thread goes on.
FirstSuspend(i) ==
  /\ Alive /\ wpc[i] = "start"
  /\ handle[i] \/ "start" \in Preempt
  /\ wpc' = [wpc EXCEPT ![i] = IF handle[i] THEN "suspended" ELSE "running"]
  /\ UNCHANGED <<mpc, idx, clientSock, count, sem, state, sock, handle, client>>

\* sock = info->sock; on no socket authentication() ends in ExitThread.
TakeSocket(i) ==
  /\ Alive /\ wpc[i] = "running"
  /\ IF sock[i] = INVALID_SOCKET
     THEN wpc' = [wpc EXCEPT ![i] = "exited"] /\ UNCHANGED client
     ELSE /\ wpc' = [wpc EXCEPT ![i] = "serve"]
          /\ client' = [client EXCEPT ![sock[i]] = "talking"]
  /\ UNCHANGED <<mpc, idx, clientSock, count, sem, state, sock, handle>>

\* The conversation ends: accepted or turned away, the client has its answer.
Converse(i) ==
  /\ Alive /\ wpc[i] = "serve"
  /\ wpc' = [wpc EXCEPT ![i] = "free"]
  /\ client' = [client EXCEPT ![sock[i]] = "answered"]
  /\ UNCHANGED <<mpc, idx, clientSock, count, sem, state, sock, handle>>

\* Recv or Send fails: ExitThread, from inside the conversation.
ConversationFails(i) ==
  /\ Alive /\ ClientsFail /\ wpc[i] = "serve"
  /\ wpc' = [wpc EXCEPT ![i] = "exited"]
  /\ client' = [client EXCEPT ![sock[i]] = "broken"]
  /\ UNCHANGED <<mpc, idx, clientSock, count, sem, state, sock, handle>>

\* Recv or Send of a DOWNLOAD, or a number that does not parse: exit(1).
ProcessFails(i) ==
  /\ Alive /\ ClientsFail /\ wpc[i] = "serve"
  /\ mpc' = "exited" /\ wpc' = [wpc EXCEPT ![i] = "exited"]
  /\ client' = [client EXCEPT ![sock[i]] = "broken"]
  /\ UNCHANGED <<idx, clientSock, count, sem, state, sock, handle>>

FreeSlot(i) ==
  /\ Alive /\ wpc[i] = "free"
  /\ state' = [state EXCEPT ![i] = TRUE]
  /\ wpc' = [wpc EXCEPT ![i] = "release"]
  /\ UNCHANGED <<mpc, idx, clientSock, count, sem, sock, handle, client>>

\* Fault: the permit is given back twice.
ReleaseTwice(i) ==
  /\ Alive /\ wpc[i] = "release"
  /\ sem' = IF sem + 1 < THREADS THEN sem + 2 ELSE THREADS
  /\ wpc' = [wpc EXCEPT ![i] = "clear"]
  /\ UNCHANGED <<mpc, idx, clientSock, count, state, sock, handle, client>>

\* Closesocket and ReleaseSemaphore, which fails at the maximum count.
Release(i) ==
  /\ Alive /\ wpc[i] = "release"
  /\ sem' = IF sem < THREADS THEN sem + 1 ELSE sem
  /\ wpc' = [wpc EXCEPT ![i] = "clear"]
  /\ UNCHANGED <<mpc, idx, clientSock, count, state, sock, handle, client>>

ClearSocket(i) ==
  /\ Alive /\ wpc[i] = "clear"
  /\ sock' = [sock EXCEPT ![i] = INVALID_SOCKET]
  /\ wpc' = [wpc EXCEPT ![i] = "suspend"]
  /\ UNCHANGED <<mpc, idx, clientSock, count, sem, state, handle, client>>

SuspendSelf(i) ==
  /\ Alive /\ wpc[i] = "suspend"
  /\ wpc' = [wpc EXCEPT ![i] = "suspended"]
  /\ UNCHANGED <<mpc, idx, clientSock, count, sem, state, sock, handle, client>>

Worker(i) ==
  \/ FirstSuspend(i) \/ TakeSocket(i)
  \/ Converse(i) \/ ConversationFails(i) \/ ProcessFails(i)
  \/ FreeSlot(i) \/ Release(i) \/ ClearSocket(i) \/ SuspendSelf(i)

-----------------------------------------------------------------------------
\* A client connects: the connection waits in the backlog of the listening socket.
Connect(c) ==
  /\ Alive /\ client[c] = "new"
  /\ client' = [client EXCEPT ![c] = "queued"]
  /\ UNCHANGED <<mpc, idx, clientSock, count, sem, state, sock, handle, wpc>>

Next == Main \/ (\E i \in Slots : Worker(i)) \/ (\E c \in Conns : Connect(c))

Spec == Init /\ [][Next]_vars

\* The system runs main and every thread that is not suspended.
FairSpec == Spec /\ WF_vars(Main) /\ \A i \in Slots : WF_vars(Worker(i))

-----------------------------------------------------------------------------
(* Properties.                                                              *)

\* The type invariant.
TypeOK ==
  /\ mpc \in MainPC /\ idx \in 0 .. THREADS /\ count \in 0 .. LIMIT /\ sem \in 0 .. THREADS
  /\ clientSock \in Conns \cup {INVALID_SOCKET}
  /\ state \in [Slots -> BOOLEAN] /\ handle \in [Slots -> BOOLEAN]
  /\ sock \in [Slots -> Conns \cup {INVALID_SOCKET}]
  /\ wpc \in [Slots -> WorkerPC]
  /\ client \in [Conns -> {"new", "queued", "held", "assigned", "talking", "answered", "broken", "dropped"}]

\* Every permit, in the semaphore or in main's hand, stands for a slot of its own
\* that is not in use, so ReleaseSemaphore never hits the maximum.
PermitsBacked ==
  sem + (IF mpc = "scan" THEN 1 ELSE 0)
    <= Cardinality({i \in Slots : state[i] /\ wpc[i] # "release"})

\* A connection in use is in exactly one slot, from its assignment until its
\* conversation ends, in spite of the unlocked fields.
ExclusiveService ==
  /\ \A c \in Conns : client[c] \in {"assigned", "talking"} => \E i \in Slots : sock[i] = c /\ ~state[i]
  /\ \A i, j \in Slots : sock[i] = sock[j] /\ sock[i] # INVALID_SOCKET => i = j
  /\ \A i \in Slots : wpc[i] = "serve" => client[sock[i]] = "talking"

\* When the server ends by itself it has handed out LIMIT connections and every one
\* of these conversations has ended.
TerminatesWhenDone ==
  mpc = "stopped" =>
    /\ count = LIMIT
    /\ Cardinality({c \in Conns : client[c] = "answered"}) = LIMIT
    /\ \A c \in Conns : client[c] \notin {"assigned", "talking"}

\* A connection main accepted waits for a thread and is never let go without one.
NoConnectionDropped == \A c \in Conns : client[c] # "dropped"

\* A connection handed to a thread gets its conversation to the end.
AssignedIsAnswered == \A c \in Conns : (client[c] = "assigned") ~> (client[c] = "answered")

\* The server ends after the connections it was meant for.
TerminatesAfterLimit == (count = LIMIT) ~> (mpc = "stopped")

-----------------------------------------------------------------------------
(* The service of the Windows server, with threads that keep up.            *)

Phase == [ new |-> "waiting", queued |-> "waiting", held |-> "waiting", assigned |-> "served",
           talking |-> "served", answered |-> "answered", broken |-> "broken", dropped |-> "dropped" ]

Service == INSTANCE ConnectionService WITH
  MAX_ACCEPT <- LIMIT,
  conn       <- [c \in Conns |-> Phase[client[c]]],
  budget     <- LIMIT - count - (IF mpc = "resume" THEN 1 ELSE 0),
  capacity   <- IF mpc \in {"create", "handle"} THEN 0 ELSE THREADS,
  running    <- mpc # "stopped"

\* The pool implements the service the Linux daemon also implements.
ImplementsService == Service!Spec
=============================================================================
