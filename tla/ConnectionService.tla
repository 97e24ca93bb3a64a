------------------------- MODULE ConnectionService --------------------------
(***************************************************************************)
(* What a server promises its clients, without threads, locks or ports:    *)
(* it serves at most `capacity` connections at a time and MAX_ACCEPT of    *)
(* them in all, answers every one it admits, changes its capacity only     *)
(* while it serves nobody, and terminates when the last one is answered.   *)
(* ServerPool and WinPool implement it (Service!Spec there).               *)
(***************************************************************************)
EXTENDS Integers, FiniteSets

CONSTANTS Conns, MAX_ACCEPT

VARIABLES
  conn,        \* "waiting", "served", "answered" or "refused"
  budget,      \* connections the daemon will still admit
  capacity,    \* connections it serves at a time
  running

svars == <<conn, budget, capacity, running>>

Served == { c \in Conns : conn[c] = "served" }

Init ==
  /\ conn = [c \in Conns |-> "waiting"]
  /\ budget = MAX_ACCEPT
  /\ capacity = 0
  /\ running = TRUE

Admit(c) ==
  /\ running /\ budget > 0
  /\ conn[c] = "waiting"
  /\ Cardinality(Served) < capacity
  /\ conn' = [conn EXCEPT ![c] = "served"]
  /\ budget' = budget - 1
  /\ UNCHANGED <<capacity, running>>

Answer(c) ==
  /\ running
  /\ conn[c] = "served"
  /\ conn' = [conn EXCEPT ![c] = "answered"]
  /\ UNCHANGED <<budget, capacity, running>>

\* A reload or the shutdown: the connections it finds are answered first; those
\* still waiting may be refused, because the port they wait at is closed.
Reconfigure ==
  /\ running /\ Served = {}
  /\ capacity' \in Nat
  /\ \E R \in SUBSET { c \in Conns : conn[c] = "waiting" } :
       conn' = [c \in Conns |-> IF c \in R THEN "refused" ELSE conn[c]]
  /\ UNCHANGED <<budget, running>>

Terminate ==
  /\ running /\ budget = 0 /\ Served = {}
  /\ running' = FALSE
  /\ UNCHANGED <<conn, budget, capacity>>

Next ==
  \/ \E c \in Conns : Admit(c) \/ Answer(c)
  \/ Reconfigure
  \/ Terminate

Spec == Init /\ [][Next]_svars
=============================================================================
