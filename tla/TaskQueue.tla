------------------------------ MODULE TaskQueue ------------------------------
(***************************************************************************)
(* What the rate-limited request queue of the claim monitors promises its  *)
(* callers, with no drain loop in it: requests are accepted while there is *)
(* room, accepted requests are started in the order they were accepted,    *)
(* each once, and no more than a fixed number of them run at a time.       *)
(* A request is named by its ticket: the n-th accepted request is n.       *)
(***************************************************************************)
EXTENDS Naturals, FiniteSets

CONSTANTS MAX_QUEUE_SIZE, MAX_CONCURRENCY

VARIABLES accepted,  \* number of requests accepted so far
          started,   \* number of requests started so far
          running    \* the tickets being processed

taskVars == <<accepted, started, running>>

TaskInit == accepted = 0 /\ started = 0 /\ running = {}

\* Of the waiting requests first..last the oldest is started, if there is one
\* and a slot beside the running ones in `base` is free, or none is.
StartFrom(first, last, base) ==
    \/ started' = first - 1 /\ running' = base
    \/ /\ first <= last
       /\ Cardinality(base) < MAX_CONCURRENCY
       /\ started' = first
       /\ running' = base \cup {first}

Accept == /\ accepted - started < MAX_QUEUE_SIZE
          /\ accepted' = accepted + 1
          /\ StartFrom(started + 1, accepted + 1, running)

Start == StartFrom(started + 1, accepted, running) /\ UNCHANGED accepted

Complete(t) == /\ t \in running
               /\ StartFrom(started + 1, accepted, running \ {t})
               /\ UNCHANGED accepted

TaskNext == Accept \/ Start \/ \E t \in running : Complete(t)

TaskSpec == TaskInit /\ [][TaskNext]_taskVars

=============================================================================
