---- MODULE HelperLease ----
(***************************************************************************)
(* What the SYSTEM helper promises to the interactive sessions of the      *)
(* machine, whatever its requests, monitors and watchdog do in between: it *)
(* serves one session at a time, privileged state exists only on behalf of *)
(* that session, and the next session starts from a clean machine (the     *)
(* head of dispatch.rs).                                                   *)
(* HelperBroker implements it.                                             *)
(***************************************************************************)
CONSTANTS Sessions,   \* interactive sessions
          Nobody

VARIABLES serving,    \* the pipe is published
          holder,     \* the session that holds the lease
          held        \* the privileged state that is in force

lease == <<serving, holder, held>>

Privileged == {"process", "filters", "adapter"}

\* All but the adapter end with the service process; the adapter may outlive it.
Outlives == {"adapter"}

Init == /\ serving = FALSE
        /\ holder = Nobody
        /\ held \subseteq Outlives

\* A service starts only on a clean machine.
Start == /\ ~serving /\ held = {}
         /\ serving' = TRUE
         /\ UNCHANGED <<holder, held>>

\* The first session to ask for something gets the lease.
Take(s) == /\ serving /\ holder = Nobody
           /\ holder' = s
           /\ UNCHANGED <<serving, held>>

\* Privileged state comes, and goes, while a session holds the lease.
Use == /\ serving /\ holder # Nobody
       /\ held' \in SUBSET Privileged
       /\ UNCHANGED <<serving, holder>>

\* The lease ends when nothing is left.
Release == /\ serving /\ holder # Nobody
           /\ holder' = Nobody /\ held' = {}
           /\ UNCHANGED serving

\* The process ends, by itself or not.
Exit == /\ serving
        /\ serving' = FALSE /\ holder' = Nobody
        /\ held' = held \cap Outlives

\* What outlived it goes by itself, or is still there at the next start.
Fade == /\ ~serving
        /\ held' \in SUBSET held
        /\ UNCHANGED <<serving, holder>>

Next == \/ Start \/ Use \/ Release \/ Exit \/ Fade
        \/ \E s \in Sessions : Take(s)

Spec == Init /\ [][Next]_lease
====
