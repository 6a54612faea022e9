---- MODULE HelperPipeProofs ----
(* Theorems about HelperPipe, for every set of calls and every number of   *)
(* pipe instances.                                                         *)
EXTENDS HelperPipe, FiniteSetTheorems, TLAPS

----
(* The inductive invariant.                                                *)

\* Who has opened the listener waits for it; who works holds the lock.
CallInv ==
    /\ listener \in Clients => stage[listener] = "queued"
    /\ \A c \in Clients : stage[c] = "work" => broker = c
    /\ broker = Shutdown => service = "cleanup"

\* The phases of the service and of its loop, and what none of them leaves.
PhaseInv ==
    /\ service = "start" => loop = "off"
    /\ service \in {"cleanup", "runtime", "stopped"} => loop \in {"off", "ended", "failed"}
    /\ service = "cleanup" => loop # "off"
    /\ loop = "off" => /\ service # "serve" /\ listener = "none" /\ filters = None
                       /\ \A c \in Clients : stage[c] = "idle" /\ job[c] = "none"
    /\ loop \in {"replace", "drain", "ended", "failed"} => listener = "none"
    /\ loop \in {"ended", "failed"} =>
         \A c \in Clients : stage[c] \in {"idle", "queued", "done"}

\* The threads: whose they are, and what is left after a drain that ended.
JobInv ==
    /\ Attended
    /\ job[Startup] # "open" /\ job[Shutdown] # "open"
    /\ job[Startup] = "begin" => loop = "off"
    /\ job[Shutdown] # "none" => loop \in {"ended", "failed"}
    /\ service \in {"start", "serve", "cleanup"} => cleaned = "none"
    /\ cleaned = "ok" => job[Shutdown] = "ok"
    /\ loop = "ended" /\ job[Shutdown] = "ok" => filters = None

\* The permit that the loop holds while it listens, and passes to the accepted
\* client, keeps the workers one below the instances.
PermitInv ==
    /\ IsFiniteSet(Workers) /\ Cardinality(Workers) <= MaxWorkers
    /\ loop = "listen" => Cardinality(Workers) < MaxWorkers
    /\ loop = "replace" =>
         IsFiniteSet(Workers \cup Accepted) /\ Cardinality(Workers \cup Accepted) <= MaxWorkers
    /\ Accepted # {} => loop = "replace"

IInv == TypeOK /\ CallInv /\ PhaseInv /\ JobInv /\ PermitInv

----
LEMMA InitIInv == Init => IInv
  <1> SUFFICES ASSUME Init PROVE IInv
    OBVIOUS
  <1> USE PipeAssumption DEF Init, Startup, Shutdown
  <1>1. TypeOK
    BY DEF TypeOK, Stages, Jobs
  <1>2. CallInv /\ PhaseInv
    BY DEF CallInv, PhaseInv, Jobs
  <1>3. JobInv
    BY DEF JobInv, Attended, Running, Jobs
  <1>4. Workers = {} /\ Accepted = {}
    BY DEF Workers, Accepted
  <1>5. PermitInv
    BY <1>4, FS_EmptySet DEF PermitInv, MaxWorkers
  <1> QED
    BY <1>1, <1>2, <1>3, <1>5 DEF IInv

LEMMA NextTypeOK == IInv /\ [Next]_vars => TypeOK'
  <1> SUFFICES ASSUME IInv, [Next]_vars PROVE TypeOK'
    OBVIOUS
  <1> USE PipeAssumption DEF IInv, TypeOK, Stages, Jobs, Startup, Shutdown, callVars, workVars
  <1>1. CASE StopRequested
    BY <1>1 DEF StopRequested
  <1>2. CASE StartupDone
    BY <1>2 DEF StartupDone
  <1>3. CASE StartupFailed
    BY <1>3 DEF StartupFailed
  <1>4. CASE CleanupBegins
    BY <1>4 DEF CleanupBegins
  <1>5. CASE CleanupLocks
    BY <1>5 DEF CleanupLocks
  <1>6. CASE CleanupEnds
    BY <1>6 DEF CleanupEnds
  <1>7. CASE CleanupTimesOut
    BY <1>7 DEF CleanupTimesOut
  <1>8. CASE ProcessEnds
    BY <1>8 DEF ProcessEnds
  <1>9. CASE LoopTop
    BY <1>9 DEF LoopTop, Closed
  <1>10. CASE Tick
    BY <1>10 DEF Tick
  <1>11. CASE Accept
    BY <1>11 DEF Accept
  <1>12. CASE Replace
    BY <1>12 DEF Replace
  <1>13. CASE ReplaceAbandoned
    BY <1>13 DEF ReplaceAbandoned, Closed
  <1>14. CASE ReplaceFails
    BY <1>14 DEF ReplaceFails, Closed
  <1>15. ASSUME NEW t \in BOOLEAN, AcceptFails(t) PROVE TypeOK'
    BY <1>15 DEF AcceptFails, Closed
  <1>16. CASE Drained
    BY <1>16 DEF Drained
  <1>17. CASE DrainTimesOut
    BY <1>17 DEF DrainTimesOut, Closed
  <1>18. ASSUME NEW c \in Clients, Open(c) PROVE TypeOK'
    BY <1>18 DEF Open
  <1>19. ASSUME NEW c \in Clients, GiveUp(c) PROVE TypeOK'
    BY <1>19 DEF GiveUp
  <1>20. ASSUME NEW c \in Clients, ReadRequest(c) PROVE TypeOK'
    BY <1>20 DEF ReadRequest
  <1>21. ASSUME NEW c \in Clients, ReadFails(c) PROVE TypeOK'
    BY <1>21 DEF ReadFails, Closed
  <1>22. ASSUME NEW c \in Clients, TakeLock(c) PROVE TypeOK'
    BY <1>22 DEF TakeLock
  <1>23. ASSUME NEW c \in Clients, WorkDone(c) PROVE TypeOK'
    BY <1>23 DEF WorkDone
  <1>24. ASSUME NEW c \in Clients, Reply(c) PROVE TypeOK'
    BY <1>24 DEF Reply
  <1>25. ASSUME NEW j \in Jobs, EnableClears(j) PROVE TypeOK'
    BY <1>25 DEF EnableClears
  <1>26. ASSUME NEW j \in Jobs, NEW g \in BOOLEAN, EnableEnds(j, g) PROVE TypeOK'
    <2>1. j \in Clients
      BY <1>26 DEF EnableEnds, JobInv
    <2> QED
      BY <1>26, <2>1 DEF EnableEnds
  <1>27. ASSUME NEW j \in Jobs, NEW g \in BOOLEAN, DisableEnds(j, g) PROVE TypeOK'
    BY <1>27 DEF DisableEnds
  <1>28. CASE UNCHANGED vars
    BY <1>28 DEF vars
  <1> QED
    BY <1>1, <1>2, <1>3, <1>4, <1>5, <1>6, <1>7, <1>8, <1>9, <1>10,
       <1>11, <1>12, <1>13, <1>14, <1>15, <1>16, <1>17, <1>18, <1>19, <1>20,
       <1>21, <1>22, <1>23, <1>24, <1>25, <1>26, <1>27, <1>28
       DEF Next, ServiceStep, LoopStep, WorkerStep, JobStep

LEMMA NextCallInv == IInv /\ [Next]_vars => CallInv'
  <1> SUFFICES ASSUME IInv, [Next]_vars PROVE CallInv'
    OBVIOUS
  <1> USE PipeAssumption DEF IInv, TypeOK, CallInv, PhaseInv, Stages, Jobs, Startup, Shutdown,
          Workers, Accepted, Serving, callVars, workVars
  <1>1. CASE StopRequested
    BY <1>1 DEF StopRequested
  <1>2. CASE StartupDone
    BY <1>2 DEF StartupDone
  <1>3. CASE StartupFailed
    BY <1>3 DEF StartupFailed
  <1>4. CASE CleanupBegins
    BY <1>4 DEF CleanupBegins
  <1>5. CASE CleanupLocks
    BY <1>5 DEF CleanupLocks
  <1>6. CASE CleanupEnds
    BY <1>6 DEF CleanupEnds
  <1>7. CASE CleanupTimesOut
    BY <1>7 DEF CleanupTimesOut
  <1>8. CASE ProcessEnds
    BY <1>8 DEF ProcessEnds
  <1>9. CASE LoopTop
    BY <1>9 DEF LoopTop, Closed
  <1>10. CASE Tick
    BY <1>10 DEF Tick
  <1>11. CASE Accept
    BY <1>11 DEF Accept
  <1>12. CASE Replace
    BY <1>12 DEF Replace
  <1>13. CASE ReplaceAbandoned
    BY <1>13 DEF ReplaceAbandoned, Closed
  <1>14. CASE ReplaceFails
    BY <1>14 DEF ReplaceFails, Closed
  <1>15. ASSUME NEW t \in BOOLEAN, AcceptFails(t) PROVE CallInv'
    BY <1>15 DEF AcceptFails, Closed
  <1>16. CASE Drained
    BY <1>16 DEF Drained
  <1>17. CASE DrainTimesOut
    BY <1>17 DEF DrainTimesOut, Closed
  <1>18. ASSUME NEW c \in Clients, Open(c) PROVE CallInv'
    BY <1>18 DEF Open
  <1>19. ASSUME NEW c \in Clients, GiveUp(c) PROVE CallInv'
    BY <1>19 DEF GiveUp
  <1>20. ASSUME NEW c \in Clients, ReadRequest(c) PROVE CallInv'
    BY <1>20 DEF ReadRequest
  <1>21. ASSUME NEW c \in Clients, ReadFails(c) PROVE CallInv'
    BY <1>21 DEF ReadFails, Closed
  <1>22. ASSUME NEW c \in Clients, TakeLock(c) PROVE CallInv'
    BY <1>22 DEF TakeLock
  <1>23. ASSUME NEW c \in Clients, WorkDone(c) PROVE CallInv'
    BY <1>23 DEF WorkDone
  <1>24. ASSUME NEW c \in Clients, Reply(c) PROVE CallInv'
    BY <1>24 DEF Reply
  <1>25. ASSUME NEW j \in Jobs, EnableClears(j) PROVE CallInv'
    BY <1>25 DEF EnableClears
  <1>26. ASSUME NEW j \in Jobs, NEW g \in BOOLEAN, EnableEnds(j, g) PROVE CallInv'
    BY <1>26 DEF EnableEnds
  <1>27. ASSUME NEW j \in Jobs, NEW g \in BOOLEAN, DisableEnds(j, g) PROVE CallInv'
    BY <1>27 DEF DisableEnds
  <1>28. CASE UNCHANGED vars
    BY <1>28 DEF vars
  <1> QED
    BY <1>1, <1>2, <1>3, <1>4, <1>5, <1>6, <1>7, <1>8, <1>9, <1>10,
       <1>11, <1>12, <1>13, <1>14, <1>15, <1>16, <1>17, <1>18, <1>19, <1>20,
       <1>21, <1>22, <1>23, <1>24, <1>25, <1>26, <1>27, <1>28
       DEF Next, ServiceStep, LoopStep, WorkerStep, JobStep

LEMMA NextPhaseInv == IInv /\ [Next]_vars => PhaseInv'
  <1> SUFFICES ASSUME IInv, [Next]_vars PROVE PhaseInv'
    OBVIOUS
  <1> USE PipeAssumption DEF IInv, TypeOK, CallInv, PhaseInv, JobInv, Attended, Running, Stages, Jobs,
          Startup, Shutdown, Serving, callVars, workVars
  <1>1. CASE StopRequested
    BY <1>1 DEF StopRequested
  <1>2. CASE StartupDone
    BY <1>2 DEF StartupDone
  <1>3. CASE StartupFailed
    BY <1>3 DEF StartupFailed
  <1>4. CASE CleanupBegins
    BY <1>4 DEF CleanupBegins
  <1>5. CASE CleanupLocks
    BY <1>5 DEF CleanupLocks
  <1>6. CASE CleanupEnds
    BY <1>6 DEF CleanupEnds
  <1>7. CASE CleanupTimesOut
    BY <1>7 DEF CleanupTimesOut
  <1>8. CASE ProcessEnds
    BY <1>8 DEF ProcessEnds
  <1>9. CASE LoopTop
    BY <1>9 DEF LoopTop, Closed
  <1>10. CASE Tick
    BY <1>10 DEF Tick
  <1>11. CASE Accept
    BY <1>11 DEF Accept
  <1>12. CASE Replace
    BY <1>12 DEF Replace
  <1>13. CASE ReplaceAbandoned
    BY <1>13 DEF ReplaceAbandoned, Closed
  <1>14. CASE ReplaceFails
    <2>1. loop' = "failed" => \A c \in Clients : stage'[c] \in {"idle", "queued", "done"}
      <3> SUFFICES ASSUME loop' = "failed", NEW c \in Clients PROVE stage'[c] \in {"idle", "queued", "done"}
        OBVIOUS
      <3>2. stage'[c] = IF c \in (Accepted \cup Workers) THEN "done" ELSE stage[c]
        BY <1>14 DEF ReplaceFails, Closed
      <3> QED
        BY <3>2 DEF Workers, Accepted
    <2> QED
      BY <1>14, <2>1 DEF ReplaceFails
  <1>15. ASSUME NEW t \in BOOLEAN, AcceptFails(t) PROVE PhaseInv'
    <2>1. loop' = "failed" => \A c \in Clients : stage'[c] \in {"idle", "queued", "done"}
      <3> SUFFICES ASSUME loop' = "failed", NEW c \in Clients PROVE stage'[c] \in {"idle", "queued", "done"}
        OBVIOUS
      <3>1. c \notin Accepted
        BY <1>15 DEF AcceptFails, PermitInv
      <3>2. t = FALSE
        BY <1>15 DEF AcceptFails
      <3>3. stage'[c] = IF c \in (Workers \cup ({listener} \cap Clients)) THEN "done" ELSE stage[c]
        BY <1>15, <3>2 DEF AcceptFails, Closed
      <3> QED
        BY <3>1, <3>3 DEF Workers, Accepted
    <2> QED
      BY <1>15, <2>1 DEF AcceptFails
  <1>16. CASE Drained
    <2>1. \A c \in Clients : stage[c] \in {"idle", "queued", "done"}
      <3> SUFFICES ASSUME NEW c \in Clients PROVE stage[c] \in {"idle", "queued", "done"}
        OBVIOUS
      <3>1. c \notin Workers /\ c \notin Accepted
        BY <1>16 DEF Drained, PermitInv
      <3> QED
        BY <3>1 DEF Workers, Accepted
    <2> QED
      BY <1>16, <2>1 DEF Drained
  <1>17. CASE DrainTimesOut
    <2>1. \A c \in Clients : stage'[c] \in {"idle", "queued", "done"}
      <3> SUFFICES ASSUME NEW c \in Clients PROVE stage'[c] \in {"idle", "queued", "done"}
        OBVIOUS
      <3>1. c \notin Accepted
        BY <1>17 DEF DrainTimesOut, PermitInv
      <3>2. stage'[c] = IF c \in Workers THEN "done" ELSE stage[c]
        BY <1>17 DEF DrainTimesOut, Closed
      <3> QED
        BY <3>1, <3>2 DEF Workers, Accepted
    <2> QED
      BY <1>17, <2>1 DEF DrainTimesOut
  <1>18. ASSUME NEW c \in Clients, Open(c) PROVE PhaseInv'
    BY <1>18 DEF Open
  <1>19. ASSUME NEW c \in Clients, GiveUp(c) PROVE PhaseInv'
    BY <1>19 DEF GiveUp
  <1>20. ASSUME NEW c \in Clients, ReadRequest(c) PROVE PhaseInv'
    BY <1>20 DEF ReadRequest
  <1>21. ASSUME NEW c \in Clients, ReadFails(c) PROVE PhaseInv'
    BY <1>21 DEF ReadFails, Closed
  <1>22. ASSUME NEW c \in Clients, TakeLock(c) PROVE PhaseInv'
    BY <1>22 DEF TakeLock
  <1>23. ASSUME NEW c \in Clients, WorkDone(c) PROVE PhaseInv'
    BY <1>23 DEF WorkDone
  <1>24. ASSUME NEW c \in Clients, Reply(c) PROVE PhaseInv'
    BY <1>24 DEF Reply
  <1>25. ASSUME NEW j \in Jobs, EnableClears(j) PROVE PhaseInv'
    BY <1>25 DEF EnableClears
  <1>26. ASSUME NEW j \in Jobs, NEW g \in BOOLEAN, EnableEnds(j, g) PROVE PhaseInv'
    BY <1>26 DEF EnableEnds
  <1>27. ASSUME NEW j \in Jobs, NEW g \in BOOLEAN, DisableEnds(j, g) PROVE PhaseInv'
    BY <1>27 DEF DisableEnds
  <1>28. CASE UNCHANGED vars
    BY <1>28 DEF vars
  <1> QED
    BY <1>1, <1>2, <1>3, <1>4, <1>5, <1>6, <1>7, <1>8, <1>9, <1>10,
       <1>11, <1>12, <1>13, <1>14, <1>15, <1>16, <1>17, <1>18, <1>19, <1>20,
       <1>21, <1>22, <1>23, <1>24, <1>25, <1>26, <1>27, <1>28
       DEF Next, ServiceStep, LoopStep, WorkerStep, JobStep

LEMMA NextJobInv == IInv /\ [Next]_vars => JobInv'
  <1> SUFFICES ASSUME IInv, [Next]_vars PROVE JobInv'
    OBVIOUS
  <1> USE PipeAssumption DEF IInv, TypeOK, CallInv, PhaseInv, JobInv, Attended, Running, Stages, Jobs,
          Startup, Shutdown, Workers, Accepted, Serving, callVars, workVars
  <1>1. CASE StopRequested
    BY <1>1 DEF StopRequested
  <1>2. CASE StartupDone
    BY <1>2 DEF StartupDone
  <1>3. CASE StartupFailed
    BY <1>3 DEF StartupFailed
  <1>4. CASE CleanupBegins
    BY <1>4 DEF CleanupBegins
  <1>5. CASE CleanupLocks
    BY <1>5 DEF CleanupLocks
  <1>6. CASE CleanupEnds
    BY <1>6 DEF CleanupEnds
  <1>7. CASE CleanupTimesOut
    BY <1>7 DEF CleanupTimesOut
  <1>8. CASE ProcessEnds
    BY <1>8 DEF ProcessEnds
  <1>9. CASE LoopTop
    BY <1>9 DEF LoopTop, Closed
  <1>10. CASE Tick
    BY <1>10 DEF Tick
  <1>11. CASE Accept
    BY <1>11 DEF Accept
  <1>12. CASE Replace
    BY <1>12 DEF Replace
  <1>13. CASE ReplaceAbandoned
    BY <1>13 DEF ReplaceAbandoned, Closed
  <1>14. CASE ReplaceFails
    BY <1>14 DEF ReplaceFails, Closed
  <1>15. ASSUME NEW t \in BOOLEAN, AcceptFails(t) PROVE JobInv'
    BY <1>15 DEF AcceptFails, Closed
  <1>16. CASE Drained
    BY <1>16 DEF Drained
  <1>17. CASE DrainTimesOut
    BY <1>17 DEF DrainTimesOut, Closed
  <1>18. ASSUME NEW c \in Clients, Open(c) PROVE JobInv'
    BY <1>18 DEF Open
  <1>19. ASSUME NEW c \in Clients, GiveUp(c) PROVE JobInv'
    BY <1>19 DEF GiveUp
  <1>20. ASSUME NEW c \in Clients, ReadRequest(c) PROVE JobInv'
    BY <1>20 DEF ReadRequest
  <1>21. ASSUME NEW c \in Clients, ReadFails(c) PROVE JobInv'
    BY <1>21 DEF ReadFails, Closed
  <1>22. ASSUME NEW c \in Clients, TakeLock(c) PROVE JobInv'
    BY <1>22 DEF TakeLock
  <1>23. ASSUME NEW c \in Clients, WorkDone(c) PROVE JobInv'
    BY <1>23 DEF WorkDone
  <1>24. ASSUME NEW c \in Clients, Reply(c) PROVE JobInv'
    BY <1>24 DEF Reply
  <1>25. ASSUME NEW j \in Jobs, EnableClears(j) PROVE JobInv'
    BY <1>25 DEF EnableClears
  <1>26. ASSUME NEW j \in Jobs, NEW g \in BOOLEAN, EnableEnds(j, g) PROVE JobInv'
    BY <1>26 DEF EnableEnds
  <1>27. ASSUME NEW j \in Jobs, NEW g \in BOOLEAN, DisableEnds(j, g) PROVE JobInv'
    BY <1>27 DEF DisableEnds
  <1>28. CASE UNCHANGED vars
    BY <1>28 DEF vars
  <1> QED
    BY <1>1, <1>2, <1>3, <1>4, <1>5, <1>6, <1>7, <1>8, <1>9, <1>10,
       <1>11, <1>12, <1>13, <1>14, <1>15, <1>16, <1>17, <1>18, <1>19, <1>20,
       <1>21, <1>22, <1>23, <1>24, <1>25, <1>26, <1>27, <1>28
       DEF Next, ServiceStep, LoopStep, WorkerStep, JobStep

----
(* Permits.                                                                *)

\* A step that starts no worker, accepts nobody and does not begin to listen
\* keeps the permits.
LEMMA Shrinks ==
  ASSUME IInv, Workers' \subseteq Workers, Accepted' \subseteq Accepted,
         loop' = loop \/ (loop' \notin {"listen", "replace"} /\ Accepted' = {})
  PROVE  PermitInv'
  <1> USE PipeAssumption DEF IInv, PermitInv, MaxWorkers
  <1>1. IsFiniteSet(Workers') /\ Cardinality(Workers') <= Cardinality(Workers)
    BY FS_Subset
  <1>2. Cardinality(Workers') \in Nat /\ Cardinality(Workers) \in Nat
    BY <1>1, FS_CardinalityType
  <1>3. CASE loop = "replace" /\ loop' = loop
    <2> DEFINE both == Workers \cup Accepted
    <2>1. both' \subseteq both /\ IsFiniteSet(both)
      BY <1>3
    <2>2. IsFiniteSet(both') /\ Cardinality(both') <= Cardinality(both)
      BY <2>1, FS_Subset
    <2>3. Cardinality(both') \in Nat /\ Cardinality(both) \in Nat
      BY <2>1, <2>2, FS_CardinalityType
    <2> QED
      BY <1>1, <1>2, <1>3, <2>2, <2>3
  <1>4. CASE loop # "replace" \/ loop' # loop
    BY <1>1, <1>2, <1>4
  <1> QED
    BY <1>3, <1>4

LEMMA NextPermitInv == IInv /\ [Next]_vars => PermitInv'
  <1> SUFFICES ASSUME IInv, [Next]_vars PROVE PermitInv'
    OBVIOUS
  <1> DEFINE Kept == /\ Workers' \subseteq Workers /\ Accepted' \subseteq Accepted
                     /\ loop' = loop \/ (loop' \notin {"listen", "replace"} /\ Accepted' = {})
  <1> USE PipeAssumption DEF IInv, TypeOK, PermitInv, PhaseInv, Stages, callVars, workVars
  <1>0. Kept => PermitInv'
    BY Shrinks
  <1>1. CASE UNCHANGED <<stage, loop>>
    BY <1>0, <1>1 DEF Workers, Accepted
  <1>2. CASE StartupDone
    BY <1>0, <1>2 DEF StartupDone, Workers, Accepted
  <1>3. CASE LoopTop
    <2>1. CASE stop
      BY <1>0, <1>3, <2>1 DEF LoopTop, Closed, Workers, Accepted
    <2>2. CASE ~stop
      <3>1. Workers' = Workers /\ Accepted' = Accepted /\ Accepted = {}
        BY <1>3, <2>2 DEF LoopTop, Workers, Accepted
      <3> QED
        BY <1>3, <2>2, <3>1 DEF LoopTop
    <2> QED
      BY <2>1, <2>2
  <1>4. CASE Tick
    BY <1>0, <1>4 DEF Tick, Workers, Accepted
  <1>5. CASE Accept
    <2>1. Accepted = {} /\ Cardinality(Workers) < MaxWorkers /\ loop' = "replace"
      BY <1>5 DEF Accept
    <2>2. stage[listener] = "queued" /\ stage' = [stage EXCEPT ![listener] = "accepted"]
      BY <1>5 DEF Accept, CallInv
    <2>3. Workers' = Workers /\ Accepted' = Accepted \cup {listener}
      BY <1>5, <2>2 DEF Accept, Workers, Accepted
    <2>4. (Workers \cup Accepted)' = Workers \cup {listener}
      BY <2>1, <2>3
    <2>5. /\ IsFiniteSet(Workers \cup {listener})
          /\ Cardinality(Workers \cup {listener}) <= Cardinality(Workers) + 1
      <3>1. Cardinality(Workers) \in Nat
        BY FS_CardinalityType
      <3> QED
        BY <3>1, FS_AddElement
    <2>6. Cardinality(Workers) \in Nat /\ Cardinality(Workers \cup {listener}) \in Nat
      BY <2>5, FS_CardinalityType
    <2> QED
      BY <2>1, <2>3, <2>4, <2>5, <2>6 DEF MaxWorkers
  <1>6. CASE Replace
    <2>1. Workers' = Workers \cup Accepted /\ Accepted' = {} /\ loop' = "top"
      BY <1>6 DEF Replace, Workers, Accepted
    <2> QED
      BY <1>6, <2>1 DEF Replace
  <1>7. CASE ReplaceAbandoned \/ ReplaceFails
    BY <1>0, <1>7 DEF ReplaceAbandoned, ReplaceFails, Closed, Workers, Accepted
  <1>8. ASSUME NEW t \in BOOLEAN, AcceptFails(t) PROVE PermitInv'
    <2>1. Workers' \subseteq Workers /\ Accepted' = {} /\ Accepted = {}
      <3>1. Accepted = {}
        BY <1>8 DEF AcceptFails
      <3> QED
        BY <1>8, <3>1 DEF AcceptFails, Closed, Workers, Accepted
    <2>2. CASE t
      <3>1. (Workers \cup Accepted)' = Workers' /\ loop' = "replace"
        BY <1>8, <2>1, <2>2 DEF AcceptFails
      <3>2. IsFiniteSet(Workers') /\ Cardinality(Workers') <= Cardinality(Workers)
        BY <2>1, FS_Subset
      <3>3. Cardinality(Workers') \in Nat /\ Cardinality(Workers) \in Nat
        BY <3>2, FS_CardinalityType
      <3> QED
        BY <2>1, <3>1, <3>2, <3>3 DEF MaxWorkers
    <2>3. CASE ~t
      BY <1>0, <1>8, <2>1, <2>3 DEF AcceptFails
    <2> QED
      BY <2>2, <2>3
  <1>9. CASE Drained \/ DrainTimesOut
    BY <1>0, <1>9 DEF Drained, DrainTimesOut, Closed, Workers, Accepted
  <1>10. ASSUME NEW c \in Clients, Open(c) \/ ReadFails(c) \/ Reply(c) PROVE PermitInv'
    BY <1>0, <1>10 DEF Open, ReadFails, Reply, Closed, Workers, Accepted
  <1>11. ASSUME NEW c \in Clients, ReadRequest(c) \/ TakeLock(c) \/ WorkDone(c) PROVE PermitInv'
    BY <1>0, <1>11 DEF ReadRequest, TakeLock, WorkDone, Workers, Accepted
  <1> QED
    BY <1>1, <1>2, <1>3, <1>4, <1>5, <1>6, <1>7, <1>8, <1>9, <1>10, <1>11
       DEF Next, vars, ServiceStep, LoopStep, WorkerStep, JobStep, StopRequested, StartupFailed,
           CleanupBegins, CleanupLocks, CleanupEnds, CleanupTimesOut, ProcessEnds, GiveUp,
           EnableClears, EnableEnds, DisableEnds

----
(* The theorems.                                                           *)

\* The inductive invariant holds in every reachable state.
LEMMA Inductive == Spec => []IInv
  <1>1. IInv /\ [Next]_vars => IInv'
    BY NextTypeOK, NextCallInv, NextPhaseInv, NextJobInv, NextPermitInv DEF IInv
  <1> QED
    BY InitIInv, <1>1, PTL DEF Spec

\* Every variable keeps its type.
THEOREM TypeCorrect == Spec => []TypeOK
  <1>1. IInv => TypeOK
    BY DEF IInv
  <1> QED
    BY Inductive, <1>1, PTL

\* However many instances there are and whatever the workers hold, the listener
\* is replaced without waiting for one of them.
THEOREM ReplacementIsImmediate == Spec => []ReplacementNeverWaits
  <1>1. IInv => ReplacementNeverWaits
    <2> SUFFICES ASSUME IInv, loop = "replace" PROVE Instances < MaxInstances
      BY DEF ReplacementNeverWaits
    <2>1. listener = "none" /\ IsFiniteSet(Workers \cup Accepted)
          /\ Cardinality(Workers \cup Accepted) <= MaxWorkers
      BY DEF IInv, PhaseInv, PermitInv
    <2>2. Cardinality(Workers \cup Accepted) \in Nat
      BY <2>1, FS_CardinalityType
    <2>3. Instances = Cardinality(Workers \cup Accepted)
      BY <2>1, <2>2 DEF Instances, Accepted
    <2> QED
      BY <2>1, <2>2, <2>3, PipeAssumption DEF MaxWorkers
  <1> QED
    BY Inductive, <1>1, PTL

\* Every thread that changes the filters has the worker that waits for it, or is
\* the start-up's own, and a stop that reports success is the end of them all.
THEOREM ThreadsAreAccounted == Spec => []WorkIsAccounted
  <1>1. IInv => StartupRunsAlone
    <2> SUFFICES ASSUME IInv, Startup \in Running PROVE loop = "off"
      BY DEF StartupRunsAlone, IInv, PhaseInv
    <2> QED
      BY DEF IInv, JobInv, Running
  <1>2. IInv => CleanStopIsClean
    <2> SUFFICES ASSUME IInv, loop = "ended", cleaned = "ok" PROVE filters = None /\ Running = {}
      BY DEF CleanStopIsClean
    <2>1. filters = None /\ job[Shutdown] = "ok"
      BY DEF IInv, JobInv
    <2>2. ASSUME NEW j \in Jobs PROVE j \notin Running
      <3>1. CASE j \in Clients
        BY <3>1 DEF IInv, JobInv, Attended, PhaseInv
      <3>2. CASE j = Startup
        BY <3>2 DEF IInv, JobInv, Running
      <3>3. CASE j = Shutdown
        BY <2>1, <3>3 DEF Running
      <3> QED
        BY <3>1, <3>2, <3>3 DEF Jobs
    <2> QED
      BY <2>1, <2>2 DEF Running
  <1>3. IInv => WorkIsAccounted
    BY <1>1, <1>2 DEF IInv, JobInv, WorkIsAccounted
  <1> QED
    BY Inductive, <1>3, PTL

====
