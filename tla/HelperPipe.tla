---- MODULE HelperPipe ----
(***************************************************************************)
(* The life of the privileged service around its requests: the start-up    *)
(* cleanup, the accept loop of the named pipe with its bounded instances   *)
(* and workers, the workers that carry one request each, the kill-switch   *)
(* work they put on blocking threads, the drain on a stop, the shutdown    *)
(* cleanup and the end of the process (kwik_helper/pipe.rs, service.rs     *)
(* service_loop, platform/helper_client.rs send).                          *)
(*                                                                         *)
(* A client is one call of helper_client::send.  What a request does to    *)
(* the tunnel is the subject of HelperBroker; here a request is a "ping",  *)
(* which takes no lock, or a kill-switch "enable" or "disable", which      *)
(* holds the broker lock while a blocking thread does the work.  Such a    *)
(* thread outlives the task that waits for it, and it may hang.            *)
(***************************************************************************)
EXTENDS Naturals, FiniteSets

CONSTANTS Clients,       \* the calls, each one connection with one request
          Kind,          \* what each of them asks for
          MaxInstances,  \* MAX_INSTANCES: the pipe instances the system grants
          None

ASSUME PipeAssumption ==
    /\ Kind \in [Clients -> {"ping", "enable", "disable"}]
    /\ MaxInstances \in Nat \ {0, 1}
    /\ Clients \cap {None, "none", "free", "startup", "shutdown"} = {}
    /\ None # "shutdown"

VARIABLES service,   \* service_loop: start, serve, cleanup, runtime, stopped
          stop,      \* the flag the SCM handler sets
          loop,      \* the accept loop: off, top, listen, replace, drain, ended, failed
          listener,  \* the listening instance: "none", "free" or the client that opened it
          stage,     \* where each call is on the side of the service
          answer,    \* what each call has returned to its caller
          broker,    \* who holds the broker lock
          job,       \* the blocking thread of each request and of the service's own cleanups
          cleaned,   \* the outcome of the shutdown cleanup
          filters    \* whose engine is in the slot: the kill-switch filters in force

vars == <<service, stop, loop, listener, stage, answer, broker, job, cleaned, filters>>
callVars == <<stage, answer>>
workVars == <<broker, job, filters>>

\* The two cleanups that the service itself puts on a blocking thread.
Startup == "startup"
Shutdown == "shutdown"
Jobs == Clients \cup {Startup, Shutdown}

\* Mutant: as many workers as instances.
MaxWorkersAll == MaxInstances

MaxWorkers == MaxInstances - 1

\* The clients whose worker task lives; each holds a permit and an instance.
Workers == {c \in Clients : stage[c] \in {"read", "lock", "work", "reply"}}

\* The instances in use: the workers', the listening one, and the one of a
\* client that has been accepted while the listener is being replaced.
Instances == Cardinality(Workers \cup {c \in Clients : stage[c] = "accepted"})
             + (IF listener = "none" THEN 0 ELSE 1)

Running == {j \in Jobs : job[j] \in {"begin", "open"}}

Init ==
    /\ service = "start"
    /\ stop = FALSE
    /\ loop = "off"
    /\ listener = "none"
    /\ stage = [c \in Clients |-> "idle"]
    /\ answer = [c \in Clients |-> "none"]
    /\ broker = None
    /\ job = [j \in Jobs |-> IF j = Startup THEN "begin" ELSE "none"]
    /\ cleaned = "none"
    /\ filters = None

(***************************************************************************)
(* Blocking threads.  They run to their end whoever still waits for them.  *)
(***************************************************************************)

\* enable_blocking gives the slot up before it opens its own engine.
EnableClears(c) ==
    /\ c \in Clients /\ Kind[c] = "enable" /\ job[c] = "begin"
    /\ job' = [job EXCEPT ![c] = "open"]
    /\ filters' = None
    /\ UNCHANGED <<service, stop, loop, listener, callVars, broker, cleaned>>

\* It keeps its engine only after the whole transaction.
EnableEnds(c, good) ==
    /\ job[c] = "open"
    /\ job' = [job EXCEPT ![c] = IF good THEN "ok" ELSE "error"]
    /\ filters' = IF good THEN c ELSE filters
    /\ UNCHANGED <<service, stop, loop, listener, callVars, broker, cleaned>>

\* disable_blocking and cleanup_on_startup: the engine goes at once, and what
\* remains to fail is the check that the provider is gone.
DisableEnds(j, good) ==
    /\ job[j] = "begin"
    /\ j \in Clients => Kind[j] = "disable"
    /\ job' = [job EXCEPT ![j] = IF good THEN "ok" ELSE "error"]
    /\ filters' = None
    /\ UNCHANGED <<service, stop, loop, listener, callVars, broker, cleaned>>

(***************************************************************************)
(* The service: start-up, stop request, shutdown cleanup, end of process.  *)
(***************************************************************************)

\* The SCM asks for a stop, at any time (Stop or Shutdown).
StopRequested ==
    /\ service # "stopped" /\ ~stop
    /\ stop' = TRUE
    /\ UNCHANGED <<service, loop, listener, callVars, workVars, cleaned>>

\* Mutant: a cleanup that is late does not fail the start.
StartupDoneLate ==
    /\ service = "start" /\ ~stop
    /\ service' = "serve"
    /\ loop' = "top"
    /\ listener' = "free"
    /\ UNCHANGED <<stop, callVars, workVars, cleaned>>

\* The cleanup has succeeded and no stop came meanwhile: the first instance is
\* published and the loop begins.
StartupDone ==
    /\ service = "start" /\ job[Startup] = "ok" /\ ~stop
    /\ service' = "serve"
    /\ loop' = "top"
    /\ listener' = "free"
    /\ UNCHANGED <<stop, callVars, workVars, cleaned>>

\* The cleanup failed or took more than 15 s, the manifest or the pipe was not
\* ready, or a stop came: the service fails before it reports Running, although
\* a thread that is late goes on.
StartupFailed ==
    /\ service = "start"
    /\ service' = "runtime"
    /\ UNCHANGED <<stop, loop, listener, callVars, workVars, cleaned>>

\* run_prepared_pipe_server has returned; shutdown_cleanup waits for the lock.
CleanupBegins ==
    /\ service = "serve" /\ loop \in {"ended", "failed"}
    /\ service' = "cleanup"
    /\ UNCHANGED <<stop, loop, listener, callVars, workVars, cleaned>>

\* shutdown_cleanup has the lock; firewall::disable goes to a thread.
CleanupLocks ==
    /\ service = "cleanup" /\ broker = None
    /\ broker' = Shutdown
    /\ job' = [job EXCEPT ![Shutdown] = "begin"]
    /\ UNCHANGED <<service, stop, loop, listener, callVars, cleaned, filters>>

\* Mutant: the outcome is taken before the thread has ended.
CleanupEndsEarly ==
    /\ service = "cleanup" /\ broker = Shutdown
    /\ service' = "runtime"
    /\ cleaned' = job[Shutdown]
    /\ broker' = None
    /\ UNCHANGED <<stop, loop, listener, callVars, job, filters>>

CleanupEnds ==
    /\ service = "cleanup" /\ job[Shutdown] \in {"ok", "error"}
    /\ service' = "runtime"
    /\ cleaned' = job[Shutdown]
    /\ broker' = None
    /\ UNCHANGED <<stop, loop, listener, callVars, job, filters>>

\* SHUTDOWN_CLEANUP_TIMEOUT: the future is dropped and with it the lock.
CleanupTimesOut ==
    /\ service = "cleanup"
    /\ service' = "runtime"
    /\ cleaned' = "error"
    /\ broker' = IF broker = Shutdown THEN None ELSE broker
    /\ UNCHANGED <<stop, loop, listener, callVars, job, filters>>

\* rt.shutdown_timeout waits 2 s for the threads; then the process ends, and a
\* dynamic session ends with it.
ProcessEnds ==
    /\ service = "runtime"
    /\ service' = "stopped"
    /\ job' = [j \in Jobs |-> IF j \in Running THEN "error" ELSE job[j]]
    /\ filters' = None
    /\ broker' = None
    /\ UNCHANGED <<stop, loop, listener, callVars, cleaned>>

(***************************************************************************)
(* The callers.                                                            *)
(***************************************************************************)

\* open_pipe finds the listening instance free.
Open(c) ==
    /\ stage[c] = "idle" /\ answer[c] = "none" /\ listener = "free"
    /\ listener' = c
    /\ stage' = [stage EXCEPT ![c] = "queued"]
    /\ UNCHANGED <<service, stop, loop, answer, workVars, cleaned>>

\* The call fails on its own side: ten tries without a free instance, a service
\* that no longer reports Running, a timeout of 20 s.  What it asked for goes on.
GiveUp(c) ==
    /\ answer[c] = "none"
    /\ answer' = [answer EXCEPT ![c] = "error"]
    /\ UNCHANGED <<service, stop, loop, listener, stage, workVars, cleaned>>

\* The call of a closed connection ends with an error unless it had an answer.
Closed(cs) ==
    /\ stage' = [c \in Clients |-> IF c \in cs THEN "done" ELSE stage[c]]
    /\ answer' = [c \in Clients |->
                    IF c \in cs /\ answer[c] = "none" THEN "error" ELSE answer[c]]

(***************************************************************************)
(* The accept loop.                                                        *)
(***************************************************************************)

Serving == service = "serve"

\* The top of the loop: the flag, then a permit.  The listener is dropped with
\* whoever has opened it when the loop is left.
LoopTop ==
    /\ Serving /\ loop = "top"
    /\ IF stop
       THEN /\ loop' = "drain"
            /\ listener' = "none"
            /\ Closed({listener} \cap Clients)
       ELSE /\ Cardinality(Workers) < MaxWorkers
            /\ loop' = "listen"
            /\ UNCHANGED <<listener, callVars>>
    /\ UNCHANGED <<service, stop, workVars, cleaned>>

\* 500 ms without a client: the permit goes back.
Tick ==
    /\ Serving /\ loop = "listen"
    /\ loop' = "top"
    /\ UNCHANGED <<service, stop, listener, callVars, workVars, cleaned>>

\* A client is connected; the listener is replaced before its worker starts.
Accept ==
    /\ Serving /\ loop = "listen" /\ listener \in Clients
    /\ stage' = [stage EXCEPT ![listener] = "accepted"]
    /\ listener' = "none"
    /\ loop' = "replace"
    /\ UNCHANGED <<service, stop, answer, workVars, cleaned>>

\* connect() failed.  After a transient error, such as a client that has gone, the
\* instance is dropped and replaced.  Any other error ends the server at once.
AcceptFails(transient) ==
    /\ Serving /\ loop = "listen" /\ listener # "none"
    /\ listener' = "none"
    /\ loop' = IF transient THEN "replace" ELSE "failed"
    /\ Closed(IF transient THEN {listener} ELSE Workers \cup ({listener} \cap Clients))
    /\ broker' = IF ~transient /\ broker \in Workers THEN None ELSE broker
    /\ UNCHANGED <<service, stop, job, cleaned, filters>>

Accepted == {c \in Clients : stage[c] = "accepted"}

\* CreateNamedPipe succeeds: the accepted client, if any, gets its worker.
Replace ==
    /\ Serving /\ loop = "replace" /\ Instances < MaxInstances
    /\ listener' = "free"
    /\ loop' = "top"
    /\ stage' = [c \in Clients |-> IF c \in Accepted THEN "read" ELSE stage[c]]
    /\ UNCHANGED <<service, stop, answer, workVars, cleaned>>

\* No instance or no memory is to be had while a stop is asked for: the loop is
\* left, and the accepted client is dropped.
ReplaceAbandoned ==
    /\ Serving /\ loop = "replace" /\ stop
    /\ loop' = "drain"
    /\ Closed(Accepted)
    /\ UNCHANGED <<service, stop, listener, workVars, cleaned>>

\* Any other error ends the server at once, and its workers with it.
ReplaceFails ==
    /\ Serving /\ loop = "replace"
    /\ loop' = "failed"
    /\ Closed(Accepted \cup Workers)
    /\ broker' = IF broker \in Workers THEN None ELSE broker
    /\ UNCHANGED <<service, stop, listener, job, cleaned, filters>>

\* Mutant: the loop ends without a drain.
DrainedEarly ==
    /\ Serving /\ loop = "drain"
    /\ loop' = "ended"
    /\ UNCHANGED <<service, stop, listener, callVars, workVars, cleaned>>

\* Every worker has ended.
Drained ==
    /\ Serving /\ loop = "drain" /\ Workers = {}
    /\ loop' = "ended"
    /\ UNCHANGED <<service, stop, listener, callVars, workVars, cleaned>>

\* Mutant: the drain has no bound.
DrainUnbounded ==
    /\ FALSE
    /\ UNCHANGED vars

\* RPC_DRAIN_TIMEOUT: the tasks are aborted wherever they wait, the lock is
\* released, and a thread they had started goes on without them.
DrainTimesOut ==
    /\ Serving /\ loop = "drain" /\ Workers # {}
    /\ loop' = "failed"
    /\ Closed(Workers)
    /\ broker' = IF broker \in Workers THEN None ELSE broker
    /\ UNCHANGED <<service, stop, listener, job, cleaned, filters>>

(***************************************************************************)
(* A worker (handle_client).                                               *)
(***************************************************************************)

\* The client is who it must be and its request is there and well formed.
ReadRequest(c) ==
    /\ stage[c] = "read" /\ answer[c] = "none"
    /\ stage' = [stage EXCEPT ![c] = IF Kind[c] = "ping" THEN "reply" ELSE "lock"]
    /\ UNCHANGED <<service, stop, loop, listener, answer, workVars, cleaned>>

\* Mutant: a request is awaited without a bound.
ReadUnbounded(c) ==
    /\ stage[c] = "read" /\ answer[c] # "error"
    /\ Closed({c})
    /\ UNCHANGED <<service, stop, loop, listener, workVars, cleaned>>

\* It is not, or nothing has come for 5 s (READ_TIMEOUT).
ReadFails(c) ==
    /\ stage[c] = "read"
    /\ Closed({c})
    /\ UNCHANGED <<service, stop, loop, listener, workVars, cleaned>>

\* dispatch::handle gets the broker lock and puts the work on a thread.
TakeLock(c) ==
    /\ stage[c] = "lock" /\ broker = None
    /\ broker' = c
    /\ stage' = [stage EXCEPT ![c] = "work"]
    /\ job' = [job EXCEPT ![c] = "begin"]
    /\ UNCHANGED <<service, stop, loop, listener, answer, cleaned, filters>>

\* Mutant: the handler is cancelled from outside while its thread works.
WorkCancelled(c) ==
    /\ stage[c] = "work"
    /\ stage' = [stage EXCEPT ![c] = "reply"]
    /\ broker' = None
    /\ UNCHANGED <<service, stop, loop, listener, answer, job, cleaned, filters>>

\* The handler returns only when the thread has ended; the lock goes with it.
WorkDone(c) ==
    /\ stage[c] = "work" /\ job[c] \in {"ok", "error"}
    /\ stage' = [stage EXCEPT ![c] = "reply"]
    /\ broker' = None
    /\ UNCHANGED <<service, stop, loop, listener, answer, job, cleaned, filters>>

\* send_response reaches a caller that still waits, or fails within 5 s; then
\* the connection closes.
Reply(c) ==
    /\ stage[c] = "reply"
    /\ IF answer[c] = "none"
       THEN \E result \in {"error", IF job[c] = "error" THEN "error" ELSE "ok"} :
                answer' = [answer EXCEPT ![c] = result]
       ELSE UNCHANGED answer
    /\ stage' = [stage EXCEPT ![c] = "done"]
    /\ UNCHANGED <<service, stop, loop, listener, workVars, cleaned>>

(***************************************************************************)

ServiceStep ==
    \/ StartupDone \/ StartupFailed \/ CleanupBegins \/ CleanupLocks
    \/ CleanupEnds \/ CleanupTimesOut \/ ProcessEnds

LoopStep ==
    \/ LoopTop \/ Tick \/ Accept \/ Replace \/ ReplaceAbandoned \/ ReplaceFails
    \/ \E transient \in BOOLEAN : AcceptFails(transient)
    \/ Drained \/ DrainTimesOut

WorkerStep(c) ==
    ReadRequest(c) \/ ReadFails(c) \/ TakeLock(c) \/ WorkDone(c) \/ Reply(c)

JobStep(j) ==
    \/ EnableClears(j)
    \/ \E good \in BOOLEAN : EnableEnds(j, good) \/ DisableEnds(j, good)

Next ==
    \/ StopRequested
    \/ ServiceStep
    \/ LoopStep
    \/ \E c \in Clients : Open(c) \/ GiveUp(c) \/ WorkerStep(c)
    \/ \E j \in Jobs : JobStep(j)

Spec == Init /\ [][Next]_vars

\* The service thread, the loop and the workers are tasks that are polled as
\* long as they can run.  The lock of the broker is first come first served, and
\* a connected client is taken by connect() before the tick (a tie of the two is
\* broken at random).  Nothing is assumed of the threads, the callers or the SCM.
FairSpec ==
    /\ Spec
    /\ WF_vars(ServiceStep) /\ WF_vars(LoopStep) /\ SF_vars(Accept)
    /\ \A c \in Clients :
         /\ WF_vars(ReadRequest(c) \/ ReadFails(c)) /\ SF_vars(TakeLock(c))
         /\ WF_vars(WorkDone(c)) /\ WF_vars(Reply(c))
----
(***************************************************************************)
(* What must hold.                                                         *)
(***************************************************************************)

Stages == {"idle", "queued", "accepted", "read", "lock", "work", "reply", "done"}

\* The type of the state.
TypeOK ==
    /\ service \in {"start", "serve", "cleanup", "runtime", "stopped"}
    /\ stop \in BOOLEAN
    /\ loop \in {"off", "top", "listen", "replace", "drain", "ended", "failed"}
    /\ listener \in {"none", "free"} \cup Clients
    /\ stage \in [Clients -> Stages]
    /\ answer \in [Clients -> {"none", "ok", "error"}]
    /\ broker \in Clients \cup {None, Shutdown}
    /\ job \in [Jobs -> {"none", "begin", "open", "ok", "error"}]
    /\ cleaned \in {"none", "ok", "error"}
    /\ filters \in Clients \cup {None}

\* One worker fewer than instances: whatever the workers hold, the service can
\* replace its listener without waiting for one of them, so the pipe is never
\* without a listening instance for longer than a system call (MAX_CLIENT_WORKERS
\* and the permit taken before connect in run_prepared_pipe_server).
ReplacementNeverWaits == loop = "replace" => Instances < MaxInstances

\* As long as the loop has not failed, every kill-switch thread has its worker,
\* which holds the broker lock: no request is answered, dropped or overtaken
\* while its thread still changes the filters (handle_client puts no timeout
\* around dispatch::handle, and the loop drains before it ends).
Attended ==
    loop # "failed" =>
        \A c \in Clients \cap Running : stage[c] = "work" /\ broker = c

\* The cleanup of filters left by an earlier process runs before the pipe exists;
\* when it is late the service fails rather than let it meet a request.
StartupRunsAlone ==
    Startup \in Running => filters = None /\ \A c \in Clients : stage[c] = "idle"

\* A stop that reports success leaves no filter in force and no thread that could
\* still install one.
CleanStopIsClean ==
    service \in {"runtime", "stopped"} /\ loop = "ended" /\ cleaned = "ok"
        => filters = None /\ Running = {}

\* Kill-switch work is always accounted for: by a worker while the service
\* serves, by nothing else while it starts, and by the result of the stop.
WorkIsAccounted == Attended /\ StartupRunsAlone /\ CleanStopIsClean

\* A stop ends the process although threads hang and callers stay silent: the
\* start-up, the drain and the shutdown cleanup are bounded.
StopEnds == stop ~> service = "stopped"

\* While the threads do end, a caller that has opened the pipe is taken, however
\* many silent callers hold permits (READ_TIMEOUT), unless the service stops.
ConnectedIsTaken ==
    []<>(Running = {}) => \A c \in Clients : stage[c] = "queued" ~> stage[c] # "queued"

\* The service neither hangs on a stop nor deaf to its callers.
StopsAndServes == StopEnds /\ ConnectedIsTaken

\* What the comment on shutdown_cleanup (dispatch.rs) says: every worker has
\* drained before it runs, so what it removes stays removed.  It does not hold
\* after a drain that timed out or a loop that failed: the thread of an aborted
\* enable goes on and may install its filters after the cleanup; they last until
\* the process ends, at most the 2 s of shutdown_timeout.
CleanupIsLast == cleaned = "ok" => filters = None
====
