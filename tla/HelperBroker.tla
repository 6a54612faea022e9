---------------------------- MODULE HelperBroker ----------------------------
(***************************************************************************)
(* The SYSTEM helper (src-tauri/src/bin/kwik_helper): the session-scoped   *)
(* broker of dispatch.rs, the supervised Mihomo child of mihomo.rs, the    *)
(* WFP kill switch of firewall.rs with its watchdog thread, and the owned  *)
(* TUN adapter of tun.rs.                                                  *)
(*                                                                         *)
(* Every mutating request holds the broker lock from its first check to    *)
(* its reply, but it awaits in between; the lock holder is `task`, one     *)
(* action per stretch between two awaits.  What interleaves with it: the   *)
(* per-child exit monitors, the lock-free half of TunnelStatus, the        *)
(* watchdog thread, the operating system, and a crash of the service.      *)
(* The service runtime is single threaded, so code without an await is one *)
(* step; the firewall code runs on a blocking thread, concurrently with    *)
(* the watchdog thread, and is cut at every access to shared state.        *)
(***************************************************************************)
CONSTANTS
  Sessions,     \* interactive sessions whose UI may call the helper
  Instances,    \* Mihomo instances; each has its own UUID and TUN alias
  NoInstance,   \* "no device", "no child": Option::None
  CleanupMayFail \* whether the WFP provider cleanup may report an error

ASSUME CleanupMayFailType == CleanupMayFail \in BOOLEAN

ASSUME NoInstanceFresh == NoInstance \notin Instances

Nobody == "none"

ASSUME SessionsNamed == Nobody \notin Sessions

VARIABLES
  service,      \* life of the service process
  owner,        \* BrokerState.owner
  task,         \* the request that holds the broker lock
  starter,      \* session that asked for an instance (its monitor's session_id)
  child,        \* mihomo::STATE: the supervised instance
  alive,        \* instances whose OS process runs
  adapters,     \* TUN aliases present in the OS interface table
  monitors,     \* exit-monitor task of each instance
  engine,       \* firewall::ENGINE is Some
  filters,      \* the kill-switch filters are installed in WFP
  heartbeat,    \* firewall::LAST_HEARTBEAT
  watchdog,     \* program counter of the watchdog thread
  probe         \* TunnelStatus requests between their two halves

vars == <<service, owner, task, starter, child, alive, adapters, monitors,
          engine, filters, heartbeat, watchdog, probe>>

fwVars    == <<engine, filters, heartbeat, watchdog>>
childVars == <<starter, child, alive, monitors>>

-----------------------------------------------------------------------------
(* The data.                                                               *)

InstanceOrNone == Instances \cup {NoInstance}

NoOwner == [session |-> Nobody]

\* ActiveOwner; tunnel_active holds exactly while an instance is recorded.
OwnerRecord == {o \in [session : Sessions, tunnel : BOOLEAN, firewall : BOOLEAN,
                       device : InstanceOrNone, instance : InstanceOrNone] :
                  o.tunnel <=> o.instance # NoInstance}

IdleOwner(s) == [session |-> s, tunnel |-> FALSE, firewall |-> FALSE,
                 device |-> NoInstance, instance |-> NoInstance]

Stages == {"gate", "drop", "commit", "store", "arm",        \* KillSwitchEnable
           "fw_drop", "fw_cleanup",                         \* firewall::disable
           "spawn", "ready", "undo",                        \* StartTunnel
           "kill", "device", "device_unclean",              \* MihomoStop, exit, shutdown
           "verdict_ok", "verdict_err"}                     \* shutdown_cleanup

Ops == {"enable", "disable", "start", "stop", "exit", "shutdown", "blocked"}

Idle == [op |-> "idle"]

Task == [op : Ops, stage : Stages, device : InstanceOrNone]

At(op, stage) == /\ task # Idle
                 /\ task.op = op
                 /\ task.stage = stage

Hold(op, stage, d) == task' = [op |-> op, stage |-> stage, device |-> d]

Goto(stage) == task' = [task EXCEPT !.stage = stage]

Unlock == task' = Idle

-----------------------------------------------------------------------------
(* BrokerState (dispatch.rs).  The install generation is fixed for the     *)
(* life of a service process, so an owner is matched by its session; pid   *)
(* and instance UUID are recorded and cleared together and are one field.  *)

Active(o) == o # NoOwner /\ (o.tunnel \/ o.firewall \/ o.device # NoInstance)

Matches(s) == owner = NoOwner \/ owner.session = s

\* bind_or_verify admits a session that holds the lock record or finds none.
Bound(s) == IF owner = NoOwner THEN IdleOwner(s) ELSE owner

\* Variant: a tunnel that failed to start is forgotten although its adapter
\* was not verified absent.
ReleaseForgettingDevice(o) ==
  IF o # NoOwner /\ ~o.tunnel /\ ~o.firewall THEN NoOwner ELSE o

\* Variant: an active kill switch does not count.
ReleaseIgnoringFirewall(o) ==
  IF o # NoOwner /\ (o.tunnel \/ o.device # NoInstance) THEN o ELSE NoOwner

\* Variant: the idle record survives a refused request.
ReleaseNever(o) == o

ReleaseIfIdle(o) == IF Active(o) THEN o ELSE NoOwner

\* Variant: the instance outlives the tunnel mark.
ClearTunnelKeepingInstance(o) == IF o = NoOwner THEN o ELSE [o EXCEPT !.tunnel = FALSE]

ClearTunnel(o) == IF o = NoOwner THEN o
                  ELSE [o EXCEPT !.tunnel = FALSE, !.instance = NoInstance]

ClearFirewall(o) == IF o = NoOwner THEN o ELSE [o EXCEPT !.firewall = FALSE]

ClearDevice(o) == IF o = NoOwner THEN o ELSE [o EXCEPT !.device = NoInstance]

DeviceOf(o) == IF o = NoOwner THEN NoInstance ELSE o.device

\* Variant: a delayed monitor is matched by its session alone.
ExitMatchesSession(i) == owner # NoOwner /\ owner.session = starter[i]

\* Variant: it is matched against STATE, which it has just taken.
ExitMatchesSupervised(i) == owner # NoOwner /\ owner.instance = i /\ child = i

\* note_tunnel_exit: session and exact instance.
ExitMatches(i) == /\ owner # NoOwner
                  /\ owner.session = starter[i]
                  /\ owner.instance = i

-----------------------------------------------------------------------------
(* KillSwitchEnable: ownership gate, then firewall::enable_blocking.       *)

EnableBegin(s, expectTun) ==
  /\ service # "down" /\ task = Idle
  /\ Matches(s)
  /\ IF expectTun /\ Bound(s).device = NoInstance
       THEN owner' = ReleaseIfIdle(Bound(s)) /\ UNCHANGED task
       ELSE /\ owner' = Bound(s)
            /\ Hold("enable", "gate",
                    IF expectTun THEN Bound(s).device ELSE NoInstance)
  /\ UNCHANGED <<service, childVars, adapters, fwVars, probe>>

\* The exact adapter is up (or none is expected).
EnableGateOk ==
  /\ At("enable", "gate")
  /\ task.device = NoInstance \/ task.device \in adapters
  /\ Goto("drop")
  /\ UNCHANGED <<service, owner, childVars, adapters, fwVars, probe>>

\* It did not come up within five seconds, or the lookup failed.
EnableGateErr ==
  /\ At("enable", "gate")
  /\ task.device # NoInstance
  /\ owner' = ReleaseIfIdle(owner)
  /\ Unlock
  /\ UNCHANGED <<service, childVars, adapters, fwVars, probe>>

\* Closing the engine handle ends its dynamic session, filters included.
CloseEngine == /\ engine' = FALSE
               /\ filters' = (filters /\ ~engine)

EnableDropOld ==
  /\ At("enable", "drop")
  /\ CloseEngine
  /\ Goto("commit")
  /\ UNCHANGED <<service, owner, childVars, adapters, heartbeat, watchdog, probe>>

\* The transaction commits: the filters exist, held by a local handle.
EnableCommit ==
  /\ At("enable", "commit")
  /\ filters' = TRUE
  /\ Goto("store")
  /\ UNCHANGED <<service, owner, childVars, adapters, engine, heartbeat, watchdog, probe>>

\* The engine did not open or the transaction was aborted.
EnableFail ==
  /\ At("enable", "commit")
  /\ owner' = ReleaseIfIdle(owner)
  /\ Unlock
  /\ UNCHANGED <<service, childVars, adapters, fwVars, probe>>

EnableStore ==
  /\ At("enable", "store")
  /\ engine' = TRUE
  /\ Goto("arm")
  /\ UNCHANGED <<service, owner, childVars, adapters, filters, heartbeat, watchdog, probe>>


\* First heartbeat, watchdog thread, and the mark in the owner record.
EnableArm ==
  /\ At("enable", "arm")
  /\ heartbeat' = "fresh"
  /\ watchdog' = IF watchdog = "unborn" THEN "sleep" ELSE watchdog
  /\ owner' = [owner EXCEPT !.firewall = TRUE]
  /\ Unlock
  /\ UNCHANGED <<service, childVars, adapters, engine, filters, probe>>

-----------------------------------------------------------------------------
(* firewall::disable, run by KillSwitchDisable, by the exit handler and by *)
(* the shutdown transaction.                                               *)

\* KillSwitchDisable and KillSwitchForceCleanup.
DisableBegin(s) ==
  /\ service # "down" /\ task = Idle
  /\ Matches(s)
  /\ heartbeat' = "off"
  /\ Hold("disable", "fw_drop", NoInstance)
  /\ UNCHANGED <<service, owner, childVars, adapters, engine, filters, watchdog, probe>>

DisableDrop ==
  /\ task # Idle /\ task.stage = "fw_drop"
  /\ CloseEngine
  /\ Goto("fw_cleanup")
  /\ UNCHANGED <<service, owner, childVars, adapters, heartbeat, watchdog, probe>>

\* wfp::cleanup_provider: removes what carries our GUIDs, or fails.
\* The owner record is updated from the result, then by the caller.
DisableCleanup(ok) ==
  /\ ok \/ CleanupMayFail
  /\ task # Idle /\ task.stage = "fw_cleanup"
  /\ filters' = (filters /\ ~ok)
  /\ LET o == IF ok THEN ClearFirewall(owner) ELSE owner
     IN  IF task.op \in {"shutdown", "blocked"}
           THEN owner' = o /\ Goto(IF ok THEN "device" ELSE "device_unclean")
           ELSE owner' = ReleaseIfIdle(o) /\ Unlock
  /\ UNCHANGED <<service, childVars, adapters, engine, heartbeat, watchdog, probe>>

\* KillSwitchHeartbeat: needs the mark in the owner record.
Heartbeat(s) ==
  /\ service # "down" /\ task = Idle
  /\ owner # NoOwner /\ owner.session = s /\ owner.firewall
  /\ heartbeat' = "fresh"
  /\ UNCHANGED <<service, owner, task, childVars, adapters, engine, filters, watchdog, probe>>

-----------------------------------------------------------------------------
(* StartTunnel.  mihomo::STATE stays locked from the spawn to the end of   *)
(* the readiness wait (stage "ready").                                     *)

\* The device is recorded before the spawn.  A request that finds anything
\* active is refused and leaves the record as it is.
StartBegin(s, i) ==
  /\ service # "down" /\ task = Idle
  /\ Matches(s)
  /\ ~Active(owner)
  /\ starter[i] = Nobody
  /\ owner' = [Bound(s) EXCEPT !.device = i]
  /\ starter' = [starter EXCEPT ![i] = s]
  /\ Hold("start", "spawn", i)
  /\ UNCHANGED <<service, child, alive, monitors, adapters, fwVars, probe>>

\* STATE is taken, or a file, the job object or the spawn failed.
StartRefused ==
  /\ At("start", "spawn")
  /\ Goto("undo")
  /\ UNCHANGED <<service, owner, childVars, adapters, fwVars, probe>>

StartSpawn ==
  /\ At("start", "spawn")
  /\ child = NoInstance
  /\ alive' = alive \cup {task.device}
  /\ Goto("ready")
  /\ UNCHANGED <<service, owner, starter, child, monitors, adapters, fwVars, probe>>

\* Controller and adapter answered: supervised, monitored and recorded.
StartReady ==
  /\ At("start", "ready")
  /\ task.device \in alive \cap adapters
  /\ child' = task.device
  /\ monitors' = [monitors EXCEPT ![task.device] = "watching"]
  /\ owner' = [owner EXCEPT !.tunnel = TRUE, !.instance = task.device]
  /\ Unlock
  /\ UNCHANGED <<service, starter, alive, adapters, fwVars, probe>>

\* Not ready in time or exited: killed, and the job object closes.
StartTimeout ==
  /\ At("start", "ready")
  /\ alive' = alive \ {task.device}
  /\ Goto("undo")
  /\ UNCHANGED <<service, owner, starter, child, monitors, adapters, fwVars, probe>>

StartUndone ==
  /\ At("start", "undo")
  /\ task.device \notin adapters
  /\ owner' = ReleaseIfIdle(ClearDevice(owner))
  /\ Unlock
  /\ UNCHANGED <<service, childVars, adapters, fwVars, probe>>

\* The adapter is still there (or the table could not be read): the record
\* keeps the device, so that a later MihomoStop retries.
StartUndoErr ==
  /\ At("start", "undo")
  /\ owner' = ReleaseIfIdle(owner)
  /\ Unlock
  /\ UNCHANGED <<service, childVars, adapters, fwVars, probe>>

-----------------------------------------------------------------------------
(* MihomoStop.                                                             *)

\* stop_owned also refuses a supervised child of another session.
StopBegin(s) ==
  /\ service # "down" /\ task = Idle
  /\ Matches(s)
  /\ IF child # NoInstance /\ starter[child] # s
       THEN owner' = ReleaseIfIdle(owner) /\ UNCHANGED task
       ELSE Hold("stop", "kill", DeviceOf(owner)) /\ UNCHANGED owner
  /\ UNCHANGED <<service, childVars, adapters, fwVars, probe>>

\* mihomo::stop: nothing supervised, already exited, or killed and reaped.
KillChild == /\ alive' = alive \ {child}
             /\ child' = NoInstance

StopKilled ==
  /\ At("stop", "kill")
  /\ KillChild
  /\ owner' = ClearTunnel(owner)
  /\ Goto("device")
  /\ UNCHANGED <<service, starter, monitors, adapters, fwVars, probe>>

\* The kill or the three-second wait failed: the child stays supervised.
StopKillErr ==
  /\ At("stop", "kill")
  /\ child # NoInstance
  /\ owner' = ReleaseIfIdle(owner)
  /\ Unlock
  /\ UNCHANGED <<service, childVars, adapters, fwVars, probe>>

\* Variant: the device obligation is dropped without looking.
StopDeviceUnverified ==
  /\ At("stop", "device")
  /\ owner' = ReleaseIfIdle(ClearDevice(owner))
  /\ Unlock
  /\ UNCHANGED <<service, childVars, adapters, fwVars, probe>>

StopDeviceGone ==
  /\ At("stop", "device")
  /\ task.device \notin adapters
  /\ owner' = ReleaseIfIdle(ClearDevice(owner))
  /\ Unlock
  /\ UNCHANGED <<service, childVars, adapters, fwVars, probe>>

StopDeviceErr ==
  /\ At("stop", "device")
  /\ task.device # NoInstance
  /\ Unlock
  /\ UNCHANGED <<service, owner, childVars, adapters, fwVars, probe>>

-----------------------------------------------------------------------------
(* The exit monitor of an instance (mihomo.rs), then on_tunnel_process_exit.*)

\* One poll that ends the loop: the child is gone or replaced (return), or
\* it exited (STATE is taken).  A failing process query takes STATE as well
\* and closing the job then kills the child: ChildExits, then this step.
MonitorObserve(i) ==
  /\ monitors[i] = "watching"
  /\ ~At("start", "ready")
  /\ \/ /\ child # i
        /\ monitors' = [monitors EXCEPT ![i] = "none"]
        /\ UNCHANGED child
     \/ /\ child = i /\ i \notin alive
        /\ monitors' = [monitors EXCEPT ![i] = "exited"]
        /\ child' = NoInstance
  /\ UNCHANGED <<service, owner, task, starter, alive, adapters, fwVars, probe>>

\* The monitor obtains the broker lock.
ExitBegin(i) ==
  /\ service # "down" /\ task = Idle
  /\ monitors[i] = "exited"
  /\ monitors' = [monitors EXCEPT ![i] = "none"]
  /\ IF ExitMatches(i)
       THEN /\ owner' = ClearTunnel(owner)
            /\ Hold("exit", "device", owner.device)
       ELSE UNCHANGED <<owner, task>>
  /\ UNCHANGED <<service, starter, child, alive, adapters, fwVars, probe>>

\* cleanup_owned_device, then the kill switch is taken down if it was up.
ExitDevice(gone) ==
  /\ At("exit", "device")
  /\ gone => task.device \notin adapters
  /\ LET o == IF gone THEN ClearDevice(owner) ELSE owner
     IN  IF o # NoOwner /\ o.firewall
           THEN /\ owner' = o
                /\ heartbeat' = "off"
                /\ Goto("fw_drop")
           ELSE /\ owner' = ReleaseIfIdle(o)
                /\ Unlock
                /\ UNCHANGED heartbeat
  /\ UNCHANGED <<service, childVars, adapters, engine, filters, watchdog, probe>>

-----------------------------------------------------------------------------
(* TunnelStatus: the child is queried before the broker lock is taken.     *)

StatusRead(s) ==
  /\ service # "down"
  /\ probe[s] = "none"
  /\ ~At("start", "ready")
  /\ probe' = [probe EXCEPT ![s] = IF child \in alive THEN "running" ELSE "stopped"]
  /\ UNCHANGED <<service, owner, task, childVars, adapters, fwVars>>

\* Variant: only the live processes count.
ClearReplyRunningOnly(s) == probe[s] = "stopped"

\* runtime_status, then TunnelStatus::is_clear on the client.
ClearReply(s) == probe[s] = "stopped" /\ Matches(s) /\ ~Active(owner)

StatusReply(s) ==
  /\ service # "down" /\ task = Idle
  /\ probe[s] # "none"
  /\ probe' = [probe EXCEPT ![s] = "none"]
  /\ UNCHANGED <<service, owner, task, childVars, adapters, fwVars>>

-----------------------------------------------------------------------------
(* The watchdog thread (firewall.rs).  It takes neither the broker lock    *)
(* nor, across its steps, the engine lock.                                 *)

HeartbeatExpires ==
  /\ heartbeat = "fresh"
  /\ heartbeat' = "stale"
  /\ UNCHANGED <<service, owner, task, childVars, adapters, engine, filters, watchdog, probe>>

WatchdogReads ==
  /\ watchdog = "sleep" /\ heartbeat = "stale"
  /\ watchdog' = "expired"
  /\ UNCHANGED <<service, owner, task, childVars, adapters, engine, filters, heartbeat, probe>>

WatchdogDisarms ==
  /\ watchdog = "expired"
  /\ heartbeat' = "off"
  /\ watchdog' = "disarmed"
  /\ UNCHANGED <<service, owner, task, childVars, adapters, engine, filters, probe>>

WatchdogDrops ==
  /\ watchdog = "disarmed"
  /\ CloseEngine
  /\ watchdog' = "dropped"
  /\ UNCHANGED <<service, owner, task, childVars, adapters, heartbeat, probe>>

WatchdogCleans(ok) ==
  /\ ok \/ CleanupMayFail
  /\ watchdog = "dropped"
  /\ filters' = (filters /\ ~ok)
  /\ watchdog' = "sleep"
  /\ UNCHANGED <<service, owner, task, childVars, adapters, engine, heartbeat, probe>>

-----------------------------------------------------------------------------
(* The operating system.                                                   *)

ChildExits(i) ==
  /\ i \in alive
  /\ alive' = alive \ {i}
  /\ UNCHANGED <<service, owner, task, starter, child, monitors, adapters, fwVars, probe>>

AdapterAppears(i) ==
  /\ i \in alive \ adapters
  /\ adapters' = adapters \cup {i}
  /\ UNCHANGED <<service, owner, task, childVars, fwVars, probe>>

AdapterVanishes(i) ==
  /\ i \in adapters \ alive
  /\ adapters' = adapters \ {i}
  /\ UNCHANGED <<service, owner, task, childVars, fwVars, probe>>

-----------------------------------------------------------------------------
(* The service process (service.rs, pipe.rs, shutdown_cleanup).            *)

\* Startup verifies that no filter and no owned adapter is left before the
\* pipe is published; otherwise the start fails and SCM retries.
ServiceStart ==
  /\ service = "down"
  /\ adapters = {}
  /\ service' = "up"
  /\ UNCHANGED <<owner, task, childVars, adapters, fwVars, probe>>

\* SCM stop: the pipe accepts no more clients; admitted requests may still
\* obtain the lock before the shutdown transaction does.
ServiceStop ==
  /\ service = "up"
  /\ service' = "stopping"
  /\ UNCHANGED <<owner, task, childVars, adapters, fwVars, probe>>

\* shutdown_cleanup: mihomo::stop, then firewall::disable either way.
\* Only a drained service is modelled: after a drain that timed out the tasks
\* are aborted midway and this runs beside their threads (pipe.rs), which is
\* HelperPipe's CleanupIsLast.
ShutdownBegin(killed) ==
  /\ service = "stopping" /\ task = Idle
  /\ \A s \in Sessions : probe[s] = "none"
  /\ IF killed THEN KillChild /\ owner' = ClearTunnel(owner)
               ELSE child # NoInstance /\ UNCHANGED <<child, alive, owner>>
  /\ heartbeat' = "off"
  /\ Hold(IF killed THEN "shutdown" ELSE "blocked", "fw_drop", DeviceOf(owner))
  /\ UNCHANGED <<service, starter, monitors, adapters, engine, filters, watchdog, probe>>

InShutdown(stage) == At("shutdown", stage) \/ At("blocked", stage)

\* Variant: the firewall result is dropped from the verdict.
ShutdownVerdictNoFirewall(gone) == gone

\* All three results are Ok.
ShutdownVerdict(gone) == gone /\ task.stage = "device"

\* The device is only looked at after a verified stop.
ShutdownDevice(gone) ==
  /\ InShutdown("device") \/ InShutdown("device_unclean")
  /\ IF gone THEN task.op = "shutdown" /\ task.device \notin adapters
             ELSE task.op = "blocked" \/ task.device # NoInstance
  /\ owner' = ReleaseIfIdle(IF gone THEN ClearDevice(owner) ELSE owner)
  /\ Goto(IF ShutdownVerdict(gone) THEN "verdict_ok" ELSE "verdict_err")
  /\ UNCHANGED <<service, childVars, adapters, fwVars, probe>>

\* The process ends, by the verdict, a crash or a kill: its memory, engine
\* handle and job objects go; adapters may outlive it.
ServiceExit ==
  /\ service # "down"
  /\ service' = "down"
  /\ owner' = NoOwner /\ task' = Idle
  /\ child' = NoInstance /\ alive' = {}
  /\ monitors' = [i \in Instances |-> "none"]
  /\ engine' = FALSE /\ filters' = FALSE
  /\ heartbeat' = "off" /\ watchdog' = "unborn"
  /\ probe' = [s \in Sessions |-> "none"]
  /\ UNCHANGED <<starter, adapters>>

-----------------------------------------------------------------------------

Init ==
  /\ service = "down"
  /\ owner = NoOwner
  /\ task = Idle
  /\ starter = [i \in Instances |-> Nobody]
  /\ child = NoInstance
  /\ alive = {}
  /\ adapters = {}
  /\ monitors = [i \in Instances |-> "none"]
  /\ engine = FALSE
  /\ filters = FALSE
  /\ heartbeat = "off"
  /\ watchdog = "unborn"
  /\ probe = [s \in Sessions |-> "none"]

\* A request of a session that finds the lock free.
Request(s) ==
  \/ \E expectTun \in BOOLEAN : EnableBegin(s, expectTun)
  \/ DisableBegin(s)
  \/ Heartbeat(s)
  \/ \E i \in Instances : StartBegin(s, i)
  \/ StopBegin(s)
  \/ StatusRead(s)

\* The lock holder goes on after an await.
Proceed ==
  \/ EnableGateOk \/ EnableGateErr \/ EnableDropOld
  \/ EnableCommit \/ EnableFail \/ EnableStore \/ EnableArm
  \/ DisableDrop \/ (\E ok \in BOOLEAN : DisableCleanup(ok))
  \/ StartRefused \/ StartSpawn \/ StartReady \/ StartTimeout
  \/ StartUndone \/ StartUndoErr
  \/ StopKilled \/ StopKillErr \/ StopDeviceGone \/ StopDeviceErr
  \/ (\E gone \in BOOLEAN : ExitDevice(gone) \/ ShutdownDevice(gone))

Watchdog ==
  \/ WatchdogReads \/ WatchdogDisarms \/ WatchdogDrops
  \/ \E ok \in BOOLEAN : WatchdogCleans(ok)

Environment ==
  \/ HeartbeatExpires
  \/ \E i \in Instances : ChildExits(i) \/ AdapterAppears(i) \/ AdapterVanishes(i)
  \/ ServiceStart \/ ServiceStop \/ ServiceExit
  \/ \E killed \in BOOLEAN : ShutdownBegin(killed)

Next ==
  \/ \E s \in Sessions : Request(s) \/ StatusReply(s)
  \/ Proceed
  \/ \E i \in Instances : MonitorObserve(i) \/ ExitBegin(i)
  \/ Watchdog
  \/ Environment

Spec == Init /\ [][Next]_vars

\* After its verdict the process leaves the service loop.
LeaveAfterVerdict == (InShutdown("verdict_ok") \/ InShutdown("verdict_err")) /\ ServiceExit

\* The lock holder waits for a call that has no deadline: a child that still
\* runs is killed with an unbounded wait (before the bounded one), after a
\* failed readiness too, and the WFP calls have none.
Unbounded ==
  /\ task # Idle
  /\ \/ task.stage = "kill" /\ child \in alive
     \/ task.stage = "ready" /\ task.device \in alive
     \/ task.stage \in {"spawn", "drop", "commit", "fw_drop", "fw_cleanup"}

\* Every other await of the lock holder has a deadline, and only those are
\* fair.  The monitors poll forever, and so does the watchdog, a thread of its
\* own, whose WFP calls are taken to return.  tokio's mutex is first come, first
\* served: a monitor that waits for a lock which is free again and again gets it.
Fairness ==
  /\ WF_vars(~Unbounded /\ Proceed)
  /\ WF_vars(LeaveAfterVerdict)
  /\ WF_vars(Watchdog)
  /\ \A i \in Instances : WF_vars(MonitorObserve(i)) /\ SF_vars(ExitBegin(i))

FairSpec == Spec /\ Fairness

-----------------------------------------------------------------------------
(* Properties.                                                             *)

\* Types of the broker, child and firewall state.
TypeOK ==
  /\ service \in {"down", "up", "stopping"}
  /\ owner \in OwnerRecord \cup {NoOwner}
  /\ task \in Task \cup {Idle}
  /\ starter \in [Instances -> Sessions \cup {Nobody}]
  /\ child \in InstanceOrNone
  /\ alive \subseteq Instances
  /\ adapters \subseteq Instances
  /\ monitors \in [Instances -> {"none", "watching", "exited"}]
  /\ engine \in BOOLEAN /\ filters \in BOOLEAN
  /\ heartbeat \in {"off", "fresh", "stale"}
  /\ watchdog \in {"unborn", "sleep", "expired", "disarmed", "dropped"}
  /\ probe \in [Sessions -> {"none", "running", "stopped"}]

\* A supervised engine is recorded in the owner record, under its instance
\* and the session that started it: an early return, a retry or the delayed
\* monitor of an older process never loses it (dispatch.rs, note_tunnel_exit).
ChildOwned ==
  child # NoInstance =>
    /\ owner # NoOwner
    /\ owner.tunnel
    /\ owner.instance = child
    /\ owner.session = starter[child]

\* Kill-switch filters exist only for an owner marked firewall_active, or
\* inside the enable request that is about to mark it; otherwise a session
\* that ends would leave the machine blocked with nobody to lift it.
FiltersOwned ==
  engine \/ filters =>
    \/ owner # NoOwner /\ owner.firewall
    \/ At("enable", "store") \/ At("enable", "arm")

\* While the helper serves, the only TUN adapter of ours is the exact device
\* of the owner record, so that its removal stays retryable.
AdapterOwned ==
  service # "down" => adapters \subseteq {DeviceOf(owner)}

\* No path of a request leaves an idle lease behind, which would lock the
\* other sessions out of the helper.
NoIdleLease == task = Idle => owner = NoOwner \/ Active(owner)

\* Nothing privileged is left in the system.
Clean == /\ child = NoInstance /\ alive = {} /\ adapters = {}
         /\ ~engine /\ ~filters

\* The lease leaves a session only when nothing privileged is left, and
\* never passes from one session straight to another.
LeaseReleasedClean ==
  [][ /\ owner # NoOwner /\ service' # "down"
      /\ owner' = NoOwner \/ owner'.session # owner.session
      => owner' = NoOwner /\ Clean' ]_vars

\* The privileged state that is in force, as HelperLease counts it.
InForce == {r \in {"process", "filters", "adapter"} :
              \/ r = "process" /\ (child # NoInstance \/ alive # {})
              \/ r = "filters" /\ (engine \/ filters)
              \/ r = "adapter" /\ adapters # {}}

Lease == INSTANCE HelperLease
           WITH serving <- service # "down",
                holder  <- IF owner = NoOwner THEN Nobody ELSE owner.session,
                held    <- InForce

\* The broker implements the lease: privileged state comes into being only for
\* the one session that holds it, goes before another session can have it, and
\* never meets a service that is starting.  The record that is the lease, the
\* supervised child, the monitors, the filters and the adapters change at
\* different awaits of different requests (BrokerState, dispatch.rs).
ImplementsLease == Lease!Spec

\* A TunnelStatus reply that the client reads as "clear" is true when it is
\* given, although the child was queried before the lock was taken.
ClearStatusTruthful ==
  [][ \A s \in Sessions : StatusReply(s) /\ ClearReply(s) => Clean ]_vars

\* A shutdown transaction that reports success has left nothing behind.
ShutdownVerified == At("shutdown", "verdict_ok") => owner = NoOwner /\ Clean

\* The owner record tells the truth: all that is in force is in it, it is kept
\* only while something is, and a shutdown that reports success left neither.
RecordTruthful ==
  ChildOwned /\ FiltersOwned /\ AdapterOwned /\ NoIdleLease /\ ShutdownVerified

\* The broker lock is always released: no request waits forever.  It is not so:
\* a kill or a WFP call that never returns keeps it, with every later request.
LockReleased == task # Idle ~> task = Idle

\* An engine that died is eventually no longer reported as the tunnel, unless
\* the lock holder is stuck in one of the calls without a deadline: then the
\* monitor of the dead engine never obtains the lock (note_tunnel_exit).
DeadEngineForgotten ==
  []<>~Unbounded =>
    \A i \in Instances :
      (owner # NoOwner /\ owner.instance = i /\ i \notin alive)
        ~> (owner = NoOwner \/ owner.instance # i)


\* Claimed by the heartbeat handler, which answers "no session-owned
\* kill-switch is active" (dispatch.rs 275) to a heartbeat it cannot serve:
\* an accepted heartbeat means that the kill switch blocks.
HeartbeatMeansBlocking ==
  [][ \A s \in Sessions : Heartbeat(s) => filters ]_vars

\* Claimed by disable_blocking (firewall.rs 552-553): with the sentinel
\* stored, the watchdog cannot clean up at the same time.
DisableStopsWatchdog ==
  At("disable", "fw_cleanup") => watchdog # "dropped"

=============================================================================
