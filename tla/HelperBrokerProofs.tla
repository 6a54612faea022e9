------------------------ MODULE HelperBrokerProofs --------------------------
(* Theorems about HelperBroker, for every set of sessions and instances.   *)
EXTENDS HelperBroker, TLAPS

-----------------------------------------------------------------------------
(* The inductive invariant.                                                *)

\* What holds at each stage of each request that may hold the lock.
EnableStages ==
  task # Idle /\ task.op = "enable" =>
    /\ task.stage \in {"gate", "drop", "commit", "store", "arm"}
    /\ owner # NoOwner

StartStages ==
  task # Idle /\ task.op = "start" =>
    /\ task.stage \in {"spawn", "ready", "undo"}
    /\ task.device # NoInstance
    /\ owner # NoOwner /\ owner.device = task.device
    /\ ~owner.tunnel /\ ~owner.firewall
    /\ owner.session = starter[task.device]
    /\ monitors[task.device] = "none"

StopStages ==
  task # Idle /\ task.op = "stop" =>
    /\ task.stage \in {"kill", "device"}
    /\ task.device = DeviceOf(owner)
    /\ task.stage = "device" => child = NoInstance
    /\ (task.stage = "device" /\ owner # NoOwner) => ~owner.tunnel

ExitStages ==
  task # Idle /\ task.op = "exit" =>
    /\ task.stage \in {"device", "fw_drop", "fw_cleanup"}
    /\ child = NoInstance
    /\ owner # NoOwner /\ ~owner.tunnel
    /\ task.stage = "device" => task.device = owner.device

ShutdownStages ==
  task # Idle /\ task.op \in {"shutdown", "blocked"} =>
    /\ task.stage \in {"fw_drop", "fw_cleanup", "device", "device_unclean",
                       "verdict_ok", "verdict_err"}
    /\ task.op = "shutdown" => child = NoInstance
    /\ (task.op = "shutdown" /\ owner # NoOwner) => ~owner.tunnel
    /\ task.stage \notin {"verdict_ok", "verdict_err"} => task.device = DeviceOf(owner)
    /\ (task.stage = "device" /\ owner # NoOwner) => ~owner.firewall
    /\ task.stage = "verdict_ok" => owner = NoOwner

DisableStages ==
  task # Idle /\ task.op = "disable" => task.stage \in {"fw_drop", "fw_cleanup"}

TaskInv == EnableStages /\ StartStages /\ StopStages /\ ExitStages
           /\ ShutdownStages /\ DisableStages

\* Processes: only the supervised child and the one being started run.
AliveInv == \A i \in alive : child = i \/ (At("start", "ready") /\ task.device = i)

\* An instance is started once; a monitor that saw its child exit is alone.
MonitorInv ==
  \A i \in Instances :
    /\ starter[i] = Nobody => monitors[i] = "none" /\ child # i
    /\ monitors[i] = "exited" => child # i

\* Filters without a stored engine belong to the enable that just committed.
EngineInv ==
  /\ filters /\ ~engine => At("enable", "store")
  /\ At("enable", "commit") => ~engine
  /\ At("enable", "store") => ~engine
  /\ task # Idle /\ task.stage = "fw_cleanup" => ~engine

\* The tunnel of the record is the instance whose adapter the record names.
OwnerInv == owner # NoOwner /\ owner.tunnel => owner.device = owner.instance

\* A service process that is not there holds nothing.
DownInv ==
  service = "down" =>
    /\ owner = NoOwner /\ task = Idle /\ child = NoInstance
    /\ ~engine /\ ~filters

ResourceInv == /\ AliveInv /\ MonitorInv /\ EngineInv /\ OwnerInv /\ DownInv
               /\ ChildOwned /\ FiltersOwned /\ AdapterOwned /\ NoIdleLease

IInv == TypeOK /\ TaskInv /\ ResourceInv

-----------------------------------------------------------------------------
(* What the helpers on owner records return.                               *)

\* The helpers map owner records to owner records.
LEMMA OwnerOps ==
  ASSUME NEW o \in OwnerRecord \cup {NoOwner}
  PROVE  /\ ReleaseIfIdle(o) \in OwnerRecord \cup {NoOwner}
         /\ ClearTunnel(o) \in OwnerRecord \cup {NoOwner}
         /\ ClearFirewall(o) \in OwnerRecord \cup {NoOwner}
         /\ ClearDevice(o) \in OwnerRecord \cup {NoOwner}
         /\ DeviceOf(o) \in InstanceOrNone
  BY NoInstanceFresh
     DEF OwnerRecord, NoOwner, ReleaseIfIdle, ClearTunnel, ClearFirewall, ClearDevice,
         DeviceOf, InstanceOrNone

\* An idle lease is an owner record.
LEMMA IdleOwnerType ==
  ASSUME NEW s \in Sessions
  PROVE  IdleOwner(s) \in OwnerRecord
  BY DEF IdleOwner, OwnerRecord, InstanceOrNone

\* Closing the engine keeps both firewall variables Boolean.
LEMMA CloseEngineType == CloseEngine => engine' \in BOOLEAN /\ filters' \in BOOLEAN
  BY Zenon DEF CloseEngine

-----------------------------------------------------------------------------
(* The invariant is inductive: types, request stages, resources.           *)

LEMMA InitIInv == Init => IInv
  BY NoInstanceFresh, SessionsNamed
     DEF Init, IInv, TypeOK, TaskInv, EnableStages, StartStages, StopStages, ExitStages,
         ShutdownStages, DisableStages, ResourceInv, AliveInv, MonitorInv, EngineInv,
         OwnerInv, DownInv, ChildOwned, FiltersOwned, AdapterOwned, NoIdleLease, At,
         InstanceOrNone

LEMMA NextTypeOK == IInv /\ [Next]_vars => TypeOK'
  <1> SUFFICES ASSUME IInv, [Next]_vars PROVE TypeOK'
    OBVIOUS
  <1> USE NoInstanceFresh, SessionsNamed, OwnerOps DEF IInv, TypeOK, InstanceOrNone, Task, Idle, Ops, Stages, childVars, fwVars
  <1>1. ASSUME NEW s \in Sessions, NEW tun \in BOOLEAN, EnableBegin(s, tun) PROVE TypeOK'
    <2>1. Bound(s) \in OwnerRecord
      BY IdleOwnerType DEF Bound
    <2>2. task' \in Task \cup {Idle}
      BY <1>1, <2>1 DEF EnableBegin, Hold, OwnerRecord
    <2> QED
      BY <1>1, <2>1, <2>2 DEF EnableBegin
  <1>2. ASSUME NEW s \in Sessions, DisableBegin(s) PROVE TypeOK'
    BY <1>2 DEF DisableBegin, Matches, Hold
  <1>3. ASSUME NEW s \in Sessions, Heartbeat(s) PROVE TypeOK'
    BY <1>3 DEF Heartbeat
  <1>4. ASSUME NEW s \in Sessions, NEW i \in Instances, StartBegin(s, i) PROVE TypeOK'
    <2>1. IdleOwner(s) \in OwnerRecord
      BY IdleOwnerType
    <2> QED
      BY <1>4, <2>1 DEF StartBegin, Bound, Hold, OwnerRecord
  <1>5. ASSUME NEW s \in Sessions, StopBegin(s) PROVE TypeOK'
    BY <1>5 DEF StopBegin, Matches, Hold
  <1>6. ASSUME NEW s \in Sessions, StatusRead(s) PROVE TypeOK'
    BY <1>6 DEF StatusRead
  <1>7. ASSUME NEW s \in Sessions, StatusReply(s) PROVE TypeOK'
    BY <1>7 DEF StatusReply
  <1>8. ASSUME EnableGateOk PROVE TypeOK'
    BY <1>8 DEF EnableGateOk, At, Goto
  <1>9. ASSUME EnableGateErr PROVE TypeOK'
    BY <1>9 DEF EnableGateErr, At, Unlock
  <1>10. ASSUME EnableDropOld PROVE TypeOK'
    BY <1>10, CloseEngineType DEF EnableDropOld, At, Goto
  <1>11. ASSUME EnableCommit PROVE TypeOK'
    BY <1>11 DEF EnableCommit, At, Goto
  <1>12. ASSUME EnableFail PROVE TypeOK'
    BY <1>12 DEF EnableFail, At, Unlock
  <1>13. ASSUME EnableStore PROVE TypeOK'
    BY <1>13 DEF EnableStore, At, Goto
  <1>14. ASSUME EnableArm PROVE TypeOK'
    BY <1>14 DEF EnableArm, At, Unlock, OwnerRecord, TaskInv, EnableStages
  <1>15. ASSUME DisableDrop PROVE TypeOK'
    BY <1>15, CloseEngineType DEF DisableDrop, Goto
  <1>16. ASSUME NEW ok \in BOOLEAN, DisableCleanup(ok) PROVE TypeOK'
    <2>1. filters' \in BOOLEAN
      BY <1>16, Zenon DEF DisableCleanup
    <2>2. owner' \in OwnerRecord \cup {NoOwner} /\ task' \in Task \cup {Idle}
      BY <1>16 DEF DisableCleanup, Goto, Unlock
    <2> QED
      BY <1>16, <2>1, <2>2 DEF DisableCleanup
  <1>17. ASSUME StartRefused PROVE TypeOK'
    BY <1>17 DEF StartRefused, At, Goto
  <1>18. ASSUME StartSpawn PROVE TypeOK'
    BY <1>18 DEF StartSpawn, At, Goto, TaskInv, StartStages
  <1>19. ASSUME StartReady PROVE TypeOK'
    BY <1>19 DEF StartReady, At, Unlock, OwnerRecord, TaskInv, StartStages
  <1>20. ASSUME StartTimeout PROVE TypeOK'
    BY <1>20 DEF StartTimeout, At, Goto
  <1>21. ASSUME StartUndone PROVE TypeOK'
    BY <1>21 DEF StartUndone, At, Unlock
  <1>22. ASSUME StartUndoErr PROVE TypeOK'
    BY <1>22 DEF StartUndoErr, At, Unlock
  <1>23. ASSUME StopKilled PROVE TypeOK'
    BY <1>23 DEF StopKilled, At, KillChild, Goto
  <1>24. ASSUME StopKillErr PROVE TypeOK'
    BY <1>24 DEF StopKillErr, At, Unlock
  <1>25. ASSUME StopDeviceGone PROVE TypeOK'
    BY <1>25 DEF StopDeviceGone, At, Unlock
  <1>26. ASSUME StopDeviceErr PROVE TypeOK'
    BY <1>26 DEF StopDeviceErr, At, Unlock
  <1>27. ASSUME NEW gone \in BOOLEAN, ExitDevice(gone) PROVE TypeOK'
    BY <1>27 DEF ExitDevice, At, Goto, Unlock
  <1>28. ASSUME NEW gone \in BOOLEAN, ShutdownDevice(gone) PROVE TypeOK'
    BY <1>28 DEF ShutdownDevice, At, InShutdown, Goto
  <1>29. ASSUME NEW i \in Instances, MonitorObserve(i) PROVE TypeOK'
    BY <1>29 DEF MonitorObserve
  <1>30. ASSUME NEW i \in Instances, ExitBegin(i) PROVE TypeOK'
    <2>1. CASE ExitMatches(i)
      BY <1>30, <2>1 DEF ExitBegin, ExitMatches, Hold, OwnerRecord
    <2>2. CASE ~ExitMatches(i)
      BY <1>30, <2>2 DEF ExitBegin
    <2> QED
      BY <2>1, <2>2
  <1>31. ASSUME WatchdogReads PROVE TypeOK'
    BY <1>31 DEF WatchdogReads
  <1>32. ASSUME WatchdogDisarms PROVE TypeOK'
    BY <1>32 DEF WatchdogDisarms
  <1>33. ASSUME WatchdogDrops PROVE TypeOK'
    BY <1>33, CloseEngineType DEF WatchdogDrops
  <1>34. ASSUME NEW ok \in BOOLEAN, WatchdogCleans(ok) PROVE TypeOK'
    <2>1. filters' \in BOOLEAN
      BY <1>34, Zenon DEF WatchdogCleans
    <2> QED
      BY <1>34, <2>1 DEF WatchdogCleans
  <1>35. ASSUME HeartbeatExpires PROVE TypeOK'
    BY <1>35 DEF HeartbeatExpires
  <1>36. ASSUME NEW i \in Instances, ChildExits(i) PROVE TypeOK'
    BY <1>36 DEF ChildExits
  <1>37. ASSUME NEW i \in Instances, AdapterAppears(i) PROVE TypeOK'
    BY <1>37 DEF AdapterAppears
  <1>38. ASSUME NEW i \in Instances, AdapterVanishes(i) PROVE TypeOK'
    BY <1>38 DEF AdapterVanishes
  <1>39. ASSUME ServiceStart PROVE TypeOK'
    BY <1>39 DEF ServiceStart
  <1>40. ASSUME ServiceStop PROVE TypeOK'
    BY <1>40 DEF ServiceStop
  <1>41. ASSUME ServiceExit PROVE TypeOK'
    BY <1>41 DEF ServiceExit
  <1>42. ASSUME NEW killed \in BOOLEAN, ShutdownBegin(killed) PROVE TypeOK'
    <2>1. owner' \in OwnerRecord \cup {NoOwner} /\ child' \in InstanceOrNone /\ alive' \subseteq Instances
      BY <1>42 DEF ShutdownBegin, KillChild
    <2>2. task' \in Task
      BY <1>42 DEF ShutdownBegin, Hold
    <2> QED
      BY <1>42, <2>1, <2>2 DEF ShutdownBegin
  <1>43. CASE UNCHANGED vars
    BY <1>43 DEF vars
  <1> QED
    BY <1>1, <1>2, <1>3, <1>4, <1>5, <1>6, <1>7, <1>8, <1>9, <1>10, <1>11, <1>12,
       <1>13, <1>14, <1>15, <1>16, <1>17, <1>18, <1>19, <1>20, <1>21, <1>22, <1>23, <1>24,
       <1>25, <1>26, <1>27, <1>28, <1>29, <1>30, <1>31, <1>32, <1>33, <1>34, <1>35, <1>36,
       <1>37, <1>38, <1>39, <1>40, <1>41, <1>42, <1>43
       DEF Next, Request, Proceed, Watchdog, Environment

LEMMA NextTaskInv == IInv /\ [Next]_vars => TaskInv'
  <1> SUFFICES ASSUME IInv, [Next]_vars PROVE TaskInv'
    OBVIOUS
  <1> USE NoInstanceFresh, SessionsNamed DEF IInv, TypeOK, OwnerRecord, NoOwner, InstanceOrNone, Task, Idle, Ops, Stages,
          childVars, fwVars, TaskInv, EnableStages, StartStages, StopStages, ExitStages,
          ShutdownStages, DisableStages, ResourceInv, MonitorInv, ChildOwned, DownInv, At, DeviceOf
  <1>1. ASSUME NEW s \in Sessions, NEW tun \in BOOLEAN, EnableBegin(s, tun) PROVE TaskInv'
    BY <1>1 DEF EnableBegin, Matches, Bound, IdleOwner, ReleaseIfIdle, Active, Hold
  <1>2. ASSUME NEW s \in Sessions, DisableBegin(s) PROVE TaskInv'
    BY <1>2 DEF DisableBegin, Matches, Hold
  <1>3. ASSUME NEW s \in Sessions, Heartbeat(s) PROVE TaskInv'
    BY <1>3 DEF Heartbeat
  <1>4. ASSUME NEW s \in Sessions, NEW i \in Instances, StartBegin(s, i) PROVE TaskInv'
    BY <1>4 DEF StartBegin, Matches, Bound, IdleOwner, Active, Hold
  <1>5. ASSUME NEW s \in Sessions, StopBegin(s) PROVE TaskInv'
    BY <1>5 DEF StopBegin, Matches, Hold, ReleaseIfIdle, Active
  <1>6. ASSUME NEW s \in Sessions, StatusRead(s) PROVE TaskInv'
    BY <1>6 DEF StatusRead
  <1>7. ASSUME NEW s \in Sessions, StatusReply(s) PROVE TaskInv'
    BY <1>7 DEF StatusReply
  <1>8. ASSUME EnableGateOk PROVE TaskInv'
    BY <1>8 DEF EnableGateOk, Goto
  <1>9. ASSUME EnableGateErr PROVE TaskInv'
    BY <1>9 DEF EnableGateErr, Unlock, ReleaseIfIdle, Active
  <1>10. ASSUME EnableDropOld PROVE TaskInv'
    BY <1>10 DEF EnableDropOld, Goto, CloseEngine
  <1>11. ASSUME EnableCommit PROVE TaskInv'
    BY <1>11 DEF EnableCommit, Goto
  <1>12. ASSUME EnableFail PROVE TaskInv'
    BY <1>12 DEF EnableFail, Unlock, ReleaseIfIdle, Active
  <1>13. ASSUME EnableStore PROVE TaskInv'
    BY <1>13 DEF EnableStore, Goto
  <1>14. ASSUME EnableArm PROVE TaskInv'
    BY <1>14 DEF EnableArm, Unlock
  <1>15. ASSUME DisableDrop PROVE TaskInv'
    BY <1>15 DEF DisableDrop, CloseEngine, Goto
  <1>16. ASSUME NEW ok \in BOOLEAN, DisableCleanup(ok) PROVE TaskInv'
    BY <1>16 DEF DisableCleanup, Goto, Unlock, ReleaseIfIdle, Active, ClearFirewall
  <1>17. ASSUME StartRefused PROVE TaskInv'
    BY <1>17 DEF StartRefused, Goto
  <1>18. ASSUME StartSpawn PROVE TaskInv'
    BY <1>18 DEF StartSpawn, Goto
  <1>19. ASSUME StartReady PROVE TaskInv'
    BY <1>19 DEF StartReady, Unlock
  <1>20. ASSUME StartTimeout PROVE TaskInv'
    BY <1>20 DEF StartTimeout, Goto
  <1>21. ASSUME StartUndone PROVE TaskInv'
    BY <1>21 DEF StartUndone, Unlock, ReleaseIfIdle, ClearDevice, Active
  <1>22. ASSUME StartUndoErr PROVE TaskInv'
    BY <1>22 DEF StartUndoErr, Unlock, ReleaseIfIdle, Active
  <1>23. ASSUME StopKilled PROVE TaskInv'
    BY <1>23 DEF StopKilled, KillChild, ClearTunnel, Goto
  <1>24. ASSUME StopKillErr PROVE TaskInv'
    BY <1>24 DEF StopKillErr, Unlock, ReleaseIfIdle, Active
  <1>25. ASSUME StopDeviceGone PROVE TaskInv'
    BY <1>25 DEF StopDeviceGone, Unlock, ReleaseIfIdle, ClearDevice, Active
  <1>26. ASSUME StopDeviceErr PROVE TaskInv'
    BY <1>26 DEF StopDeviceErr, Unlock
  <1>27. ASSUME NEW gone \in BOOLEAN, ExitDevice(gone) PROVE TaskInv'
    BY <1>27 DEF ExitDevice, Goto, Unlock, ReleaseIfIdle, ClearDevice, Active
  <1>28. ASSUME NEW gone \in BOOLEAN, ShutdownDevice(gone) PROVE TaskInv'
    <2>1. CASE gone
      BY <1>28, <2>1 DEF ShutdownDevice, ShutdownVerdict, InShutdown, Goto, ReleaseIfIdle, ClearDevice, Active
    <2>2. CASE ~gone
      BY <1>28, <2>2 DEF ShutdownDevice, ShutdownVerdict, InShutdown, Goto, ReleaseIfIdle, Active
    <2> QED
      BY <2>1, <2>2
  <1>29. ASSUME NEW i \in Instances, MonitorObserve(i) PROVE TaskInv'
    BY <1>29 DEF MonitorObserve
  <1>30. ASSUME NEW i \in Instances, ExitBegin(i) PROVE TaskInv'
    <2>1. CASE ExitMatches(i)
      <3>1. child = NoInstance
        BY <1>30, <2>1 DEF ExitBegin, ExitMatches
      <3>2. /\ task' = [op |-> "exit", stage |-> "device", device |-> owner.device]
            /\ child' = NoInstance
        BY <1>30, <2>1, <3>1 DEF ExitBegin, Hold
      <3>3. owner' # NoOwner /\ ~owner'.tunnel /\ owner'.device = owner.device
        BY ZenonT(30), <1>30, <2>1 DEF ExitBegin, ExitMatches, ClearTunnel
      <3> QED
        BY <3>2, <3>3
    <2>2. CASE ~ExitMatches(i)
      BY <1>30, <2>2 DEF ExitBegin
    <2> QED
      BY <2>1, <2>2
  <1>31. ASSUME WatchdogReads PROVE TaskInv'
    BY <1>31 DEF WatchdogReads
  <1>32. ASSUME WatchdogDisarms PROVE TaskInv'
    BY <1>32 DEF WatchdogDisarms
  <1>33. ASSUME WatchdogDrops PROVE TaskInv'
    BY <1>33 DEF WatchdogDrops, CloseEngine
  <1>34. ASSUME NEW ok \in BOOLEAN, WatchdogCleans(ok) PROVE TaskInv'
    BY <1>34 DEF WatchdogCleans
  <1>35. ASSUME HeartbeatExpires PROVE TaskInv'
    BY <1>35 DEF HeartbeatExpires
  <1>36. ASSUME NEW i \in Instances, ChildExits(i) PROVE TaskInv'
    BY <1>36 DEF ChildExits
  <1>37. ASSUME NEW i \in Instances, AdapterAppears(i) PROVE TaskInv'
    BY <1>37 DEF AdapterAppears
  <1>38. ASSUME NEW i \in Instances, AdapterVanishes(i) PROVE TaskInv'
    BY <1>38 DEF AdapterVanishes
  <1>39. ASSUME ServiceStart PROVE TaskInv'
    BY <1>39 DEF ServiceStart
  <1>40. ASSUME ServiceStop PROVE TaskInv'
    BY <1>40 DEF ServiceStop
  <1>41. ASSUME ServiceExit PROVE TaskInv'
    BY <1>41 DEF ServiceExit
  <1>42. ASSUME NEW killed \in BOOLEAN, ShutdownBegin(killed) PROVE TaskInv'
    BY <1>42 DEF ShutdownBegin, KillChild, ClearTunnel, Hold
  <1>43. CASE UNCHANGED vars
    BY <1>43 DEF vars
  <1> QED
    BY <1>1, <1>2, <1>3, <1>4, <1>5, <1>6, <1>7, <1>8, <1>9, <1>10, <1>11, <1>12,
       <1>13, <1>14, <1>15, <1>16, <1>17, <1>18, <1>19, <1>20, <1>21, <1>22, <1>23, <1>24,
       <1>25, <1>26, <1>27, <1>28, <1>29, <1>30, <1>31, <1>32, <1>33, <1>34, <1>35, <1>36,
       <1>37, <1>38, <1>39, <1>40, <1>41, <1>42, <1>43
       DEF Next, Request, Proceed, Watchdog, Environment

LEMMA NextResourceInv == IInv /\ [Next]_vars => ResourceInv'
  <1> SUFFICES ASSUME IInv, [Next]_vars PROVE ResourceInv'
    OBVIOUS
  <1> USE NoInstanceFresh, SessionsNamed DEF IInv, TypeOK, OwnerRecord, NoOwner, InstanceOrNone, Task, Idle, Ops, Stages,
          childVars, fwVars, TaskInv, EnableStages, StartStages, StopStages, ExitStages,
          ShutdownStages, DisableStages, ResourceInv, AliveInv, MonitorInv, EngineInv,
          OwnerInv, DownInv, ChildOwned, FiltersOwned, AdapterOwned, NoIdleLease,
          At, Active, DeviceOf
  <1>1. ASSUME NEW s \in Sessions, NEW tun \in BOOLEAN, EnableBegin(s, tun) PROVE ResourceInv'
    BY <1>1 DEF EnableBegin, Matches, Bound, IdleOwner, ReleaseIfIdle, Hold
  <1>2. ASSUME NEW s \in Sessions, DisableBegin(s) PROVE ResourceInv'
    BY <1>2 DEF DisableBegin, Matches, Hold
  <1>3. ASSUME NEW s \in Sessions, Heartbeat(s) PROVE ResourceInv'
    BY <1>3 DEF Heartbeat
  <1>4. ASSUME NEW s \in Sessions, NEW i \in Instances, StartBegin(s, i) PROVE ResourceInv'
    BY <1>4 DEF StartBegin, Matches, Bound, IdleOwner, Hold
  <1>5. ASSUME NEW s \in Sessions, StopBegin(s) PROVE ResourceInv'
    BY <1>5 DEF StopBegin, Matches, Hold, ReleaseIfIdle
  <1>6. ASSUME NEW s \in Sessions, StatusRead(s) PROVE ResourceInv'
    BY <1>6 DEF StatusRead
  <1>7. ASSUME NEW s \in Sessions, StatusReply(s) PROVE ResourceInv'
    BY <1>7 DEF StatusReply
  <1>8. ASSUME EnableGateOk PROVE ResourceInv'
    BY <1>8 DEF EnableGateOk, Goto
  <1>9. ASSUME EnableGateErr PROVE ResourceInv'
    BY <1>9 DEF EnableGateErr, Unlock, ReleaseIfIdle
  <1>10. ASSUME EnableDropOld PROVE ResourceInv'
    BY <1>10 DEF EnableDropOld, Goto, CloseEngine
  <1>11. ASSUME EnableCommit PROVE ResourceInv'
    BY <1>11 DEF EnableCommit, Goto
  <1>12. ASSUME EnableFail PROVE ResourceInv'
    BY <1>12 DEF EnableFail, Unlock, ReleaseIfIdle
  <1>13. ASSUME EnableStore PROVE ResourceInv'
    BY <1>13 DEF EnableStore, Goto
  <1>14. ASSUME EnableArm PROVE ResourceInv'
    BY <1>14 DEF EnableArm, Unlock
  <1>15. ASSUME DisableDrop PROVE ResourceInv'
    BY <1>15 DEF DisableDrop, CloseEngine, Goto
  <1>16. ASSUME NEW ok \in BOOLEAN, DisableCleanup(ok) PROVE ResourceInv'
    BY <1>16 DEF DisableCleanup, Goto, Unlock, ReleaseIfIdle, ClearFirewall
  <1>17. ASSUME StartRefused PROVE ResourceInv'
    BY <1>17 DEF StartRefused, Goto
  <1>18. ASSUME StartSpawn PROVE ResourceInv'
    BY <1>18 DEF StartSpawn, Goto
  <1>19. ASSUME StartReady PROVE ResourceInv'
    BY ZenonT(30), <1>19 DEF StartReady, Unlock
  <1>20. ASSUME StartTimeout PROVE ResourceInv'
    BY <1>20 DEF StartTimeout, Goto
  <1>21. ASSUME StartUndone PROVE ResourceInv'
    BY <1>21 DEF StartUndone, Unlock, ReleaseIfIdle, ClearDevice
  <1>22. ASSUME StartUndoErr PROVE ResourceInv'
    BY <1>22 DEF StartUndoErr, Unlock, ReleaseIfIdle
  <1>23. ASSUME StopKilled PROVE ResourceInv'
    BY ZenonT(30), <1>23 DEF StopKilled, KillChild, ClearTunnel, Goto
  <1>24. ASSUME StopKillErr PROVE ResourceInv'
    BY <1>24 DEF StopKillErr, Unlock, ReleaseIfIdle
  <1>25. ASSUME StopDeviceGone PROVE ResourceInv'
    BY <1>25 DEF StopDeviceGone, Unlock, ReleaseIfIdle, ClearDevice
  <1>26. ASSUME StopDeviceErr PROVE ResourceInv'
    BY <1>26 DEF StopDeviceErr, Unlock
  <1>27. ASSUME NEW gone \in BOOLEAN, ExitDevice(gone) PROVE ResourceInv'
    BY <1>27 DEF ExitDevice, Goto, Unlock, ReleaseIfIdle, ClearDevice
  <1>28. ASSUME NEW gone \in BOOLEAN, ShutdownDevice(gone) PROVE ResourceInv'
    BY <1>28 DEF ShutdownDevice, InShutdown, Goto, ReleaseIfIdle, ClearDevice
  <1>29. ASSUME NEW i \in Instances, MonitorObserve(i) PROVE ResourceInv'
    BY <1>29 DEF MonitorObserve
  <1>30. ASSUME NEW i \in Instances, ExitBegin(i) PROVE ResourceInv'
    <2>1. CASE ExitMatches(i)
      <3>1. child = NoInstance /\ alive = {} /\ service # "down" /\ task = Idle
        BY <1>30, <2>1 DEF ExitBegin, ExitMatches
      <3>2. UNCHANGED <<service, starter, child, alive, adapters, engine, filters>>
        BY <1>30 DEF ExitBegin
      <3>3. /\ owner \in OwnerRecord /\ owner' = [owner EXCEPT !.tunnel = FALSE, !.instance = NoInstance]
            /\ task' = [op |-> "exit", stage |-> "device", device |-> owner.device]
        BY <1>30, <2>1 DEF ExitBegin, ExitMatches, ClearTunnel, Hold
      <3>4. AliveInv' /\ EngineInv' /\ OwnerInv' /\ DownInv' /\ ChildOwned' /\ NoIdleLease'
        BY <3>1, <3>2, <3>3
      <3>5. FiltersOwned' /\ AdapterOwned'
        BY ZenonT(30), <3>1, <3>2, <3>3
      <3>6. MonitorInv'
        BY <1>30, <3>1 DEF ExitBegin
      <3> QED
        BY <3>4, <3>5, <3>6
    <2>2. CASE ~ExitMatches(i)
      BY <1>30, <2>2 DEF ExitBegin
    <2> QED
      BY <2>1, <2>2
  <1>31. ASSUME WatchdogReads PROVE ResourceInv'
    BY <1>31 DEF WatchdogReads
  <1>32. ASSUME WatchdogDisarms PROVE ResourceInv'
    BY <1>32 DEF WatchdogDisarms
  <1>33. ASSUME WatchdogDrops PROVE ResourceInv'
    BY <1>33 DEF WatchdogDrops, CloseEngine
  <1>34. ASSUME NEW ok \in BOOLEAN, WatchdogCleans(ok) PROVE ResourceInv'
    BY <1>34 DEF WatchdogCleans
  <1>35. ASSUME HeartbeatExpires PROVE ResourceInv'
    BY <1>35 DEF HeartbeatExpires
  <1>36. ASSUME NEW i \in Instances, ChildExits(i) PROVE ResourceInv'
    BY <1>36 DEF ChildExits
  <1>37. ASSUME NEW i \in Instances, AdapterAppears(i) PROVE ResourceInv'
    BY <1>37 DEF AdapterAppears
  <1>38. ASSUME NEW i \in Instances, AdapterVanishes(i) PROVE ResourceInv'
    BY <1>38 DEF AdapterVanishes
  <1>39. ASSUME ServiceStart PROVE ResourceInv'
    BY <1>39 DEF ServiceStart
  <1>40. ASSUME ServiceStop PROVE ResourceInv'
    BY <1>40 DEF ServiceStop
  <1>41. ASSUME ServiceExit PROVE ResourceInv'
    BY <1>41 DEF ServiceExit
  <1>42. ASSUME NEW killed \in BOOLEAN, ShutdownBegin(killed) PROVE ResourceInv'
    <2>1. UNCHANGED <<service, starter, adapters, engine, filters, monitors>> /\ service # "down"
      BY <1>42 DEF ShutdownBegin
    <2>2. task = Idle /\ task' # Idle /\ task'.op \in {"shutdown", "blocked"} /\ task'.stage = "fw_drop"
      BY <1>42 DEF ShutdownBegin, Hold
    <2>3. CASE killed
      <3>1. child' = NoInstance /\ alive' = {} /\ owner' = ClearTunnel(owner)
        BY <1>42, <2>2, <2>3 DEF ShutdownBegin, KillChild
      <3> QED
        BY <2>1, <2>2, <3>1 DEF ClearTunnel
    <2>4. CASE ~killed
      <3>1. UNCHANGED <<child, alive, owner>>
        BY <1>42, <2>4 DEF ShutdownBegin
      <3> QED
        BY <2>1, <2>2, <3>1
    <2> QED
      BY <2>3, <2>4
  <1>43. CASE UNCHANGED vars
    BY <1>43 DEF vars
  <1> QED
    BY ZenonT(30), <1>1, <1>2, <1>3, <1>4, <1>5, <1>6, <1>7, <1>8, <1>9, <1>10, <1>11, <1>12,
       <1>13, <1>14, <1>15, <1>16, <1>17, <1>18, <1>19, <1>20, <1>21, <1>22, <1>23, <1>24,
       <1>25, <1>26, <1>27, <1>28, <1>29, <1>30, <1>31, <1>32, <1>33, <1>34, <1>35, <1>36,
       <1>37, <1>38, <1>39, <1>40, <1>41, <1>42, <1>43
       DEF Next, Request, Proceed, Watchdog, Environment

\* A step keeps the session of the lease or ends the lease.
LEMMA SameLease ==
  IInv /\ [Next]_vars /\ owner # NoOwner /\ owner' # NoOwner => owner'.session = owner.session
  <1> SUFFICES ASSUME IInv, [Next]_vars, owner # NoOwner, owner' # NoOwner
               PROVE  owner'.session = owner.session
    OBVIOUS
  <1> USE DEF IInv, TypeOK, OwnerRecord, NoOwner
  <1>1. ASSUME NEW s \in Sessions, NEW tun \in BOOLEAN, EnableBegin(s, tun) PROVE owner'.session = owner.session
    BY <1>1 DEF EnableBegin, Matches, Bound, IdleOwner, ReleaseIfIdle, Active
  <1>2. ASSUME NEW s \in Sessions, NEW i \in Instances, StartBegin(s, i) PROVE owner'.session = owner.session
    BY <1>2 DEF StartBegin, Matches, Bound, IdleOwner, Active
  <1>3. ASSUME NEW s \in Sessions, StopBegin(s) PROVE owner'.session = owner.session
    BY <1>3 DEF StopBegin, Matches, ReleaseIfIdle, Active
  <1>4. ASSUME EnableGateErr PROVE owner'.session = owner.session
    BY <1>4 DEF EnableGateErr, ReleaseIfIdle, Active
  <1>5. ASSUME EnableFail PROVE owner'.session = owner.session
    BY <1>5 DEF EnableFail, ReleaseIfIdle, Active
  <1>6. ASSUME EnableArm PROVE owner'.session = owner.session
    BY <1>6 DEF EnableArm
  <1>7. ASSUME NEW ok \in BOOLEAN, DisableCleanup(ok) PROVE owner'.session = owner.session
    BY <1>7 DEF DisableCleanup, ReleaseIfIdle, Active, ClearFirewall
  <1>8. ASSUME StartReady PROVE owner'.session = owner.session
    BY <1>8 DEF StartReady
  <1>9. ASSUME StartUndone PROVE owner'.session = owner.session
    BY <1>9 DEF StartUndone, ReleaseIfIdle, ClearDevice, Active
  <1>10. ASSUME StartUndoErr PROVE owner'.session = owner.session
    BY <1>10 DEF StartUndoErr, ReleaseIfIdle, Active
  <1>11. ASSUME StopKilled PROVE owner'.session = owner.session
    BY <1>11 DEF StopKilled, ClearTunnel
  <1>12. ASSUME StopKillErr PROVE owner'.session = owner.session
    BY <1>12 DEF StopKillErr, ReleaseIfIdle, Active
  <1>13. ASSUME StopDeviceGone PROVE owner'.session = owner.session
    BY <1>13 DEF StopDeviceGone, ReleaseIfIdle, ClearDevice, Active
  <1>14. ASSUME NEW gone \in BOOLEAN, ExitDevice(gone) PROVE owner'.session = owner.session
    BY <1>14 DEF ExitDevice, ReleaseIfIdle, ClearDevice, Active
  <1>15. ASSUME NEW gone \in BOOLEAN, ShutdownDevice(gone) PROVE owner'.session = owner.session
    BY <1>15 DEF ShutdownDevice, ReleaseIfIdle, ClearDevice, Active
  <1>16. ASSUME NEW i \in Instances, ExitBegin(i) PROVE owner'.session = owner.session
    BY <1>16 DEF ExitBegin, ClearTunnel
  <1>17. ASSUME ServiceExit PROVE owner'.session = owner.session
    BY <1>17 DEF ServiceExit
  <1>18. ASSUME NEW killed \in BOOLEAN, ShutdownBegin(killed) PROVE owner'.session = owner.session
    BY <1>18 DEF ShutdownBegin, ClearTunnel
  <1>19. CASE UNCHANGED owner
    BY <1>19
  <1> QED
    BY <1>1, <1>2, <1>3, <1>4, <1>5, <1>6, <1>7, <1>8, <1>9, <1>10, <1>11, <1>12,
       <1>13, <1>14, <1>15, <1>16, <1>17, <1>18, <1>19
       DEF Next, vars, fwVars, childVars, Request, Proceed, Watchdog, Environment,
           DisableBegin, Heartbeat, StatusRead, StatusReply, EnableGateOk,
           EnableDropOld, EnableCommit, EnableStore, DisableDrop, StartRefused,
           StartSpawn, StartTimeout, StopDeviceErr, MonitorObserve, WatchdogReads,
           WatchdogDisarms, WatchdogDrops, WatchdogCleans, HeartbeatExpires, ChildExits,
           AdapterAppears, AdapterVanishes, ServiceStart, ServiceStop

-----------------------------------------------------------------------------
(* The theorems.                                                           *)

\* The inductive invariant holds in every reachable state.
LEMMA Inductive == Spec => []IInv
  <1>1. IInv /\ [Next]_vars => IInv'
    BY NextTypeOK, NextTaskInv, NextResourceInv DEF IInv
  <1> QED
    BY InitIInv, <1>1, PTL DEF Spec

\* Every variable of the helper keeps its type.
THEOREM TypeCorrect == Spec => []TypeOK
  <1>1. IInv => TypeOK
    BY DEF IInv
  <1> QED
    BY Inductive, <1>1, PTL

\* A supervised engine, installed filters and a present adapter are always
\* accounted for in the broker's owner record, at every await of every
\* request and whatever the monitors, the watchdog and crashes do.
THEOREM PrivilegedStateOwned == Spec => [](ChildOwned /\ FiltersOwned /\ AdapterOwned)
  <1>1. IInv => ChildOwned /\ FiltersOwned /\ AdapterOwned
    BY DEF IInv, ResourceInv
  <1> QED
    BY Inductive, <1>1, PTL

\* A request that ends, on any path, leaves no idle lease behind.
THEOREM NoLeaseLeaks == Spec => []NoIdleLease
  <1>1. IInv => NoIdleLease
    BY DEF IInv, ResourceInv
  <1> QED
    BY Inductive, <1>1, PTL

\* While the helper serves and nobody owns it, nothing privileged is left,
\* except inside an enable request.
LEMMA NoOwnerClean ==
  ASSUME IInv, owner = NoOwner, service # "down"
  PROVE  Clean
  BY NoInstanceFresh, SessionsNamed
     DEF IInv, TypeOK, TaskInv, EnableStages, StartStages, ResourceInv, AliveInv, ChildOwned, FiltersOwned,
         AdapterOwned, Clean, At, DeviceOf, NoOwner, OwnerRecord, Idle, Task, InstanceOrNone

\* A client that reads "clear" in a TunnelStatus reply can rely on it.
THEOREM ClearRepliesTruthful == Spec => ClearStatusTruthful
  <1>1. IInv => (\A s \in Sessions : StatusReply(s) /\ ClearReply(s) => Clean)
    BY NoOwnerClean DEF IInv, ResourceInv, NoIdleLease, StatusReply, ClearReply
  <1> QED
    BY Inductive, <1>1, PTL DEF ClearStatusTruthful

\* A shutdown transaction that reports success left nothing behind.
THEOREM ShutdownIsVerified == Spec => []ShutdownVerified
  <1>1. IInv => ShutdownVerified
    <2> SUFFICES ASSUME IInv, At("shutdown", "verdict_ok") PROVE owner = NoOwner /\ Clean
      BY DEF ShutdownVerified
    <2>1. owner = NoOwner
      BY DEF IInv, TaskInv, ShutdownStages, At
    <2>2. service # "down"
      BY DEF IInv, ResourceInv, DownInv, At
    <2> QED
      BY <2>1, <2>2, NoOwnerClean
  <1> QED
    BY Inductive, <1>1, PTL

\* The owner record tells the truth in every state of every behaviour.
THEOREM RecordIsTruthful == Spec => []RecordTruthful
  BY PrivilegedStateOwned, NoLeaseLeaks, ShutdownIsVerified, PTL DEF RecordTruthful

\* The lease leaves a session only when nothing privileged is left, and no
\* step passes it from one session to another.
THEOREM LeaseReleases == Spec => LeaseReleasedClean
  <1> DEFINE Step == /\ owner # NoOwner /\ service' # "down"
                     /\ owner' = NoOwner \/ owner'.session # owner.session
                     => owner' = NoOwner /\ Clean'
  <1>1. IInv /\ [Next]_vars => IInv'
    BY NextTypeOK, NextTaskInv, NextResourceInv DEF IInv
  <1>2. IInv' /\ owner' = NoOwner /\ service' # "down" => Clean'
    BY NoInstanceFresh, SessionsNamed
       DEF IInv, TypeOK, TaskInv, EnableStages, StartStages, ResourceInv, AliveInv,
           ChildOwned, FiltersOwned, AdapterOwned, Clean, At, DeviceOf, NoOwner,
           OwnerRecord, Idle, Task, InstanceOrNone
  <1>3. IInv /\ [Next]_vars => [Step]_vars
    BY <1>1, <1>2, SameLease
  <1> QED
    BY Inductive, <1>3, PTL DEF LeaseReleasedClean, Spec

-----------------------------------------------------------------------------
(* The broker implements the lease.                                        *)

\* A lease begins in a step that leaves the privileged state alone.
LEMMA LeaseBegins ==
  ASSUME IInv, [Next]_vars, owner = NoOwner, owner' # NoOwner
  PROVE  /\ owner'.session \in Sessions
         /\ service # "down" /\ UNCHANGED service
         /\ UNCHANGED InForce
  <1> DEFINE Begins == /\ owner'.session \in Sessions
                       /\ service # "down" /\ UNCHANGED service
                       /\ UNCHANGED InForce
  <1> USE DEF IInv, TypeOK, TaskInv, NoOwner
  <1>1. ASSUME NEW s \in Sessions, NEW tun \in BOOLEAN, EnableBegin(s, tun) PROVE Begins
    <2>1. owner'.session = s
      BY <1>1 DEF EnableBegin, Bound, IdleOwner, ReleaseIfIdle, Active
    <2> QED
      BY <1>1, <2>1 DEF EnableBegin, childVars, fwVars, InForce
  <1>2. ASSUME NEW s \in Sessions, NEW i \in Instances, StartBegin(s, i) PROVE Begins
    <2>1. owner'.session = s
      BY <1>2 DEF StartBegin, Bound, IdleOwner
    <2> QED
      BY <1>2, <2>1 DEF StartBegin, fwVars, InForce
  <1>3. CASE owner' = owner
    BY <1>3
  <1>4. ASSUME NEW s \in Sessions, StopBegin(s) PROVE FALSE
    BY <1>4 DEF StopBegin, ReleaseIfIdle, Active
  <1>5. ASSUME EnableGateErr \/ EnableFail PROVE FALSE
    BY <1>5 DEF EnableGateErr, EnableFail, ReleaseIfIdle, Active
  <1>6. ASSUME EnableArm PROVE FALSE
    BY <1>6 DEF EnableArm, EnableStages, At
  <1>7. ASSUME NEW ok \in BOOLEAN, DisableCleanup(ok) PROVE FALSE
    BY <1>7 DEF DisableCleanup, ReleaseIfIdle, Active, ClearFirewall
  <1>8. ASSUME StartReady PROVE FALSE
    BY <1>8 DEF StartReady, StartStages, At
  <1>9. ASSUME StartUndone \/ StartUndoErr PROVE FALSE
    BY <1>9 DEF StartUndone, StartUndoErr, ReleaseIfIdle, ClearDevice, Active
  <1>10. ASSUME StopKilled \/ StopKillErr \/ StopDeviceGone PROVE FALSE
    BY <1>10 DEF StopKilled, StopKillErr, StopDeviceGone, ClearTunnel, ReleaseIfIdle, ClearDevice, Active
  <1>11. ASSUME NEW gone \in BOOLEAN, ExitDevice(gone) \/ ShutdownDevice(gone) PROVE FALSE
    BY <1>11 DEF ExitDevice, ShutdownDevice, ReleaseIfIdle, ClearDevice, Active
  <1>12. ASSUME NEW i \in Instances, ExitBegin(i) PROVE FALSE
    BY <1>12 DEF ExitBegin, ExitMatches
  <1>13. ASSUME ServiceExit PROVE FALSE
    BY <1>13 DEF ServiceExit
  <1>14. ASSUME NEW killed \in BOOLEAN, ShutdownBegin(killed) PROVE FALSE
    BY <1>14 DEF ShutdownBegin, ClearTunnel
  <1> QED
    BY <1>1, <1>2, <1>3, <1>4, <1>5, <1>6, <1>7, <1>8, <1>9, <1>10, <1>11, <1>12, <1>13, <1>14
       DEF Next, vars, fwVars, childVars, Request, Proceed, Watchdog, Environment,
           DisableBegin, Heartbeat, StatusRead, StatusReply, EnableGateOk,
           EnableDropOld, EnableCommit, EnableStore, DisableDrop, StartRefused,
           StartSpawn, StartTimeout, StopDeviceErr, MonitorObserve, WatchdogReads,
           WatchdogDisarms, WatchdogDrops, WatchdogCleans, HeartbeatExpires, ChildExits,
           AdapterAppears, AdapterVanishes, ServiceStart, ServiceStop

\* While no service process is there, adapters only vanish, and a start finds none.
LEMMA DownSteps ==
  ASSUME IInv, [Next]_vars, service = "down"
  PROVE  /\ InForce' \subseteq InForce /\ owner' = NoOwner
         /\ service' # "down" => InForce = {} /\ InForce' = {}
  <1> DEFINE Still == UNCHANGED <<child, alive, engine, filters>> /\ adapters' \subseteq adapters
  <1>1. /\ owner = NoOwner /\ task = Idle /\ child = NoInstance
        /\ engine = FALSE /\ filters = FALSE /\ alive = {}
    BY NoInstanceFresh
       DEF IInv, TypeOK, ResourceInv, DownInv, AliveInv, At, InstanceOrNone
  <1>2. owner' = NoOwner
    BY <1>1, LeaseBegins
  <1>3. Still
    <2>1. CASE UNCHANGED vars
      BY <2>1 DEF vars
    <2>2. ASSUME NEW i \in Instances, MonitorObserve(i) PROVE Still
      <3>1. child # i
        BY <1>1, NoInstanceFresh
      <3> QED
        BY <2>2, <3>1, Zenon DEF MonitorObserve, fwVars
    <2>3. ASSUME NEW i \in Instances, ChildExits(i) \/ AdapterAppears(i) \/ AdapterVanishes(i)
          PROVE  Still
      BY <1>1, <2>3 DEF ChildExits, AdapterAppears, AdapterVanishes, childVars, fwVars
    <2>4. CASE ServiceStart \/ HeartbeatExpires
      BY <2>4 DEF ServiceStart, HeartbeatExpires, childVars, fwVars
    <2>5. CASE WatchdogReads \/ WatchdogDisarms \/ WatchdogDrops
      BY <1>1, <2>5 DEF WatchdogReads, WatchdogDisarms, WatchdogDrops, CloseEngine, childVars
    <2>6. ASSUME NEW ok \in BOOLEAN, WatchdogCleans(ok) PROVE Still
      BY <1>1, <2>6 DEF WatchdogCleans, childVars
    <2> QED
      BY <1>1, <2>1, <2>2, <2>3, <2>4, <2>5, <2>6
         DEF Next, Request, Proceed, Watchdog, Environment, EnableBegin, DisableBegin,
             Heartbeat, StartBegin, StopBegin, StatusRead, StatusReply, EnableGateOk,
             EnableGateErr, EnableDropOld, EnableCommit, EnableFail, EnableStore, EnableArm,
             DisableDrop, DisableCleanup, StartRefused, StartSpawn, StartReady, StartTimeout,
             StartUndone, StartUndoErr, StopKilled, StopKillErr, StopDeviceGone,
             StopDeviceErr, ExitDevice, ShutdownDevice, InShutdown, ExitBegin, ServiceStop,
             ServiceExit, ShutdownBegin, At
  <1>4. InForce' \subseteq InForce
    BY <1>3 DEF InForce
  <1>5. service' # "down" => adapters = {}
    BY <1>1
       DEF Next, vars, Request, Proceed, Watchdog, Environment, EnableBegin, DisableBegin,
           Heartbeat, StartBegin, StopBegin, StatusRead, StatusReply, EnableGateOk,
           EnableGateErr, EnableDropOld, EnableCommit, EnableFail, EnableStore, EnableArm,
           DisableDrop, DisableCleanup, StartRefused, StartSpawn, StartReady, StartTimeout,
           StartUndone, StartUndoErr, StopKilled, StopKillErr, StopDeviceGone,
           StopDeviceErr, ExitDevice, ShutdownDevice, InShutdown, ExitBegin, At,
           MonitorObserve, WatchdogReads, WatchdogDisarms, WatchdogDrops, WatchdogCleans,
           HeartbeatExpires, ChildExits, AdapterAppears, AdapterVanishes, ServiceStart,
           ServiceStop, ServiceExit, ShutdownBegin
  <1>6. service' # "down" => InForce = {} /\ InForce' = {}
    BY <1>1, <1>4, <1>5 DEF InForce
  <1> QED
    BY <1>2, <1>4, <1>6

\* A step that leaves no owner, while the helper serves, leaves all clean.
LEMMA CleanAfter ==
  ASSUME IInv', owner' = NoOwner, service' # "down"
  PROVE  Clean' /\ InForce' = {}
  <1>1. Clean'
    BY NoInstanceFresh, SessionsNamed
       DEF IInv, TypeOK, TaskInv, EnableStages, StartStages, ResourceInv, AliveInv,
           ChildOwned, FiltersOwned, AdapterOwned, Clean, At, DeviceOf, NoOwner,
           OwnerRecord, Idle, Task, InstanceOrNone
  <1> QED
    BY <1>1 DEF Clean, InForce

\* What is in force is privileged state; it is nothing exactly when all is clean.
LEMMA InForceFacts ==
  /\ InForce \subseteq {"process", "filters", "adapter"}
  /\ Clean <=> InForce = {}
  <1>1. Clean => InForce = {}
    BY DEF Clean, InForce
  <1>2. InForce = {} => "process" \notin InForce /\ "filters" \notin InForce /\ "adapter" \notin InForce
    OBVIOUS
  <1>3. InForce = {} => Clean
    BY <1>2 DEF Clean, InForce
  <1> QED
    BY <1>1, <1>3 DEF InForce

\* A step that ends the service process leaves at most adapters.
LEMMA ServiceEnds ==
  ASSUME IInv, [Next]_vars, service # "down", service' = "down"
  PROVE  /\ owner' = NoOwner
         /\ InForce' = InForce \cap {"adapter"}
  <1>1. ServiceExit
    BY DEF Next, vars, Request, Proceed, Watchdog, Environment, EnableBegin, DisableBegin,
           Heartbeat, StartBegin, StopBegin, StatusRead, StatusReply, EnableGateOk,
           EnableGateErr, EnableDropOld, EnableCommit, EnableFail, EnableStore, EnableArm,
           DisableDrop, DisableCleanup, StartRefused, StartSpawn, StartReady, StartTimeout,
           StartUndone, StartUndoErr, StopKilled, StopKillErr, StopDeviceGone,
           StopDeviceErr, ExitDevice, ShutdownDevice, ExitBegin,
           MonitorObserve, WatchdogReads, WatchdogDisarms, WatchdogDrops, WatchdogCleans,
           HeartbeatExpires, ChildExits, AdapterAppears, AdapterVanishes, ServiceStart,
           ServiceStop, ShutdownBegin
  <1> QED
    BY <1>1 DEF ServiceExit, InForce

\* Every step of the broker is a step of the lease, or none.
LEMMA StepIsLeaseStep == IInv /\ IInv' /\ [Next]_vars => [Lease!Next]_(Lease!lease)
  <1> SUFFICES ASSUME IInv, IInv', [Next]_vars PROVE [Lease!Next]_(Lease!lease)
    OBVIOUS
  <1> DEFINE up == service # "down"
             holder == IF owner = NoOwner THEN Nobody ELSE owner.session
  <1>1. CASE ~up /\ ~up'
    <2>1. owner = NoOwner /\ owner' = NoOwner /\ InForce' \subseteq InForce
      BY <1>1, DownSteps DEF IInv, ResourceInv, DownInv
    <2>2. Lease!Fade
      BY <1>1, <2>1, Zenon DEF Lease!Fade
    <2> QED
      BY <2>2 DEF Lease!Next
  <1>2. CASE ~up /\ up'
    <2>1. owner = NoOwner /\ owner' = NoOwner /\ InForce = {} /\ InForce' = {}
      BY <1>2, DownSteps DEF IInv, ResourceInv, DownInv
    <2>2. Lease!Start
      BY <1>2, <2>1, Zenon DEF Lease!Start
    <2> QED
      BY <2>2 DEF Lease!Next
  <1>3. CASE up /\ ~up'
    <2>1. owner' = NoOwner /\ InForce' = InForce \cap {"adapter"}
      BY <1>3, ServiceEnds
    <2>2. Lease!Exit
      BY <1>3, <2>1, Zenon DEF Lease!Exit, Lease!Outlives
    <2> QED
      BY <2>2 DEF Lease!Next
  <1>4. CASE up /\ up' /\ owner = NoOwner
    <2>1. InForce = {}
      BY <1>4, NoOwnerClean, InForceFacts
    <2>2. CASE owner' = NoOwner
      <3>1. InForce' = {}
        BY <1>4, <2>2, CleanAfter
      <3> QED
        BY <1>4, <2>1, <2>2, <3>1, Zenon DEF Lease!lease
    <2>3. CASE owner' # NoOwner
      <3>1. owner'.session \in Sessions /\ InForce' = InForce
        BY <1>4, <2>3, LeaseBegins
      <3>2. Lease!Take(owner'.session)
        BY <1>4, <2>3, <3>1, Zenon DEF Lease!Take
      <3> QED
        BY <3>1, <3>2 DEF Lease!Next
    <2> QED
      BY <2>2, <2>3
  <1>5. CASE up /\ up' /\ owner # NoOwner
    <2>1. owner.session # Nobody
      BY <1>5, SessionsNamed DEF IInv, TypeOK, OwnerRecord
    <2>2. CASE owner' = NoOwner
      <3>1. InForce' = {}
        BY <1>5, <2>2, CleanAfter
      <3>2. Lease!Release
        BY <1>5, <2>1, <2>2, <3>1, Zenon DEF Lease!Release
      <3> QED
        BY <3>2 DEF Lease!Next
    <2>3. CASE owner' # NoOwner
      <3>1. owner'.session = owner.session
        BY <1>5, <2>3, SameLease
      <3>2. InForce' \in SUBSET Lease!Privileged
        BY DEF InForce, Lease!Privileged
      <3>3. Lease!Use
        BY <1>5, <2>1, <2>3, <3>1, <3>2, Zenon DEF Lease!Use
      <3> QED
        BY <3>3 DEF Lease!Next
    <2> QED
      BY <2>2, <2>3
  <1> QED
    BY <1>1, <1>2, <1>3, <1>4, <1>5

\* The helper, with all its requests, monitors, its watchdog and its crashes,
\* implements the lease.
THEOREM BrokerImplementsLease == Spec => ImplementsLease
  <1>1. Init => Lease!Init
    BY DEF Init, Lease!Init, InForce, Lease!Outlives
  <1>2. IInv /\ [Next]_vars => IInv'
    BY NextTypeOK, NextTaskInv, NextResourceInv DEF IInv
  <1>3. IInv /\ [Next]_vars => [Lease!Next]_(Lease!lease)
    BY <1>2, StepIsLeaseStep
  <1> QED
    BY <1>1, <1>3, Inductive, PTL DEF Spec, ImplementsLease, Lease!Spec

=============================================================================
