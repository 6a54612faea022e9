----------------------- MODULE SessionLifecycleProofs -----------------------
(***************************************************************************)
(* The session for any set of attempts, any selection of commands and any  *)
(* number of faults: its types, what is left of it at its end, and that no *)
(* engine is killed under the system proxy.  The types come first: each    *)
(* action is looked at twice, what it does to the command that holds the   *)
(* mutex (OpInv), by the lemmas on the operators that write `op`, and what *)
(* it does to the session.  The invariant Stage then says what each step   *)
(* of each command can rely on, whatever the monitor, the poll, the helper *)
(* and the operating system do beside it.                                  *)
(***************************************************************************)
EXTENDS SessionLifecycle, TLAPS

\* The command under way and the last reply; a connect, which alone starts
\* engines, works on an attempt that was made.
OpInv == /\ op \in Operation \cup {Idle} /\ outcome \in Outcomes
         /\ op.step # "idle" /\ (op.cmd = "connect" \/ op.step = "spawn") => op.a \in used
         /\ op.step = "proxy" => op.cmd = "quit"

\* Everything else that TypeOK says.
SessionInv ==
  /\ sealed \in BOOLEAN
  /\ used \subseteq Attempts /\ alive \subseteq used /\ watched \subseteq used
  /\ child \in AttemptOrNone /\ pid \in AttemptOrNone /\ attempt \in AttemptOrNone
  /\ child # None => pid = child
  /\ localUncertain \in BOOLEAN /\ helperSpawned \in BOOLEAN /\ privUncertain \in BOOLEAN
  /\ ksContext \in {"none", "proxy", "tun"}
  /\ poll \in {"none", "clear", "active", "pending", "unknown"}
  /\ marker \in AttemptOrNone /\ points \in {None, marker}
  /\ held \subseteq Privileged
  /\ faults \in 0..MaxFaults

Inv == OpInv /\ SessionInv

LEMMA InvIsTypeOK == Inv => TypeOK
BY DEF Inv, OpInv, SessionInv, TypeOK

-----------------------------------------------------------------------------
(* The command that holds the mutex.                                       *)

\* Whoever is at a step is a command, not Idle.
LEMMA Busy ==
  ASSUME OpInv, op.step # "idle"
  PROVE  /\ op \in Operation /\ op.step \in Steps /\ op.a \in AttemptOrNone
         /\ op.cmd \in {"connect", "rollback", "disconnect", "quit", "recover"}
         /\ op.tun \in BOOLEAN /\ op.ks \in BOOLEAN
         /\ op.helper \in BOOLEAN /\ op.good \in BOOLEAN
<1>1. op # Idle
  BY DEF Idle
<1>2. QED
  BY <1>1 DEF OpInv, Operation

LEMMA EnterKeeps ==
  ASSUME OpInv,
         NEW cmd \in {"connect", "rollback", "disconnect", "quit", "recover"},
         NEW step \in Steps \ {"proxy"}, NEW a \in AttemptOrNone, NEW tun \in BOOLEAN,
         NEW ks \in BOOLEAN, cmd = "connect" \/ step = "spawn" => a \in used',
         Enter(cmd, step, a, tun, ks)
  PROVE  OpInv'
BY DEF OpInv, Enter, Operation, Outcomes, NoOutcome, AttemptOrNone

LEMMA GotoKeeps ==
  ASSUME OpInv, op.step # "idle", used' = used,
         NEW step \in Steps, step = "spawn" => op.cmd = "connect",
         step = "proxy" => op.cmd = "quit",
         NEW good \in BOOLEAN, Goto(step, good)
  PROVE  OpInv'
<1>1. op' \in Operation /\ op'.cmd = op.cmd /\ op'.a = op.a /\ op'.step = step
  BY Busy DEF Goto, Operation
<1>2. QED
  BY <1>1 DEF OpInv, Goto

LEMMA RollbackKeeps ==
  ASSUME OpInv, op.step # "idle", used' = used,
         NEW helper \in BOOLEAN, Rollback(helper)
  PROVE  OpInv'
<1>1. op' \in Operation /\ op'.cmd = "rollback" /\ op'.step = "read"
  BY Busy DEF Rollback, Operation, Steps
<1>2. QED
  BY <1>1 DEF OpInv, Rollback

LEMMA EndKeeps ==
  ASSUME OpInv, op.step # "idle",
         NEW result \in {"none", "connected", "failed", "retained", "disconnected"},
         End(result)
  PROVE  OpInv'
<1>1. outcome' \in Outcomes
  BY Busy DEF End, Outcomes
<1>2. op' = Idle /\ op'.step = "idle"
  BY DEF End, Idle
<1>3. QED
  BY <1>1, <1>2 DEF OpInv

LEMMA IdleKeeps ==
  ASSUME OpInv, op' = Idle, outcome' = outcome \/ outcome' = NoOutcome
  PROVE  OpInv'
<1>1. op'.step = "idle"
  BY DEF Idle
<1>2. QED
  BY <1>1 DEF OpInv, Outcomes, NoOutcome, AttemptOrNone

\* Where a teardown goes on, and what a failed request counts for.
LEMMA NextSteps ==
  ASSUME OpInv, op.step # "idle"
  PROVE  AfterProxy \in Steps \ {"spawn", "proxy"} /\ AfterError \in BOOLEAN
BY Busy DEF AfterProxy, AfterError, Steps

LEMMA SameKeeps ==
  ASSUME OpInv, UNCHANGED <<op, outcome, used>>
  PROVE  OpInv'
BY DEF OpInv

-----------------------------------------------------------------------------
(* The helper, the proxy and the local engine.                             *)

LEMMA FaultKeeps ==
  ASSUME faults \in 0..MaxFaults, Fault
  PROVE  faults' \in 0..MaxFaults
BY BoundsType DEF Fault

LEMMA EnableKeeps ==
  ASSUME SessionInv, NEW tun \in BOOLEAN, HelperEnables(tun) \/ HelperEnableFails(tun)
  PROVE  held' \subseteq Privileged /\ faults' \in 0..MaxFaults
<1>1. held' \subseteq Privileged
  BY DEF SessionInv, HelperEnables, HelperEnableFails, Privileged
<1>2. faults' \in 0..MaxFaults
  BY FaultKeeps DEF SessionInv, HelperEnables, HelperEnableFails
<1>3. QED
  BY <1>1, <1>2

LEMMA HelperKeeps ==
  ASSUME SessionInv,
         \/ HelperStops \/ HelperStopFails \/ HelperDisables \/ HelperDisableFails
         \/ HelperStarts \/ HelperStartFails
         \/ HelperClear \/ HelperActive \/ HelperSilent
  PROVE  held' \subseteq Privileged /\ faults' \in 0..MaxFaults
<1>1. held \subseteq Privileged /\ faults \in 0..MaxFaults
  BY DEF SessionInv
<1>2. held' \subseteq Privileged
  BY <1>1 DEF HelperStops, HelperStopFails, HelperDisables, HelperDisableFails,
    HelperStarts, HelperStartFails, HelperClear, HelperActive, HelperSilent, Privileged,
    Tunnel
<1>3. faults' \in 0..MaxFaults
  BY <1>1, FaultKeeps DEF HelperStops, HelperStopFails, HelperDisables,
    HelperDisableFails, HelperStarts, HelperStartFails, HelperClear, HelperActive,
    HelperSilent
<1>4. QED
  BY <1>2, <1>3

LEMMA ProxyKeeps ==
  ASSUME SessionInv, NEW a, ProxyRestored(a) \/ ProxyKept(a)
  PROVE  /\ marker' \in AttemptOrNone /\ points' \in {None, marker'}
         /\ faults' \in 0..MaxFaults
<1>1. faults' \in 0..MaxFaults
  BY FaultKeeps DEF SessionInv, ProxyRestored, ProxyKept
<1>2. QED
  BY <1>1 DEF SessionInv, ProxyRestored, ProxyKept, proxyVars, AttemptOrNone

LEMMA StopLocalKeeps ==
  ASSUME SessionInv, NEW ok \in BOOLEAN, StopLocal(ok)
  PROVE  /\ child' = None /\ pid' \in AttemptOrNone
         /\ alive' \subseteq alive /\ watched' = watched
         /\ localUncertain' \in BOOLEAN /\ faults' \in 0..MaxFaults
<1>1. faults' \in 0..MaxFaults
  BY FaultKeeps DEF SessionInv, StopLocal
<1>2. QED
  BY <1>1 DEF SessionInv, StopLocal, AttemptOrNone

-----------------------------------------------------------------------------
(* Each action.                                                            *)

LEMMA ConnectBeginStep ==
  ASSUME Inv, NEW a \in Attempts, NEW tun \in BOOLEAN, NEW ks \in BOOLEAN, ConnectBegin(a, tun, ks)
  PROVE  Inv'
<1>1. OpInv'
  BY EnterKeeps
    DEF Inv, ConnectBegin, Idle, SessionInv, Steps, AttemptOrNone
<1>2. SessionInv'
  BY DEF Inv, SessionInv, ConnectBegin, localVars, memoryVars, proxyVars, AttemptOrNone
<1>3. QED
  BY <1>1, <1>2 DEF Inv

LEMMA DisconnectBeginStep ==
  ASSUME Inv, DisconnectBegin
  PROVE  Inv'
<1>1. OpInv'
  BY EnterKeeps
    DEF Inv, DisconnectBegin, Idle, SessionInv, Steps, AttemptOrNone
<1>2. SessionInv'
  BY DEF Inv, SessionInv, DisconnectBegin, localVars, memoryVars, proxyVars,
      AttemptOrNone
<1>3. QED
  BY <1>1, <1>2 DEF Inv

LEMMA QuitBeginStep ==
  ASSUME Inv, QuitBegin
  PROVE  Inv'
<1>1. OpInv'
  BY EnterKeeps
    DEF Inv, QuitBegin, Idle, SessionInv, Steps, AttemptOrNone
<1>2. SessionInv'
  BY DEF Inv, SessionInv, QuitBegin, localVars, memoryVars, proxyVars, AttemptOrNone
<1>3. QED
  BY <1>1, <1>2 DEF Inv

LEMMA KillSwitchApplyStep ==
  ASSUME Inv, NEW enabled \in BOOLEAN, KillSwitchApply(enabled)
  PROVE  Inv'
<1>1. OpInv'
  BY SameKeeps
    DEF Inv, KillSwitchApply, Idle
<1>2. held' \subseteq Privileged /\ faults' \in 0..MaxFaults
  <2>1. (ksContext = "tun") \in BOOLEAN
    OBVIOUS
  <2>2. QED
    BY <2>1, EnableKeeps, HelperKeeps DEF Inv, KillSwitchApply
<1>3. SessionInv'
  BY <1>2
    DEF Inv, SessionInv, KillSwitchApply, localVars, memoryVars, proxyVars, AttemptOrNone
<1>4. QED
  BY <1>1, <1>3 DEF Inv

LEMMA RecoverNetworkStep ==
  ASSUME Inv, RecoverNetwork
  PROVE  Inv'
<1>1. OpInv'
  BY EnterKeeps
    DEF Inv, RecoverNetwork, Idle, SessionInv, Steps, AttemptOrNone
<1>2. SessionInv'
  BY HelperKeeps
    DEF Inv, SessionInv, RecoverNetwork, localVars, memoryVars, proxyVars,
      AttemptOrNone, Privileged
<1>3. QED
  BY <1>1, <1>2 DEF Inv

LEMMA RestoreBackupStep ==
  ASSUME Inv, RestoreBackup
  PROVE  Inv'
<1>1. OpInv'
  BY SameKeeps
    DEF Inv, RestoreBackup, Idle
<1>2. SessionInv'
  BY ProxyKeeps
    DEF Inv, SessionInv, RestoreBackup, localVars, memoryVars, proxyVars, AttemptOrNone
<1>3. QED
  BY <1>1, <1>2 DEF Inv

LEMMA DiscardBackupStep ==
  ASSUME Inv, DiscardBackup
  PROVE  Inv'
<1>1. OpInv'
  BY SameKeeps
    DEF Inv, DiscardBackup, Idle
<1>2. SessionInv'
  BY DEF Inv, SessionInv, DiscardBackup, localVars, memoryVars, AttemptOrNone
<1>3. QED
  BY <1>1, <1>2 DEF Inv

LEMMA PollAskStep ==
  ASSUME Inv, PollAsk
  PROVE  Inv'
<1>1. OpInv'
  BY SameKeeps
    DEF Inv, PollAsk
<1>2. SessionInv'
  BY HelperKeeps
    DEF Inv, SessionInv, PollAsk, localVars, memoryVars, proxyVars, AttemptOrNone,
      Privileged
<1>3. QED
  BY <1>1, <1>2 DEF Inv

LEMMA PreflightStep ==
  ASSUME Inv, Preflight
  PROVE  Inv'
<1>1. OpInv'
  BY GotoKeeps, IdleKeeps, Busy
    DEF Inv, Preflight, At, Refuse, Idle, Steps
<1>2. held' \subseteq Privileged /\ faults' \in 0..MaxFaults
  BY HelperKeeps DEF Inv, Preflight
<1>3. SessionInv'
  BY <1>2, Busy
    DEF Inv, SessionInv, OpInv, Preflight, At, localVars, memoryVars, proxyVars, AttemptOrNone
<1>4. QED
  BY <1>1, <1>3 DEF Inv

LEMMA PendingStep ==
  ASSUME Inv, Pending
  PROVE  Inv'
<1>1. OpInv'
  BY GotoKeeps, IdleKeeps, Busy
    DEF Inv, Pending, At, Refuse, Idle, Steps
<1>2. /\ marker' \in AttemptOrNone /\ points' \in {None, marker'}
      /\ faults' \in 0..MaxFaults
  BY ProxyKeeps DEF Inv, SessionInv, Pending, proxyVars
<1>3. SessionInv'
  BY <1>2, Busy
    DEF Inv, SessionInv, OpInv, Pending, At, localVars, memoryVars, proxyVars, AttemptOrNone
<1>4. QED
  BY <1>1, <1>3 DEF Inv

LEMMA SpawnTunnelStep ==
  ASSUME Inv, SpawnTunnel
  PROVE  Inv'
<1>1. OpInv'
  BY GotoKeeps, RollbackKeeps, Busy
    DEF Inv, SpawnTunnel, At, Steps
<1>2. /\ child' = None /\ pid' \in AttemptOrNone /\ alive' \subseteq alive
      /\ watched' = watched /\ localUncertain' \in BOOLEAN
  BY StopLocalKeeps DEF Inv, SpawnTunnel
<1>3. held' \subseteq Privileged /\ faults' \in 0..MaxFaults
  BY HelperKeeps DEF Inv, SpawnTunnel
<1>4. SessionInv'
  BY <1>2, <1>3 DEF Inv, SessionInv, SpawnTunnel, proxyVars, AttemptOrNone
<1>5. QED
  BY <1>1, <1>4 DEF Inv

LEMMA StartedStep ==
  ASSUME Inv, Started
  PROVE  Inv'
<1>1. OpInv'
  BY GotoKeeps, EndKeeps, Busy
    DEF Inv, Started, At, Idle, Steps
<1>2. SessionInv'
  BY Busy
    DEF Inv, SessionInv, Started, OpInv, localVars, proxyVars, AttemptOrNone, At
<1>3. QED
  BY <1>1, <1>2 DEF Inv

LEMMA SpawnLocalStep ==
  ASSUME Inv, SpawnLocal
  PROVE  Inv'
<1>1. OpInv'
  BY GotoKeeps, RollbackKeeps, Busy
    DEF Inv, SpawnLocal, At, Steps
<1>2. op.a \in used
  BY DEF Inv, OpInv, SpawnLocal, At
<1>3. alive' \subseteq used /\ child' = None /\ pid' = None
  BY <1>2 DEF Inv, SessionInv, SpawnLocal
<1>4. UNCHANGED <<sealed, used, watched, memoryVars, poll, proxyVars, held, faults>>
  BY DEF SpawnLocal
<1>5. SessionInv'
  BY <1>3, <1>4 DEF Inv, SessionInv, memoryVars, proxyVars, AttemptOrNone
<1>6. QED
  BY <1>1, <1>5 DEF Inv

LEMMA ReadyStep ==
  ASSUME Inv, Ready
  PROVE  Inv'
<1>1. OpInv'
  BY GotoKeeps, Busy
    DEF Inv, Ready, At, Steps
<1>2. op.a \in used
  BY DEF Inv, SessionInv, Ready
<1>3. SessionInv'
  BY <1>2 DEF Inv, SessionInv, Ready, proxyVars, AttemptOrNone
<1>4. QED
  BY <1>1, <1>3 DEF Inv

LEMMA NotReadyStep ==
  ASSUME Inv, NotReady
  PROVE  Inv'
<1>1. OpInv'
  BY RollbackKeeps, Busy
    DEF Inv, NotReady, At
<1>2. SessionInv'
  BY Busy, FaultKeeps
    DEF Inv, SessionInv, NotReady, OpInv, memoryVars, proxyVars, AttemptOrNone, At
<1>3. QED
  BY <1>1, <1>2 DEF Inv

LEMMA PublishStep ==
  ASSUME Inv, Publish
  PROVE  Inv'
<1>1. OpInv'
  BY GotoKeeps, RollbackKeeps, EndKeeps, Busy
    DEF Inv, Publish, At, Idle, Steps
<1>2. op.a \in AttemptOrNone
  BY Busy DEF Inv, Publish, At
<1>3. faults' \in 0..MaxFaults
  BY FaultKeeps DEF Inv, SessionInv, Publish
<1>4. /\ marker' \in AttemptOrNone /\ points' \in {None, marker'} /\ attempt' \in AttemptOrNone
  BY <1>2 DEF Inv, SessionInv, Publish, proxyVars, AttemptOrNone
<1>5. UNCHANGED <<sealed, used, localVars, localUncertain, helperSpawned, privUncertain,
                  ksContext, poll, held>>
  BY DEF Publish
<1>6. SessionInv'
  BY <1>3, <1>4, <1>5 DEF Inv, SessionInv, localVars
<1>7. QED
  BY <1>1, <1>6 DEF Inv

LEMMA KillSwitchStep ==
  ASSUME Inv, KillSwitch
  PROVE  Inv'
<1>1. OpInv'
  BY GotoKeeps, RollbackKeeps, Busy
    DEF Inv, KillSwitch, At, Steps
<1>2. held' \subseteq Privileged /\ faults' \in 0..MaxFaults
  BY EnableKeeps, Busy DEF Inv, SessionInv, KillSwitch, At
<1>3. SessionInv'
  BY <1>2, Busy
    DEF Inv, SessionInv, OpInv, KillSwitch, At, localVars, memoryVars, proxyVars, AttemptOrNone
<1>4. QED
  BY <1>1, <1>3 DEF Inv

LEMMA ContextStep ==
  ASSUME Inv, Context
  PROVE  Inv'
<1>1. OpInv'
  BY EndKeeps, Busy
    DEF Inv, Context, At, Idle
<1>2. SessionInv'
  BY Busy
    DEF Inv, SessionInv, Context, OpInv, localVars, proxyVars, AttemptOrNone, At
<1>3. QED
  BY <1>1, <1>2 DEF Inv

LEMMA RollbackReadStep ==
  ASSUME Inv, RollbackRead
  PROVE  Inv'
<1>1. OpInv'
  BY GotoKeeps, NextSteps, Busy
    DEF Inv, RollbackRead, At, Steps
<1>2. SessionInv'
  BY Busy
    DEF Inv, SessionInv, RollbackRead, OpInv, localVars, memoryVars, proxyVars,
      AttemptOrNone, At
<1>3. QED
  BY <1>1, <1>2 DEF Inv

LEMMA ClearProxyStep ==
  ASSUME Inv, ClearProxy
  PROVE  Inv'
<1>1. OpInv'
  BY GotoKeeps, EndKeeps, Busy
    DEF Inv, ClearProxy, At, Idle, Steps
<1>2. /\ marker' \in AttemptOrNone /\ points' \in {None, marker'}
      /\ faults' \in 0..MaxFaults
  BY ProxyKeeps DEF Inv, ClearProxy
<1>3. SessionInv'
  BY <1>2, Busy
    DEF Inv, SessionInv, OpInv, ClearProxy, At, localVars, memoryVars, proxyVars, AttemptOrNone
<1>4. QED
  BY <1>1, <1>3 DEF Inv

LEMMA ForgetStep ==
  ASSUME Inv, Forget
  PROVE  Inv'
<1>1. OpInv'
  BY GotoKeeps, NextSteps, Busy
    DEF Inv, Forget, At, Steps
<1>2. SessionInv'
  BY Busy
    DEF Inv, SessionInv, Forget, OpInv, localVars, proxyVars, AttemptOrNone, At
<1>3. QED
  BY <1>1, <1>2 DEF Inv

LEMMA StatusStep ==
  ASSUME Inv, Status
  PROVE  Inv'
<1>1. OpInv'
  BY GotoKeeps, Busy
    DEF Inv, Status, At, Steps
<1>2. held' \subseteq Privileged /\ faults' \in 0..MaxFaults
  BY HelperKeeps DEF Inv, Status
<1>3. SessionInv'
  BY <1>2, Busy
    DEF Inv, SessionInv, OpInv, Status, At, localVars, memoryVars, proxyVars, AttemptOrNone
<1>4. QED
  BY <1>1, <1>3 DEF Inv

LEMMA StopHelperStep ==
  ASSUME Inv, StopHelper
  PROVE  Inv'
<1>1. OpInv'
  BY GotoKeeps, NextSteps, Busy
    DEF Inv, StopHelper, At, Steps
<1>2. SessionInv'
  BY Busy, HelperKeeps
    DEF Inv, SessionInv, StopHelper, OpInv, localVars, memoryVars, proxyVars,
      AttemptOrNone, Privileged, At
<1>3. QED
  BY <1>1, <1>2 DEF Inv

LEMMA DisableHelperStep ==
  ASSUME Inv, DisableHelper
  PROVE  Inv'
<1>1. OpInv'
  BY GotoKeeps, NextSteps, Busy
    DEF Inv, DisableHelper, At, Steps
<1>2. SessionInv'
  BY Busy, HelperKeeps
    DEF Inv, SessionInv, DisableHelper, OpInv, localVars, memoryVars, proxyVars,
      AttemptOrNone, Privileged, At
<1>3. QED
  BY <1>1, <1>2 DEF Inv

LEMMA VerifyHelperStep ==
  ASSUME Inv, VerifyHelper
  PROVE  Inv'
<1>1. OpInv'
  BY GotoKeeps, IdleKeeps, Busy
    DEF Inv, VerifyHelper, At, Refuse, Verified, Idle, Steps
<1>2. held' \subseteq Privileged /\ faults' \in 0..MaxFaults
  BY HelperKeeps DEF Inv, VerifyHelper
<1>3. SessionInv'
  BY <1>2, Busy
    DEF Inv, SessionInv, OpInv, VerifyHelper, At, localVars, memoryVars, proxyVars, AttemptOrNone
<1>4. QED
  BY <1>1, <1>3 DEF Inv

LEMMA RollbackFinishStep ==
  ASSUME Inv, RollbackFinish
  PROVE  Inv'
<1>1. OpInv'
  BY EndKeeps, Busy
    DEF Inv, RollbackFinish, At, Idle
<1>2. SessionInv'
  BY Busy, StopLocalKeeps
    DEF Inv, SessionInv, RollbackFinish, OpInv, localVars, proxyVars, AttemptOrNone, At
<1>3. QED
  BY <1>1, <1>2 DEF Inv

LEMMA DisconnectFinishStep ==
  ASSUME Inv, DisconnectFinish
  PROVE  Inv'
<1>1. OpInv'
  BY EndKeeps, Busy
    DEF Inv, DisconnectFinish, At, Idle
<1>2. SessionInv'
  BY Busy, StopLocalKeeps
    DEF Inv, SessionInv, DisconnectFinish, OpInv, proxyVars, AttemptOrNone, At
<1>3. QED
  BY <1>1, <1>2 DEF Inv

LEMMA QuitProxyStep ==
  ASSUME Inv, QuitProxy
  PROVE  Inv'
<1>1. OpInv'
  <2>1. CASE op' = [op EXCEPT !.step = "clear", !.a = attempt]
    <3>1. op' \in Operation /\ op'.cmd = op.cmd /\ op'.step = "clear" /\ op'.a = attempt
      BY <2>1, Busy DEF Inv, SessionInv, QuitProxy, At, Operation, Steps, AttemptOrNone
    <3>2. QED
      BY <3>1, Busy DEF Inv, OpInv, QuitProxy, At, Goto
  <2>2. QED
    BY <2>1, GotoKeeps, Busy DEF Inv, QuitProxy, At, Steps
<1>2. /\ marker' \in AttemptOrNone /\ points' \in {None, marker'}
      /\ faults' \in 0..MaxFaults
  BY ProxyKeeps DEF Inv, SessionInv, QuitProxy, proxyVars
<1>3. SessionInv'
  BY <1>2, Busy
    DEF Inv, SessionInv, OpInv, QuitProxy, At, localVars, memoryVars, proxyVars, AttemptOrNone
<1>4. QED
  BY <1>1, <1>3 DEF Inv

LEMMA QuitFinishStep ==
  ASSUME Inv, QuitFinish
  PROVE  Inv'
<1>1. OpInv'
  BY IdleKeeps, Busy
    DEF Inv, QuitFinish, At, Idle
<1>2. SessionInv'
  BY Busy, StopLocalKeeps
    DEF Inv, SessionInv, QuitFinish, OpInv, proxyVars, AttemptOrNone, At
<1>3. QED
  BY <1>1, <1>2 DEF Inv

LEMMA QuitKeepStep ==
  ASSUME Inv, QuitKeep
  PROVE  Inv'
<1>1. OpInv'
  BY IdleKeeps, Busy
    DEF Inv, QuitKeep, At, Idle
<1>2. SessionInv'
  BY DEF Inv, SessionInv, QuitKeep, localVars, memoryVars, proxyVars
<1>3. QED
  BY <1>1, <1>2 DEF Inv

LEMMA RecoverPendingStep ==
  ASSUME Inv, RecoverPending
  PROVE  Inv'
<1>1. OpInv'
  BY IdleKeeps, Busy
    DEF Inv, RecoverPending, At, Idle
<1>2. SessionInv'
  BY Busy, ProxyKeeps
    DEF Inv, SessionInv, RecoverPending, OpInv, localVars, memoryVars, proxyVars,
      AttemptOrNone, At
<1>3. QED
  BY <1>1, <1>2 DEF Inv

LEMMA PollApplyStep ==
  ASSUME Inv, PollApply
  PROVE  Inv'
<1>1. OpInv'
  BY SameKeeps
    DEF Inv, PollApply
<1>2. SessionInv'
  <2>1. helperSpawned' \in BOOLEAN /\ privUncertain' \in BOOLEAN /\ poll' = "none"
    BY DEF Inv, SessionInv, PollApply
  <2>2. QED
    BY <2>1 DEF Inv, SessionInv, PollApply, localVars, proxyVars
<1>3. QED
  BY <1>1, <1>2 DEF Inv

LEMMA EngineDiesStep ==
  ASSUME Inv, NEW a \in Attempts, EngineDies(a)
  PROVE  Inv'
<1>1. OpInv'
  BY SameKeeps
    DEF Inv, EngineDies
<1>2. SessionInv'
  BY DEF Inv, SessionInv, EngineDies, memoryVars, proxyVars, AttemptOrNone
<1>3. QED
  BY <1>1, <1>2 DEF Inv

LEMMA MonitorTerminatedStep ==
  ASSUME Inv, NEW a \in Attempts, MonitorTerminated(a)
  PROVE  Inv'
<1>1. OpInv'
  BY SameKeeps
    DEF Inv, MonitorTerminated
<1>2. SessionInv'
  <2>1. /\ marker' \in AttemptOrNone /\ points' \in {None, marker'}
        /\ faults' \in 0..MaxFaults
    BY ProxyKeeps DEF Inv, SessionInv, MonitorTerminated, proxyVars
  <2>2. /\ child' \in AttemptOrNone /\ pid' \in AttemptOrNone
        /\ attempt' \in AttemptOrNone /\ (child' # None => pid' = child')
        /\ localUncertain' \in BOOLEAN /\ watched' \subseteq watched
    BY DEF Inv, SessionInv, MonitorTerminated, AttemptOrNone
  <2>3. QED
    BY <2>1, <2>2 DEF Inv, SessionInv, MonitorTerminated
<1>3. QED
  BY <1>1, <1>2 DEF Inv

LEMMA MonitorLostStep ==
  ASSUME Inv, NEW a \in Attempts, MonitorLost(a)
  PROVE  Inv'
<1>1. OpInv'
  BY SameKeeps
    DEF Inv, MonitorLost
<1>2. SessionInv'
  <2>1. /\ marker' \in AttemptOrNone /\ points' \in {None, marker'}
        /\ faults' \in 0..MaxFaults
    BY ProxyKeeps DEF Inv, SessionInv, MonitorLost, proxyVars
  <2>2. /\ attempt' \in AttemptOrNone /\ localUncertain' \in BOOLEAN
        /\ watched' \subseteq watched
    BY DEF Inv, SessionInv, MonitorLost, AttemptOrNone
  <2>3. QED
    BY <2>1, <2>2 DEF Inv, SessionInv, MonitorLost
<1>3. QED
  BY <1>1, <1>2 DEF Inv

LEMMA HelperExitStep ==
  ASSUME Inv, HelperExit
  PROVE  Inv'
<1>1. OpInv'
  BY SameKeeps
    DEF Inv, HelperExit
<1>2. SessionInv'
  BY DEF Inv, SessionInv, HelperExit, localVars, memoryVars, proxyVars, AttemptOrNone,
      Privileged
<1>3. QED
  BY <1>1, <1>2 DEF Inv

LEMMA HelperRestartStep ==
  ASSUME Inv, HelperRestart
  PROVE  Inv'
<1>1. OpInv'
  BY SameKeeps
    DEF Inv, HelperRestart
<1>2. SessionInv'
  BY FaultKeeps
    DEF Inv, SessionInv, HelperRestart, localVars, memoryVars, proxyVars, AttemptOrNone,
      Privileged
<1>3. QED
  BY <1>1, <1>2 DEF Inv

LEMMA CrashStep ==
  ASSUME Inv, Crash
  PROVE  Inv'
<1>1. OpInv'
  BY IdleKeeps
    DEF Inv, Crash, Forgotten, Idle, SessionInv
<1>2. SessionInv'
  BY FaultKeeps
    DEF Inv, SessionInv, Crash, Forgotten, proxyVars, AttemptOrNone
<1>3. QED
  BY <1>1, <1>2 DEF Inv

LEMMA RelaunchStep ==
  ASSUME Inv, Relaunch
  PROVE  Inv'
<1>1. OpInv'
  BY IdleKeeps
    DEF Inv, Relaunch, Forgotten, Idle, SessionInv
<1>2. SessionInv'
  BY DEF Inv, SessionInv, Relaunch, Forgotten, proxyVars, AttemptOrNone
<1>3. QED
  BY <1>1, <1>2 DEF Inv

-----------------------------------------------------------------------------
(* The types.                                                              *)

LEMMA Initially == Init => Inv
<1>1. Init => OpInv
  BY DEF Init, OpInv, Idle, NoOutcome, Outcomes, AttemptOrNone
<1>2. Init => SessionInv
  <2>1. 0 \in 0..MaxFaults
    BY BoundsType
  <2>2. Init => held \subseteq Privileged /\ used \subseteq Attempts
               /\ alive \subseteq used /\ watched \subseteq used
    BY DEF Init
  <2>3. QED
    BY <2>1, <2>2 DEF Init, SessionInv, AttemptOrNone
<1>3. QED
  BY <1>1, <1>2 DEF Inv

LEMMA StutterKeeps == Inv /\ UNCHANGED vars => Inv'
BY DEF Inv, OpInv, SessionInv, vars, localVars, memoryVars, proxyVars

LEMMA Inductive == Inv /\ [Next]_vars => Inv'
<1> SUFFICES ASSUME Inv, [Next]_vars PROVE Inv'
  OBVIOUS
<1>1. CASE Command
  BY <1>1, ConnectBeginStep, DisconnectBeginStep, QuitBeginStep, KillSwitchApplyStep,
    RecoverNetworkStep, RestoreBackupStep, DiscardBackupStep, PollAskStep DEF Command
<1>2. CASE Proceed
  BY <1>2, PreflightStep, PendingStep, SpawnTunnelStep, StartedStep, SpawnLocalStep, ReadyStep,
    NotReadyStep, PublishStep, KillSwitchStep, ContextStep, RollbackReadStep,
    ClearProxyStep, ForgetStep, StatusStep, StopHelperStep, DisableHelperStep,
    VerifyHelperStep, RollbackFinishStep, DisconnectFinishStep, QuitProxyStep,
    QuitFinishStep, QuitKeepStep, RecoverPendingStep
    DEF Proceed
<1>3. CASE PollApply
  BY <1>3, PollApplyStep
<1>4. CASE Environment
  <2>1. alive \subseteq Attempts /\ watched \subseteq Attempts
    BY DEF Inv, SessionInv
  <2>2. QED
    BY <1>4, <2>1, EngineDiesStep, MonitorTerminatedStep, MonitorLostStep, HelperExitStep,
      HelperRestartStep, CrashStep, RelaunchStep DEF Environment
<1>5. CASE UNCHANGED vars
  BY <1>5, StutterKeeps
<1>6. QED
  BY <1>1, <1>2, <1>3, <1>4, <1>5 DEF Next

\* The session is well typed, and the handle, the pid and the token that belong
\* together do, for every set of attempts and every bound on faults.
THEOREM TypeCorrect == Spec => []TypeOK
<1>1. Init => Inv
  BY Initially
<1>2. Inv /\ [Next]_vars => Inv'
  BY Inductive
<1>3. Inv => TypeOK
  BY InvIsTypeOK
<1>4. QED
  BY <1>1, <1>2, <1>3, PTL DEF Spec

-----------------------------------------------------------------------------
(* What is left of the session, as seen from the command under way.        *)

\* Who may be at which step; a command replies only at its end, and once the
\* application is sealed only its quit goes on.
StepInv ==
  op.step # "idle" =>
    /\ op.step \in {"preflight", "spawn", "ready", "started", "publish", "kill_switch",
                    "context"} => op.cmd = "connect"
    /\ op.step = "read" => op.cmd = "rollback"
    /\ op.step = "status" => op.cmd = "disconnect"
    /\ op.step \in {"proxy", "keep"} => op.cmd = "quit"
    /\ op.step = "pending" => op.cmd \in {"connect", "recover"}
    /\ op.step \in {"clear", "forget", "finish"} =>
         op.cmd \in {"rollback", "disconnect", "quit"}
    /\ op.step \in {"stop", "disable", "verify"} => op.cmd # "recover"
    /\ outcome = NoOutcome
    /\ sealed => op.cmd = "quit"

\* A pid without a handle is an engine that was not killed: uncertain, and its
\* token redeemed.  A session with a handle owns the marker.
ChildInv ==
  /\ child = None /\ pid # None => localUncertain /\ attempt = None
  /\ child # None => marker \in {None, attempt}

\* A connect before its engine, with it, and after the publication.
ConnectInv ==
  op.step # "idle" /\ op.cmd = "connect" =>
    /\ op.a # None
    /\ op.step \in {"preflight", "stop", "disable", "verify", "pending", "spawn"} =>
         attempt = None /\ child = None /\ pid = None /\ ~localUncertain
    /\ op.step \in {"pending", "spawn", "ready", "publish"} => held = {}
    /\ op.step \in {"spawn", "ready", "publish"} => marker = None /\ attempt = None
    /\ op.step \in {"ready", "publish"} => ~op.tun
    /\ op.step = "started" => op.tun
    /\ op.step \in {"started", "kill_switch"} =>
         attempt \in {None, op.a} /\ marker \in {None, attempt}
    /\ op.step = "kill_switch" /\ ~op.tun => held = {}

\* A rollback works on its own publication, and asks the helper for nothing
\* only if that holds nothing.
RollbackInv ==
  op.step # "idle" /\ op.cmd = "rollback" =>
    /\ op.a # None
    /\ attempt \in {None, op.a} /\ marker \in {None, attempt}
    /\ op.step \notin {"read", "clear"} => attempt = None \/ op.step = "forget"
    /\ ~op.helper => held = {}

\* A teardown: the token goes after the proxy, the engine after the token, and
\* "no error so far" means, once the helper was asked, that it holds nothing.
TeardownInv ==
  /\ op.step \in {"clear", "forget"} =>
       op.a # None /\ attempt \in {None, op.a} /\ (child = None => pid = None)
  /\ op.step = "forget" => marker = None
  /\ op.step \notin {"idle", "clear", "forget"} /\ op.cmd = "disconnect" => attempt = None
  /\ op.step = "finish" => attempt = None /\ (op.good => held = {})
  /\ op.step # "idle" /\ op.cmd = "quit" =>
       /\ op.step \in {"proxy", "clear", "forget"} /\ op.good => held = {}
       /\ op.step = "finish" => marker = None

\* Nothing is left, and no pid that a monitor could still know.
EndInv ==
  /\ outcome.result \in {"failed", "disconnected"} =>
       /\ attempt = None /\ child = None /\ pid = None /\ ~localUncertain
       /\ ksContext = "none" /\ held = {}
       /\ outcome.result = "failed" => marker = None
  /\ sealed /\ op.step = "idle" =>
       /\ attempt = None /\ child = None /\ pid = None /\ ~localUncertain
       /\ marker = None /\ held = {}

Stage == StepInv /\ ChildInv /\ ConnectInv /\ RollbackInv /\ TeardownInv /\ EndInv

-----------------------------------------------------------------------------
(* What the operators on the command and on the surroundings do.           *)

\* The command after a step, and what the step leaves alone.
OpBecomes(cmd, step, a, tun, helper, good) ==
  /\ op'.cmd = cmd /\ op'.step = step /\ op'.a = a /\ op'.tun = tun
  /\ op'.helper = helper /\ op'.good = good

SameReply == outcome' = outcome /\ sealed' = sealed
SameEngine == child' = child /\ pid' = pid /\ localUncertain' = localUncertain

LEMMA EnterFields ==
  ASSUME NEW cmd, NEW step, NEW a, NEW tun, NEW ks, Enter(cmd, step, a, tun, ks)
  PROVE  /\ op'.cmd = cmd /\ op'.step = step /\ op'.a = a /\ op'.tun = tun
         /\ op'.helper = FALSE /\ op'.good = TRUE /\ outcome' = NoOutcome
BY DEF Enter

LEMMA GotoFields ==
  ASSUME OpInv, op.step # "idle", NEW step, NEW good, Goto(step, good)
  PROVE  /\ op'.cmd = op.cmd /\ op'.step = step /\ op'.a = op.a /\ op'.tun = op.tun
         /\ op'.helper = op.helper /\ op'.good = good /\ outcome' = outcome
<1>1. op \in Operation
  BY Busy
<1>2. QED
  BY <1>1 DEF Goto, Operation

LEMMA RollbackFields ==
  ASSUME OpInv, op.step # "idle", NEW helper, Rollback(helper)
  PROVE  /\ op'.cmd = "rollback" /\ op'.step = "read" /\ op'.a = op.a
         /\ op'.helper = helper /\ op'.good = TRUE /\ outcome' = outcome
<1>1. op \in Operation
  BY Busy
<1>2. QED
  BY <1>1 DEF Rollback, Operation

LEMMA EndFields ==
  ASSUME NEW result, End(result)
  PROVE  op'.step = "idle" /\ outcome'.result = result
BY DEF End, Idle

LEMMA IdleStep == Idle.step = "idle" /\ NoOutcome.result = "none"
BY DEF Idle, NoOutcome

\* A request that stops or lifts something leaves no more than there was.
LEMMA HelperShrinks ==
  ASSUME \/ HelperStops \/ HelperStopFails \/ HelperDisables \/ HelperDisableFails
         \/ HelperClear \/ HelperActive \/ HelperSilent
  PROVE  held' \subseteq held
BY DEF HelperStops, HelperStopFails, HelperDisables, HelperDisableFails, HelperClear,
   HelperActive, HelperSilent

\* A restore leaves no marker or the one there was.
LEMMA MarkerOnlyGoes ==
  ASSUME NEW a, ProxyRestored(a) \/ ProxyKept(a)
  PROVE  /\ marker' \in {None, marker}
         /\ ProxyRestored(a) => marker = a /\ a # None /\ marker' = None
BY DEF ProxyRestored, ProxyKept, proxyVars

\* MihomoState::stop.
LEMMA StopLocalEnds ==
  ASSUME NEW ok \in BOOLEAN, StopLocal(ok), SessionInv
  PROVE  /\ child' = None
         /\ ok => pid' = None /\ (child # None \/ ~localUncertain) /\ ~localUncertain'
         /\ ~ok => localUncertain'
BY DEF StopLocal, SessionInv

-----------------------------------------------------------------------------
(* Each action again: what it leaves.                                      *)

\* What happens beside the command changes neither it nor what it relies on,
\* except that something goes.
LEMMA QuietKeeps ==
  ASSUME Stage,
         UNCHANGED <<op, sealed, outcome, child, pid, attempt, localUncertain, ksContext>>,
         held' \subseteq held, marker' \in {None, marker}
  PROVE  Stage'
<1>1. held = {} => held' = {}
  OBVIOUS
<1>2. StepInv' /\ ChildInv'
  BY DEF Stage, StepInv, ChildInv
<1>3. ConnectInv' /\ RollbackInv'
  BY <1>1 DEF Stage, ConnectInv, RollbackInv
<1>4. TeardownInv' /\ EndInv'
  BY <1>1 DEF Stage, TeardownInv, EndInv
<1>5. QED
  BY <1>2, <1>3, <1>4 DEF Stage

LEMMA ConnectBeginStage ==
  ASSUME Inv, Stage, NEW a \in Attempts, NEW tun \in BOOLEAN, NEW ks \in BOOLEAN,
         ConnectBegin(a, tun, ks)
  PROVE  Stage'
<1>1. OpBecomes("connect", "preflight", a, tun, FALSE, TRUE) /\ outcome' = NoOutcome
  BY EnterFields DEF ConnectBegin, OpBecomes
<1>2. /\ sealed' = sealed /\ ~sealed /\ a # None /\ SameEngine
      /\ attempt' = attempt /\ ksContext' = ksContext /\ marker' = marker /\ held' = held
      /\ attempt = None /\ child = None /\ ~localUncertain
  BY NoneFresh
    DEF ConnectBegin, Free, HasActive, IsRunning, localVars, memoryVars, proxyVars, SameEngine
<1>3. QED
  BY <1>1, <1>2, IdleStep
    DEF Stage, StepInv, ChildInv, ConnectInv, RollbackInv, TeardownInv, EndInv, OpBecomes,
        SameEngine

LEMMA DisconnectBeginStage ==
  ASSUME Inv, Stage, DisconnectBegin
  PROVE  Stage'
<1>1. /\ op'.step = IF attempt = None THEN "status" ELSE "clear"
      /\ op'.cmd = "disconnect" /\ op'.a = attempt /\ op'.good = TRUE
      /\ outcome' = NoOutcome /\ sealed' = sealed /\ ~sealed /\ SameEngine
      /\ attempt' = attempt /\ ksContext' = ksContext /\ marker' = marker
      /\ held' = held
  BY EnterFields, IdleStep
    DEF Inv, At, Idle, localVars, memoryVars, proxyVars, DisconnectBegin, Free, SessionInv,
        OpBecomes, SameReply, SameEngine
<1>2. QED
  BY <1>1, IdleStep
    DEF Stage, StepInv, ChildInv, ConnectInv, RollbackInv, TeardownInv, EndInv, OpBecomes,
        SameReply, SameEngine

LEMMA QuitBeginStage ==
  ASSUME Inv, Stage, QuitBegin
  PROVE  Stage'
<1>1. /\ OpBecomes("quit", "stop", None, FALSE, FALSE, TRUE)
      /\ outcome' = NoOutcome /\ sealed' = TRUE /\ SameEngine
      /\ attempt' = attempt /\ ksContext' = ksContext /\ marker' = marker
      /\ held' = held
  BY EnterFields, IdleStep
    DEF Inv, At, Idle, localVars, memoryVars, proxyVars, QuitBegin, Free, SessionInv,
        OpBecomes, SameReply, SameEngine
<1>2. QED
  BY <1>1, IdleStep
    DEF Stage, StepInv, ChildInv, ConnectInv, RollbackInv, TeardownInv, EndInv, OpBecomes,
        SameReply, SameEngine

LEMMA RecoverNetworkStage ==
  ASSUME Inv, Stage, RecoverNetwork
  PROVE  Stage'
<1>1. /\ op'.cmd = "recover" /\ op'.step = "pending" /\ outcome' = NoOutcome
      /\ sealed' = sealed /\ ~sealed /\ SameEngine /\ attempt' = attempt
      /\ ksContext' = ksContext /\ marker' = marker
  BY EnterFields
    DEF RecoverNetwork, Free, localVars, memoryVars, proxyVars, SameEngine
<1>2. QED
  BY <1>1, IdleStep
    DEF Stage, StepInv, ChildInv, ConnectInv, RollbackInv, TeardownInv, EndInv, SameEngine

LEMMA PreflightStage ==
  ASSUME Inv, Stage, Preflight
  PROVE  Stage'
<1>1. \/ /\ op.step = "preflight"
         /\ OpBecomes(op.cmd, "pending", op.a, op.tun, op.helper, TRUE) /\ SameReply
         /\ SameEngine /\ attempt' = attempt /\ ksContext' = ksContext
         /\ marker' = marker /\ held' = held /\ held = {}
      \/ /\ op.step = "preflight"
         /\ OpBecomes(op.cmd, "stop", op.a, op.tun, op.helper, TRUE) /\ SameReply
         /\ SameEngine /\ attempt' = attempt /\ ksContext' = ksContext
         /\ marker' = marker /\ held' = held
      \/ /\ op.step = "preflight" /\ op'.step = "idle" /\ SameReply /\ SameEngine
         /\ attempt' = attempt /\ ksContext' = ksContext /\ marker' = marker
         /\ held' = held
  BY GotoFields, HelperShrinks, IdleStep
    DEF Inv, At, Idle, localVars, memoryVars, proxyVars, Preflight, HelperClear, Refuse,
        HelperActive, HelperSilent, OpBecomes, SameReply, SameEngine
<1>2. CASE /\ op.step = "preflight"
           /\ OpBecomes(op.cmd, "pending", op.a, op.tun, op.helper, TRUE) /\ SameReply
           /\ SameEngine /\ attempt' = attempt /\ ksContext' = ksContext
           /\ marker' = marker /\ held' = held /\ held = {}
  BY <1>2, IdleStep
    DEF Stage, StepInv, ChildInv, ConnectInv, RollbackInv, TeardownInv, EndInv, OpBecomes,
        SameReply, SameEngine
<1>3. CASE /\ op.step = "preflight"
           /\ OpBecomes(op.cmd, "stop", op.a, op.tun, op.helper, TRUE) /\ SameReply
           /\ SameEngine /\ attempt' = attempt /\ ksContext' = ksContext
           /\ marker' = marker /\ held' = held
  BY <1>3, IdleStep
    DEF Stage, StepInv, ChildInv, ConnectInv, RollbackInv, TeardownInv, EndInv, OpBecomes,
        SameReply, SameEngine
<1>4. CASE /\ op.step = "preflight" /\ op'.step = "idle" /\ SameReply /\ SameEngine
           /\ attempt' = attempt /\ ksContext' = ksContext /\ marker' = marker
           /\ held' = held
  BY <1>4, IdleStep
    DEF Stage, StepInv, ChildInv, ConnectInv, RollbackInv, TeardownInv, EndInv, OpBecomes,
        SameReply, SameEngine
<1>5. QED
  BY <1>1, <1>2, <1>3, <1>4

LEMMA PendingStage ==
  ASSUME Inv, Stage, Pending
  PROVE  Stage'
<1>1. \/ /\ op.step = "pending" /\ op.cmd = "connect"
         /\ OpBecomes(op.cmd, "spawn", op.a, op.tun, op.helper, TRUE) /\ SameReply
         /\ SameEngine /\ attempt' = attempt /\ ksContext' = ksContext
         /\ marker' = None /\ held' = held
      \/ /\ op.step = "pending" /\ op.cmd = "connect" /\ op'.step = "idle"
         /\ SameReply /\ SameEngine /\ attempt' = attempt /\ ksContext' = ksContext
         /\ marker' \in {None, marker} /\ held' = held
  BY GotoFields, MarkerOnlyGoes, IdleStep
    DEF Inv, At, Idle, localVars, memoryVars, proxyVars, Pending, Refuse, OpBecomes,
        SameReply, SameEngine
<1>2. CASE /\ op.step = "pending" /\ op.cmd = "connect"
           /\ OpBecomes(op.cmd, "spawn", op.a, op.tun, op.helper, TRUE) /\ SameReply
           /\ SameEngine /\ attempt' = attempt /\ ksContext' = ksContext
           /\ marker' = None /\ held' = held
  BY <1>2, IdleStep
    DEF Stage, StepInv, ChildInv, ConnectInv, RollbackInv, TeardownInv, EndInv, OpBecomes,
        SameReply, SameEngine
<1>3. CASE /\ op.step = "pending" /\ op.cmd = "connect" /\ op'.step = "idle"
           /\ SameReply /\ SameEngine /\ attempt' = attempt /\ ksContext' = ksContext
           /\ marker' \in {None, marker} /\ held' = held
  BY <1>3, IdleStep
    DEF Stage, StepInv, ChildInv, ConnectInv, RollbackInv, TeardownInv, EndInv, OpBecomes,
        SameReply, SameEngine
<1>4. QED
  BY <1>1, <1>2, <1>3

LEMMA SpawnTunnelStage ==
  ASSUME Inv, Stage, SpawnTunnel
  PROVE  Stage'
<1>1. /\ op.step = "spawn" /\ op.cmd = "connect" /\ op.tun
      /\ sealed' = sealed /\ attempt' = attempt /\ ksContext' = ksContext /\ marker' = marker
      /\ child = None /\ ~localUncertain
  BY DEF Stage, StepInv, ConnectInv, SpawnTunnel, At, proxyVars
<1>2. child' = None /\ pid' = None /\ ~localUncertain'
  BY <1>1, StopLocalEnds DEF SpawnTunnel, Inv
<1>3. \/ /\ op'.step = "started" /\ op'.cmd = op.cmd /\ op'.a = op.a /\ op'.tun = op.tun
         /\ outcome' = outcome
      \/ /\ op'.step = "read" /\ op'.cmd = "rollback" /\ op'.a = op.a /\ op'.helper = TRUE
         /\ outcome' = outcome
  BY <1>1, GotoFields, RollbackFields DEF SpawnTunnel, Inv
<1>4. CASE op'.step = "started"
  BY <1>1, <1>2, <1>3, <1>4, IdleStep
    DEF Stage, StepInv, ChildInv, ConnectInv, RollbackInv, TeardownInv, EndInv
<1>5. CASE op'.step = "read"
  <2>1. op'.helper
    BY <1>3, <1>5
  <2>2. QED
    BY <1>1, <1>2, <1>3, <1>5, <2>1, IdleStep
      DEF Stage, StepInv, ChildInv, ConnectInv, RollbackInv, TeardownInv, EndInv
<1>6. QED
  BY <1>3, <1>4, <1>5

LEMMA StartedStage ==
  ASSUME Inv, Stage, Started
  PROVE  Stage'
<1>1. \/ /\ op.step = "started"
         /\ OpBecomes(op.cmd, "kill_switch", op.a, op.tun, op.helper, TRUE)
         /\ SameReply /\ SameEngine /\ attempt' = attempt /\ ksContext' = ksContext
         /\ marker' = marker /\ held' = held
      \/ /\ op.step = "started" /\ op'.step = "idle"
         /\ outcome'.result = "connected" /\ sealed' = sealed /\ SameEngine
         /\ attempt' = attempt /\ ksContext' = ksContext /\ marker' = marker
         /\ held' = held
  BY GotoFields, EndFields
    DEF Inv, At, Idle, localVars, memoryVars, proxyVars, Started, OpBecomes, SameReply,
        SameEngine
<1>2. CASE /\ op.step = "started"
           /\ OpBecomes(op.cmd, "kill_switch", op.a, op.tun, op.helper, TRUE)
           /\ SameReply /\ SameEngine /\ attempt' = attempt /\ ksContext' = ksContext
           /\ marker' = marker /\ held' = held
  BY <1>2, IdleStep
    DEF Stage, StepInv, ChildInv, ConnectInv, RollbackInv, TeardownInv, EndInv, OpBecomes,
        SameReply, SameEngine
<1>3. CASE /\ op.step = "started" /\ op'.step = "idle"
           /\ outcome'.result = "connected" /\ sealed' = sealed /\ SameEngine
           /\ attempt' = attempt /\ ksContext' = ksContext /\ marker' = marker
           /\ held' = held
  BY <1>3, IdleStep
    DEF Stage, StepInv, ChildInv, ConnectInv, RollbackInv, TeardownInv, EndInv, OpBecomes,
        SameReply, SameEngine
<1>4. QED
  BY <1>1, <1>2, <1>3

LEMMA SpawnLocalStage ==
  ASSUME Inv, Stage, SpawnLocal
  PROVE  Stage'
<1>1. /\ op.step = "spawn" /\ ~op.tun /\ child' = None /\ pid' = None
      /\ localUncertain' = localUncertain /\ attempt' = attempt /\ ksContext' = ksContext
      /\ marker' = marker /\ held' = held /\ sealed' = sealed
      /\ Goto("ready", TRUE) \/ Rollback(FALSE)
  BY DEF SpawnLocal, At, memoryVars, proxyVars
<1>2. CASE Goto("ready", TRUE)
  <2>1. OpBecomes(op.cmd, "ready", op.a, op.tun, op.helper, TRUE) /\ SameReply
    BY <1>1, <1>2, GotoFields DEF Inv, OpBecomes, SameReply
  <2>2. QED
    BY <1>1, <2>1, IdleStep
      DEF Stage, StepInv, ChildInv, ConnectInv, RollbackInv, TeardownInv, EndInv, OpBecomes,
          SameReply
<1>3. CASE Rollback(FALSE)
  <2>1. OpBecomes("rollback", "read", op.a, op'.tun, FALSE, TRUE) /\ SameReply
    BY <1>1, <1>3, RollbackFields DEF Inv, OpBecomes, SameReply
  <2>2. QED
    BY <1>1, <2>1, IdleStep
      DEF Stage, StepInv, ChildInv, ConnectInv, RollbackInv, TeardownInv, EndInv, OpBecomes,
          SameReply
<1>4. QED
  BY <1>1, <1>2, <1>3

LEMMA ReadyStage ==
  ASSUME Inv, Stage, Ready
  PROVE  Stage'
<1>1. /\ op.step = "ready"
      /\ OpBecomes(op.cmd, "publish", op.a, op.tun, op.helper, TRUE) /\ SameReply
      /\ child' = op.a /\ pid' = op.a /\ ~localUncertain'
      /\ attempt' = attempt /\ ksContext' = ksContext /\ marker' = marker
      /\ held' = held
  BY GotoFields
    DEF Inv, At, Idle, localVars, memoryVars, proxyVars, Ready, OpBecomes, SameReply,
        SameEngine
<1>2. QED
  BY <1>1, IdleStep
    DEF Stage, StepInv, ChildInv, ConnectInv, RollbackInv, TeardownInv, EndInv, OpBecomes,
        SameReply, SameEngine

LEMMA NotReadyStage ==
  ASSUME Inv, Stage, NotReady
  PROVE  Stage'
BY RollbackFields
  DEF Stage, StepInv, ChildInv, ConnectInv, RollbackInv, TeardownInv, EndInv, Inv, At, Idle,
      localVars, memoryVars, proxyVars, NotReady

LEMMA PublishStage ==
  ASSUME Inv, Stage, Publish
  PROVE  Stage'
<1> DEFINE Published == child # None /\ marker' = op.a /\ attempt' = op.a
<1>1. /\ op.step = "publish" /\ SameEngine /\ ksContext' = ksContext
      /\ held' = held /\ sealed' = sealed
  BY DEF Publish, At, localVars, SameEngine
<1>2. \/ Published /\ (Goto("kill_switch", TRUE) \/ End("connected"))
      \/ /\ Published \/ (marker' = marker /\ attempt' = attempt)
         /\ Rollback(FALSE)
  BY DEF Publish, proxyVars
<1>3. CASE Published /\ Goto("kill_switch", TRUE)
  <2>1. OpBecomes(op.cmd, "kill_switch", op.a, op.tun, op.helper, TRUE) /\ SameReply
    BY <1>1, <1>3, GotoFields DEF Inv, OpBecomes, SameReply
  <2>2. QED
    BY <1>1, <1>3, <2>1, IdleStep
      DEF Stage, StepInv, ChildInv, ConnectInv, RollbackInv, TeardownInv, EndInv, OpBecomes,
          SameReply, SameEngine
<1>4. CASE Published /\ End("connected")
  <2>1. op'.step = "idle" /\ outcome'.result = "connected"
    BY <1>4, EndFields
  <2>2. QED
    BY <1>1, <1>4, <2>1
      DEF Stage, StepInv, ChildInv, ConnectInv, RollbackInv, TeardownInv, EndInv, SameEngine
<1>5. CASE (Published \/ (marker' = marker /\ attempt' = attempt)) /\ Rollback(FALSE)
  <2>1. OpBecomes("rollback", "read", op.a, op'.tun, FALSE, TRUE) /\ SameReply
    BY <1>1, <1>5, RollbackFields DEF Inv, OpBecomes, SameReply
  <2>2. QED
    BY <1>1, <1>5, <2>1, IdleStep
      DEF Stage, StepInv, ChildInv, ConnectInv, RollbackInv, TeardownInv, EndInv, OpBecomes,
          SameReply, SameEngine
<1>6. QED
  BY <1>2, <1>3, <1>4, <1>5

LEMMA KillSwitchStage ==
  ASSUME Inv, Stage, KillSwitch
  PROVE  Stage'
<1>1. /\ op.step = "kill_switch" /\ op.cmd = "connect" /\ sealed' = sealed /\ SameEngine
      /\ attempt' = attempt /\ ksContext' = ksContext /\ marker' = marker
  BY DEF KillSwitch, At, localVars, memoryVars, proxyVars, SameEngine, Stage, StepInv
<1>2. CASE Goto("context", TRUE)
  <2>1. OpBecomes(op.cmd, "context", op.a, op.tun, op.helper, TRUE) /\ SameReply
    BY <1>1, <1>2, GotoFields DEF Inv, OpBecomes, SameReply
  <2>2. QED
    BY <1>1, <2>1, IdleStep
      DEF Stage, StepInv, ChildInv, ConnectInv, RollbackInv, TeardownInv, EndInv, OpBecomes,
          SameReply, SameEngine
<1>3. ASSUME NEW helper \in BOOLEAN, Rollback(helper), ~helper => held' = {}
      PROVE  Stage'
  <2>1. OpBecomes("rollback", "read", op.a, op'.tun, helper, TRUE) /\ SameReply
    BY <1>1, <1>3, RollbackFields DEF Inv, OpBecomes, SameReply
  <2>2. QED
    BY <1>1, <1>3, <2>1, IdleStep
      DEF Stage, StepInv, ChildInv, ConnectInv, RollbackInv, TeardownInv, EndInv, OpBecomes,
          SameReply, SameEngine
<1>4. op.tun \in BOOLEAN /\ (~op.tun => held = {})
  BY <1>1, Busy DEF Inv, Stage, ConnectInv
<1>5. CASE Rollback(TRUE)
  BY <1>3, <1>5
<1>6. CASE held' = held /\ Rollback(op.tun)
  BY <1>3, <1>4, <1>6
<1>7. QED
  BY <1>2, <1>5, <1>6 DEF KillSwitch

LEMMA ContextStage ==
  ASSUME Inv, Stage, Context
  PROVE  Stage'
BY EndFields
  DEF Stage, StepInv, ChildInv, ConnectInv, RollbackInv, TeardownInv, EndInv, Inv, At, Idle,
      localVars, memoryVars, proxyVars, Context

LEMMA RollbackReadStage ==
  ASSUME Inv, Stage, RollbackRead
  PROVE  Stage'
<1> DEFINE next == IF attempt = op.a THEN "clear" ELSE AfterProxy
<1>1. /\ op.step = "read" /\ op.cmd = "rollback" /\ Goto(next, TRUE)
      /\ sealed' = sealed /\ SameEngine /\ attempt' = attempt /\ ksContext' = ksContext
      /\ marker' = marker /\ held' = held
  BY DEF RollbackRead, At, localVars, memoryVars, proxyVars, SameEngine, Stage, StepInv
<1>2. OpBecomes(op.cmd, next, op.a, op.tun, op.helper, TRUE) /\ SameReply
  <2> HIDE DEF next
  <2> QED
    BY <1>1, GotoFields DEF Inv, OpBecomes, SameReply
<1>3. AfterProxy = IF op.helper THEN "stop" ELSE "finish"
  BY <1>1 DEF AfterProxy
<1>4. QED
  BY <1>1, <1>2, <1>3, IdleStep
    DEF Stage, StepInv, ChildInv, ConnectInv, RollbackInv, TeardownInv, EndInv, OpBecomes,
        SameReply, SameEngine

LEMMA ClearProxyStage ==
  ASSUME Inv, Stage, ClearProxy
  PROVE  Stage'
<1>1. \/ /\ op.step = "clear"
         /\ OpBecomes(op.cmd, "forget", op.a, op.tun, op.helper, op.good)
         /\ SameReply /\ SameEngine /\ attempt' = attempt /\ ksContext' = ksContext
         /\ marker' = None /\ held' = held
      \/ /\ op.step = "clear"
         /\ OpBecomes(op.cmd, "keep", op.a, op.tun, op.helper, FALSE)
         /\ op.cmd = "quit" /\ SameReply /\ SameEngine
         /\ attempt' = attempt /\ ksContext' = ksContext
         /\ marker' \in {None, marker} /\ held' = held
      \/ /\ op.step = "clear" /\ op.cmd # "quit" /\ op'.step = "idle"
         /\ outcome'.result = "retained" /\ sealed' = sealed /\ SameEngine
         /\ attempt' = attempt /\ ksContext' = ksContext
         /\ marker' \in {None, marker} /\ held' = held
  BY GotoFields, EndFields, MarkerOnlyGoes
    DEF Inv, At, Idle, localVars, memoryVars, proxyVars, ClearProxy, OpBecomes, SameReply,
        SameEngine
<1>2. CASE /\ op.step = "clear"
           /\ OpBecomes(op.cmd, "forget", op.a, op.tun, op.helper, op.good)
           /\ SameReply /\ SameEngine /\ attempt' = attempt /\ ksContext' = ksContext
           /\ marker' = None /\ held' = held
  BY <1>2, IdleStep
    DEF Stage, StepInv, ChildInv, ConnectInv, RollbackInv, TeardownInv, EndInv, OpBecomes,
        SameReply, SameEngine
<1>3. CASE /\ op.step = "clear"
           /\ OpBecomes(op.cmd, "keep", op.a, op.tun, op.helper, FALSE)
           /\ op.cmd = "quit" /\ SameReply /\ SameEngine
           /\ attempt' = attempt /\ ksContext' = ksContext
           /\ marker' \in {None, marker} /\ held' = held
  BY <1>3, IdleStep
    DEF Stage, StepInv, ChildInv, ConnectInv, RollbackInv, TeardownInv, EndInv, OpBecomes,
        SameReply, SameEngine
<1>4. CASE /\ op.step = "clear" /\ op.cmd # "quit" /\ op'.step = "idle"
           /\ outcome'.result = "retained" /\ sealed' = sealed /\ SameEngine
           /\ attempt' = attempt /\ ksContext' = ksContext
           /\ marker' \in {None, marker} /\ held' = held
  BY <1>4, IdleStep
    DEF Stage, StepInv, ChildInv, ConnectInv, RollbackInv, TeardownInv, EndInv, OpBecomes,
        SameReply, SameEngine
<1>5. QED
  BY <1>1, <1>2, <1>3, <1>4

LEMMA ForgetStage ==
  ASSUME Inv, Stage, Forget
  PROVE  Stage'
<1>1. /\ op.step = "forget"
      /\ OpBecomes(op.cmd, AfterProxy, op.a, op.tun, op.helper, op.good)
      /\ SameReply
      /\ child' = child /\ pid' = pid /\ localUncertain' = (localUncertain /\ op.cmd = "quit")
      /\ attempt' = (IF attempt = op.a THEN None ELSE attempt) /\ ksContext' = ksContext
      /\ marker' = marker /\ held' = held
  BY GotoFields
    DEF Inv, At, Idle, localVars, memoryVars, proxyVars, Forget, OpBecomes,
        SameReply, SameEngine
<1>2. /\ op.cmd = "rollback" => AfterProxy = IF op.helper THEN "stop" ELSE "finish"
      /\ op.cmd = "disconnect" => AfterProxy = "status"
      /\ op.cmd = "quit" => AfterProxy = "finish"
  BY DEF AfterProxy
<1>3. op.cmd \in {"rollback", "disconnect", "quit"}
  BY <1>1 DEF Stage, StepInv
<1>4. QED
  BY <1>1, <1>2, <1>3, IdleStep
    DEF Stage, StepInv, ChildInv, ConnectInv, RollbackInv, TeardownInv, EndInv, OpBecomes,
        SameReply, SameEngine

LEMMA StatusStage ==
  ASSUME Inv, Stage, Status
  PROVE  Stage'
<1>1. \/ /\ op.step = "status"
         /\ OpBecomes(op.cmd, "finish", op.a, op.tun, op.helper, TRUE) /\ SameReply
         /\ SameEngine /\ attempt' = attempt /\ ksContext' = ksContext
         /\ marker' = marker /\ held' = held /\ held = {}
      \/ /\ op.step = "status"
         /\ OpBecomes(op.cmd, "stop", op.a, op.tun, op.helper, TRUE) /\ SameReply
         /\ SameEngine /\ attempt' = attempt /\ ksContext' = ksContext
         /\ marker' = marker /\ held' = held
  BY GotoFields, HelperShrinks
    DEF Inv, At, Idle, localVars, memoryVars, proxyVars, Status, HelperClear, HelperActive,
        HelperSilent, OpBecomes, SameReply, SameEngine
<1>2. CASE /\ op.step = "status"
           /\ OpBecomes(op.cmd, "finish", op.a, op.tun, op.helper, TRUE) /\ SameReply
           /\ SameEngine /\ attempt' = attempt /\ ksContext' = ksContext
           /\ marker' = marker /\ held' = held /\ held = {}
  BY <1>2, IdleStep
    DEF Stage, StepInv, ChildInv, ConnectInv, RollbackInv, TeardownInv, EndInv, OpBecomes,
        SameReply, SameEngine
<1>3. CASE /\ op.step = "status"
           /\ OpBecomes(op.cmd, "stop", op.a, op.tun, op.helper, TRUE) /\ SameReply
           /\ SameEngine /\ attempt' = attempt /\ ksContext' = ksContext
           /\ marker' = marker /\ held' = held
  BY <1>3, IdleStep
    DEF Stage, StepInv, ChildInv, ConnectInv, RollbackInv, TeardownInv, EndInv, OpBecomes,
        SameReply, SameEngine
<1>4. QED
  BY <1>1, <1>2, <1>3

LEMMA StopHelperStage ==
  ASSUME Inv, Stage, StopHelper
  PROVE  Stage'
BY GotoFields, HelperShrinks
  DEF Stage, StepInv, ChildInv, ConnectInv, RollbackInv, TeardownInv, EndInv, Inv, At, Idle,
      localVars, memoryVars, proxyVars, StopHelper, AfterError

LEMMA DisableHelperStage ==
  ASSUME Inv, Stage, DisableHelper
  PROVE  Stage'
BY GotoFields, HelperShrinks
  DEF Stage, StepInv, ChildInv, ConnectInv, RollbackInv, TeardownInv, EndInv, Inv, At, Idle,
      localVars, memoryVars, proxyVars, DisableHelper, AfterError

LEMMA VerifyHelperStage ==
  ASSUME Inv, Stage, VerifyHelper
  PROVE  Stage'
<1>1. /\ op.step = "verify" /\ sealed' = sealed /\ SameEngine /\ attempt' = attempt
      /\ ksContext' = ksContext /\ marker' = marker /\ held' = held
      /\ \E good \in BOOLEAN : Verified(good) /\ (good => held = {})
  BY Busy DEF Inv, VerifyHelper, HelperClear, HelperActive, HelperSilent, At, localVars,
              memoryVars, proxyVars, SameEngine
<1>2. PICK good \in BOOLEAN : Verified(good) /\ (good => held = {})
  BY <1>1
<1>3. CASE Refuse /\ op.cmd = "connect"
  BY <1>1, <1>3, IdleStep
    DEF Refuse, Stage, StepInv, ChildInv, ConnectInv, RollbackInv, TeardownInv, EndInv,
        SameEngine
<1>4. CASE good /\ Goto("pending", TRUE) /\ op.cmd = "connect"
  <2>1. OpBecomes(op.cmd, "pending", op.a, op.tun, op.helper, TRUE) /\ SameReply
    BY <1>1, <1>4, GotoFields DEF Inv, OpBecomes, SameReply
  <2>2. QED
    BY <1>1, <1>2, <1>4, <2>1, IdleStep
      DEF Stage, StepInv, ChildInv, ConnectInv, RollbackInv, TeardownInv, EndInv, OpBecomes,
          SameReply, SameEngine
<1>5. CASE op.cmd = "quit" /\ Goto("proxy", good)
  <2>1. OpBecomes(op.cmd, "proxy", op.a, op.tun, op.helper, good) /\ SameReply
    BY <1>1, <1>5, GotoFields DEF Inv, OpBecomes, SameReply
  <2>2. QED
    BY <1>1, <1>2, <1>5, <2>1, IdleStep
      DEF Stage, StepInv, ChildInv, ConnectInv, RollbackInv, TeardownInv, EndInv, OpBecomes,
          SameReply, SameEngine
<1>6. CASE op.cmd \notin {"connect", "quit"} /\ Goto("finish", good)
  <2>1. OpBecomes(op.cmd, "finish", op.a, op.tun, op.helper, good) /\ SameReply
    BY <1>1, <1>6, GotoFields DEF Inv, OpBecomes, SameReply
  <2>2. op.cmd \in {"rollback", "disconnect"}
    BY <1>1, <1>6, Busy DEF Inv, Stage, StepInv
  <2>3. QED
    BY <1>1, <1>2, <2>1, <2>2, IdleStep
      DEF Stage, StepInv, ChildInv, ConnectInv, RollbackInv, TeardownInv, EndInv, OpBecomes,
          SameReply, SameEngine
<1>7. QED
  BY <1>2, <1>3, <1>4, <1>5, <1>6 DEF Verified

LEMMA RollbackFinishStage ==
  ASSUME Inv, Stage, RollbackFinish
  PROVE  Stage'
BY EndFields, StopLocalEnds
  DEF Stage, StepInv, ChildInv, ConnectInv, RollbackInv, TeardownInv, EndInv, Inv, At, Idle,
      localVars, memoryVars, proxyVars, RollbackFinish

LEMMA DisconnectFinishStage ==
  ASSUME Inv, Stage, DisconnectFinish
  PROVE  Stage'
BY EndFields, StopLocalEnds
  DEF Stage, StepInv, ChildInv, ConnectInv, RollbackInv, TeardownInv, EndInv, Inv, At, Idle,
      localVars, memoryVars, proxyVars, DisconnectFinish

LEMMA QuitProxyStage ==
  ASSUME Inv, Stage, QuitProxy
  PROVE  Stage'
<1>1. \/ /\ op.step = "proxy" /\ attempt # None
         /\ OpBecomes(op.cmd, "clear", attempt, op.tun, op.helper, op.good)
         /\ SameReply /\ SameEngine /\ attempt' = attempt /\ ksContext' = ksContext
         /\ marker' = marker /\ held' = held
      \/ /\ op.step = "proxy" /\ attempt = None
         /\ OpBecomes(op.cmd, "finish", op.a, op.tun, op.helper, op.good)
         /\ SameReply /\ SameEngine /\ attempt' = attempt /\ ksContext' = ksContext
         /\ marker' = None /\ held' = held
      \/ /\ op.step = "proxy" /\ attempt = None
         /\ OpBecomes(op.cmd, "keep", op.a, op.tun, op.helper, FALSE) /\ SameReply
         /\ SameEngine /\ attempt' = attempt /\ ksContext' = ksContext
         /\ marker' \in {None, marker} /\ held' = held
  BY GotoFields, MarkerOnlyGoes, Busy
    DEF Inv, At, Idle, localVars, memoryVars, proxyVars, QuitProxy, Operation, OpBecomes,
        SameReply, SameEngine
<1>2. CASE /\ op.step = "proxy" /\ attempt # None
           /\ OpBecomes(op.cmd, "clear", attempt, op.tun, op.helper, op.good)
           /\ SameReply /\ SameEngine /\ attempt' = attempt /\ ksContext' = ksContext
           /\ marker' = marker /\ held' = held
  BY <1>2, IdleStep
    DEF Stage, StepInv, ChildInv, ConnectInv, RollbackInv, TeardownInv, EndInv, OpBecomes,
        SameReply, SameEngine
<1>3. CASE /\ op.step = "proxy" /\ attempt = None
           /\ OpBecomes(op.cmd, "finish", op.a, op.tun, op.helper, op.good)
           /\ SameReply /\ SameEngine /\ attempt' = attempt /\ ksContext' = ksContext
           /\ marker' = None /\ held' = held
  BY <1>3, IdleStep
    DEF Stage, StepInv, ChildInv, ConnectInv, RollbackInv, TeardownInv, EndInv, OpBecomes,
        SameReply, SameEngine
<1>4. CASE /\ op.step = "proxy" /\ attempt = None
           /\ OpBecomes(op.cmd, "keep", op.a, op.tun, op.helper, FALSE) /\ SameReply
           /\ SameEngine /\ attempt' = attempt /\ ksContext' = ksContext
           /\ marker' \in {None, marker} /\ held' = held
  BY <1>4, IdleStep
    DEF Stage, StepInv, ChildInv, ConnectInv, RollbackInv, TeardownInv, EndInv, OpBecomes,
        SameReply, SameEngine
<1>5. QED
  BY <1>1, <1>2, <1>3, <1>4

LEMMA QuitFinishStage ==
  ASSUME Inv, Stage, QuitFinish
  PROVE  Stage'
BY IdleStep, StopLocalEnds
  DEF Stage, StepInv, ChildInv, ConnectInv, RollbackInv, TeardownInv, EndInv, Inv, At, Idle,
      localVars, memoryVars, proxyVars, QuitFinish

LEMMA QuitKeepStage ==
  ASSUME Inv, Stage, QuitKeep
  PROVE  Stage'
BY IdleStep
  DEF Stage, StepInv, ChildInv, ConnectInv, RollbackInv, TeardownInv, EndInv, Inv, At, Idle,
      localVars, memoryVars, proxyVars, QuitKeep

LEMMA RecoverPendingStage ==
  ASSUME Inv, Stage, RecoverPending
  PROVE  Stage'
BY IdleStep, MarkerOnlyGoes
  DEF Stage, StepInv, ChildInv, ConnectInv, RollbackInv, TeardownInv, EndInv, Inv, At, Idle,
      localVars, memoryVars, proxyVars, RecoverPending

LEMMA KillSwitchApplyStage ==
  ASSUME Inv, Stage, NEW enabled \in BOOLEAN, KillSwitchApply(enabled)
  PROVE  Stage'
BY HelperShrinks
  DEF Stage, StepInv, ChildInv, ConnectInv, RollbackInv, TeardownInv, EndInv, Inv, At, Idle,
      localVars, memoryVars, proxyVars, KillSwitchApply, Free, HelperEnableFails

LEMMA MonitorTerminatedStage ==
  ASSUME Inv, Stage, NEW a \in Attempts, MonitorTerminated(a)
  PROVE  Stage'
BY MarkerOnlyGoes
  DEF Stage, StepInv, ChildInv, ConnectInv, RollbackInv, TeardownInv, EndInv, Inv, At, Idle,
      localVars, memoryVars, proxyVars, MonitorTerminated, ProxyKept

LEMMA MonitorLostStage ==
  ASSUME Inv, Stage, NEW a \in Attempts, MonitorLost(a)
  PROVE  Stage'
<1>1. /\ UNCHANGED <<op, sealed, outcome, child, pid, ksContext, held>>
      /\ marker' \in {None, marker}
  BY MarkerOnlyGoes DEF MonitorLost, proxyVars
<1>2. CASE pid # a
  BY <1>1, <1>2, QuietKeeps DEF MonitorLost
<1>3. CASE pid = a
  <2>1. localUncertain' = TRUE /\ a # None
    BY <1>3, NoneFresh DEF MonitorLost
  <2>2. \/ attempt' = None /\ marker' = None
        \/ attempt' = attempt
    BY <1>3, MarkerOnlyGoes DEF MonitorLost
  <2>3. QED
    BY <1>1, <1>3, <2>1, <2>2
      DEF Stage, StepInv, ChildInv, ConnectInv, RollbackInv, TeardownInv, EndInv
<1>4. QED
  BY <1>2, <1>3

LEMMA CrashStage ==
  ASSUME Inv, Stage, Crash
  PROVE  Stage'
BY IdleStep
  DEF Stage, StepInv, ChildInv, ConnectInv, RollbackInv, TeardownInv, EndInv, Inv, At, Idle,
      localVars, memoryVars, proxyVars, Crash, Forgotten

LEMMA RelaunchStage ==
  ASSUME Inv, Stage, Relaunch
  PROVE  Stage'
BY IdleStep
  DEF Stage, StepInv, ChildInv, ConnectInv, RollbackInv, TeardownInv, EndInv, Inv, At, Idle,
      localVars, memoryVars, proxyVars, Relaunch, Forgotten

-----------------------------------------------------------------------------
(* The theorems about the end of a session.                                *)

LEMMA StageInitially == Init => Stage
BY IdleStep DEF Init, Stage, StepInv, ChildInv, ConnectInv, RollbackInv, TeardownInv, EndInv

\* Together with the types, Stage is inductive.
LEMMA StageKeeps == Inv /\ Stage /\ [Next]_vars => Stage'
<1> SUFFICES ASSUME Inv, Stage, [Next]_vars PROVE Stage'
  OBVIOUS
<1>1. CASE Command
  <2>1. CASE RestoreBackup \/ DiscardBackup \/ PollAsk
    BY <2>1, QuietKeeps, HelperShrinks, MarkerOnlyGoes
      DEF RestoreBackup, DiscardBackup, PollAsk, localVars, memoryVars, proxyVars
  <2>2. QED
    BY <1>1, <2>1, ConnectBeginStage, DisconnectBeginStage, QuitBeginStage,
      KillSwitchApplyStage, RecoverNetworkStage DEF Command
<1>2. CASE Proceed
  BY <1>2, PreflightStage, PendingStage, SpawnTunnelStage, StartedStage, SpawnLocalStage,
    ReadyStage, NotReadyStage, PublishStage, KillSwitchStage, ContextStage,
    RollbackReadStage, ClearProxyStage, ForgetStage, StatusStage, StopHelperStage,
    DisableHelperStage, VerifyHelperStage, RollbackFinishStage, DisconnectFinishStage,
    QuitProxyStage, QuitFinishStage, QuitKeepStage, RecoverPendingStage
    DEF Proceed
<1>3. CASE PollApply
  BY <1>3, QuietKeeps DEF PollApply, localVars, memoryVars, proxyVars
<1>4. CASE Environment
  <2>1. alive \subseteq Attempts /\ watched \subseteq Attempts
    BY DEF Inv, SessionInv
  <2>2. CASE HelperExit \/ HelperRestart
    BY <2>2, QuietKeeps DEF HelperExit, HelperRestart, localVars, memoryVars, proxyVars
  <2>3. CASE \E a \in alive : EngineDies(a)
    BY <2>3, QuietKeeps DEF EngineDies, localVars, memoryVars, proxyVars
  <2>4. QED
    BY <1>4, <2>1, <2>2, <2>3, MonitorTerminatedStage, MonitorLostStage, CrashStage,
      RelaunchStage DEF Environment
<1>5. CASE UNCHANGED vars
  BY <1>5, QuietKeeps DEF vars, localVars, memoryVars, proxyVars
<1>6. QED
  BY <1>1, <1>2, <1>3, <1>4, <1>5 DEF Next

LEMMA StageAlways == Spec => [](Inv /\ Stage)
<1>1. Init => Inv /\ Stage
  BY Initially, StageInitially
<1>2. Inv /\ Stage /\ [Next]_vars => (Inv /\ Stage)'
  BY Inductive, StageKeeps
<1>3. QED
  BY <1>1, <1>2, PTL DEF Spec

\* A session begins on a clean slate, and when a reply or the exit says that it
\* is over nothing of it is left, whatever failed, died or was restarted on the
\* way and whenever the user used the recovery commands.
THEOREM NothingIsLeft == Spec => []LeavesNothing
<1>1. Inv /\ Stage => FreshStart
  <2> SUFFICES ASSUME Inv, Stage, op.step = "spawn" PROVE FreshStart
    BY DEF FreshStart, At
  <2>1. op.cmd = "connect"
    BY DEF Stage, StepInv
  <2>2. QED
    BY <2>1 DEF Stage, ConnectInv, FreshStart
<1>2. Inv /\ Stage => EndedMeansGone
  BY DEF Stage, EndInv, EndedMeansGone
<1>3. Inv /\ Stage => ExitClean
  BY IdleStep DEF Inv, SessionInv, Stage, EndInv, ExitClean
<1>4. Inv /\ Stage => LeavesNothing
  BY <1>1, <1>2, <1>3 DEF LeavesNothing
<1>5. QED
  BY StageAlways, <1>4, PTL

\* While the system proxy names a running engine's listener, no command kills
\* that engine, whatever the restore before it did.
THEOREM ListenerIsKept == Spec => ListenerOutlivesProxy
<1> DEFINE Kept == \A a \in alive \ alive' : points = a => op' = op
<1>1. Inv /\ Stage /\ [Next]_vars => Kept
  <2> SUFFICES ASSUME Inv, Stage, [Next]_vars,
                      NEW a \in alive, a \notin alive', points = a
               PROVE  op' = op
    OBVIOUS
  <2>1. a # None /\ marker = a
    BY NoneFresh DEF Inv, SessionInv
  <2>2. ASSUME NEW ok, StopLocal(ok) PROVE child = a /\ attempt = a
    BY <2>1, <2>2 DEF StopLocal, Stage, ChildInv
  <2>3. CASE Command
    BY <2>3 DEF Command, ConnectBegin, DisconnectBegin, QuitBegin, KillSwitchApply,
      RecoverNetwork, RestoreBackup, DiscardBackup, PollAsk, localVars
  <2>4. CASE Proceed
    <3>1. ~SpawnTunnel /\ ~NotReady
      BY <2>1, <2>2 DEF SpawnTunnel, NotReady, At, Stage, StepInv, ConnectInv
    <3>2. ~RollbackFinish /\ ~DisconnectFinish /\ ~QuitFinish
      BY <2>1, <2>2 DEF RollbackFinish, DisconnectFinish, QuitFinish, At, Stage,
        TeardownInv, localVars
    <3>3. QED
      BY <2>4, <3>1, <3>2 DEF Proceed, Preflight, Pending, Started, SpawnLocal, Ready,
        Publish, KillSwitch, Context, RollbackRead, ClearProxy, Forget, Status,
        StopHelper, DisableHelper, VerifyHelper, QuitProxy, QuitKeep, RecoverPending,
        localVars
  <2>5. CASE PollApply \/ Environment \/ UNCHANGED vars
    BY <2>5 DEF PollApply, Environment, EngineDies, MonitorTerminated, MonitorLost,
      HelperExit, HelperRestart, Crash, Relaunch, Forgotten, localVars, vars
  <2>6. QED
    BY <2>3, <2>4, <2>5 DEF Next
<1>2. QED
  BY StageAlways, <1>1, PTL DEF Spec, ListenerOutlivesProxy

=============================================================================
