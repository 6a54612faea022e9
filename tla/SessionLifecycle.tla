-------------------------- MODULE SessionLifecycle --------------------------
(***************************************************************************)
(* The connection lifecycle of the unprivileged backend: connect with its  *)
(* rollback, disconnect, quit, kill-switch toggle and network recovery     *)
(* (ipc/commands.rs, platform/tray.rs), the lifecycle mutex and shutdown   *)
(* seal (platform/lifecycle.rs), and MihomoState with the monitor of the   *)
(* local engine (vpn/mihomo.rs).                                           *)
(*                                                                         *)
(* A command holds the lifecycle mutex from its first check to its reply:  *)
(* `op` is the one that does, cut at every await and at every lock it      *)
(* shares with the engine's monitor.  is_xray_running takes no mutex.  The *)
(* helper and the system proxy appear as what their replies promise; the   *)
(* modules HelperBroker and ProxyRestore are about keeping those promises. *)
(***************************************************************************)
EXTENDS Naturals

CONSTANTS
  Attempts,           \* connect attempts: proxy token, and pid of the local engine
  None,
  Commands,           \* the commands the user gives
  RecoverOnlyStopped, \* recovery is offered only while nothing is active
  MaxFaults           \* bound on failing calls, crashes and lost event streams

ASSUME NoneFresh == None \notin Attempts
ASSUME BoundsType == RecoverOnlyStopped \in BOOLEAN /\ MaxFaults \in Nat
ASSUME CommandsKnown ==
  Commands \subseteq {"proxy", "tun", "disconnect", "quit", "apply", "recover", "poll"}

VARIABLES
  op,             \* the command that holds the lifecycle mutex
  sealed,         \* SHUTTING_DOWN
  outcome,        \* reply of the last connect or disconnect
  used,           \* attempts made
  child,          \* MihomoState.child: handle of the local engine
  pid,            \* MihomoState.current_pid
  attempt,        \* MihomoState.proxy_attempt_id
  localUncertain, \* MihomoState.local_cleanup_uncertain
  helperSpawned,  \* MihomoState.helper_spawned
  privUncertain,  \* MihomoState.privileged_cleanup_uncertain
  ksContext,      \* KillSwitchState: "none", or the mode to enable it again for
  poll,           \* reply an is_xray_running call has not applied yet
  alive,          \* local engines whose process runs
  watched,        \* local engines whose monitor still receives events
  marker,         \* attempt named by proxy_backup.json
  points,         \* attempt whose listener the system proxy names
  held,           \* what the helper holds for this session
  faults

localVars  == <<child, pid, alive, watched>>
memoryVars == <<attempt, localUncertain, helperSpawned, privUncertain, ksContext>>
proxyVars  == <<marker, points>>

vars == <<op, sealed, outcome, used, localVars, memoryVars, poll, proxyVars, held, faults>>

-----------------------------------------------------------------------------
(* The data.                                                               *)

AttemptOrNone == Attempts \cup {None}

Privileged == {"engine", "device", "firewall"}

Steps == {"preflight", "pending", "spawn", "ready", "started", "publish",
          "kill_switch", "context", "read", "clear", "forget", "status", "stop",
          "disable", "verify", "proxy", "finish", "keep"}

\* helper: cleanup_helper of the rollback; good: no error that counts so far.
Operation == [cmd : {"connect", "rollback", "disconnect", "quit", "recover"},
              step : Steps, a : AttemptOrNone, tun : BOOLEAN, ks : BOOLEAN,
              helper : BOOLEAN, good : BOOLEAN]

Idle == [step |-> "idle"]

\* "failed": the error reply of a connect that was rolled back; "retained":
\* an error reply that says the session was kept.
Outcomes == [result : {"none", "connected", "failed", "retained", "disconnected"},
             a : AttemptOrNone]

NoOutcome == [result |-> "none", a |-> None]

\* lifecycle::enter.
Free == op = Idle /\ ~sealed

At(step) == op.step = step

Enter(cmd, step, a, tun, ks) ==
  /\ op' = [cmd |-> cmd, step |-> step, a |-> a, tun |-> tun, ks |-> ks,
            helper |-> FALSE, good |-> TRUE]
  /\ outcome' = NoOutcome

Goto(step, good) == op' = [op EXCEPT !.step = step, !.good = good] /\ UNCHANGED outcome

Rollback(helper) == /\ op' = [op EXCEPT !.cmd = "rollback", !.step = "read",
                                        !.helper = helper, !.good = TRUE]
                    /\ UNCHANGED outcome

End(result) == op' = Idle /\ outcome' = [result |-> result, a |-> op.a]

Fault == faults < MaxFaults /\ faults' = faults + 1

\* MihomoState::is_running and has_active_session_state.
IsRunning == helperSpawned \/ localUncertain \/ child # None

HasActive == attempt # None \/ IsRunning

-----------------------------------------------------------------------------
(* Requests to the helper.  An error reply, or none within the client's    *)
(* timeout, leaves open whether the request had its effect, in whole or in *)
(* part; the helper serves requests in the order they were sent, so the    *)
(* effect is there before that of the next request.                        *)

Tunnel == Privileged \ {"firewall"}

HelperStops == held' = held \ Tunnel /\ UNCHANGED faults

HelperStopFails == Fault /\ held' \in {held, held \ {"engine"}, held \ Tunnel}

HelperDisables == held' = held \ {"firewall"} /\ UNCHANGED faults

HelperDisableFails == Fault /\ held' \in {held, held \ {"firewall"}}

\* StartTunnel is refused while anything is held.
HelperStarts == held = {} /\ held' = Tunnel /\ UNCHANGED faults

HelperStartFails ==
  Fault /\ held' \in (IF held = {} THEN {{}, {"device"}, Tunnel} ELSE {held})

\* KillSwitchEnable in TUN mode needs the recorded adapter.
HelperEnables(tun) == /\ tun => "device" \in held
                      /\ held' = held \cup {"firewall"}
                      /\ UNCHANGED faults

HelperEnableFails(tun) == \/ Fault /\ held' \in {held, held \cup {"firewall"}}
                          \/ tun /\ "device" \notin held /\ UNCHANGED <<held, faults>>

\* TunnelStatus answers clear, active, or not at all.
HelperClear == held = {} /\ UNCHANGED <<held, faults>>
HelperActive == held # {} /\ UNCHANGED <<held, faults>>
HelperSilent == Fault /\ UNCHANGED held

-----------------------------------------------------------------------------
(* The system proxy: the original is back and the marker gone (Ok(true)),  *)
(* or nothing is to be restored (Ok(false)), or the marker stays (an error *)
(* or, when it names another attempt, Ok(false)).                          *)

ProxyRestored(a) == /\ a # None /\ marker = a
                    /\ marker' = None /\ points' = None
                    /\ UNCHANGED faults

ProxyKept(a) == \/ (a = None \/ marker # a) /\ UNCHANGED <<proxyVars, faults>>
                \/ /\ a # None /\ marker = a /\ Fault
                   /\ points' \in {points, None}
                   /\ UNCHANGED marker

-----------------------------------------------------------------------------
(* MihomoState::stop.  A failed kill consumes the handle: the pid stays.   *)

StopLocal(ok) ==
  /\ \/ /\ ok /\ child # None
        /\ alive' = alive \ {child}
        /\ child' = None /\ pid' = None /\ localUncertain' = FALSE
        /\ UNCHANGED faults
     \/ /\ ~ok /\ child \in alive
        /\ Fault
        /\ child' = None /\ localUncertain' = TRUE
        /\ UNCHANGED <<pid, alive>>
     \/ /\ child = None
        /\ ok = ~localUncertain
        /\ pid' = IF ok THEN None ELSE pid
        /\ UNCHANGED <<child, alive, localUncertain, faults>>
  /\ UNCHANGED watched

-----------------------------------------------------------------------------
(* connect.                                                                *)

\* Variant: an uncertain local engine without a handle does not count.
ConnectBeginOverUncertain(a, tun, ks) ==
  /\ Free /\ a \notin used
  /\ attempt = None /\ child = None /\ ~helperSpawned
  /\ used' = used \cup {a}
  /\ Enter("connect", "preflight", a, tun, ks)
  /\ UNCHANGED <<sealed, localVars, memoryVars, poll, proxyVars, held, faults>>

\* Anything active refuses the call; so does a helper that is not available.
ConnectBegin(a, tun, ks) ==
  /\ Free /\ a \notin used
  /\ ~HasActive
  /\ used' = used \cup {a}
  /\ Enter("connect", "preflight", a, tun, ks)
  /\ UNCHANGED <<sealed, localVars, memoryVars, poll, proxyVars, held, faults>>

\* The call ends before anything of this attempt exists.
Refuse == op' = Idle /\ UNCHANGED outcome

\* reconcile_privileged_before_tunnel_start stops what an earlier process
\* left; proxy mode refuses it.
Preflight ==
  /\ At("preflight")
  /\ \/ HelperClear /\ Goto("pending", TRUE)
     \/ HelperActive /\ op.tun /\ Goto("stop", TRUE)
     \/ HelperActive /\ ~op.tun /\ Refuse
     \/ HelperSilent /\ Refuse
  /\ UNCHANGED <<sealed, used, localVars, memoryVars, poll, proxyVars>>

\* The publication of a crashed process is restored; then the selection is
\* checked and the configuration built.
Pending ==
  /\ At("pending") /\ op.cmd = "connect"
  /\ \/ /\ \/ marker = None /\ UNCHANGED <<proxyVars, faults>>
           \/ ProxyRestored(marker)
        /\ Goto("spawn", TRUE) \/ Refuse
     \/ marker # None /\ ProxyKept(marker) /\ Refuse
  /\ UNCHANGED <<sealed, used, localVars, memoryVars, poll, held>>

SpawnTunnel ==
  /\ At("spawn") /\ op.tun
  /\ StopLocal(TRUE)
  /\ \/ HelperStarts /\ Goto("started", TRUE)
     \/ HelperStartFails /\ Rollback(TRUE)
  /\ UNCHANGED <<sealed, used, attempt, helperSpawned, privUncertain, ksContext, poll,
                 proxyVars>>

Started ==
  /\ At("started")
  /\ helperSpawned' = TRUE
  /\ IF op.ks THEN Goto("kill_switch", TRUE) ELSE End("connected")
  /\ UNCHANGED <<sealed, used, localVars, attempt, localUncertain, privUncertain, ksContext,
                 poll, proxyVars, held, faults>>

\* start_with_config: until the listeners answer, the process is known to
\* this call alone.
SpawnLocal ==
  /\ At("spawn") /\ ~op.tun
  /\ \/ alive' = alive \cup {op.a} /\ Goto("ready", TRUE)
     \/ UNCHANGED alive /\ Rollback(FALSE)
  /\ child' = None /\ pid' = None
  /\ UNCHANGED <<sealed, used, watched, memoryVars, poll, proxyVars, held, faults>>

\* Variant: the pid of the new engine is not recorded.
ReadyWithoutPid ==
  /\ At("ready") /\ op.a \in alive
  /\ child' = op.a /\ localUncertain' = FALSE
  /\ watched' = watched \cup {op.a}
  /\ Goto("publish", TRUE)
  /\ UNCHANGED <<sealed, used, pid, alive, attempt, helperSpawned, privUncertain, ksContext,
                 poll, proxyVars, held, faults>>

Ready ==
  /\ At("ready") /\ op.a \in alive
  /\ child' = op.a /\ pid' = op.a /\ localUncertain' = FALSE
  /\ watched' = watched \cup {op.a}
  /\ Goto("publish", TRUE)
  /\ UNCHANGED <<sealed, used, alive, attempt, helperSpawned, privUncertain, ksContext, poll,
                 proxyVars, held, faults>>

\* Not ready in time: one kill, whose result is not looked at.
NotReady ==
  /\ At("ready")
  /\ \/ alive' = alive \ {op.a} /\ UNCHANGED faults
     \/ op.a \in alive /\ Fault /\ UNCHANGED alive
  /\ Rollback(FALSE)
  /\ UNCHANGED <<sealed, used, child, pid, watched, memoryVars, poll, proxyVars, held>>

\* Variant: a failed publication is not remembered.
PublishForgetsFailure ==
  /\ At("publish")
  /\ \/ /\ child # None /\ marker = None
        /\ marker' = op.a /\ points' = op.a /\ attempt' = op.a
        /\ UNCHANGED faults
        /\ IF op.ks THEN Goto("kill_switch", TRUE) ELSE End("connected")
     \/ /\ child # None /\ marker = None
        /\ Fault /\ Rollback(FALSE)
        /\ \/ UNCHANGED proxyVars
           \/ marker' = op.a /\ points' \in {op.a, None}
        /\ UNCHANGED attempt
     \/ /\ child = None \/ marker # None
        /\ Rollback(FALSE) /\ UNCHANGED <<proxyVars, attempt, faults>>
  /\ UNCHANGED <<sealed, used, localVars, localUncertain, helperSpawned, privUncertain,
                 ksContext, poll, held>>

\* set_system_proxy_if_running, under the lock its monitor takes.  A failed
\* publication whose marker stayed is still this attempt's.
Publish ==
  /\ At("publish")
  /\ \/ /\ child # None /\ marker = None
        /\ marker' = op.a /\ points' = op.a /\ attempt' = op.a
        /\ UNCHANGED faults
        /\ IF op.ks THEN Goto("kill_switch", TRUE) ELSE End("connected")
     \/ /\ child # None /\ marker = None
        /\ Fault /\ Rollback(FALSE)
        /\ \/ UNCHANGED <<proxyVars, attempt>>
           \/ marker' = op.a /\ points' \in {op.a, None} /\ attempt' = op.a
     \/ /\ child = None \/ marker # None
        /\ Rollback(FALSE) /\ UNCHANGED <<proxyVars, attempt, faults>>
  /\ UNCHANGED <<sealed, used, localVars, localUncertain, helperSpawned, privUncertain,
                 ksContext, poll, held>>

\* The server's name may not resolve, and proxy mode asks again whether the
\* helper is there.
KillSwitch ==
  /\ At("kill_switch")
  /\ \/ HelperEnables(op.tun) /\ Goto("context", TRUE)
     \/ HelperEnableFails(op.tun) /\ Rollback(TRUE)
     \/ UNCHANGED <<held, faults>> /\ Rollback(op.tun)
  /\ UNCHANGED <<sealed, used, localVars, memoryVars, poll, proxyVars>>

Context ==
  /\ At("context")
  /\ ksContext' = IF op.tun THEN "tun" ELSE "proxy"
  /\ End("connected")
  /\ UNCHANGED <<sealed, used, localVars, attempt, localUncertain, helperSpawned,
                 privUncertain, poll, proxyVars, held, faults>>

-----------------------------------------------------------------------------
(* Taking a session down: rollback_connect, disconnect_impl and quit_app   *)
(* go through the same calls, in an order of their own.                    *)

\* Proxy first; quit has asked the helper already.
AfterProxy == CASE op.cmd = "rollback"   -> IF op.helper THEN "stop" ELSE "finish"
                [] op.cmd = "disconnect" -> "status"
                [] OTHER                 -> "finish"

DisconnectBegin ==
  /\ Free
  /\ Enter("disconnect", IF attempt = None THEN "status" ELSE "clear", attempt, FALSE, FALSE)
  /\ UNCHANGED <<sealed, used, localVars, memoryVars, poll, proxyVars, held, faults>>

\* begin_shutdown.
QuitBegin ==
  /\ Free
  /\ sealed' = TRUE
  /\ Enter("quit", "stop", None, FALSE, FALSE)
  /\ UNCHANGED <<used, localVars, memoryVars, poll, proxyVars, held, faults>>

\* A rollback restores only the publication of its own attempt.
RollbackRead ==
  /\ At("read")
  /\ Goto(IF attempt = op.a THEN "clear" ELSE AfterProxy, TRUE)
  /\ UNCHANGED <<sealed, used, localVars, memoryVars, poll, proxyVars, held, faults>>

\* The token is read, the lock let go, and the restore runs on its own.
ClearProxy ==
  /\ At("clear")
  /\ \/ ProxyRestored(op.a) /\ Goto("forget", op.good)
     \/ /\ ProxyKept(op.a)
        /\ IF op.cmd = "quit" THEN Goto("keep", FALSE) ELSE End("retained")
  /\ UNCHANGED <<sealed, used, localVars, memoryVars, poll, held>>

\* Variant: the uncertainty a failed restore left is not lifted.
ForgetOnlyAttempt ==
  /\ At("forget")
  /\ attempt' = IF attempt = op.a THEN None ELSE attempt
  /\ Goto(AfterProxy, op.good)
  /\ UNCHANGED <<sealed, used, localVars, localUncertain, helperSpawned, privUncertain,
                 ksContext, poll, proxyVars, held, faults>>

\* clear_proxy_attempt, and (not in quit) the uncertainty a failed restore of
\* the monitor left.
Forget ==
  /\ At("forget")
  /\ attempt' = IF attempt = op.a THEN None ELSE attempt
  /\ localUncertain' = (localUncertain /\ op.cmd = "quit")
  /\ Goto(AfterProxy, op.good)
  /\ UNCHANGED <<sealed, used, localVars, helperSpawned, privUncertain, ksContext, poll,
                 proxyVars, held, faults>>

\* A disconnect with nothing to reconcile sends no more requests.
Status ==
  /\ At("status")
  /\ \/ /\ HelperClear
        /\ Goto(IF helperSpawned \/ ksContext # "none" \/ privUncertain THEN "stop" ELSE "finish", TRUE)
     \/ (HelperActive \/ HelperSilent) /\ Goto("stop", TRUE)
  /\ UNCHANGED <<sealed, used, localVars, memoryVars, poll, proxyVars>>

\* A failed request counts against a connect; for disconnect and quit the
\* status at the end decides (unresolved_cleanup_errors).
AfterError == op.cmd \in {"disconnect", "quit"} /\ op.good

StopHelper ==
  /\ At("stop")
  /\ \/ HelperStops /\ Goto("disable", op.good)
     \/ HelperStopFails /\ Goto("disable", AfterError)
  /\ UNCHANGED <<sealed, used, localVars, memoryVars, poll, proxyVars>>

DisableHelper ==
  /\ At("disable")
  /\ \/ HelperDisables /\ Goto("verify", op.good)
     \/ HelperDisableFails /\ Goto("verify", AfterError)
  /\ UNCHANGED <<sealed, used, localVars, memoryVars, poll, proxyVars>>

Verified(good) ==
  CASE op.cmd = "connect" -> IF good THEN Goto("pending", TRUE) ELSE Refuse
    [] op.cmd = "quit"    -> Goto("proxy", good)
    [] OTHER              -> Goto("finish", good)

\* Variant: the helper is taken at its word for stop and disable.
VerifySkipped ==
  /\ At("verify")
  /\ Verified(op.good)
  /\ UNCHANGED <<sealed, used, localVars, memoryVars, poll, proxyVars, held, faults>>

VerifyHelper ==
  /\ At("verify")
  /\ \/ HelperClear /\ Verified(op.good)
     \/ (HelperActive \/ HelperSilent) /\ Verified(FALSE)
  /\ UNCHANGED <<sealed, used, localVars, memoryVars, poll, proxyVars>>

\* The tail of rollback_connect.  Unverified: every marker stays and the local
\* engine runs on.
RollbackFinish ==
  /\ At("finish") /\ op.cmd = "rollback"
  /\ helperSpawned' = ~op.good /\ privUncertain' = ~op.good
  /\ \/ /\ op.good
        /\ ksContext' = "none"
        /\ \E ok \in BOOLEAN : StopLocal(ok) /\ End(IF ok THEN "failed" ELSE "retained")
     \/ /\ ~op.good
        /\ End("retained")
        /\ UNCHANGED <<localVars, localUncertain, ksContext, faults>>
  /\ UNCHANGED <<sealed, used, attempt, poll, proxyVars, held>>

\* disconnect stops the local engine in any case.
DisconnectFinish ==
  /\ At("finish") /\ op.cmd = "disconnect"
  /\ helperSpawned' = ~op.good /\ privUncertain' = ~op.good
  /\ ksContext' = IF op.good THEN "none" ELSE ksContext
  /\ \E ok \in BOOLEAN : /\ StopLocal(ok)
                         /\ End(IF ok /\ op.good THEN "disconnected" ELSE "none")
  /\ UNCHANGED <<sealed, used, attempt, poll, proxyVars, held>>

\* quit restores the session's publication, or one of a crashed process.
QuitProxy ==
  /\ At("proxy")
  /\ \/ /\ attempt # None
        /\ op' = [op EXCEPT !.step = "clear", !.a = attempt]
        /\ UNCHANGED <<outcome, proxyVars, faults>>
     \/ attempt = None /\ ProxyRestored(marker) /\ Goto("finish", op.good)
     \/ /\ attempt = None /\ marker = None
        /\ Goto("finish", op.good)
        /\ UNCHANGED <<proxyVars, faults>>
     \/ attempt = None /\ marker # None /\ ProxyKept(marker) /\ Goto("keep", FALSE)
  /\ UNCHANGED <<sealed, used, localVars, memoryVars, poll, held>>

\* Exit only if nothing is left; the seal stays until the process is gone.
QuitFinish ==
  /\ At("finish") /\ op.cmd = "quit"
  /\ \E ok \in BOOLEAN : StopLocal(ok) /\ sealed' = (ok /\ op.good)
  /\ op' = Idle
  /\ UNCHANGED <<outcome, used, attempt, helperSpawned, privUncertain, ksContext, poll,
                 proxyVars, held>>

\* Variant: an unrestored proxy is reported, and the application exits.
QuitKeepExits ==
  /\ At("keep")
  /\ op' = Idle
  /\ UNCHANGED <<sealed, outcome, used, localVars, memoryVars, poll, proxyVars, held, faults>>

\* The proxy is not restored: the local engine is kept and exit cancelled.
QuitKeep ==
  /\ At("keep")
  /\ sealed' = FALSE
  /\ op' = Idle
  /\ UNCHANGED <<outcome, used, localVars, memoryVars, poll, proxyVars, held, faults>>

-----------------------------------------------------------------------------
(* The other commands.                                                     *)

\* kill_switch_apply: one request.  Without a context, enabling does nothing.
KillSwitchApply(enabled) ==
  /\ Free
  /\ \/ ~enabled /\ (HelperDisables \/ HelperDisableFails)
     \/ /\ enabled /\ ksContext # "none"
        /\ HelperEnables(ksContext = "tun") \/ HelperEnableFails(ksContext = "tun")
  /\ UNCHANGED <<op, sealed, outcome, used, localVars, memoryVars, poll, proxyVars>>

Offered == ~RecoverOnlyStopped \/ ~HasActive

\* recover_network: force cleanup of the kill switch (the orphan cleanup
\* that follows is refused while anything is held), then the marker, whatever
\* attempt it names.
RecoverNetwork ==
  /\ Free /\ Offered
  /\ HelperDisables \/ HelperDisableFails
  /\ Enter("recover", "pending", None, FALSE, FALSE)
  /\ UNCHANGED <<sealed, used, localVars, memoryVars, poll, proxyVars>>

RecoverPending ==
  /\ At("pending") /\ op.cmd = "recover"
  /\ \/ ProxyRestored(marker)
     \/ ProxyKept(marker)
  /\ op' = Idle
  /\ UNCHANGED <<sealed, outcome, used, localVars, memoryVars, poll, held>>

\* restore_proxy_backup, confirmed or not, and discard_proxy_backup, which
\* lets go of a marker whose original is in place.
RestoreBackup ==
  /\ Free /\ Offered
  /\ ProxyRestored(marker) \/ ProxyKept(marker)
  /\ UNCHANGED <<op, sealed, outcome, used, localVars, memoryVars, poll, held>>

DiscardBackup ==
  /\ Free /\ Offered
  /\ points = None
  /\ marker' = None
  /\ UNCHANGED <<op, sealed, outcome, used, localVars, memoryVars, poll, points, held, faults>>

-----------------------------------------------------------------------------
(* is_xray_running: outside the mutex.  A local engine is answered for     *)
(* without a request; otherwise the reply is applied when it arrives.      *)

PollAsk ==
  /\ poll = "none"
  /\ helperSpawned \/ ~IsRunning
  /\ \/ HelperClear /\ poll' = "clear"
     \/ HelperActive /\ poll' \in {"active", "pending"}
     \/ HelperSilent /\ poll' = "unknown"
  /\ UNCHANGED <<op, sealed, outcome, used, localVars, memoryVars, proxyVars>>

PollApply ==
  /\ poll # "none"
  /\ poll' = "none"
  /\ CASE poll \in {"active", "pending"} ->
            helperSpawned' = TRUE /\ privUncertain' = (poll = "pending")
       [] poll = "clear" ->
            helperSpawned' = FALSE /\ privUncertain' = FALSE
       [] poll = "unknown" ->
            privUncertain' = (privUncertain \/ helperSpawned) /\ UNCHANGED helperSpawned
  /\ UNCHANGED <<op, sealed, outcome, used, localVars, attempt, localUncertain, ksContext,
                 proxyVars, held, faults>>

-----------------------------------------------------------------------------
(* The local engine and its monitor (vpn/mihomo.rs).                       *)

EngineDies(a) ==
  /\ alive' = alive \ {a}
  /\ UNCHANGED <<op, sealed, outcome, used, child, pid, watched, memoryVars, poll, proxyVars,
                 held, faults>>

\* Under the lock of the attempt token.  A token that could not be redeemed
\* stays, and with it a visible uncertainty.
MonitorTerminated(a) ==
  /\ a \in watched \ alive
  /\ watched' = watched \ {a}
  /\ IF pid # a
       THEN UNCHANGED <<child, pid, attempt, localUncertain, proxyVars, faults>>
       ELSE /\ child' = None /\ pid' = None
            /\ \/ /\ attempt # None /\ ProxyRestored(attempt)
                  /\ attempt' = None /\ localUncertain' = FALSE
               \/ /\ attempt # None /\ ProxyKept(attempt)
                  /\ localUncertain' = TRUE /\ UNCHANGED attempt
               \/ /\ attempt = None
                  /\ localUncertain' = FALSE
                  /\ UNCHANGED <<attempt, proxyVars, faults>>
  /\ UNCHANGED <<op, sealed, outcome, used, alive, helperSpawned, privUncertain, ksContext,
                 poll, held>>

\* The event stream breaks: the listener is kept, its proxy restored, and the
\* engine is from now on uncertain.
MonitorLost(a) ==
  /\ a \in watched
  /\ watched' = watched \ {a}
  /\ \/ /\ pid # a /\ UNCHANGED <<attempt, localUncertain, proxyVars, faults>>
     \/ /\ pid = a /\ localUncertain' = TRUE
        /\ \/ attempt # None /\ ProxyRestored(attempt) /\ attempt' = None
           \/ attempt # None /\ ProxyKept(attempt) /\ UNCHANGED attempt
           \/ attempt = None /\ UNCHANGED <<attempt, proxyVars, faults>>
  /\ UNCHANGED <<op, sealed, outcome, used, child, pid, alive, helperSpawned, privUncertain,
                 ksContext, poll, held>>

-----------------------------------------------------------------------------
(* The surroundings.                                                       *)

\* The helper's engine exits and its monitor cleans up, perhaps in part.
HelperExit ==
  /\ "engine" \in held
  /\ held' \in SUBSET (held \ {"engine"})
  /\ UNCHANGED <<op, sealed, outcome, used, localVars, memoryVars, poll, proxyVars, faults>>

\* The helper restarts: its engine dies with its job, the filters with their
\* session.
HelperRestart ==
  /\ held # {} /\ Fault
  /\ held' = {}
  /\ UNCHANGED <<op, sealed, outcome, used, localVars, memoryVars, poll, proxyVars>>

Forgotten ==
  /\ op' = Idle /\ sealed' = FALSE /\ outcome' = NoOutcome
  /\ child' = None /\ pid' = None /\ watched' = {}
  /\ attempt' = None /\ localUncertain' = FALSE
  /\ helperSpawned' = FALSE /\ privUncertain' = FALSE /\ ksContext' = "none"
  /\ poll' = "none"
  /\ UNCHANGED <<used, alive, proxyVars, held>>

\* The application dies and is started again; a local engine survives it.
Crash == Fault /\ Forgotten

\* It exits after a quit, and is started again.
Relaunch == sealed /\ op = Idle /\ Forgotten /\ UNCHANGED faults

-----------------------------------------------------------------------------

Init ==
  /\ op = Idle /\ sealed = FALSE /\ outcome = NoOutcome /\ used = {}
  /\ child = None /\ pid = None /\ alive = {} /\ watched = {}
  /\ attempt = None /\ localUncertain = FALSE
  /\ helperSpawned = FALSE /\ privUncertain = FALSE /\ ksContext = "none"
  /\ poll = "none"
  /\ marker = None /\ points = None
  /\ held = {} /\ faults = 0

Command ==
  \/ "proxy" \in Commands /\ \E a \in Attempts, ks \in BOOLEAN : ConnectBegin(a, FALSE, ks)
  \/ "tun" \in Commands /\ \E a \in Attempts, ks \in BOOLEAN : ConnectBegin(a, TRUE, ks)
  \/ "disconnect" \in Commands /\ DisconnectBegin
  \/ "quit" \in Commands /\ QuitBegin
  \/ "apply" \in Commands /\ \E enabled \in BOOLEAN : KillSwitchApply(enabled)
  \/ "recover" \in Commands /\ (RecoverNetwork \/ RestoreBackup \/ DiscardBackup)
  \/ "poll" \in Commands /\ PollAsk

\* What a command that was given goes on to do.
Proceed ==
  \/ Preflight \/ Pending \/ SpawnTunnel \/ Started \/ SpawnLocal \/ Ready \/ NotReady
  \/ Publish \/ KillSwitch \/ Context
  \/ RollbackRead \/ ClearProxy \/ Forget \/ Status \/ StopHelper \/ DisableHelper
  \/ VerifyHelper \/ RollbackFinish \/ DisconnectFinish
  \/ QuitProxy \/ QuitFinish \/ QuitKeep \/ RecoverPending

Environment ==
  \/ \E a \in alive : EngineDies(a)
  \/ \E a \in watched : MonitorTerminated(a) \/ MonitorLost(a)
  \/ HelperExit \/ HelperRestart
  \/ Crash \/ Relaunch

Next == Command \/ Proceed \/ PollApply \/ Environment

Spec == Init /\ [][Next]_vars

\* A command runs to its end, and a disconnect that is asked for again and
\* again gets the mutex, which is fair.
FairSpec == Spec /\ WF_vars(Proceed) /\ SF_vars(DisconnectBegin)

-----------------------------------------------------------------------------
(* Properties.                                                             *)

\* Types; and the handle, the pid and the token that belong together do.
TypeOK ==
  /\ op \in Operation \cup {Idle} /\ sealed \in BOOLEAN /\ outcome \in Outcomes
  /\ used \subseteq Attempts /\ alive \subseteq used /\ watched \subseteq used
  /\ child \in AttemptOrNone /\ pid \in AttemptOrNone /\ attempt \in AttemptOrNone
  /\ child # None => pid = child
  /\ {localUncertain, helperSpawned, privUncertain} \subseteq BOOLEAN
  /\ ksContext \in {"none", "proxy", "tun"}
  /\ poll \in {"none", "clear", "active", "pending", "unknown"}
  /\ marker \in AttemptOrNone /\ points \in {None, marker}
  /\ held \subseteq Privileged
  /\ faults \in 0..MaxFaults

\* While the system proxy names the listener of a running engine, no command
\* kills that engine: every teardown restores the proxy first and gives up if
\* it cannot, also after a publication that failed half-way.
ListenerOutlivesProxy ==
  [][\A a \in alive \ alive' : points = a => op' = op]_vars

\* An engine is started only when nothing is left of an earlier session, of
\* this process or of one that crashed: no token, no handle, no uncertainty,
\* no marker, and nothing held by the helper (has_active_session_state,
\* preflight reconciliation, pending restore).
FreshStart ==
  At("spawn") => /\ attempt = None /\ child = None /\ ~localUncertain
                 /\ marker = None /\ held = {}

\* A connect that fails without saying that the session was retained, and a
\* disconnect that succeeds, leave nothing: no token, engine, kill-switch
\* context, or anything held by the helper.
EndedMeansGone ==
  outcome.result \in {"failed", "disconnected"} =>
    /\ attempt = None /\ child = None /\ ~localUncertain /\ ksContext = "none"
    /\ held = {}
    /\ outcome.result = "failed" => marker = None

\* The application exits only when nothing is left, the publication of an
\* earlier crash included; once it is sealed nothing comes back.
ExitClean ==
  sealed /\ op = Idle =>
    /\ attempt = None /\ child = None /\ ~localUncertain
    /\ marker = None /\ points = None /\ held = {}

\* At the three moments a session begins or is over (the spawn, the reply, the
\* exit) nothing of it or of an earlier one is left.
LeavesNothing == FreshStart /\ EndedMeansGone /\ ExitClean

Gone == attempt = None /\ child = None /\ ~localUncertain /\ held = {}

\* The kill of the local engine failed and consumed its handle.
KillFailed == child = None /\ pid # None

\* No state is a dead end: whatever failed, a disconnect that is tried again
\* and again ends the session, unless the operating system refuses to kill
\* the engine (disconnect_impl: "a later disconnect can retry safely").
AlwaysRetryable == ~Gone ~> (Gone \/ KillFailed)

\* So it is as long as the user does not quit the application meanwhile.
Quitting == op # Idle /\ op.cmd = "quit"
Retryable == []~Quitting => AlwaysRetryable

\* A kill that failed leaves "a visible unknown state", and the engine is
\* never reported stopped (MihomoState.local_cleanup_uncertain): a failed
\* connect whose engine still runs shows it.
FailedKillIsVisible ==
  outcome.result = "failed" /\ outcome.a \in alive => IsRunning

=============================================================================
