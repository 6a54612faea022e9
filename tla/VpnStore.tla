---- MODULE VpnStore ----
(***************************************************************************)
(* The connection as the window sees it (stores/vpnStore.ts on             *)
(* lib/asyncControl.ts): one shared connect attempt, any number of         *)
(* disconnect calls, the first refresh, the reconnect that follows a new   *)
(* choice of server or another network, and the deletion of the            *)
(* subscription (stores/subscriptionStore.ts), which must not meet a       *)
(* connection.                                                             *)
(*                                                                         *)
(* JavaScript runs to the next await: an action is what happens between    *)
(* two of them.  A command of the backend takes effect where its promise   *)
(* resolves; what it does there is the subject of SessionLifecycle.        *)
(***************************************************************************)
EXTENDS Naturals, Sequences

CONSTANTS Servers,     \* the places of the server list
          None,
          MaxEvents,   \* bound: clicks, network changes and deletions of a behaviour
          MaxLists     \* bound: new server lists of a behaviour

ASSUME VpnAssumption ==
    /\ None \notin Servers
    /\ MaxEvents \in Nat /\ MaxLists \in Nat

VARIABLES status,      \* VpnState.status
          message,     \* errorMessage is not null
          selected,    \* selectedIndex
          list,        \* the identity of the server list; the entries are new in a new one
          epoch,       \* connectionAttempts
          last,        \* what the call of the current epoch wants, and what has become of it
          flight,      \* connectSingleFlight: the attempt that is shared
          call,        \* the disconnect calls, by caller
          chain,       \* the disconnect-then-connect chains
          deletion,    \* deleteSubscription
          reading,     \* refresh
          lifecycle,   \* connectionLifecycle, a FIFO mutex: the first is inside
          gate,        \* primaryRuntimeMutex, likewise
          backend,     \* the server whose connection the backend holds
          events

shown == <<status, message>>
vars == <<shown, selected, list, epoch, last, flight, call, chain, deletion, reading,
          lifecycle, gate, backend, events>>
mutexes == <<lifecycle, gate>>

\* The chains, and everyone that may call disconnect().
Chains == {"switch", "network"}
Callers == Chains \cup {"user", "deletion"}

NoFlight == [pc |-> "none", attempt |-> 0, target |-> None, list |-> 0,
             started |-> FALSE, error |-> "none"]
NoCall == [pc |-> "none", attempt |-> 0, failed |-> FALSE]
NoChain == [pc |-> "off", target |-> None]

\* A connection that outlives the window that made it, as after a reload.
Inherited == "inherited"

Init ==
    /\ status = "stopped" /\ message = FALSE
    /\ selected \in Servers \cup {None}
    /\ list = 0 /\ epoch = 0 /\ last = "none"
    /\ flight = NoFlight
    /\ call = [c \in Callers |-> NoCall]
    /\ chain = [k \in Chains |-> NoChain]
    /\ deletion = "none"
    /\ reading = TRUE /\ lifecycle = <<"refresh">> /\ gate = <<>>
    /\ backend \in {None, Inherited}
    /\ events = 0

Show(s, m) == status' = s /\ message' = m

\* AttemptEpoch: a later attempt makes the results of the earlier ones void.
Begin(want) == epoch' = epoch + 1 /\ last' = want
IsCurrent(attempt) == attempt = epoch

Holds(mutex, p) == mutex # <<>> /\ Head(mutex) = p

\* A continuation whose promise has settled runs before anything that arrives
\* from outside: an answer of the backend, a timer, a click.
Pending ==
    \/ flight.pc = "wait" /\ Holds(lifecycle, "flight")
    \/ flight.pc = "none" /\ \E c \in Callers : call[c].pc = "idle"
    \/ flight.pc = "none" /\ \E k \in Chains : chain[k].pc = "connect"
    \/ \E k \in Chains : chain[k].pc = "stop" /\ call[k].pc = "done"
    \/ deletion = "stop" /\ call["deletion"].pc = "done"
    \/ deletion = "gate" /\ Holds(gate, "deletion")

Event == ~Pending /\ events < MaxEvents /\ events' = events + 1

(***************************************************************************)
(* Stopping the backend (cleanupBackendConnection).                        *)
(***************************************************************************)

\* Mutant: a stop that has returned is taken for one that has worked.
StopsUnverified(result) ==
    /\ result \in {"clean", "running", "gone", "unknown", "challenge"}
    /\ result \in {"running", "challenge"} => backend # None
    /\ backend' \in IF result = "gone" THEN {None} ELSE {None, backend}

\* What two rounds of stop and status can end in: "clean" when a stop that
\* succeeded was seen to have stopped it; otherwise what the last status said,
\* or a challenge when the proxy can only be restored with a confirmation.
Stops(result) ==
    /\ result \in {"clean", "running", "gone", "unknown", "challenge"}
    /\ result \in {"running", "challenge"} => backend # None
    /\ backend' \in IF result \in {"clean", "gone"} THEN {None}
                    ELSE IF result = "unknown" THEN {None, backend} ELSE {backend}

\* What a stop that failed is shown as: running only when the last status said so,
\* which beside a challenge may have said nothing.
StatusAfter(result) ==
    {s \in {"running", "error"} : /\ result = "running" => s = "running"
                                  /\ result \notin {"running", "challenge"} => s = "error"}

(***************************************************************************)
(* disconnect().                                                           *)
(***************************************************************************)

\* The synchronous part of a call, up to its place in the queue.
BeginDisconnect(c) ==
    /\ Begin("disconnect")
    /\ call' = [call EXCEPT ![c] = [pc |-> "cleanup", attempt |-> epoch + 1, failed |-> FALSE]]
    /\ lifecycle' = Append(lifecycle, c)
    /\ Show("stopping", FALSE)

\* Mutant: every call shows its error, the ones that were overtaken too.
ThrowLate(c, s) ==
    /\ call' = [call EXCEPT ![c].pc = "done", ![c].failed = TRUE]
    /\ Show(s, TRUE)

\* An error is shown only by the call that is still current; it is thrown
\* to the caller in any case.
Throw(c, s) ==
    /\ call' = [call EXCEPT ![c].pc = "done", ![c].failed = TRUE]
    /\ IF IsCurrent(call[c].attempt) THEN Show(s, TRUE) ELSE UNCHANGED shown

\* Mutant: the last answer is shown as the status.
DisconnectCleanupRaw(c) ==
    /\ ~Pending /\ call[c].pc \in {"cleanup", "confirmed"} /\ Holds(lifecycle, c)
    /\ \E result \in {"clean", "running", "gone", "unknown", "challenge"} :
         /\ Stops(result)
         /\ IF result = "clean"
            THEN call' = [call EXCEPT ![c].pc = "idle"] /\ UNCHANGED shown
            ELSE Throw(c, result)
    /\ last' = "failed"
    /\ lifecycle' = Tail(lifecycle)
    /\ UNCHANGED <<selected, list, epoch, flight, chain, deletion, reading, gate, events>>

\* The cleanup has run in its turn.  A challenge is put to the user, and a yes
\* goes to the end of the queue again; the confirmed stop is made only once.
DisconnectCleanup(c) ==
    /\ ~Pending /\ call[c].pc \in {"cleanup", "confirmed"} /\ Holds(lifecycle, c)
    /\ \E result \in {"clean", "running", "gone", "unknown", "challenge"} :
         /\ Stops(result)
         /\ \/ /\ result = "clean"
               /\ call' = [call EXCEPT ![c].pc = "idle"]
               /\ lifecycle' = Tail(lifecycle)
               /\ UNCHANGED shown
            \/ /\ result = "challenge" /\ call[c].pc = "cleanup"
               /\ call' = [call EXCEPT ![c].pc = "confirmed"]
               /\ lifecycle' = Append(Tail(lifecycle), c)
               /\ UNCHANGED shown
            \/ /\ result # "clean"
               /\ lifecycle' = Tail(lifecycle)
               /\ \E s \in StatusAfter(result) : Throw(c, s)
         /\ last' = IF ~IsCurrent(call[c].attempt) \/ call'[c].pc = "confirmed" THEN last
                    ELSE IF result = "clean" THEN "disconnected" ELSE "failed"
    /\ UNCHANGED <<selected, list, epoch, flight, chain, deletion, reading, gate, events>>

\* Mutant: the cancelled attempt is not waited for.
DisconnectEndsAtOnce(c) ==
    /\ call[c].pc = "idle"
    /\ call' = [call EXCEPT ![c].pc = "done"]
    /\ IF IsCurrent(call[c].attempt) THEN Show("stopped", FALSE) ELSE UNCHANGED shown
    /\ UNCHANGED <<selected, list, epoch, last, flight, chain, deletion, reading, mutexes,
                   backend, events>>

\* Mutant: a call that was overtaken shows its end.
DisconnectEndsLate(c) ==
    /\ call[c].pc = "idle" /\ flight.pc = "none"
    /\ call' = [call EXCEPT ![c].pc = "done"]
    /\ Show("stopped", FALSE)
    /\ UNCHANGED <<selected, list, epoch, last, flight, chain, deletion, reading, mutexes,
                   backend, events>>

\* waitForIdle: the attempt it has cancelled must have ended, or the connect
\* that follows would join it.
DisconnectEnds(c) ==
    /\ call[c].pc = "idle" /\ flight.pc = "none"
    /\ call' = [call EXCEPT ![c].pc = "done"]
    /\ IF IsCurrent(call[c].attempt) THEN Show("stopped", FALSE) ELSE UNCHANGED shown
    /\ UNCHANGED <<selected, list, epoch, last, flight, chain, deletion, reading, mutexes,
                   backend, events>>

(***************************************************************************)
(* connect().                                                              *)
(***************************************************************************)

\* run(): a call while an attempt is in flight shares it and begins nothing.
\* Otherwise the attempt begins, and a choice that is missing ends it at once.
BeginConnect ==
    /\ flight.pc = "none"
    /\ Begin(IF selected = None THEN "failed" ELSE "connect")
    /\ IF selected = None
       THEN Show("error", TRUE) /\ UNCHANGED flight
       ELSE /\ Show("starting", FALSE)
            /\ flight' = [NoFlight EXCEPT !.pc = "preflight", !.attempt = epoch + 1,
                                          !.target = selected]

\* The catch block.  A cancelled attempt says nothing, and cleans up what it may
\* have left; one that left the session to the backend asks what still runs; any
\* other shows its error.
Catch(error, cleaned) ==
    IF ~IsCurrent(flight.attempt) \/ error = "cancelled"
    THEN /\ flight' = IF flight.started /\ ~cleaned
                      THEN [flight EXCEPT !.pc = "late"]
                      ELSE NoFlight
         /\ UNCHANGED <<shown, last>>
    ELSE /\ last' = "failed"
         /\ IF error = "retained"
            THEN flight' = [flight EXCEPT !.pc = "probe"] /\ UNCHANGED shown
            ELSE flight' = NoFlight /\ Show(IF error = "running" THEN "running" ELSE "error", TRUE)

\* The late cleanup takes its place in the queue as the attempt is caught.
LateJoins(queue) == IF flight'.pc = "late" THEN Append(queue, "flight") ELSE queue

\* check_routing_conflicts has answered.  The choice and the list are noted, and
\* the attempt waits for the runtime.
Preflight ==
    /\ ~Pending /\ flight.pc = "preflight"
    /\ \/ /\ IsCurrent(flight.attempt)
          /\ flight' = [flight EXCEPT !.pc = "gate", !.list = list]
          /\ gate' = Append(gate, "flight")
          /\ UNCHANGED <<shown, last>>
       \/ \E error \in {"failed", "cancelled"} :
            /\ error = "cancelled" => ~IsCurrent(flight.attempt)
            /\ Catch(error, FALSE)
            /\ UNCHANGED gate
    /\ UNCHANGED <<selected, list, epoch, call, chain, deletion, reading, lifecycle,
                   backend, events>>

\* isSameConnectionSelection: the index, and the very entry it stands for.
SameSelection == selected = flight.target /\ list = flight.list

\* withPrimaryRuntimeReady: the list is committed to the backend and the attempt
\* goes on, in the runtime mutex, to wait for the connection.
Committed ==
    /\ ~Pending /\ flight.pc = "gate" /\ Holds(gate, "flight")
    /\ \/ /\ SameSelection
          /\ flight' = [flight EXCEPT !.pc = "wait"]
          /\ lifecycle' = Append(lifecycle, "flight")
          /\ UNCHANGED <<shown, last, gate>>
       \/ /\ Catch("failed", FALSE)
          /\ gate' = Tail(gate)
          /\ UNCHANGED lifecycle
    /\ UNCHANGED <<selected, list, epoch, call, chain, deletion, reading, backend, events>>

\* In both mutexes; an attempt that was cancelled meanwhile starts nothing.
Enter ==
    /\ flight.pc = "wait" /\ Holds(lifecycle, "flight")
    /\ IF IsCurrent(flight.attempt)
       THEN /\ flight' = [flight EXCEPT !.pc = "invoke", !.started = TRUE]
            /\ UNCHANGED <<shown, last, mutexes>>
       ELSE /\ Catch("cancelled", FALSE)
            /\ lifecycle' = Tail(lifecycle) /\ gate' = Tail(gate)
    /\ UNCHANGED <<selected, list, epoch, call, chain, deletion, reading, backend, events>>

\* The command has connected.  The check and the visible change are one step; an
\* attempt that is no longer wanted is undone before either mutex is released.
Connected ==
    /\ ~Pending /\ flight.pc = "invoke" /\ backend = None
    /\ backend' = flight.target
    /\ IF IsCurrent(flight.attempt) /\ SameSelection
       THEN /\ Show("running", FALSE) /\ last' = "connected"
            /\ flight' = [flight EXCEPT !.pc = "prefer"]
            /\ lifecycle' = Tail(lifecycle) /\ gate' = Tail(gate)
       ELSE /\ flight' = [flight EXCEPT !.pc = "undo", !.error =
                            IF IsCurrent(flight.attempt) THEN "failed" ELSE "cancelled"]
            /\ UNCHANGED <<shown, last, mutexes>>
    /\ UNCHANGED <<selected, list, epoch, call, chain, deletion, reading, events>>

\* The command has failed: with nothing left, or with a session it could not
\* take back, which it says ("retained").  Another connection that is there
\* already is refused, or ended on the way.
ConnectFails ==
    /\ ~Pending /\ flight.pc = "invoke"
    /\ \/ /\ backend' \in {None, backend}
          /\ Catch("failed", FALSE)
       \/ /\ backend' = IF backend = None THEN flight.target ELSE backend
          /\ Catch("retained", FALSE)
    /\ gate' = Tail(gate)
    /\ lifecycle' = LateJoins(Tail(lifecycle))
    /\ UNCHANGED <<selected, list, epoch, call, chain, deletion, reading, events>>

\* The connection nobody wants any more is cleaned up, or is what the error
\* tells of: the last status, or a session that the backend says it retains.
Undone ==
    /\ ~Pending /\ flight.pc = "undo"
    /\ \E result \in {"clean", "running", "gone", "unknown", "challenge"} :
         /\ Stops(result)
         /\ IF result = "clean"
            THEN Catch(flight.error, TRUE)
            ELSE \/ \E s \in StatusAfter(result) : Catch(s, FALSE)
                 \/ result # "gone" /\ Catch("retained", FALSE)
    /\ gate' = Tail(gate)
    /\ lifecycle' = LateJoins(Tail(lifecycle))
    /\ UNCHANGED <<selected, list, epoch, call, chain, deletion, reading, events>>

\* The second cleanup of a cancelled attempt; a failure is only logged.
LateCleanup ==
    /\ ~Pending /\ flight.pc = "late" /\ Holds(lifecycle, "flight")
    /\ \E result \in {"clean", "running", "gone", "unknown", "challenge"} : Stops(result)
    /\ flight' = NoFlight
    /\ lifecycle' = Tail(lifecycle)
    /\ UNCHANGED <<shown, selected, list, epoch, last, call, chain, deletion, reading, gate, events>>

\* A retained session keeps Disconnect on the screen, whatever the status says.
\* Nothing asks here whether the attempt is still the current one.
Probed ==
    /\ ~Pending /\ flight.pc = "probe"
    /\ Show("running", TRUE)
    /\ flight' = NoFlight
    /\ UNCHANGED <<selected, list, epoch, last, call, chain, deletion, reading, mutexes,
                   backend, events>>

\* The preferred nodes are set one by one; errors are ignored.
Preferred ==
    /\ ~Pending /\ flight.pc = "prefer"
    /\ flight' = NoFlight
    /\ UNCHANGED <<shown, selected, list, epoch, last, call, chain, deletion, reading, mutexes,
                   backend, events>>

(***************************************************************************)
(* refresh() at the start of the window.                                   *)
(***************************************************************************)

\* Its answer counts only while no attempt has begun.
Refresh ==
    /\ ~Pending /\ reading /\ Holds(lifecycle, "refresh")
    /\ reading' = FALSE
    /\ lifecycle' = Tail(lifecycle)
    /\ IF ~IsCurrent(0) THEN UNCHANGED shown
       ELSE \/ Show(IF backend # None THEN "running" ELSE "stopped", FALSE)
            \/ Show("error", TRUE)
    /\ UNCHANGED <<selected, list, epoch, last, flight, call, chain, deletion, gate, backend, events>>

(***************************************************************************)
(* The user, the chains and the subscription.                              *)
(***************************************************************************)

Busy == status \in {"starting", "stopping"}
Free(c) == call[c].pc \in {"none", "done"}

\* toggleVpn: connect when nothing is connected, disconnect when something is.
\* Other callers disconnect in the middle of a transition (reset, removal).
UserConnects ==
    /\ Event /\ status \in {"stopped", "error"} /\ selected # None
    /\ IF flight.pc = "none"
       THEN BeginConnect
       ELSE UNCHANGED <<shown, epoch, last, flight>>
    /\ UNCHANGED <<selected, list, call, chain, deletion, reading, mutexes, backend>>

UserDisconnects ==
    /\ Event /\ status # "stopped" /\ Free("user")
    /\ BeginDisconnect("user")
    /\ UNCHANGED <<selected, list, flight, chain, deletion, reading, gate, backend>>

\* selectServer: another server while connected starts a chain, unless one runs
\* already, which will see the new choice when it comes to its end.
SelectServer(s) ==
    /\ Event /\ ~Busy
    /\ selected' = s
    /\ IF selected \notin {None, s} /\ status = "running" /\ chain["switch"].pc = "off"
       THEN /\ chain' = [chain EXCEPT !["switch"] = [pc |-> "stop", target |-> s]]
            /\ BeginDisconnect("switch")
       ELSE UNCHANGED <<shown, epoch, last, call, chain, lifecycle>>
    /\ UNCHANGED <<list, flight, deletion, reading, gate, backend>>

\* "network-changed" while connected.
NetworkChanged ==
    /\ Event /\ status = "running" /\ chain["network"].pc = "off"
    /\ chain' = [chain EXCEPT !["network"] = [pc |-> "stop", target |-> None]]
    /\ BeginDisconnect("network")
    /\ UNCHANGED <<selected, list, flight, deletion, reading, gate, backend>>

\* The disconnect of a chain has returned: the pause, or the end of the chain.
ChainStopped(k) ==
    /\ chain[k].pc = "stop" /\ call[k].pc = "done"
    /\ chain' = [chain EXCEPT ![k] = IF call[k].failed THEN NoChain ELSE [@ EXCEPT !.pc = "pause"]]
    /\ UNCHANGED <<shown, selected, list, epoch, last, flight, call, deletion, reading, mutexes,
                   backend, events>>

\* The pause is over; the chain connects to what is chosen now, or shares what
\* is in flight.
ChainConnects(k) ==
    /\ ~Pending /\ chain[k].pc = "pause"
    /\ chain' = [chain EXCEPT ![k].pc = "connect"]
    /\ IF flight.pc = "none"
       THEN BeginConnect
       ELSE UNCHANGED <<shown, epoch, last, flight>>
    /\ UNCHANGED <<selected, list, call, deletion, reading, mutexes, backend, events>>

\* The attempt has ended, well or not; "switch" starts again when the choice has
\* moved on since.
ChainEnds(k) ==
    /\ chain[k].pc = "connect" /\ flight.pc = "none"
    /\ IF k = "switch" /\ selected # chain[k].target
       THEN /\ chain' = [chain EXCEPT ![k] = [pc |-> "stop", target |-> selected]]
            /\ BeginDisconnect(k)
       ELSE /\ chain' = [chain EXCEPT ![k] = NoChain]
            /\ UNCHANGED <<shown, epoch, last, call, lifecycle>>
    /\ UNCHANGED <<selected, list, flight, deletion, reading, gate, backend, events>>

\* A fetch replaces the entries; the choice is found again by its name.
Refetch ==
    /\ ~Pending /\ list < MaxLists
    /\ list' = list + 1
    /\ UNCHANGED <<shown, selected, epoch, last, flight, call, chain, deletion, reading, mutexes,
                   backend, events>>

\* Mutant: the runtime mutex is taken before the connection is ended.
DeletionBeginsInside ==
    /\ Event /\ deletion = "none"
    /\ gate' = Append(gate, "deletion")
    /\ IF status # "stopped"
       THEN deletion' = "stop" /\ BeginDisconnect("deletion")
       ELSE deletion' = "gate" /\ UNCHANGED <<shown, epoch, last, call, lifecycle>>
    /\ UNCHANGED <<selected, list, flight, chain, reading, backend>>

\* deleteSubscription: a connection is ended first.
DeletionBegins ==
    /\ Event /\ deletion = "none"
    /\ IF status # "stopped"
       THEN deletion' = "stop" /\ BeginDisconnect("deletion") /\ UNCHANGED gate
       ELSE /\ deletion' = "gate" /\ gate' = Append(gate, "deletion")
            /\ UNCHANGED <<shown, epoch, last, call, lifecycle>>
    /\ UNCHANGED <<selected, list, flight, chain, reading, backend>>

DeletionStopped ==
    /\ deletion = "stop" /\ call["deletion"].pc = "done"
    /\ IF call["deletion"].failed \/ status # "stopped"
       THEN deletion' = "none" /\ UNCHANGED gate
       ELSE deletion' = "gate" /\ gate' = Append(gate, "deletion")
    /\ UNCHANGED <<shown, selected, list, epoch, last, flight, call, chain, reading, lifecycle,
                   backend, events>>

\* In the runtime mutex the status is read again: a connect may have begun.
DeletionEnters ==
    /\ deletion = "gate" /\ Holds(gate, "deletion")
    /\ IF status = "stopped"
       THEN deletion' = "destroy" /\ UNCHANGED gate
       ELSE deletion' = "none" /\ gate' = Tail(gate)
    /\ UNCHANGED <<shown, selected, list, epoch, last, flight, call, chain, reading, lifecycle,
                   backend, events>>

\* The list is gone, or the deletion was rolled back.
DeletionEnds ==
    /\ ~Pending /\ deletion = "destroy"
    /\ deletion' = "none"
    /\ gate' = Tail(gate)
    /\ \/ list' = list + 1 /\ selected' = None
       \/ UNCHANGED <<list, selected>>
    /\ UNCHANGED <<shown, epoch, last, flight, call, chain, reading, lifecycle, backend, events>>

\* The engine dies; the window learns nothing of it by itself.
BackendDies ==
    /\ Event /\ backend # None
    /\ backend' = None
    /\ UNCHANGED <<shown, selected, list, epoch, last, flight, call, chain, deletion, reading, mutexes>>

(***************************************************************************)

FlightStep ==
    \/ Preflight \/ Committed \/ Enter \/ Connected \/ ConnectFails \/ Undone
    \/ LateCleanup \/ Probed \/ Preferred

CallStep(c) == DisconnectCleanup(c) \/ DisconnectEnds(c)

ChainStep(k) == ChainStopped(k) \/ ChainConnects(k) \/ ChainEnds(k)

DeletionStep == DeletionStopped \/ DeletionEnters \/ DeletionEnds

Next ==
    \/ FlightStep
    \/ \E c \in Callers : CallStep(c)
    \/ \E k \in Chains : ChainStep(k)
    \/ DeletionStep
    \/ Refresh \/ Refetch \/ BackendDies
    \/ UserConnects \/ UserDisconnects \/ NetworkChanged \/ DeletionBegins
    \/ \E s \in Servers : SelectServer(s)

Spec == Init /\ [][Next]_vars

\* Every promise of the backend settles and every continuation is run; nothing
\* is assumed of the user, the network or the server list.
FairSpec ==
    /\ Spec
    /\ WF_vars(FlightStep) /\ WF_vars(DeletionStep) /\ WF_vars(Refresh)
    /\ \A c \in Callers : WF_vars(CallStep(c))
    /\ \A k \in Chains : WF_vars(ChainStep(k))
----
(***************************************************************************)
(* What must hold.                                                         *)
(***************************************************************************)

Flights == [pc : {"none", "preflight", "gate", "wait", "invoke", "undo", "late", "probe", "prefer"},
            attempt : Nat, target : Servers \cup {None}, list : Nat,
            started : BOOLEAN, error : {"none", "failed", "cancelled"}]

\* The type of the state.
TypeOK ==
    /\ status \in {"stopped", "starting", "running", "stopping", "error"}
    /\ message \in BOOLEAN /\ reading \in BOOLEAN
    /\ selected \in Servers \cup {None} /\ backend \in Servers \cup {None, Inherited}
    /\ list \in Nat /\ epoch \in Nat /\ events \in 0..MaxEvents
    /\ last \in {"none", "connect", "connected", "disconnect", "disconnected", "failed"}
    /\ flight \in Flights
    /\ call \in [Callers -> [pc : {"none", "cleanup", "confirmed", "idle", "done"},
                             attempt : Nat, failed : BOOLEAN]]
    /\ chain \in [Chains -> [pc : {"off", "stop", "pause", "connect"},
                             target : Servers \cup {None}]]
    /\ deletion \in {"none", "stop", "gate", "destroy"}
    /\ lifecycle \in Seq(Callers \cup {"flight", "refresh"})
    /\ gate \in Seq({"flight", "deletion"})

\* Nothing is under way.
Quiet ==
    /\ flight.pc = "none" /\ deletion = "none" /\ ~reading
    /\ \A c \in Callers : Free(c)
    /\ \A k \in Chains : chain[k].pc = "off"

\* When all calls have returned, the window shows no transition, "stopped" means
\* that the backend holds no connection, and of all the overlapping calls it is the
\* newest whose outcome is on the screen: its error, or what it has reached.
LastCallWins ==
    Quiet =>
        /\ ~Busy
        /\ status = "stopped" => backend = None
        /\ last = "disconnected" => status = "stopped" /\ ~message
        /\ last = "connected" => status = "running" /\ ~message
        /\ last = "failed" => status # "stopped" /\ message
        /\ last \notin {"connect", "disconnect"}

\* What the comment in selectServer says of choices made while a chain runs: "we
\* connect to the last one you chose".  The chain compares the last choice with
\* the one it started from, not with the one it has connected to: a choice that
\* goes away in the pause and comes back after the connect is lost.
ConnectedIsChosen ==
    Quiet /\ status = "running" /\ last = "connected" => backend \in {selected, None}

\* A subscription is destroyed only while no connection is up, coming up or being
\* undone, although a connect may begin at any moment before and meanwhile
\* (deleteSubscriptionUnlocked).  A connection from before a reload is an exception:
\* until the first refresh has answered the window takes it for stopped.
DeletionMeetsNoConnection ==
    deletion = "destroy" =>
        backend \in {None, Inherited} /\ flight.pc \notin {"wait", "invoke", "undo", "prefer"}

\* Every connect, disconnect, chain and deletion returns: the attempt that waits
\* for both mutexes, the disconnect that waits for the attempt and the deletion
\* that waits for the disconnect never wait for each other.
CallsReturn == []<>Quiet
====
