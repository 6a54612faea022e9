---- MODULE VpnStoreProofs ----
(***************************************************************************)
(* A deletion meets no connection, and the newest of the overlapping calls *)
(* is the one the screen tells of (VpnStore), for any servers and any      *)
(* number of clicks, network changes, chains and new lists.                *)
(***************************************************************************)
EXTENDS VpnStore, SequenceTheorems, TLAPS

Results == {"clean", "running", "gone", "unknown", "challenge"}

LEMMA StopsKeeps ==
    ASSUME NEW result \in Results, Stops(result)
    PROVE  /\ backend' \in {None, backend}
           /\ result = "clean" => backend' = None
    BY DEF Stops, Results

LEMMA StatusesAfter ==
    ASSUME NEW result, NEW s \in StatusAfter(result)
    PROVE  s \in {"running", "error"}
    BY DEF StatusAfter

LEMMA HeadStays ==
    ASSUME NEW S, NEW q \in Seq(S), NEW p, NEW x \in S, Holds(q, p)
    PROVE  Holds(Append(q, x), p)
    BY DEF Holds

----
(***************************************************************************)
(* Types.                                                                  *)
(***************************************************************************)

Members == Callers \cup {"flight", "refresh"}
Users == {"flight", "deletion"}

Statuses == {"stopped", "starting", "running", "stopping", "error"}
Lasts == {"none", "connect", "connected", "disconnect", "disconnected", "failed"}
ChainType == [pc : {"off", "stop", "pause", "connect"}, target : Servers \cup {None}]
CallType == [pc : {"none", "cleanup", "confirmed", "idle", "done"},
             attempt : Nat, failed : BOOLEAN]

LEMMA NoFlightType == NoFlight \in Flights /\ NoFlight.pc = "none"
    BY DEF NoFlight, Flights

LEMMA FlightFields ==
    ASSUME NEW f \in Flights, NEW n \in Nat, NEW s \in Servers \cup {None}
    PROVE  /\ [f EXCEPT !.pc = "preflight", !.attempt = n, !.target = s] \in Flights
           /\ [f EXCEPT !.pc = "gate", !.list = n] \in Flights
    BY DEF Flights

LEMMA CallFields ==
    ASSUME NEW n \in Nat
    PROVE  /\ NoCall \in CallType /\ NoChain \in ChainType
           /\ [pc |-> "cleanup", attempt |-> n, failed |-> FALSE] \in CallType
           /\ \A s \in Servers \cup {None} : [pc |-> "stop", target |-> s] \in ChainType
    BY DEF NoCall, NoChain, CallType, ChainType

LEMMA FlightSteps ==
    ASSUME NEW f \in Flights
    PROVE  /\ [f EXCEPT !.pc = "late"] \in Flights /\ [f EXCEPT !.pc = "probe"] \in Flights
           /\ [f EXCEPT !.pc = "wait"] \in Flights /\ [f EXCEPT !.pc = "prefer"] \in Flights
           /\ [f EXCEPT !.pc = "invoke", !.started = TRUE] \in Flights
           /\ \A e \in {"failed", "cancelled"} : [f EXCEPT !.pc = "undo", !.error = e] \in Flights
           /\ f.target \in Servers \cup {None} /\ f.attempt \in Nat
    BY DEF Flights

LEMMA CallSteps ==
    ASSUME NEW k \in CallType
    PROVE  /\ [k EXCEPT !.pc = "idle"] \in CallType /\ [k EXCEPT !.pc = "confirmed"] \in CallType
           /\ [k EXCEPT !.pc = "done"] \in CallType
           /\ [k EXCEPT !.pc = "done", !.failed = TRUE] \in CallType
           /\ k.attempt \in Nat
    BY DEF CallType

\* TypeOK with its sets named.
Typed ==
    /\ status \in Statuses /\ message \in BOOLEAN /\ reading \in BOOLEAN
    /\ selected \in Servers \cup {None} /\ backend \in Servers \cup {None, Inherited}
    /\ list \in Nat /\ epoch \in Nat /\ events \in 0..MaxEvents /\ last \in Lasts
    /\ flight \in Flights /\ call \in [Callers -> CallType] /\ chain \in [Chains -> ChainType]
    /\ deletion \in {"none", "stop", "gate", "destroy"}
    /\ lifecycle \in Seq(Members) /\ gate \in Seq(Users)

LEMMA TypedIsTypeOK == Typed <=> TypeOK
    BY DEF Typed, TypeOK, Statuses, Lasts, CallType, ChainType, Members, Users

LEMMA TypedInit == Init => Typed
<1> SUFFICES ASSUME Init PROVE Typed
    OBVIOUS
<1>1. /\ lifecycle \in Seq(Members) /\ gate \in Seq(Users)
    BY EmptySeq DEF Init, Members, Users
<1>2. /\ call \in [Callers -> CallType] /\ chain \in [Chains -> ChainType] /\ flight \in Flights
    BY CallFields, NoFlightType DEF Init
<1>3. events \in 0..MaxEvents
    BY VpnAssumption DEF Init
<1> QED BY <1>1, <1>2, <1>3 DEF Init, Typed, Statuses, Lasts, Inherited

\* The screen and the flight after Catch.
LEMMA CatchTypes ==
    ASSUME Typed, NEW e, NEW cl, Catch(e, cl)
    PROVE  flight' \in Flights /\ status' \in Statuses /\ message' \in BOOLEAN /\ last' \in Lasts
<1>1. [flight EXCEPT !.pc = "late"] \in Flights /\ [flight EXCEPT !.pc = "probe"] \in Flights
    BY FlightSteps DEF Typed
<1>2. flight' \in Flights
    BY <1>1, NoFlightType DEF Catch
<1>3. status' \in Statuses /\ message' \in BOOLEAN /\ last' \in Lasts
    BY DEF Catch, Typed, Show, shown, Statuses, Lasts
<1> QED BY <1>2, <1>3

LEMMA EventTypes ==
    ASSUME events \in 0..MaxEvents, Event
    PROVE  events' \in 0..MaxEvents
<1>1. events < MaxEvents /\ events' = events + 1
    BY DEF Event
<1> QED BY <1>1, VpnAssumption

LEMMA BeginDisconnectTypes ==
    ASSUME Typed, NEW c \in Callers, BeginDisconnect(c)
    PROVE  /\ epoch' \in Nat /\ last' \in Lasts /\ call' \in [Callers -> CallType]
           /\ lifecycle' \in Seq(Members) /\ status' \in Statuses /\ message' \in BOOLEAN
<1>1. epoch + 1 \in Nat /\ c \in Members
    BY DEF Typed, Members
<1>2. [pc |-> "cleanup", attempt |-> epoch + 1, failed |-> FALSE] \in CallType
    BY <1>1, CallFields
<1>3. call' \in [Callers -> CallType]
    BY <1>2 DEF BeginDisconnect, Typed
<1>4. lifecycle' \in Seq(Members)
    BY <1>1, AppendProperties DEF BeginDisconnect, Typed
<1> QED BY <1>1, <1>3, <1>4 DEF BeginDisconnect, Begin, Show, Lasts, Statuses

LEMMA BeginConnectTypes ==
    ASSUME Typed, BeginConnect
    PROVE  /\ epoch' \in Nat /\ last' \in Lasts /\ flight' \in Flights
           /\ status' \in Statuses /\ message' \in BOOLEAN
<1>1. epoch + 1 \in Nat /\ selected \in Servers \cup {None} /\ flight \in Flights
    BY DEF Typed
<1>2. flight' \in Flights
  <2>1. [NoFlight EXCEPT !.pc = "preflight", !.attempt = epoch + 1, !.target = selected] \in Flights
      BY <1>1, NoFlightType, FlightFields
  <2> QED BY <2>1, <1>1 DEF BeginConnect
<1>3. status' \in Statuses /\ message' \in BOOLEAN
    BY DEF BeginConnect, Show, Statuses
<1>4. last' \in Lasts
    BY DEF BeginConnect, Begin, Lasts
<1> QED BY <1>1, <1>2, <1>3, <1>4 DEF BeginConnect, Begin

----
(***************************************************************************)
(* The invariant.                                                          *)
(***************************************************************************)

\* An attempt at work is inside the mutexes, and so is the deletion.
HeldInv ==
    /\ flight.pc \in {"wait", "invoke", "undo"} => Holds(gate, "flight")
    /\ flight.pc \in {"invoke", "undo"} => Holds(lifecycle, "flight")
    /\ deletion = "destroy" => Holds(gate, "deletion")

\* No attempt is newer than the counter, and a disconnect call is never of the same
\* number as the attempt in flight.
EpochInv ==
    /\ flight.pc # "none" => flight.attempt \in 1..epoch
    /\ \A c \in Callers :
         /\ call[c].attempt <= epoch
         /\ call[c].pc \in {"cleanup", "confirmed", "idle"} /\ flight.pc # "none"
              => call[c].attempt # flight.attempt

\* The newest call, when its stop has worked and it waits for the attempt: nothing
\* is connected, and the attempt can only end.
IdleInv ==
    \A c \in Callers :
        call[c].pc = "idle" /\ call[c].attempt = epoch
            => backend = None /\ flight.pc \notin {"invoke", "undo"}

\* "stopped" on the screen.
StoppedInv ==
    status = "stopped" => flight.pc = "none" /\ backend \in {None, Inherited}

DestroyInv ==
    deletion = "destroy" => backend \in {None, Inherited} /\ flight.pc # "prefer"

Underway == {"preflight", "gate", "wait", "invoke", "undo"}
Active == {"cleanup", "confirmed", "idle"}
\* What the newest call wants is what `last` says, for the attempt in flight and for
\* the disconnect calls; no two calls have the same number.
CurrentInv ==
    /\ \A c \in Callers : call[c].attempt = epoch =>
         /\ call[c].pc \in {"cleanup", "confirmed"} => last = "disconnect"
         /\ call[c].pc = "idle" => last = "disconnected"
    /\ \A c, d \in Callers :
         c # d /\ call[c].pc \in Active /\ call[d].pc \in Active
            => call[c].attempt # call[d].attempt
    /\ flight.pc # "none" /\ flight.attempt = epoch =>
         /\ flight.pc \in Underway => last = "connect"
         /\ flight.pc = "probe" => last = "failed"
         /\ flight.pc = "prefer" => last = "connected"
         /\ flight.pc # "late"
         /\ flight.pc = "undo" => flight.error # "cancelled"

\* The newest call is still at work, or the screen shows what has become of it.
OutcomeInv ==
    /\ last = "none" <=> epoch = 0
    /\ last = "none" => ~Busy
    /\ last = "connect" => flight.pc \in Underway /\ flight.attempt = epoch
    /\ last = "connected" =>
         /\ status = "running" /\ ~message
         /\ flight.pc = "none" \/ flight.attempt = epoch
    /\ last = "disconnect" =>
         \E c \in Callers : call[c].pc \in {"cleanup", "confirmed"} /\ call[c].attempt = epoch
    /\ last = "disconnected" =>
         \/ status = "stopped" /\ ~message
         \/ \E c \in Callers : call[c].pc = "idle" /\ call[c].attempt = epoch
    /\ last = "failed" =>
         \/ status \in {"running", "error"} /\ message
         \/ flight.pc = "probe" /\ flight.attempt = epoch

\* "stopped" is wrong only until the first refresh has answered.
EndedInv == status = "stopped" => backend = None \/ (reading /\ epoch = 0)

Invariant == Typed /\ HeldInv /\ EpochInv /\ IdleInv /\ StoppedInv /\ DestroyInv
             /\ CurrentInv /\ OutcomeInv /\ EndedInv

LEMMA TypedNext == Typed /\ HeldInv /\ [Next]_vars => Typed'
<1> SUFFICES ASSUME Typed, HeldInv, [Next]_vars
             PROVE  Typed'
    OBVIOUS
<1> USE DEF shown, mutexes, Typed
<1>0. /\ \A q \in Seq(Members) : q # <<>> => Tail(q) \in Seq(Members)
      /\ \A q \in Seq(Users) : q # <<>> => Tail(q) \in Seq(Users)
      /\ \A q \in Seq(Members), p \in Members : Append(q, p) \in Seq(Members)
      /\ \A q \in Seq(Users), p \in Users : Append(q, p) \in Seq(Users)
      /\ "flight" \in Members /\ "flight" \in Users /\ "deletion" \in Users
      /\ \A c \in Callers : c \in Members
    BY HeadTailProperties, AppendProperties DEF Members, Users
<1>a. /\ "error" \in Statuses /\ "running" \in Statuses /\ "stopped" \in Statuses
      /\ "stopping" \in Statuses /\ "starting" \in Statuses
      /\ "connected" \in Lasts /\ "disconnected" \in Lasts /\ "failed" \in Lasts
    BY DEF Statuses, Lasts
<1>b. Event => events' \in 0..MaxEvents
    BY EventTypes
<1>1. CASE Preflight
  <2>1. [flight EXCEPT !.pc = "gate", !.list = list] \in Flights
      BY FlightFields
  <2>2. flight' \in Flights /\ status' \in Statuses /\ message' \in BOOLEAN /\ last' \in Lasts
    <3>1. \/ /\ flight' = [flight EXCEPT !.pc = "gate", !.list = list]
             /\ UNCHANGED <<status, message, last>>
          \/ \E e : Catch(e, FALSE)
        BY <1>1 DEF Preflight
    <3>2. CASE \E e : Catch(e, FALSE)
        BY <3>2, CatchTypes
    <3> QED BY <3>1, <3>2, <2>1
  <2>3. gate' \in Seq(Users)
    <3>1. gate' = Append(gate, "flight") \/ gate' = gate
      BY <1>1, Zenon DEF Preflight
    <3>2. gate \in Seq(Users) /\ "flight" \in Users
      BY <1>0
    <3> HIDE DEF Typed
    <3> QED BY <3>1, <3>2
  <2> QED BY <1>1, <2>2, <2>3 DEF Preflight
<1>2. CASE Committed
    BY <1>2, <1>0, CatchTypes, FlightSteps DEF Committed, Holds
<1>3. CASE Enter
    BY <1>3, <1>0, CatchTypes, FlightSteps DEF Enter, Holds, HeldInv
<1>4. CASE Connected
    BY <1>4, <1>0, <1>a, FlightSteps DEF Connected, Holds, Show, HeldInv
<1>5. CASE ConnectFails
    BY <1>5, <1>0, CatchTypes, FlightSteps DEF ConnectFails, LateJoins, HeldInv, Holds
<1>6. CASE Undone
    BY <1>6, <1>0, CatchTypes, StopsKeeps DEF Undone, LateJoins, Results, HeldInv, Holds
<1>7. CASE LateCleanup
    BY <1>7, <1>0, StopsKeeps, NoFlightType DEF LateCleanup, Results, Holds
<1>8. CASE Probed
    BY <1>8, <1>a, NoFlightType DEF Probed, Show
<1>9. CASE Preferred
    BY <1>9, NoFlightType DEF Preferred
<1>10. ASSUME NEW c \in Callers, DisconnectCleanup(c)
       PROVE  Typed'
  <2>1. call[c] \in CallType /\ lifecycle # <<>> /\ c \in Members
    BY <1>10, <1>0 DEF DisconnectCleanup, Holds
  <2>2. Tail(lifecycle) \in Seq(Members) /\ Append(Tail(lifecycle), c) \in Seq(Members)
    BY <2>1, <1>0
  <2>3. backend' \in {None, backend}
    BY <1>10, StopsKeeps DEF DisconnectCleanup, Results
  <2>4. lifecycle' \in Seq(Members)
    BY <1>10, <2>2 DEF DisconnectCleanup
  <2>5. call' \in [Callers -> CallType]
    BY <1>10, <2>1, CallSteps DEF DisconnectCleanup, Throw
  <2>6. status' \in Statuses /\ message' \in BOOLEAN
    <3>1. \/ UNCHANGED <<status, message>>
          \/ \E result : \E s \in StatusAfter(result) : Throw(c, s)
      BY <1>10 DEF DisconnectCleanup
    <3>2. ASSUME NEW result, NEW s \in StatusAfter(result), Throw(c, s)
          PROVE  status' \in Statuses /\ message' \in BOOLEAN
      BY <3>2, <1>a, StatusesAfter DEF Throw, Show, Statuses
    <3> QED BY <3>1, <3>2, <1>a
  <2>7. last' \in Lasts
    BY <1>10, <1>a DEF DisconnectCleanup
  <2> QED BY <1>10, <2>3, <2>4, <2>5, <2>6, <2>7 DEF DisconnectCleanup
<1>11. ASSUME NEW c \in Callers, DisconnectEnds(c)
       PROVE  Typed'
    BY <1>11, <1>a, CallSteps DEF DisconnectEnds, Show
<1>12. ASSUME NEW k \in Chains, ChainStopped(k)
       PROVE  Typed'
    BY <1>12, CallFields DEF ChainStopped, ChainType, NoChain
<1>13. ASSUME NEW k \in Chains, ChainConnects(k)
       PROVE  Typed'
    BY <1>13, BeginConnectTypes DEF ChainConnects, ChainType
<1>14. ASSUME NEW k \in Chains, ChainEnds(k)
       PROVE  Typed'
    BY <1>14, BeginDisconnectTypes, CallFields DEF ChainEnds, Callers
<1>15. CASE DeletionStopped
    BY <1>15, <1>0 DEF DeletionStopped
<1>16. CASE DeletionEnters
    BY <1>16, <1>0 DEF DeletionEnters, Holds
<1>17. CASE DeletionEnds
    BY <1>17, <1>0 DEF DeletionEnds, HeldInv, Holds
<1>18. CASE Refresh
    BY <1>18, <1>0, <1>a DEF Refresh, Show, Holds
<1>19. CASE Refetch
    BY <1>19 DEF Refetch
<1>20. CASE BackendDies
    BY <1>20, <1>b DEF BackendDies
<1>21. CASE UserConnects
    BY <1>21, <1>b, BeginConnectTypes DEF UserConnects
<1>22. CASE UserDisconnects
    BY <1>22, <1>b, BeginDisconnectTypes DEF UserDisconnects, Callers
<1>23. CASE NetworkChanged
  <2>1. [pc |-> "stop", target |-> None] \in ChainType
    BY CallFields
  <2>2. chain' \in [Chains -> ChainType]
    BY <1>23, <2>1 DEF NetworkChanged
  <2> QED BY <1>23, <1>b, <2>2, BeginDisconnectTypes DEF NetworkChanged, Callers, Chains
<1>24. CASE DeletionBegins
  <2>1. CASE status # "stopped"
      BY <2>1, <1>24, <1>b, BeginDisconnectTypes DEF DeletionBegins, Callers
  <2>2. CASE status = "stopped"
      BY <2>2, <1>24, <1>0, <1>b DEF DeletionBegins
  <2> QED BY <2>1, <2>2
<1>25. ASSUME NEW s \in Servers, SelectServer(s)
       PROVE  Typed'
  <2>1. chain' \in [Chains -> ChainType]
    <3>1. [pc |-> "stop", target |-> s] \in ChainType
        BY CallFields
    <3>2. chain' \in {chain, [chain EXCEPT !["switch"] = [pc |-> "stop", target |-> s]]}
        BY <1>25 DEF SelectServer
    <3> QED BY <3>1, <3>2
  <2> QED BY <1>25, <1>b, <2>1, BeginDisconnectTypes DEF SelectServer, Callers, Chains
<1>26. CASE UNCHANGED vars
    BY <1>26 DEF vars
<1> QED BY <1>1, <1>2, <1>3, <1>4, <1>5, <1>6, <1>7, <1>8, <1>9, <1>10, <1>11, <1>12, <1>13,
           <1>14, <1>15, <1>16, <1>17, <1>18, <1>19, <1>20, <1>21, <1>22, <1>23, <1>24, <1>25, <1>26
        DEF Next, FlightStep, CallStep, ChainStep, DeletionStep

----
(***************************************************************************)
(* Who is inside the mutexes.                                              *)
(***************************************************************************)

LEMMA CatchEffect ==
    ASSUME Typed, NEW e, NEW cl, Catch(e, cl)
    PROVE  /\ flight'.pc \in {"none", "late", "probe"}
           /\ flight'.pc # "none" => flight'.attempt = flight.attempt
           /\ status' \in {status, "running", "error"}
    BY NoFlightType DEF Catch, Typed, Flights, Show, shown

LEMMA BeginDisconnectEffect ==
    ASSUME Typed, NEW c \in Callers, BeginDisconnect(c)
    PROVE  /\ epoch' = epoch + 1 /\ status' = "stopping"
           /\ call'[c].pc = "cleanup" /\ call'[c].attempt = epoch + 1
           /\ \A d \in Callers \ {c} : call'[d] = call[d]
           /\ \A p : Holds(lifecycle, p) => Holds(lifecycle', p)
<1>1. \A p : Holds(lifecycle, p) => Holds(lifecycle', p)
    BY HeadStays DEF BeginDisconnect, Typed, Members
<1> QED BY <1>1 DEF BeginDisconnect, Begin, Show, Typed

LEMMA BeginConnectEffect ==
    ASSUME Typed, BeginConnect
    PROVE  /\ epoch' = epoch + 1 /\ status' \in {"error", "starting"}
           /\ flight'.pc \in {"none", "preflight"}
           /\ flight'.pc # "none" => flight'.attempt = epoch + 1
    BY NoFlightType DEF BeginConnect, Begin, Show, NoFlight, Flights

LEMMA CleanupEffect ==
    ASSUME Typed, NEW c \in Callers, DisconnectCleanup(c)
    PROVE  /\ \A d \in Callers \ {c} : call'[d] = call[d]
           /\ call[c].pc \in {"cleanup", "confirmed"} /\ Holds(lifecycle, c)
           /\ call'[c].attempt = call[c].attempt
           /\ call'[c].pc = "idle" => backend' = None
           /\ backend' \in {None, backend}
           /\ flight' = flight /\ epoch' = epoch
<1>1. call[c] \in CallType /\ call \in [Callers -> CallType]
    BY DEF Typed
<1>2. \A d \in Callers \ {c} : call'[d] = call[d]
    BY <1>1 DEF DisconnectCleanup, Throw
<1>3. call'[c].attempt = call[c].attempt
  <2>1. \/ call' = [call EXCEPT ![c].pc = "idle"]
        \/ call' = [call EXCEPT ![c].pc = "confirmed"]
        \/ call' = [call EXCEPT ![c].pc = "done", ![c].failed = TRUE]
      BY DEF DisconnectCleanup, Throw
  <2> QED BY <2>1, <1>1 DEF CallType
<1>4. call'[c].pc = "idle" => backend' = None
  <2>1. \/ backend' = None
        \/ call' = [call EXCEPT ![c].pc = "confirmed"]
        \/ call' = [call EXCEPT ![c].pc = "done", ![c].failed = TRUE]
      BY StopsKeeps DEF DisconnectCleanup, Throw, Results
  <2> QED BY <2>1, <1>1 DEF CallType
<1> QED BY <1>2, <1>3, <1>4, StopsKeeps DEF DisconnectCleanup, Results

LEMMA HeldNext == Typed /\ HeldInv /\ [Next]_vars => HeldInv'
<1> SUFFICES ASSUME Typed, HeldInv, [Next]_vars
             PROVE  HeldInv'
    OBVIOUS
<1> USE DEF shown, mutexes, HeldInv
<1>0. /\ \A p, x \in Users : Holds(gate, p) => Holds(Append(gate, x), p)
      /\ \A p, x \in Members : Holds(lifecycle, p) => Holds(Append(lifecycle, x), p)
      /\ "flight" \in Members /\ "flight" \in Users /\ "deletion" \in Users
    BY HeadStays DEF Typed, Members, Users
<1>f. flight \in Flights
    BY DEF Typed
<1>1. CASE Preflight
    BY <1>1, <1>0, <1>f, CatchEffect DEF Preflight, Flights
<1>2. CASE Committed
    BY <1>2, <1>0, <1>f, CatchEffect DEF Committed, Holds, Flights
<1>3. CASE Enter
    BY <1>3, <1>f, CatchEffect DEF Enter, Holds, Flights
<1>4. CASE Connected
    BY <1>4, <1>f DEF Connected, Holds, Flights
<1>5. CASE ConnectFails
    BY <1>5, CatchEffect DEF ConnectFails, Holds
<1>6. CASE Undone
    BY <1>6, CatchEffect DEF Undone, Holds
<1>7. CASE LateCleanup
    BY <1>7, NoFlightType DEF LateCleanup
<1>8. CASE Probed
    BY <1>8, NoFlightType DEF Probed
<1>9. CASE Preferred
    BY <1>9, NoFlightType DEF Preferred
<1>10. ASSUME NEW c \in Callers, DisconnectCleanup(c)
       PROVE  HeldInv'
    BY <1>10 DEF DisconnectCleanup, Holds, Callers, Chains
<1>11. ASSUME NEW c \in Callers, DisconnectEnds(c)
       PROVE  HeldInv'
    BY <1>11 DEF DisconnectEnds
<1>12. ASSUME NEW k \in Chains, ChainStopped(k)
       PROVE  HeldInv'
    BY <1>12 DEF ChainStopped
<1>13. ASSUME NEW k \in Chains, ChainConnects(k)
       PROVE  HeldInv'
    BY <1>13, BeginConnectEffect DEF ChainConnects
<1>14. ASSUME NEW k \in Chains, ChainEnds(k)
       PROVE  HeldInv'
    BY <1>14, BeginDisconnectEffect DEF ChainEnds, Callers
<1>15. CASE DeletionStopped
    BY <1>15, <1>0 DEF DeletionStopped
<1>16. CASE DeletionEnters
    BY <1>16 DEF DeletionEnters, Holds
<1>17. CASE DeletionEnds
    BY <1>17 DEF DeletionEnds, Holds
<1>18. CASE Refresh
    BY <1>18 DEF Refresh, Holds
<1>19. CASE Refetch
    BY <1>19 DEF Refetch
<1>20. CASE BackendDies
    BY <1>20 DEF BackendDies
<1>21. CASE UserConnects
    BY <1>21, BeginConnectEffect DEF UserConnects
<1>22. CASE UserDisconnects
    BY <1>22, BeginDisconnectEffect DEF UserDisconnects, Callers
<1>23. CASE NetworkChanged
    BY <1>23, BeginDisconnectEffect DEF NetworkChanged, Callers, Chains
<1>24. CASE DeletionBegins
    BY <1>24, <1>0, BeginDisconnectEffect DEF DeletionBegins, Callers
<1>25. ASSUME NEW s \in Servers, SelectServer(s)
       PROVE  HeldInv'
    BY <1>25, BeginDisconnectEffect DEF SelectServer, Callers, Chains
<1>26. CASE UNCHANGED vars
    BY <1>26 DEF vars, Holds
<1> QED BY <1>1, <1>2, <1>3, <1>4, <1>5, <1>6, <1>7, <1>8, <1>9, <1>10, <1>11, <1>12, <1>13,
           <1>14, <1>15, <1>16, <1>17, <1>18, <1>19, <1>20, <1>21, <1>22, <1>23, <1>24, <1>25, <1>26
        DEF Next, FlightStep, CallStep, ChainStep, DeletionStep
----
(***************************************************************************)
(* Attempts.                                                               *)
(***************************************************************************)

LEMMA EpochNext == Typed /\ EpochInv /\ [Next]_vars => EpochInv'
<1> SUFFICES ASSUME Typed, EpochInv, [Next]_vars
             PROVE  EpochInv'
    OBVIOUS
<1> USE DEF shown, mutexes
<1>f. flight \in Flights /\ epoch \in Nat
    BY DEF Typed
<1>c. /\ \A c \in Callers : call[c].attempt \in Nat
      /\ call \in [Callers -> CallType]
    BY CallSteps DEF Typed
<1>1. CASE Preflight
    BY <1>1, <1>f, <1>c, CatchEffect DEF Preflight, Flights, EpochInv
<1>2. CASE Committed
    BY <1>2, <1>f, <1>c, CatchEffect DEF Committed, Flights, EpochInv
<1>3. CASE Enter
    BY <1>3, <1>f, <1>c, CatchEffect DEF Enter, Flights, EpochInv
<1>4. CASE Connected
    BY <1>4, <1>f, <1>c DEF Connected, Flights, EpochInv
<1>5. CASE ConnectFails
    BY <1>5, <1>f, <1>c, CatchEffect DEF ConnectFails, EpochInv
<1>6. CASE Undone
    BY <1>6, <1>f, <1>c, CatchEffect DEF Undone, EpochInv
<1>7. CASE LateCleanup
    BY <1>7, NoFlightType DEF LateCleanup, EpochInv
<1>8. CASE Probed
    BY <1>8, NoFlightType DEF Probed, EpochInv
<1>9. CASE Preferred
    BY <1>9, NoFlightType DEF Preferred, EpochInv
<1>10. ASSUME NEW c \in Callers, DisconnectCleanup(c)
       PROVE  EpochInv'
    BY <1>10, <1>c, CleanupEffect DEF EpochInv
<1>11. ASSUME NEW c \in Callers, DisconnectEnds(c)
       PROVE  EpochInv'
    BY <1>11, <1>c DEF DisconnectEnds, CallType, EpochInv
<1>12. ASSUME NEW k \in Chains, ChainStopped(k)
       PROVE  EpochInv'
    BY <1>12 DEF ChainStopped, EpochInv
<1>13. ASSUME NEW k \in Chains, ChainConnects(k)
       PROVE  EpochInv'
    BY <1>13, <1>f, <1>c, BeginConnectEffect DEF ChainConnects, Flights, EpochInv
<1>14. ASSUME NEW k \in Chains, ChainEnds(k)
       PROVE  EpochInv'
    BY <1>14, <1>f, <1>c, BeginDisconnectEffect DEF ChainEnds, Flights, Callers, EpochInv
<1>15. CASE DeletionStopped
    BY <1>15 DEF DeletionStopped, EpochInv
<1>16. CASE DeletionEnters
    BY <1>16 DEF DeletionEnters, EpochInv
<1>17. CASE DeletionEnds
    BY <1>17 DEF DeletionEnds, EpochInv
<1>18. CASE Refresh
    BY <1>18 DEF Refresh, EpochInv
<1>19. CASE Refetch
    BY <1>19 DEF Refetch, EpochInv
<1>20. CASE BackendDies
    BY <1>20 DEF BackendDies, EpochInv
<1>21. CASE UserConnects
    BY <1>21, <1>f, <1>c, BeginConnectEffect DEF UserConnects, Flights, EpochInv
<1>22. CASE UserDisconnects
    BY <1>22, <1>f, <1>c, BeginDisconnectEffect DEF UserDisconnects, Flights, Callers, EpochInv
<1>23. CASE NetworkChanged
    BY <1>23, <1>f, <1>c, BeginDisconnectEffect DEF NetworkChanged, Flights, Callers, Chains,
       EpochInv
<1>24. CASE DeletionBegins
    BY <1>24, <1>f, <1>c, BeginDisconnectEffect DEF DeletionBegins, Flights, Callers, EpochInv
<1>25. ASSUME NEW s \in Servers, SelectServer(s)
       PROVE  EpochInv'
    BY <1>25, <1>f, <1>c, BeginDisconnectEffect DEF SelectServer, Flights, Callers, Chains, EpochInv
<1>26. CASE UNCHANGED vars
    BY <1>26 DEF vars, EpochInv
<1> QED BY <1>1, <1>2, <1>3, <1>4, <1>5, <1>6, <1>7, <1>8, <1>9, <1>10, <1>11, <1>12, <1>13,
           <1>14, <1>15, <1>16, <1>17, <1>18, <1>19, <1>20, <1>21, <1>22, <1>23, <1>24, <1>25, <1>26
        DEF Next, FlightStep, CallStep, ChainStep, DeletionStep

LEMMA IdleNext == Typed /\ HeldInv /\ EpochInv /\ IdleInv /\ [Next]_vars => IdleInv'
<1> SUFFICES ASSUME Typed, HeldInv, EpochInv, IdleInv, [Next]_vars
             PROVE  IdleInv'
    OBVIOUS
<1> USE DEF shown, mutexes
<1>f. flight \in Flights /\ epoch \in Nat
    BY DEF Typed
<1>c. /\ \A c \in Callers : call[c].attempt \in Nat
      /\ call \in [Callers -> CallType]
    BY CallSteps DEF Typed
<1>1. CASE Preflight
    BY <1>1, <1>f, <1>c, CatchEffect DEF Preflight, Flights, IdleInv
<1>2. CASE Committed
    BY <1>2, <1>f, <1>c, CatchEffect DEF Committed, Flights, IdleInv
<1>3. CASE Enter
    BY <1>3, <1>f, <1>c, CatchEffect DEF Enter, Flights, EpochInv, IsCurrent, IdleInv
<1>4. CASE Connected
    BY <1>4, <1>f, <1>c DEF Connected, Flights, IdleInv
<1>5. CASE ConnectFails
    BY <1>5, <1>f, <1>c, CatchEffect DEF ConnectFails, IdleInv
<1>6. CASE Undone
    BY <1>6, <1>f, <1>c, CatchEffect DEF Undone, IdleInv
<1>7. CASE LateCleanup
    BY <1>7, NoFlightType, StopsKeeps DEF LateCleanup, Results, IdleInv
<1>8. CASE Probed
    BY <1>8, NoFlightType DEF Probed, IdleInv
<1>9. CASE Preferred
    BY <1>9, NoFlightType DEF Preferred, IdleInv
<1>10. ASSUME NEW c \in Callers, DisconnectCleanup(c)
       PROVE  IdleInv'
    BY <1>10, CleanupEffect DEF HeldInv, Holds, Callers, Chains, IdleInv
<1>11. ASSUME NEW c \in Callers, DisconnectEnds(c)
       PROVE  IdleInv'
    BY <1>11, <1>c DEF DisconnectEnds, CallType, IdleInv
<1>12. ASSUME NEW k \in Chains, ChainStopped(k)
       PROVE  IdleInv'
    BY <1>12 DEF ChainStopped, IdleInv
<1>13. ASSUME NEW k \in Chains, ChainConnects(k)
       PROVE  IdleInv'
    BY <1>13, <1>f, <1>c, BeginConnectEffect DEF ChainConnects, Flights, EpochInv, IdleInv
<1>14. ASSUME NEW k \in Chains, ChainEnds(k)
       PROVE  IdleInv'
    BY <1>14, <1>f, <1>c, BeginDisconnectEffect DEF ChainEnds, Flights, EpochInv, Callers, IdleInv
<1>15. CASE DeletionStopped
    BY <1>15 DEF DeletionStopped, IdleInv
<1>16. CASE DeletionEnters
    BY <1>16 DEF DeletionEnters, IdleInv
<1>17. CASE DeletionEnds
    BY <1>17 DEF DeletionEnds, IdleInv
<1>18. CASE Refresh
    BY <1>18 DEF Refresh, IdleInv
<1>19. CASE Refetch
    BY <1>19 DEF Refetch, IdleInv
<1>20. CASE BackendDies
    BY <1>20 DEF BackendDies, IdleInv
<1>21. CASE UserConnects
    BY <1>21, <1>f, <1>c, BeginConnectEffect DEF UserConnects, Flights, EpochInv, IdleInv
<1>22. CASE UserDisconnects
    BY <1>22, <1>f, <1>c, BeginDisconnectEffect DEF UserDisconnects, Flights, EpochInv, Callers,
       IdleInv
<1>23. CASE NetworkChanged
    BY <1>23, <1>f, <1>c, BeginDisconnectEffect
       DEF NetworkChanged, Flights, EpochInv, Callers, Chains, IdleInv
<1>24. CASE DeletionBegins
    BY <1>24, <1>f, <1>c, BeginDisconnectEffect DEF DeletionBegins, Flights, EpochInv, Callers,
       IdleInv
<1>25. ASSUME NEW s \in Servers, SelectServer(s)
       PROVE  IdleInv'
    BY <1>25, <1>f, <1>c, BeginDisconnectEffect DEF SelectServer, Flights, EpochInv, Callers,
       Chains, IdleInv
<1>26. CASE UNCHANGED vars
    BY <1>26 DEF vars, IdleInv
<1> QED BY <1>1, <1>2, <1>3, <1>4, <1>5, <1>6, <1>7, <1>8, <1>9, <1>10, <1>11, <1>12, <1>13,
           <1>14, <1>15, <1>16, <1>17, <1>18, <1>19, <1>20, <1>21, <1>22, <1>23, <1>24, <1>25, <1>26
        DEF Next, FlightStep, CallStep, ChainStep, DeletionStep

LEMMA StoppedNext == Typed /\ HeldInv /\ EpochInv /\ IdleInv /\ StoppedInv /\ [Next]_vars => StoppedInv'
<1> SUFFICES ASSUME Typed, HeldInv, EpochInv, IdleInv, StoppedInv, [Next]_vars
             PROVE  StoppedInv'
    OBVIOUS
<1> USE DEF shown, mutexes
<1>f. flight \in Flights /\ epoch \in Nat
    BY DEF Typed
<1>c. /\ \A c \in Callers : call[c].attempt \in Nat
      /\ call \in [Callers -> CallType]
    BY CallSteps DEF Typed
<1>1. CASE Preflight
    BY <1>1, CatchEffect DEF Preflight, StoppedInv
<1>2. CASE Committed
    BY <1>2, CatchEffect DEF Committed, StoppedInv
<1>3. CASE Enter
    BY <1>3, CatchEffect DEF Enter, StoppedInv
<1>4. CASE Connected
    BY <1>4, <1>f DEF Connected, Flights, Show, StoppedInv
<1>5. CASE ConnectFails
    BY <1>5, CatchEffect DEF ConnectFails, StoppedInv
<1>6. CASE Undone
    BY <1>6, CatchEffect DEF Undone, StoppedInv
<1>7. CASE LateCleanup
    BY <1>7, NoFlightType, StopsKeeps DEF LateCleanup, Results, StoppedInv
<1>8. CASE Probed
    BY <1>8, NoFlightType DEF Probed, Show, StoppedInv
<1>9. CASE Preferred
    BY <1>9, NoFlightType DEF Preferred, StoppedInv
<1>10. ASSUME NEW c \in Callers, DisconnectCleanup(c)
       PROVE  StoppedInv'
    BY <1>10, <1>c, StopsKeeps, StatusesAfter DEF DisconnectCleanup, Throw, Show, Results, StoppedInv
<1>11. ASSUME NEW c \in Callers, DisconnectEnds(c)
       PROVE  StoppedInv'
    BY <1>11, <1>c DEF DisconnectEnds, IdleInv, IsCurrent, Show, StoppedInv
<1>12. ASSUME NEW k \in Chains, ChainStopped(k)
       PROVE  StoppedInv'
    BY <1>12 DEF ChainStopped, StoppedInv
<1>13. ASSUME NEW k \in Chains, ChainConnects(k)
       PROVE  StoppedInv'
    BY <1>13, BeginConnectEffect DEF ChainConnects, StoppedInv
<1>14. ASSUME NEW k \in Chains, ChainEnds(k)
       PROVE  StoppedInv'
    BY <1>14, BeginDisconnectEffect DEF ChainEnds, Callers, StoppedInv
<1>15. CASE DeletionStopped
    BY <1>15 DEF DeletionStopped, StoppedInv
<1>16. CASE DeletionEnters
    BY <1>16 DEF DeletionEnters, StoppedInv
<1>17. CASE DeletionEnds
    BY <1>17 DEF DeletionEnds, StoppedInv
<1>18. CASE Refresh
    BY <1>18, <1>f DEF Refresh, EpochInv, IsCurrent, Show, Flights, StoppedInv
<1>19. CASE Refetch
    BY <1>19 DEF Refetch, StoppedInv
<1>20. CASE BackendDies
    BY <1>20 DEF BackendDies, StoppedInv
<1>21. CASE UserConnects
    BY <1>21, BeginConnectEffect DEF UserConnects, StoppedInv
<1>22. CASE UserDisconnects
    BY <1>22, BeginDisconnectEffect DEF UserDisconnects, Callers, StoppedInv
<1>23. CASE NetworkChanged
    BY <1>23, BeginDisconnectEffect DEF NetworkChanged, Callers, Chains, StoppedInv
<1>24. CASE DeletionBegins
    BY <1>24, BeginDisconnectEffect DEF DeletionBegins, Callers, StoppedInv
<1>25. ASSUME NEW s \in Servers, SelectServer(s)
       PROVE  StoppedInv'
    BY <1>25, BeginDisconnectEffect DEF SelectServer, Callers, Chains, StoppedInv
<1>26. CASE UNCHANGED vars
    BY <1>26 DEF vars, StoppedInv
<1> QED BY <1>1, <1>2, <1>3, <1>4, <1>5, <1>6, <1>7, <1>8, <1>9, <1>10, <1>11, <1>12, <1>13,
           <1>14, <1>15, <1>16, <1>17, <1>18, <1>19, <1>20, <1>21, <1>22, <1>23, <1>24, <1>25, <1>26
        DEF Next, FlightStep, CallStep, ChainStep, DeletionStep

LEMMA DestroyNext == Typed /\ HeldInv /\ StoppedInv /\ DestroyInv /\ [Next]_vars => DestroyInv'
<1> SUFFICES ASSUME Typed, HeldInv, StoppedInv, DestroyInv, [Next]_vars
             PROVE  DestroyInv'
    OBVIOUS
<1> USE DEF shown, mutexes
<1>f. flight \in Flights /\ epoch \in Nat
    BY DEF Typed
<1>c. /\ \A c \in Callers : call[c].attempt \in Nat
      /\ call \in [Callers -> CallType]
    BY CallSteps DEF Typed
<1>1. CASE Preflight
    BY <1>1, <1>f, CatchEffect DEF Preflight, Flights, DestroyInv
<1>2. CASE Committed
    BY <1>2, <1>f, CatchEffect DEF Committed, Flights, Holds, DestroyInv
<1>3. CASE Enter
    BY <1>3, <1>f, CatchEffect DEF Enter, Flights, HeldInv, Holds, DestroyInv
<1>4. CASE Connected
    BY <1>4, <1>f DEF Connected, Flights, HeldInv, Holds, DestroyInv
<1>5. CASE ConnectFails
    BY <1>5, CatchEffect DEF ConnectFails, HeldInv, Holds, DestroyInv
<1>6. CASE Undone
    BY <1>6, CatchEffect DEF Undone, HeldInv, Holds, DestroyInv
<1>7. CASE LateCleanup
    BY <1>7, NoFlightType, StopsKeeps DEF LateCleanup, Results, DestroyInv
<1>8. CASE Probed
    BY <1>8, NoFlightType DEF Probed, DestroyInv
<1>9. CASE Preferred
    BY <1>9, NoFlightType DEF Preferred, DestroyInv
<1>10. ASSUME NEW c \in Callers, DisconnectCleanup(c)
       PROVE  DestroyInv'
    BY <1>10, StopsKeeps DEF DisconnectCleanup, Results, DestroyInv
<1>11. ASSUME NEW c \in Callers, DisconnectEnds(c)
       PROVE  DestroyInv'
    BY <1>11 DEF DisconnectEnds, DestroyInv
<1>12. ASSUME NEW k \in Chains, ChainStopped(k)
       PROVE  DestroyInv'
    BY <1>12 DEF ChainStopped, DestroyInv
<1>13. ASSUME NEW k \in Chains, ChainConnects(k)
       PROVE  DestroyInv'
    BY <1>13, BeginConnectEffect DEF ChainConnects, DestroyInv
<1>14. ASSUME NEW k \in Chains, ChainEnds(k)
       PROVE  DestroyInv'
    BY <1>14, BeginDisconnectEffect DEF ChainEnds, Callers, DestroyInv
<1>15. CASE DeletionStopped
    BY <1>15 DEF DeletionStopped, DestroyInv
<1>16. CASE DeletionEnters
    BY <1>16 DEF DeletionEnters, StoppedInv, DestroyInv
<1>17. CASE DeletionEnds
    BY <1>17 DEF DeletionEnds, DestroyInv
<1>18. CASE Refresh
    BY <1>18 DEF Refresh, DestroyInv
<1>19. CASE Refetch
    BY <1>19 DEF Refetch, DestroyInv
<1>20. CASE BackendDies
    BY <1>20 DEF BackendDies, DestroyInv
<1>21. CASE UserConnects
    BY <1>21, BeginConnectEffect DEF UserConnects, DestroyInv
<1>22. CASE UserDisconnects
    BY <1>22, BeginDisconnectEffect DEF UserDisconnects, Callers, DestroyInv
<1>23. CASE NetworkChanged
    BY <1>23, BeginDisconnectEffect DEF NetworkChanged, Callers, Chains, DestroyInv
<1>24. CASE DeletionBegins
    BY <1>24, BeginDisconnectEffect DEF DeletionBegins, Callers, DestroyInv
<1>25. ASSUME NEW s \in Servers, SelectServer(s)
       PROVE  DestroyInv'
    BY <1>25, BeginDisconnectEffect DEF SelectServer, Callers, Chains, DestroyInv
<1>26. CASE UNCHANGED vars
    BY <1>26 DEF vars, DestroyInv
<1> QED BY <1>1, <1>2, <1>3, <1>4, <1>5, <1>6, <1>7, <1>8, <1>9, <1>10, <1>11, <1>12, <1>13,
           <1>14, <1>15, <1>16, <1>17, <1>18, <1>19, <1>20, <1>21, <1>22, <1>23, <1>24, <1>25, <1>26
        DEF Next, FlightStep, CallStep, ChainStep, DeletionStep

----
(***************************************************************************)
(* What becomes of the newest call.                                        *)
(***************************************************************************)

\* An attempt that is not the newest is caught in silence; the newest ends with
\* its error on the screen, or asks what still runs.
LEMMA CatchOutcome ==
    ASSUME Typed, NEW e, NEW cl, Catch(e, cl)
    PROVE  /\ flight.attempt # epoch =>
                /\ status' = status /\ message' = message /\ last' = last
                /\ flight'.pc \in {"none", "late"}
           /\ flight.attempt = epoch /\ e # "cancelled" =>
                /\ last' = "failed"
                /\ \/ flight'.pc = "none" /\ status' \in {"running", "error"} /\ message'
                   \/ flight'.pc = "probe" /\ status' = status /\ message' = message
    BY NoFlightType DEF Catch, IsCurrent, Typed, Flights, Show, shown

LEMMA BeginDisconnectOutcome ==
    ASSUME NEW c \in Callers, BeginDisconnect(c)
    PROVE  last' = "disconnect"
    BY DEF BeginDisconnect, Begin

LEMMA BeginConnectOutcome ==
    ASSUME Typed, BeginConnect
    PROVE  \/ /\ last' = "failed" /\ status' = "error" /\ message'
              /\ flight'.pc = "none"
           \/ /\ last' = "connect" /\ status' = "starting"
              /\ flight'.pc = "preflight" /\ flight'.attempt = epoch + 1
    BY NoFlightType DEF BeginConnect, Begin, Show, NoFlight, Flights

LEMMA CleanupOutcome ==
    ASSUME Typed, NEW c \in Callers, DisconnectCleanup(c)
    PROVE  /\ call[c].attempt # epoch =>
                status' = status /\ message' = message /\ last' = last
           /\ call[c].attempt = epoch =>
                \/ /\ call'[c].pc = "confirmed" /\ last' = last
                   /\ status' = status /\ message' = message
                \/ /\ call'[c].pc = "idle" /\ last' = "disconnected"
                   /\ status' = status /\ message' = message
                \/ /\ call'[c].pc = "done" /\ last' = "failed"
                   /\ status' \in {"running", "error"} /\ message'
           /\ call'[c].pc \in {"confirmed", "idle", "done"}
<1>1. call[c] \in CallType /\ call \in [Callers -> CallType]
    BY DEF Typed
<1>2. /\ [call EXCEPT ![c].pc = "idle"][c].pc = "idle"
      /\ [call EXCEPT ![c].pc = "confirmed"][c].pc = "confirmed"
      /\ [call EXCEPT ![c].pc = "done", ![c].failed = TRUE][c].pc = "done"
    BY <1>1 DEF CallType
<1> QED BY <1>2, StatusesAfter DEF DisconnectCleanup, Throw, IsCurrent, Show, shown

LEMMA EndsOutcome ==
    ASSUME Typed, NEW c \in Callers, DisconnectEnds(c)
    PROVE  /\ call[c].pc = "idle" /\ call'[c].pc = "done"
           /\ call'[c].attempt = call[c].attempt
           /\ \A d \in Callers \ {c} : call'[d] = call[d]
           /\ flight.pc = "none" /\ flight' = flight /\ epoch' = epoch /\ last' = last
           /\ backend' = backend
           /\ call[c].attempt = epoch => status' = "stopped" /\ ~message'
           /\ call[c].attempt # epoch => status' = status /\ message' = message
    BY DEF DisconnectEnds, Typed, CallType, IsCurrent, Show, shown

LEMMA CurrentNext == Typed /\ EpochInv /\ CurrentInv /\ [Next]_vars => CurrentInv'
<1> SUFFICES ASSUME Typed, EpochInv, CurrentInv, [Next]_vars
             PROVE  CurrentInv'
    OBVIOUS
<1> USE DEF shown, mutexes
<1>f. flight \in Flights /\ epoch \in Nat
    BY DEF Typed
<1>c. /\ \A c \in Callers : call[c].attempt \in Nat
      /\ call \in [Callers -> CallType]
    BY CallSteps DEF Typed
<1>1. CASE Preflight
    BY <1>1, <1>f, CatchEffect, CatchOutcome DEF Preflight, Underway, Active, IsCurrent, Flights,
       CurrentInv
<1>2. CASE Committed
  <2>1. CASE /\ flight' = [flight EXCEPT !.pc = "wait"] /\ flight.pc = "gate"
             /\ UNCHANGED <<status, message, last, epoch, call, reading, backend>>
      BY <2>1, <1>f DEF Flights, Underway, Active, Busy, CurrentInv
  <2>2. ASSUME NEW e \in {"failed", "retained"}, Catch(e, FALSE), flight.pc = "gate",
               UNCHANGED <<epoch, call, reading>>
        PROVE  CurrentInv'
      BY <2>2, <1>f, CatchEffect, CatchOutcome DEF Underway, Active, Busy, CurrentInv
  <2> QED BY <1>2, <2>1, <2>2 DEF Committed
<1>3. CASE Enter
    BY <1>3, <1>f, CatchEffect, CatchOutcome DEF Enter, Underway, Active, IsCurrent, Flights,
       CurrentInv
<1>4. CASE Connected
    BY <1>4, <1>f DEF Connected, Underway, Active, IsCurrent, Flights, Show, CurrentInv
<1>5. CASE ConnectFails
  <2>1. ASSUME NEW e \in {"failed", "retained"}, Catch(e, FALSE), flight.pc = "invoke",
               UNCHANGED <<epoch, call, reading>>
        PROVE  CurrentInv'
      BY <2>1, <1>f, CatchEffect, CatchOutcome DEF Underway, Active, Busy, CurrentInv
  <2> QED BY <1>5, <2>1 DEF ConnectFails
<1>6. CASE Undone
  <2>1. ASSUME NEW e, NEW cl \in BOOLEAN, Catch(e, cl), flight.pc = "undo",
               e = "cancelled" => flight.attempt # epoch,
               UNCHANGED <<epoch, call, reading>>
        PROVE  CurrentInv'
      BY <2>1, <1>f, CatchEffect, CatchOutcome DEF Underway, Active, Busy, CurrentInv
  <2>2. flight.pc = "undo" /\ UNCHANGED <<epoch, call, reading>>
    BY <1>6 DEF Undone
  <2>3. flight.error = "cancelled" => flight.attempt # epoch
    BY <2>2, <1>f DEF Underway, Active, CurrentInv, EpochInv, IsCurrent
  <2>4. PICK result : \/ Catch(flight.error, TRUE)
                      \/ \E s \in StatusAfter(result) : Catch(s, FALSE)
                      \/ Catch("retained", FALSE)
    BY <1>6 DEF Undone
  <2> QED BY <2>1, <2>2, <2>3, <2>4, StatusesAfter
<1>7. CASE LateCleanup
    BY <1>7, NoFlightType DEF LateCleanup, Underway, Active, CurrentInv
<1>8. CASE Probed
    BY <1>8, NoFlightType DEF Probed, Underway, Active, Show, CurrentInv
<1>9. CASE Preferred
    BY <1>9, NoFlightType DEF Preferred, Underway, Active, CurrentInv
<1>10. ASSUME NEW c \in Callers, DisconnectCleanup(c)
       PROVE  CurrentInv'
    BY <1>10, <1>c, CleanupEffect, CleanupOutcome DEF DisconnectCleanup, Underway, Active,
       CurrentInv
<1>11. ASSUME NEW c \in Callers, DisconnectEnds(c)
       PROVE  CurrentInv'
    BY <1>11, <1>c, EndsOutcome DEF DisconnectEnds, Underway, Active, CurrentInv
<1>12. ASSUME NEW k \in Chains, ChainStopped(k)
       PROVE  CurrentInv'
    BY <1>12 DEF ChainStopped, CurrentInv
<1>13. ASSUME NEW k \in Chains, ChainConnects(k)
       PROVE  CurrentInv'
    BY <1>13, <1>f, <1>c, BeginConnectEffect, BeginConnectOutcome DEF ChainConnects, Underway,
       Active, EpochInv, CurrentInv
<1>14. ASSUME NEW k \in Chains, ChainEnds(k)
       PROVE  CurrentInv'
    BY <1>14, <1>f, <1>c, BeginDisconnectEffect, BeginDisconnectOutcome DEF ChainEnds, Underway,
       Active, EpochInv, Callers, CurrentInv
<1>15. CASE DeletionStopped
    BY <1>15 DEF DeletionStopped, CurrentInv
<1>16. CASE DeletionEnters
    BY <1>16 DEF DeletionEnters, CurrentInv
<1>17. CASE DeletionEnds
    BY <1>17 DEF DeletionEnds, CurrentInv
<1>18. CASE Refresh
    BY <1>18, <1>f DEF Refresh, Underway, Active, EpochInv, IsCurrent, Show, Flights, CurrentInv
<1>19. CASE Refetch
    BY <1>19 DEF Refetch, CurrentInv
<1>20. CASE BackendDies
    BY <1>20 DEF BackendDies, CurrentInv
<1>21. CASE UserConnects
    BY <1>21, <1>f, <1>c, BeginConnectEffect, BeginConnectOutcome DEF UserConnects, Underway,
       Active, EpochInv, CurrentInv
<1>22. CASE UserDisconnects
    BY <1>22, <1>f, <1>c, BeginDisconnectEffect, BeginDisconnectOutcome DEF UserDisconnects,
       Underway, Active, EpochInv, Callers, CurrentInv
<1>23. CASE NetworkChanged
    BY <1>23, <1>f, <1>c, BeginDisconnectEffect, BeginDisconnectOutcome DEF NetworkChanged,
       Underway, Active, EpochInv, Callers, Chains, CurrentInv
<1>24. CASE DeletionBegins
    BY <1>24, <1>f, <1>c, BeginDisconnectEffect, BeginDisconnectOutcome DEF DeletionBegins,
       Underway, Active, EpochInv, Callers, CurrentInv
<1>25. ASSUME NEW s \in Servers, SelectServer(s)
       PROVE  CurrentInv'
    BY <1>25, <1>f, <1>c, BeginDisconnectEffect, BeginDisconnectOutcome DEF SelectServer, Underway,
       Active, EpochInv, Callers, Chains, CurrentInv
<1>26. CASE UNCHANGED vars
    BY <1>26 DEF vars, CurrentInv
<1> QED BY <1>1, <1>2, <1>3, <1>4, <1>5, <1>6, <1>7, <1>8, <1>9, <1>10, <1>11, <1>12, <1>13,
           <1>14, <1>15, <1>16, <1>17, <1>18, <1>19, <1>20, <1>21, <1>22, <1>23, <1>24, <1>25, <1>26
        DEF Next, FlightStep, CallStep, ChainStep, DeletionStep

LEMMA OutcomeNext == Typed /\ EpochInv /\ StoppedInv /\ CurrentInv /\ OutcomeInv /\ [Next]_vars => OutcomeInv'
<1> SUFFICES ASSUME Typed, EpochInv, StoppedInv, CurrentInv, OutcomeInv, [Next]_vars
             PROVE  OutcomeInv'
    OBVIOUS
<1> USE DEF shown, mutexes
<1>f. flight \in Flights /\ epoch \in Nat
    BY DEF Typed
<1>c. /\ \A c \in Callers : call[c].attempt \in Nat
      /\ call \in [Callers -> CallType]
    BY CallSteps DEF Typed
<1>m. message \in BOOLEAN
    BY DEF Typed
<1>1. CASE Preflight
    BY <1>1, <1>f, CatchEffect, CatchOutcome DEF Preflight, Underway, Active, IsCurrent, Flights,
       Busy, CurrentInv, OutcomeInv
<1>2. CASE Committed
  <2>1. CASE /\ flight' = [flight EXCEPT !.pc = "wait"] /\ flight.pc = "gate"
             /\ UNCHANGED <<status, message, last, epoch, call, reading, backend>>
      BY <2>1, <1>f DEF Flights, Underway, Active, Busy, OutcomeInv
  <2>2. ASSUME NEW e \in {"failed", "retained"}, Catch(e, FALSE), flight.pc = "gate",
               UNCHANGED <<epoch, call, reading>>
        PROVE  OutcomeInv'
      BY <2>2, <1>f, CatchEffect, CatchOutcome DEF Underway, Active, Busy, OutcomeInv, CurrentInv
  <2> QED BY <1>2, <2>1, <2>2 DEF Committed
<1>3. CASE Enter
    BY <1>3, <1>f, CatchEffect, CatchOutcome DEF Enter, Underway, Active, IsCurrent, Flights, Busy,
       CurrentInv, OutcomeInv
<1>4. CASE Connected
    BY <1>4, <1>f DEF Connected, Underway, Active, IsCurrent, Flights, Show, Busy, CurrentInv,
       OutcomeInv
<1>5. CASE ConnectFails
  <2>1. ASSUME NEW e \in {"failed", "retained"}, Catch(e, FALSE), flight.pc = "invoke",
               UNCHANGED <<epoch, call, reading>>
        PROVE  OutcomeInv'
      BY <2>1, <1>f, CatchEffect, CatchOutcome DEF Underway, Active, Busy, OutcomeInv, CurrentInv
  <2> QED BY <1>5, <2>1 DEF ConnectFails
<1>6. CASE Undone
  <2>1. ASSUME NEW e, NEW cl \in BOOLEAN, Catch(e, cl), flight.pc = "undo",
               e = "cancelled" => flight.attempt # epoch,
               UNCHANGED <<epoch, call, reading>>
        PROVE  OutcomeInv'
      BY <2>1, <1>f, CatchEffect, CatchOutcome DEF Underway, Active, Busy, OutcomeInv, CurrentInv
  <2>2. flight.pc = "undo" /\ UNCHANGED <<epoch, call, reading>>
    BY <1>6 DEF Undone
  <2>3. flight.error = "cancelled" => flight.attempt # epoch
    BY <2>2, <1>f DEF Underway, Active, CurrentInv, EpochInv, IsCurrent
  <2>4. PICK result : \/ Catch(flight.error, TRUE)
                      \/ \E s \in StatusAfter(result) : Catch(s, FALSE)
                      \/ Catch("retained", FALSE)
    BY <1>6 DEF Undone
  <2> QED BY <2>1, <2>2, <2>3, <2>4, StatusesAfter
<1>7. CASE LateCleanup
    BY <1>7, NoFlightType DEF LateCleanup, Underway, Active, Busy, CurrentInv, StoppedInv,
       OutcomeInv
<1>8. CASE Probed
    BY <1>8, NoFlightType, <1>m DEF Probed, Underway, Active, Show, Busy, CurrentInv, StoppedInv,
       OutcomeInv
<1>9. CASE Preferred
    BY <1>9, NoFlightType DEF Preferred, Underway, Active, Busy, CurrentInv, OutcomeInv
<1>10. ASSUME NEW c \in Callers, DisconnectCleanup(c)
       PROVE  OutcomeInv'
    BY <1>10, <1>c, CleanupEffect, CleanupOutcome DEF DisconnectCleanup, Underway, Active, Busy,
       CurrentInv, OutcomeInv
<1>11. ASSUME NEW c \in Callers, DisconnectEnds(c)
       PROVE  OutcomeInv'
    BY <1>11, <1>c, EndsOutcome DEF DisconnectEnds, Underway, Active, Busy, CurrentInv, OutcomeInv
<1>12. ASSUME NEW k \in Chains, ChainStopped(k)
       PROVE  OutcomeInv'
    BY <1>12 DEF ChainStopped, Busy, OutcomeInv
<1>13. ASSUME NEW k \in Chains, ChainConnects(k)
       PROVE  OutcomeInv'
    BY <1>13, <1>f, <1>c, BeginConnectEffect, BeginConnectOutcome DEF ChainConnects, Underway,
       Active, EpochInv, Busy, OutcomeInv
<1>14. ASSUME NEW k \in Chains, ChainEnds(k)
       PROVE  OutcomeInv'
    BY <1>14, <1>f, <1>c, BeginDisconnectEffect, BeginDisconnectOutcome DEF ChainEnds, Underway,
       Active, EpochInv, Callers, Busy, OutcomeInv
<1>15. CASE DeletionStopped
    BY <1>15 DEF DeletionStopped, Busy, OutcomeInv
<1>16. CASE DeletionEnters
    BY <1>16 DEF DeletionEnters, Busy, OutcomeInv
<1>17. CASE DeletionEnds
    BY <1>17 DEF DeletionEnds, Busy, OutcomeInv
<1>18. CASE Refresh
    BY <1>18, <1>f, <1>m DEF Refresh, Underway, Active, EpochInv, IsCurrent, Show, Flights, Busy,
       OutcomeInv
<1>19. CASE Refetch
    BY <1>19 DEF Refetch, Busy, OutcomeInv
<1>20. CASE BackendDies
    BY <1>20 DEF BackendDies, Busy, OutcomeInv
<1>21. CASE UserConnects
    BY <1>21, <1>f, <1>c, BeginConnectEffect, BeginConnectOutcome DEF UserConnects, Underway,
       Active, EpochInv, Busy, OutcomeInv
<1>22. CASE UserDisconnects
    BY <1>22, <1>f, <1>c, BeginDisconnectEffect, BeginDisconnectOutcome DEF UserDisconnects,
       Underway, Active, EpochInv, Callers, Busy, OutcomeInv
<1>23. CASE NetworkChanged
    BY <1>23, <1>f, <1>c, BeginDisconnectEffect, BeginDisconnectOutcome DEF NetworkChanged,
       Underway, Active, EpochInv, Callers, Chains, Busy, OutcomeInv
<1>24. CASE DeletionBegins
    BY <1>24, <1>f, <1>c, BeginDisconnectEffect, BeginDisconnectOutcome DEF DeletionBegins,
       Underway, Active, EpochInv, Callers, Busy, OutcomeInv
<1>25. ASSUME NEW s \in Servers, SelectServer(s)
       PROVE  OutcomeInv'
    BY <1>25, <1>f, <1>c, BeginDisconnectEffect, BeginDisconnectOutcome DEF SelectServer, Underway,
       Active, EpochInv, Callers, Chains, Busy, OutcomeInv
<1>26. CASE UNCHANGED vars
    BY <1>26 DEF vars, Busy, OutcomeInv
<1> QED BY <1>1, <1>2, <1>3, <1>4, <1>5, <1>6, <1>7, <1>8, <1>9, <1>10, <1>11, <1>12, <1>13,
           <1>14, <1>15, <1>16, <1>17, <1>18, <1>19, <1>20, <1>21, <1>22, <1>23, <1>24, <1>25, <1>26
        DEF Next, FlightStep, CallStep, ChainStep, DeletionStep

LEMMA EndedNext == Typed /\ EpochInv /\ StoppedInv /\ IdleInv /\ EndedInv /\ [Next]_vars => EndedInv'
<1> SUFFICES ASSUME Typed, EpochInv, StoppedInv, IdleInv, EndedInv, [Next]_vars
             PROVE  EndedInv'
    OBVIOUS
<1> USE DEF shown, mutexes
<1>f. flight \in Flights /\ epoch \in Nat
    BY DEF Typed
<1>c. /\ \A c \in Callers : call[c].attempt \in Nat
      /\ call \in [Callers -> CallType]
    BY CallSteps DEF Typed
<1>1. CASE Preflight
    BY <1>1, <1>f, CatchEffect, CatchOutcome DEF Preflight, Underway, Active, IsCurrent, Flights,
       StoppedInv, EndedInv
<1>2. CASE Committed
    BY <1>2, <1>f, CatchEffect, CatchOutcome DEF Committed, Underway, Active, IsCurrent, Flights,
       StoppedInv, EndedInv
<1>3. CASE Enter
    BY <1>3, <1>f, CatchEffect, CatchOutcome DEF Enter, Underway, Active, IsCurrent, Flights,
       StoppedInv, EndedInv
<1>4. CASE Connected
    BY <1>4, <1>f DEF Connected, Underway, Active, IsCurrent, Flights, Show, StoppedInv, EndedInv
<1>5. CASE ConnectFails
    BY <1>5, <1>f, CatchEffect, CatchOutcome DEF ConnectFails, Underway, Active, IsCurrent,
       StoppedInv, EndedInv
<1>6. CASE Undone
    BY <1>6, <1>f, CatchEffect, CatchOutcome, StopsKeeps DEF Undone, Underway, Active, IsCurrent,
       Flights, StoppedInv, Results, EndedInv
<1>7. CASE LateCleanup
    BY <1>7, NoFlightType, StopsKeeps DEF LateCleanup, Underway, Active, StoppedInv, Results,
       EndedInv
<1>8. CASE Probed
    BY <1>8, NoFlightType DEF Probed, Underway, Active, Show, EndedInv
<1>9. CASE Preferred
    BY <1>9, NoFlightType DEF Preferred, Underway, Active, EndedInv
<1>10. ASSUME NEW c \in Callers, DisconnectCleanup(c)
       PROVE  EndedInv'
    BY <1>10, <1>c, CleanupEffect, CleanupOutcome, StopsKeeps DEF DisconnectCleanup, Underway,
       Active, StoppedInv, Results, EndedInv
<1>11. ASSUME NEW c \in Callers, DisconnectEnds(c)
       PROVE  EndedInv'
    BY <1>11, <1>c, EndsOutcome DEF DisconnectEnds, Underway, Active, IdleInv, EndedInv
<1>12. ASSUME NEW k \in Chains, ChainStopped(k)
       PROVE  EndedInv'
    BY <1>12 DEF ChainStopped, EndedInv
<1>13. ASSUME NEW k \in Chains, ChainConnects(k)
       PROVE  EndedInv'
    BY <1>13, <1>f, <1>c, BeginConnectEffect, BeginConnectOutcome DEF ChainConnects, Underway,
       Active, EpochInv, EndedInv
<1>14. ASSUME NEW k \in Chains, ChainEnds(k)
       PROVE  EndedInv'
    BY <1>14, <1>f, <1>c, BeginDisconnectEffect, BeginDisconnectOutcome DEF ChainEnds, Underway,
       Active, EpochInv, Callers, EndedInv
<1>15. CASE DeletionStopped
    BY <1>15 DEF DeletionStopped, EndedInv
<1>16. CASE DeletionEnters
    BY <1>16 DEF DeletionEnters, EndedInv
<1>17. CASE DeletionEnds
    BY <1>17 DEF DeletionEnds, EndedInv
<1>18. CASE Refresh
    BY <1>18, <1>f DEF Refresh, Underway, Active, EpochInv, IsCurrent, Show, Flights, EndedInv
<1>19. CASE Refetch
    BY <1>19 DEF Refetch, EndedInv
<1>20. CASE BackendDies
    BY <1>20 DEF BackendDies, EndedInv
<1>21. CASE UserConnects
    BY <1>21, <1>f, <1>c, BeginConnectEffect, BeginConnectOutcome DEF UserConnects, Underway,
       Active, EpochInv, EndedInv
<1>22. CASE UserDisconnects
    BY <1>22, <1>f, <1>c, BeginDisconnectEffect, BeginDisconnectOutcome DEF UserDisconnects,
       Underway, Active, EpochInv, Callers, EndedInv
<1>23. CASE NetworkChanged
    BY <1>23, <1>f, <1>c, BeginDisconnectEffect, BeginDisconnectOutcome DEF NetworkChanged,
       Underway, Active, EpochInv, Callers, Chains, EndedInv
<1>24. CASE DeletionBegins
    BY <1>24, <1>f, <1>c, BeginDisconnectEffect, BeginDisconnectOutcome DEF DeletionBegins,
       Underway, Active, EpochInv, Callers, EndedInv
<1>25. ASSUME NEW s \in Servers, SelectServer(s)
       PROVE  EndedInv'
    BY <1>25, <1>f, <1>c, BeginDisconnectEffect, BeginDisconnectOutcome DEF SelectServer, Underway,
       Active, EpochInv, Callers, Chains, EndedInv
<1>26. CASE UNCHANGED vars
    BY <1>26 DEF vars, EndedInv
<1> QED BY <1>1, <1>2, <1>3, <1>4, <1>5, <1>6, <1>7, <1>8, <1>9, <1>10, <1>11, <1>12, <1>13,
           <1>14, <1>15, <1>16, <1>17, <1>18, <1>19, <1>20, <1>21, <1>22, <1>23, <1>24, <1>25, <1>26
        DEF Next, FlightStep, CallStep, ChainStep, DeletionStep

----
(***************************************************************************)
(* The theorems.                                                           *)
(***************************************************************************)

LEMMA InvariantHolds == Spec => []Invariant
<1>1. Init => Invariant
  <2> SUFFICES ASSUME Init PROVE Invariant
      OBVIOUS
  <2>1. flight.pc = "none" /\ deletion = "none" /\ backend \in {None, Inherited} /\ epoch = 0
      BY NoFlightType DEF Init
  <2>2. \A c \in Callers : call[c].pc = "none" /\ call[c].attempt = 0
      BY DEF Init, NoCall
  <2>3. CurrentInv /\ OutcomeInv /\ EndedInv
      BY <2>1, <2>2 DEF Init, CurrentInv, OutcomeInv, EndedInv, Busy, Active
  <2> QED BY TypedInit, <2>1, <2>2, <2>3
          DEF Invariant, HeldInv, EpochInv, IdleInv, StoppedInv, DestroyInv
<1>2. Invariant /\ [Next]_vars => Invariant'
    BY TypedNext, HeldNext, EpochNext, IdleNext, StoppedNext, DestroyNext,
       CurrentNext, OutcomeNext, EndedNext DEF Invariant
<1> QED BY <1>1, <1>2, PTL DEF Spec

\* The state has its type: in particular nobody leaves a mutex that is not held.
THEOREM TypeCorrect == Spec => []TypeOK
<1>1. Invariant => TypeOK
    BY TypedIsTypeOK DEF Invariant
<1> QED BY InvariantHolds, <1>1, PTL

\* deleteSubscriptionUnlocked destroys the subscription only while no connection is
\* up, coming up or being undone, whatever connects, chains and disconnects overlap.
THEOREM DestroysNoConnection == Spec => []DeletionMeetsNoConnection
<1>1. Invariant => DeletionMeetsNoConnection
    BY DEF Invariant, HeldInv, DestroyInv, DeletionMeetsNoConnection, Holds
<1> QED BY InvariantHolds, <1>1, PTL

\* Of all the overlapping connects, disconnects, chains and deletions it is the newest
\* whose outcome is on the screen once all have returned, and "stopped" is then true.
THEOREM NewestCallWins == Spec => []LastCallWins
<1>1. Invariant => LastCallWins
  <2> SUFFICES ASSUME Invariant, Quiet PROVE LastCallWins
      BY DEF LastCallWins
  <2>1. /\ flight.pc = "none" /\ ~reading
        /\ \A c \in Callers : call[c].pc \notin {"cleanup", "confirmed", "idle"}
      BY DEF Quiet, Free
  <2>2. last \in Lasts /\ status \in Statuses
      BY DEF Invariant, Typed
  <2>3. last \notin {"connect", "disconnect"} /\ ~Busy
      BY <2>1, <2>2 DEF Invariant, OutcomeInv, Underway, Busy, Lasts
  <2>4. status = "stopped" => backend = None
      BY <2>1 DEF Invariant, EndedInv
  <2> QED BY <2>1, <2>3, <2>4 DEF Invariant, OutcomeInv, LastCallWins
<1> QED BY InvariantHolds, <1>1, PTL
====
