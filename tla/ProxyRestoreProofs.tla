------------------------- MODULE ProxyRestoreProofs -------------------------
(***************************************************************************)
(* What is proved of ProxyRestore, for every set of attempts, every        *)
(* original proxy and every bound.                                         *)
(*                                                                         *)
(* Types and the WinINet promise hold with other programs writing at any   *)
(* time.  The rest rests on CalmInv, inductive only when they stay away    *)
(* while an operation of ours runs: the registry has no compare-and-swap.  *)
(***************************************************************************)
EXTENDS ProxyRestore, TLAPS

-----------------------------------------------------------------------------
(* The data: fields, settings, the operation record.                       *)

\* A value of the type of field f (a write to one DWORD or string value of the
\* registry never changes its kind).
Fits(f, v) == /\ f = "enable" => v \in {0, 1}
              /\ f = "server" => v \in Servers
              /\ f = "override" => v \in Overrides

\* Writing one field leaves settings, and the other fields as they were
\* (apply_published_field, restore_field).
LEMMA WriteField ==
  ASSUME NEW s \in Settings, NEW f \in Fields, NEW v, Fits(f, v)
  PROVE  /\ [s EXCEPT ![f] = v] \in Settings
         /\ [s EXCEPT ![f] = v][f] = v
         /\ \A g \in Fields \ {f} : [s EXCEPT ![f] = v][g] = s[g]
<1>1. CASE f = "enable"
  BY <1>1 DEF Fits, Settings, Fields
<1>2. CASE f = "server"
  BY <1>2 DEF Fits, Settings, Fields
<1>3. CASE f = "override"
  BY <1>3 DEF Fits, Settings, Fields
<1> QED BY <1>1, <1>2, <1>3 DEF Fields

\* A field of settings has the type of that field (ProxySnapshot).
LEMMA FieldFits ==
  ASSUME NEW s \in Settings, NEW f \in Fields
  PROVE  Fits(f, s[f])
BY DEF Fits, Settings, Fields

\* The write set of an attempt is a complete state (published_snapshot).
LEMMA PublishedType ==
  ASSUME NEW a \in Attempts
  PROVE  Published(a) \in Settings
BY DEF Published, Settings, Servers, Overrides

\* "None" is no marker, no token and no operation in progress.
LEMMA Constants ==
  /\ NoBackup \notin Backup
  /\ Idle \notin Operation
  /\ NoChallenge \notin Challenge
  /\ Idle.step = "idle" /\ Idle.marker = NoBackup
<1>1. NoBackup \notin Backup
  BY AttemptsNamed DEF NoBackup, Backup
<1>2. Idle \notin Operation
  BY DEF Idle, Operation, Steps
<1>3. NoChallenge \notin Challenge
  BY <1>1 DEF NoChallenge, Challenge
<1> QED BY <1>1, <1>2, <1>3 DEF Idle

\* Whoever holds RESTORE_MUTEX has a marker in memory and fields of the registry
\* left to do.
LEMMA OpType ==
  ASSUME op \in Operation \cup {Idle}, op.step # "idle"
  PROVE  /\ op \in Operation /\ op # Idle
         /\ op.step \in Steps /\ op.todo \subseteq Fields /\ op.marker \in Backup
         /\ op.marker.attempt \in Attempts /\ op.marker.original \in Settings
BY Constants DEF Operation, Backup

\* An operation that goes on keeps the marker it read.
LEMMA GotoType ==
  ASSUME op \in Operation, NEW step \in Steps, NEW todo \in SUBSET Fields, Goto(step, todo)
  PROVE  /\ op' \in Operation /\ op'.step = step /\ op'.todo = todo
         /\ op'.marker = op.marker
BY DEF Goto, Operation

\* An operation that takes the mutex starts with the marker it was given.
LEMMA EnterType ==
  ASSUME NEW step \in Steps, NEW todo \in SUBSET Fields, NEW marker \in Backup,
         Enter(step, todo, marker)
  PROVE  /\ op' \in Operation /\ op'.step = step /\ op'.todo = todo
         /\ op'.marker = marker
BY DEF Enter, Operation

\* An operation that ends leaves the mutex free.
LEMMA UnlockType ==
  ASSUME Unlock
  PROVE  op' = Idle /\ op'.step = "idle"
BY DEF Unlock, Idle

\* The three write orders choose a field of the registry, one that is left to do
\* if any is.
LEMMA NextFields ==
  ASSUME NEW todo
  PROVE  /\ NextPublish(todo) \in Fields /\ NextRestore(todo) \in Fields
         /\ NextForce(todo) \in Fields
         /\ todo \in SUBSET Fields /\ todo # {} =>
              /\ NextPublish(todo) \in todo /\ NextRestore(todo) \in todo
              /\ NextForce(todo) \in todo
BY DEF NextPublish, NextRestore, NextForce, Fields

\* Putting a field of the snapshot back writes that field and no other
\* (restore_field, write_original_snapshot).
LEMMA PutType ==
  ASSUME TypeOK, op.step # "idle", NEW f \in Fields, Put(f)
  PROVE  /\ registry' \in Settings /\ registry'[f] = op.marker.original[f]
         /\ \A g \in Fields \ {f} : registry'[g] = registry[g]
         /\ owed' \subseteq Fields /\ displaced' \in Settings /\ shown' \in Settings
         /\ unnotified' \in BOOLEAN
<1>1. op.marker.original \in Settings
  BY OpType DEF TypeOK
<1>2. Fits(f, op.marker.original[f])
  BY <1>1, FieldFits
<1>3. registry \in Settings
  BY DEF TypeOK
<1>4. /\ [registry EXCEPT ![f] = op.marker.original[f]] \in Settings
      /\ [registry EXCEPT ![f] = op.marker.original[f]][f] = op.marker.original[f]
      /\ \A g \in Fields \ {f} :
           [registry EXCEPT ![f] = op.marker.original[f]][g] = registry[g]
  BY <1>2, <1>3, WriteField
<1>5. registry' = [registry EXCEPT ![f] = op.marker.original[f]]
  BY DEF Put
<1> QED BY <1>4, <1>5 DEF Put, TypeOK

-----------------------------------------------------------------------------
(* Types.                                                                  *)

\* The application starts without a marker and with any original proxy.
LEMMA InitTypeOK == Init => TypeOK
<1> SUFFICES ASSUME Init PROVE TypeOK
  OBVIOUS
<1>1. registry \in Settings
  BY OriginalsType DEF Init
<1>2. foreign \in 0..MaxForeign /\ faults \in 0..MaxFaults
  BY BoundsType DEF Init
<1> QED BY <1>1, <1>2, Constants DEF Init, TypeOK

\* Every step keeps the types, and the holder of the mutex on the marker on disk.
LEMMA NextTypeOK == TypeOK /\ [Next]_vars => TypeOK'
<1> SUFFICES ASSUME TypeOK, [Next]_vars PROVE TypeOK'
  OBVIOUS
<1> USE DEF history
<1>1. ASSUME NEW a \in Attempts, PublishBegin(a) PROVE TypeOK'
  <2>1. CASE backup # NoBackup
    BY <1>1, <2>1, Constants DEF PublishBegin, TypeOK, At
  <2>2. CASE Fault /\ UNCHANGED <<backup, op, published>>
    BY <1>1, <2>2, BoundsType DEF PublishBegin, TypeOK, Fault
  <2>3. CASE /\ backup' = [attempt |-> a, original |-> registry]
             /\ published' = published \cup {a}
             /\ Enter("publish", Fields, backup') /\ UNCHANGED faults
    <3>1. backup' \in Backup
      BY <2>3 DEF TypeOK, Backup
    <3>2. op' \in Operation /\ op'.marker = backup'
      BY <2>3, <3>1, EnterType DEF Steps
    <3> QED BY <1>1, <2>3, <3>1, <3>2, Constants DEF PublishBegin, TypeOK
  <2> QED BY <1>1, <2>1, <2>2, <2>3 DEF PublishBegin
<1>2. ASSUME PublishField PROVE TypeOK'
  <2> DEFINE f == NextPublish(op.todo)
             v == Published(op.marker.attempt)[f]
             rest == op.todo \ {f}
  <2>1. op \in Operation /\ op.todo \subseteq Fields /\ op.marker.attempt \in Attempts
    BY <1>2, OpType DEF PublishField, At, TypeOK
  <2>2. f \in Fields
    BY NextFields
  <2>3. Fits(f, v) /\ Fits(f, registry[f])
    BY <2>1, <2>2, PublishedType, FieldFits DEF TypeOK
  <2>4. /\ registry' = [registry EXCEPT ![f] = v]
        /\ IF registry[f] = v
             THEN UNCHANGED <<owed, displaced>>
             ELSE /\ owed' = owed \cup {f}
                  /\ displaced' = [displaced EXCEPT ![f] = registry[f]]
        /\ Goto(IF rest = {} THEN "announce" ELSE "publish", rest)
    BY <1>2 DEF PublishField
  <2>5. registry' \in Settings /\ displaced' \in Settings /\ owed' \subseteq Fields
    <3>1. [registry EXCEPT ![f] = v] \in Settings
      BY <2>2, <2>3, WriteField DEF TypeOK
    <3>2. [displaced EXCEPT ![f] = registry[f]] \in Settings
      BY <2>2, <2>3, WriteField DEF TypeOK
    <3> QED BY <2>2, <2>4, <3>1, <3>2 DEF TypeOK
  <2>6. op' \in Operation /\ op'.marker = op.marker
    BY <2>1, <2>4, GotoType DEF Steps
  <2> QED BY <1>2, <2>5, <2>6 DEF PublishField, TypeOK, At
<1>3. ASSUME Announce PROVE TypeOK'
  BY <1>3, UnlockType DEF Announce, TypeOK
<1>4. ASSUME PublishFails PROVE TypeOK'
  <2>1. op \in Operation /\ op.marker = backup
    BY <1>4, OpType DEF PublishFails, At, TypeOK
  <2>2. op' \in Operation /\ op'.marker = op.marker
    BY <1>4, <2>1, GotoType DEF PublishFails, Steps
  <2> QED BY <1>4, <2>1, <2>2, BoundsType DEF PublishFails, TypeOK, Fault
<1>5. ASSUME NEW a \in Attempts, Clear(a) PROVE TypeOK'
  <2>1. backup \in Backup
    BY <1>5 DEF Clear, TypeOK
  <2>2. CASE Enter("plan", {}, backup)
    BY <1>5, <2>1, <2>2, EnterType DEF Clear, TypeOK, Steps
  <2> QED BY <1>5, <2>2 DEF Clear, TypeOK
<1>6. ASSUME RestorePending \/ Discard PROVE TypeOK'
  <2>1. CASE backup # NoBackup /\ Enter("plan", {}, backup)
    <3>1. backup \in Backup
      BY <2>1 DEF TypeOK
    <3> QED BY <1>6, <2>1, <3>1, EnterType DEF RestorePending, Discard, TypeOK, Steps
  <2> QED BY <1>6, <2>1 DEF RestorePending, Discard, TypeOK
<1>7. ASSUME NEW presented \in {"live", "dead"}, ForceRestore(presented) PROVE TypeOK'
  <2>1. CASE backup # NoBackup /\ Enter("force", Fields, backup)
    <3>1. backup \in Backup
      BY <2>1 DEF TypeOK
    <3> QED BY <1>7, <2>1, <3>1, EnterType DEF ForceRestore, TypeOK, Steps
  <2> QED BY <1>7, <2>1 DEF ForceRestore, TypeOK
<1>8. ASSUME PlanRestore PROVE TypeOK'
  <2>1. op \in Operation /\ op.marker = backup /\ op.marker \in Backup
    BY <1>8, OpType DEF PlanRestore, At, TypeOK
  <2>2. CASE Goto("notify", {}) /\ challenge' = NoChallenge /\ UNCHANGED shown
    BY <1>8, <2>1, <2>2, GotoType DEF PlanRestore, TypeOK, Steps
  <2>3. CASE /\ Goto("check", OwnedFields(registry, op.marker))
             /\ challenge' = NoChallenge /\ UNCHANGED shown
    <3>1. OwnedFields(registry, op.marker) \subseteq Fields
      BY DEF OwnedFields
    <3> QED BY <1>8, <2>1, <2>3, <3>1, GotoType DEF PlanRestore, TypeOK, Steps
  <2>4. CASE /\ Unlock
             /\ challenge' = [backup |-> op.marker, observed |-> registry]
             /\ shown' = registry
    BY <1>8, <2>1, <2>4, UnlockType DEF PlanRestore, TypeOK, Challenge
  <2>5. CASE Unlock /\ challenge' = NoChallenge /\ UNCHANGED shown
    BY <1>8, <2>5, UnlockType DEF PlanRestore, TypeOK
  <2> QED BY <1>8, <2>2, <2>3, <2>4, <2>5 DEF PlanRestore
<1>9. ASSUME CheckField \/ Notify \/ Verify PROVE TypeOK'
  <2>1. /\ op \in Operation /\ op.marker = backup /\ op.todo \subseteq Fields
    BY <1>9, OpType DEF CheckField, Notify, Verify, At, TypeOK
  <2>2. \/ Unlock
        \/ Goto("notify", {}) \/ Goto("write", op.todo) \/ Goto("verify", {})
        \/ Goto("delete", {})
    BY <1>9 DEF CheckField, Notify, Verify
  <2>3. \/ op' = Idle /\ op'.step = "idle"
        \/ op' \in Operation /\ op'.marker = op.marker
    BY <2>1, <2>2, UnlockType, GotoType DEF Steps
  <2> QED BY <1>9, <2>1, <2>3 DEF CheckField, Notify, Verify, TypeOK
<1>10. ASSUME RestoreField PROVE TypeOK'
  <2> DEFINE f == NextRestore(op.todo)
  <2>1. op \in Operation /\ op.marker = backup /\ op.todo \subseteq Fields
    BY <1>10, OpType DEF RestoreField, At, TypeOK
  <2>2. f \in Fields /\ Put(f) /\ Goto("check", op.todo \ {f})
    BY <1>10, NextFields DEF RestoreField
  <2>3. op' \in Operation /\ op'.marker = op.marker
    BY <2>1, <2>2, GotoType DEF Steps
  <2> QED BY <1>10, <2>1, <2>2, <2>3, PutType DEF RestoreField, TypeOK, At
<1>11. ASSUME ForceField PROVE TypeOK'
  <2> DEFINE f == NextForce(op.todo)
             rest == op.todo \ {f}
  <2>1. op \in Operation /\ op.marker = backup /\ op.todo \subseteq Fields
    BY <1>11, OpType DEF ForceField, At, TypeOK
  <2>2. f \in Fields /\ Put(f) /\ Goto(IF rest = {} THEN "notify" ELSE "force", rest)
    BY <1>11, NextFields DEF ForceField
  <2>3. op' \in Operation /\ op'.marker = op.marker
    BY <2>1, <2>2, GotoType DEF Steps
  <2> QED BY <1>11, <2>1, <2>2, <2>3, PutType DEF ForceField, TypeOK, At
<1>12. ASSUME DeleteBackup PROVE TypeOK'
  <2>1. op \in Operation
    BY <1>12, OpType DEF DeleteBackup, At, TypeOK
  <2>2. op' \in Operation /\ op'.step = "after"
    BY <1>12, <2>1, GotoType DEF DeleteBackup, Steps
  <2> QED BY <1>12, <2>2 DEF DeleteBackup, TypeOK
<1>13. ASSUME AfterDelete PROVE TypeOK'
  <2>1. op.marker \in Backup
    BY <1>13, OpType DEF AfterDelete, At, TypeOK
  <2> QED BY <1>13, <2>1, UnlockType DEF AfterDelete, TypeOK
<1>14. ASSUME RestoreFails \/ Crash PROVE TypeOK'
  BY <1>14, UnlockType, BoundsType DEF RestoreFails, Crash, Unlock, TypeOK, Fault
<1>15. ASSUME NEW f \in Fields, ForeignWrite(f) PROVE TypeOK'
  <2>1. PICK v \in ForeignValues(f) : registry' = [registry EXCEPT ![f] = v]
    BY <1>15 DEF ForeignWrite
  <2>2. Fits(f, v)
    BY <1>15, <2>1 DEF ForeignValues, Fits, Fields
  <2>3. registry' \in Settings
    BY <2>1, <2>2, WriteField DEF TypeOK
  <2> QED BY <1>15, <2>3, BoundsType DEF ForeignWrite, TypeOK
<1>16. CASE UNCHANGED vars
  BY <1>16 DEF vars, TypeOK
<1> QED
  BY <1>1, <1>2, <1>3, <1>4, <1>5, <1>6, <1>7, <1>8, <1>9, <1>10, <1>11, <1>12, <1>13,
     <1>14, <1>15, <1>16 DEF Next, Command, Proceed

\* Whatever other programs do, an operation never works on a marker other than
\* the one on disk (every operation loads it under RESTORE_MUTEX).
THEOREM TypeCorrect == Spec => []TypeOK
BY InitTypeOK, NextTypeOK, PTL DEF Spec

-----------------------------------------------------------------------------
(* WinINet.                                                                *)

\* Once WinINet was told, the restore writes nothing more.
NotifyInv ==
  /\ AnnouncedOrPending
  /\ op.step \in {"verify", "delete", "after"} => ~unnotified

\* Every step keeps the WinINet promise (notify before delete on every path).
LEMMA NextNotifyInv == TypeOK /\ NotifyInv /\ [Next]_vars => NotifyInv'
<1> SUFFICES ASSUME TypeOK, NotifyInv, [Next]_vars PROVE NotifyInv'
  OBVIOUS
<1> USE DEF NotifyInv, AnnouncedOrPending, At, Goto, Enter, Unlock
<1>1. op.step \notin {"idle", "after"} => backup \in Backup /\ backup # NoBackup
  <2> SUFFICES ASSUME op.step \notin {"idle", "after"}
               PROVE  backup \in Backup /\ backup # NoBackup
    OBVIOUS
  <2>1. op.marker \in Backup /\ op.marker = backup
    BY OpType DEF TypeOK
  <2> QED BY <2>1, Constants
<1>2. op.step # "idle" => op \in Operation
  BY OpType DEF TypeOK
<1>3. ASSUME NEW a \in Attempts, PublishBegin(a) PROVE NotifyInv'
  BY <1>3 DEF PublishBegin
<1>4. ASSUME PublishField PROVE NotifyInv'
  BY <1>1, <1>2, <1>4 DEF PublishField, Operation
<1>5. ASSUME Announce \/ Crash \/ RestoreFails PROVE NotifyInv'
  BY <1>5, Constants DEF Announce, Crash, RestoreFails
<1>6. ASSUME PublishFails PROVE NotifyInv'
  BY <1>1, <1>2, <1>6 DEF PublishFails, Operation
<1>7. ASSUME NEW a \in Attempts, Clear(a) PROVE NotifyInv'
  BY <1>7 DEF Clear
<1>8. ASSUME RestorePending \/ Discard PROVE NotifyInv'
  BY <1>8 DEF RestorePending, Discard
<1>9. ASSUME NEW presented \in {"live", "dead"}, ForceRestore(presented) PROVE NotifyInv'
  BY <1>9 DEF ForceRestore
<1>10. ASSUME PlanRestore PROVE NotifyInv'
  BY <1>2, <1>10, Constants DEF PlanRestore, Operation
<1>11. ASSUME CheckField \/ Notify \/ Verify PROVE NotifyInv'
  <2>1. op \in Operation
    BY <1>2, <1>11 DEF CheckField, Notify, Verify
  <2>2. CASE CheckField
    <3>1. op'.step \in {"notify", "write", "idle"}
      BY <2>1, <2>2, Constants DEF CheckField, Operation
    <3> QED BY <2>2, <3>1 DEF CheckField
  <2>3. CASE Notify
    <3>1. ~unnotified' \/ op'.step = "idle"
      BY <2>1, <2>3, Constants DEF Notify
    <3> QED BY <2>3, <3>1, Constants DEF Notify
  <2>4. CASE Verify
    BY <2>1, <2>4, Constants DEF Verify
  <2> QED BY <1>11, <2>2, <2>3, <2>4
<1>12. ASSUME RestoreField \/ ForceField PROVE NotifyInv'
  BY <1>1, <1>2, <1>12 DEF RestoreField, ForceField, Put, Operation
<1>13. ASSUME DeleteBackup \/ AfterDelete PROVE NotifyInv'
  BY <1>2, <1>13, Constants DEF DeleteBackup, AfterDelete, Operation
<1>14. ASSUME NEW f \in Fields, ForeignWrite(f) PROVE NotifyInv'
  BY <1>14 DEF ForeignWrite
<1>15. CASE UNCHANGED vars
  BY <1>15 DEF vars
<1> QED
  BY <1>3, <1>4, <1>5, <1>6, <1>7, <1>8, <1>9, <1>10, <1>11, <1>12, <1>13, <1>14, <1>15
     DEF Next, Command, Proceed

\* The marker is there as long as WinINet has not been told of our last write,
\* also with other programs writing at any time (notify_proxy_settings_changed
\* before delete_backup_if_matches on every path).
THEOREM NeverSilent == Spec => []AnnouncedOrPending
<1>1. Init => NotifyInv
  BY DEF Init, NotifyInv, AnnouncedOrPending, Idle
<1> QED BY <1>1, InitTypeOK, NextTypeOK, NextNotifyInv, PTL DEF Spec, NotifyInv

-----------------------------------------------------------------------------
(* The user's settings and other programs' values.  The registry has no    *)
(* compare-and-swap: what follows assumes that other programs do not write *)
(* between the steps of one operation.                                     *)

\* Fields not published yet hold the saved value; overwritten ones are in the
\* marker and differ from it; none is left when the marker goes.
SnapshotInv ==
  /\ OriginalRecoverable
  /\ \A f \in owed : registry[f] # backup.original[f]
  /\ At("publish") =>
       op.todo # {} /\ \A f \in op.todo : registry[f] = op.marker.original[f]
  /\ op.step \in {"delete", "after"} => owed = {}

\* What a restore is about to overwrite is what it, or the user, has looked at.
WindowInv ==
  /\ At("write") =>
       registry[NextRestore(op.todo)]
         = Published(op.marker.attempt)[NextRestore(op.todo)]
  /\ At("force") =>
       op.todo # {} /\ \A f \in op.todo : registry[f] = shown[f]
  /\ At("delete") => registry = op.marker.original
  /\ At("after") => backup = NoBackup
  /\ challenge # NoChallenge => challenge.observed = shown

CalmInv == TypeOK /\ SnapshotInv /\ WindowInv

\* Nothing is overwritten yet when the application starts.
LEMMA InitCalmInv == Init => CalmInv
<1> SUFFICES ASSUME Init PROVE SnapshotInv /\ WindowInv
  BY InitTypeOK DEF CalmInv
<1> QED BY Constants
       DEF Init, SnapshotInv, WindowInv, OriginalRecoverable, At, Idle

\* A step that touches neither registry nor marker, and does not enter a window
\* between a look and a write, disturbs nothing.
LEMMA QuietStep ==
  ASSUME CalmInv, UNCHANGED <<registry, backup, owed, displaced, shown>>,
         op'.step \notin {"publish", "write", "force", "delete", "after"},
         challenge' = challenge \/ challenge' = NoChallenge
  PROVE  SnapshotInv' /\ WindowInv'
BY DEF CalmInv, SnapshotInv, WindowInv, OriginalRecoverable, At

\* Every step keeps the snapshot and the windows, as long as other programs write
\* only between operations.
LEMMA NextSnapshotInv ==
  ASSUME RacyForeign = FALSE, CalmInv, Next
  PROVE  SnapshotInv' /\ WindowInv'
<1>0. TypeOK /\ SnapshotInv /\ WindowInv
  BY DEF CalmInv
<1>1. op.step # "idle" =>
        /\ op \in Operation /\ op.todo \subseteq Fields
        /\ op.marker \in Backup /\ op.marker # NoBackup
        /\ op.marker.original \in Settings /\ Published(op.marker.attempt) \in Settings
        /\ op.step # "after" => op.marker = backup
  BY <1>0, OpType, PublishedType, Constants DEF TypeOK
<1>2. Idle.step = "idle"
  BY Constants
<1> USE DEF history
<1>3. ASSUME NEW a \in Attempts, PublishBegin(a) PROVE SnapshotInv' /\ WindowInv'
  <2>1. CASE UNCHANGED <<backup, op>>
    BY <1>0, <1>3, <2>1, QuietStep DEF PublishBegin, At
  <2>2. CASE /\ backup = NoBackup
             /\ backup' = [attempt |-> a, original |-> registry]
             /\ Enter("publish", Fields, backup')
    <3>1. owed' = {}
      BY <1>0, <1>3, <2>2 DEF SnapshotInv, OriginalRecoverable, PublishBegin
    <3>2. /\ op'.step = "publish" /\ op'.todo = Fields /\ op'.marker.original = registry
          /\ registry' = registry /\ challenge' = NoChallenge
      BY <1>3, <2>2 DEF Enter, PublishBegin
    <3>3. Fields # {}
      BY DEF Fields
    <3> QED BY <3>1, <3>2, <3>3 DEF SnapshotInv, WindowInv, OriginalRecoverable, At
  <2> QED BY <1>3, <2>1, <2>2 DEF PublishBegin
<1>4. ASSUME PublishField PROVE SnapshotInv' /\ WindowInv'
  <2> DEFINE f == NextPublish(op.todo)
             v == Published(op.marker.attempt)[f]
             rest == op.todo \ {f}
  <2>1. At("publish") /\ op.step # "idle"
    BY <1>4 DEF PublishField, At
  <2>2. f \in op.todo /\ f \in Fields
    BY <1>0, <1>1, <2>1, NextFields DEF SnapshotInv
  <2>3. registry[f] = backup.original[f] /\ backup # NoBackup
    BY <1>0, <1>1, <2>1, <2>2 DEF SnapshotInv, At
  <2>4. /\ registry' = [registry EXCEPT ![f] = v]
        /\ IF registry[f] = v
             THEN UNCHANGED <<owed, displaced>>
             ELSE /\ owed' = owed \cup {f}
                  /\ displaced' = [displaced EXCEPT ![f] = registry[f]]
        /\ Goto(IF rest = {} THEN "announce" ELSE "publish", rest)
        /\ UNCHANGED <<backup, challenge, shown>>
    BY <1>4 DEF PublishField
  <2>5. registry'[f] = v /\ \A g \in Fields \ {f} : registry'[g] = registry[g]
    BY <1>0, <1>1, <2>1, <2>2, <2>4, WriteField, FieldFits DEF TypeOK
  <2>6. registry[f] # v =>
          displaced'[f] = registry[f] /\ \A g \in Fields \ {f} : displaced'[g] = displaced[g]
    BY <1>0, <2>2, <2>4, WriteField, FieldFits DEF TypeOK
  <2>7. /\ op'.step = (IF rest = {} THEN "announce" ELSE "publish")
        /\ op'.todo = rest /\ op'.marker = op.marker
    BY <1>1, <2>1, <2>4, GotoType DEF Steps
  <2>8. \A g \in owed' : /\ backup'.original[g] = displaced'[g]
                         /\ registry'[g] # backup'.original[g]
    <3> SUFFICES ASSUME NEW g \in owed'
                 PROVE  /\ backup'.original[g] = displaced'[g]
                        /\ registry'[g] # backup'.original[g]
      OBVIOUS
    <3>1. f \notin owed
      BY <1>0, <2>3 DEF SnapshotInv
    <3>2. CASE g = f
      BY <2>3, <2>4, <2>5, <2>6, <3>1, <3>2
    <3>3. CASE g # f
      <4>1. g \in owed /\ g \in Fields
        BY <1>0, <2>4, <3>3 DEF TypeOK
      <4> QED BY <1>0, <2>4, <2>5, <2>6, <3>3, <4>1 DEF SnapshotInv, OriginalRecoverable
    <3> QED BY <3>2, <3>3
  <2>9. \A g \in rest : registry'[g] = op'.marker.original[g]
    BY <1>0, <1>1, <2>1, <2>5, <2>7 DEF SnapshotInv
  <2> QED BY <1>0, <2>3, <2>4, <2>7, <2>8, <2>9
         DEF SnapshotInv, WindowInv, OriginalRecoverable, At
<1>5. ASSUME Announce \/ RestoreFails \/ Crash PROVE SnapshotInv' /\ WindowInv'
  <2>1. op'.step = "idle"
    BY <1>2, <1>5, UnlockType DEF Announce, RestoreFails, Crash
  <2> QED BY <1>5, <2>1, QuietStep DEF Announce, RestoreFails, Crash
<1>6. ASSUME PublishFails PROVE SnapshotInv' /\ WindowInv'
  <2>1. op.step # "idle" /\ Goto("plan", {})
    BY <1>6 DEF PublishFails, At
  <2>2. op'.step = "plan"
    BY <1>1, <2>1, GotoType DEF Steps
  <2> QED BY <1>6, <2>2, QuietStep DEF PublishFails
<1>7. ASSUME NEW a \in Attempts, Clear(a) PROVE SnapshotInv' /\ WindowInv'
  <2>1. op'.step \in {"idle", "plan"}
    BY <1>7 DEF Clear, Enter, At
  <2> QED BY <1>7, <2>1, QuietStep DEF Clear
<1>8. ASSUME RestorePending \/ Discard PROVE SnapshotInv' /\ WindowInv'
  <2>1. op'.step \in {"idle", "plan"}
    BY <1>8 DEF RestorePending, Discard, Enter, At
  <2> QED BY <1>8, <2>1, QuietStep DEF RestorePending, Discard
<1>9. ASSUME NEW presented \in {"live", "dead"}, ForceRestore(presented)
      PROVE  SnapshotInv' /\ WindowInv'
  <2>1. CASE UNCHANGED op
    BY <1>9, <2>1, QuietStep DEF ForceRestore, At
  <2>2. CASE Authorised /\ Enter("force", Fields, backup)
    <3>1. op'.step = "force" /\ op'.todo = Fields /\ Fields # {}
      BY <2>2 DEF Enter, Fields
    <3>2. registry = shown
      <4>1. challenge = [backup |-> backup, observed |-> registry]
        BY <2>2 DEF Authorised
      <4>2. challenge # NoChallenge
        BY <4>1 DEF NoChallenge
      <4> QED BY <1>0, <4>1, <4>2 DEF WindowInv
    <3> QED BY <1>0, <1>9, <3>1, <3>2
           DEF ForceRestore, SnapshotInv, WindowInv, OriginalRecoverable, At
  <2> QED BY <1>9, <2>1, <2>2 DEF ForceRestore
<1>10. ASSUME PlanRestore PROVE SnapshotInv' /\ WindowInv'
  <2>1. op.step # "idle"
    BY <1>10 DEF PlanRestore, At
  <2>2. CASE UNCHANGED shown
    <3>1. \/ Goto("notify", {}) \/ Goto("check", OwnedFields(registry, op.marker))
          \/ Unlock
      BY <1>10 DEF PlanRestore
    <3>2. op'.step \in {"notify", "check", "idle"}
      BY <1>1, <2>1, <3>1, GotoType, UnlockType DEF OwnedFields, Steps
    <3>3. challenge' = NoChallenge \/ challenge'.observed = shown'
      BY <1>10, <2>2 DEF PlanRestore
    <3> QED BY <1>0, <1>10, <2>2, <3>2, <3>3
           DEF PlanRestore, SnapshotInv, WindowInv, OriginalRecoverable, At
  <2>3. CASE /\ Unlock
             /\ challenge' = [backup |-> op.marker, observed |-> registry]
             /\ shown' = registry
    BY <1>0, <1>10, <2>3, UnlockType
       DEF PlanRestore, SnapshotInv, WindowInv, OriginalRecoverable, At
  <2> QED BY <1>10, <2>2, <2>3 DEF PlanRestore
<1>11. ASSUME CheckField PROVE SnapshotInv' /\ WindowInv'
  <2> DEFINE f == NextRestore(op.todo)
  <2>1. op.step # "idle"
    BY <1>11 DEF CheckField, At
  <2>2. CASE /\ registry[f] = Published(op.marker.attempt)[f]
             /\ Goto("write", op.todo)
    <3>1. op'.step = "write" /\ op'.todo = op.todo /\ op'.marker = op.marker
      BY <1>1, <2>1, <2>2, GotoType DEF Steps
    <3> QED BY <1>0, <1>11, <2>2, <3>1
           DEF CheckField, SnapshotInv, WindowInv, OriginalRecoverable, At
  <2>3. CASE Goto("notify", {}) \/ Unlock
    <3>1. op'.step \in {"notify", "idle"}
      BY <1>1, <2>1, <2>3, GotoType, UnlockType DEF Steps
    <3> QED BY <1>11, <3>1, QuietStep DEF CheckField
  <2> QED BY <1>11, <2>2, <2>3 DEF CheckField
<1>12. ASSUME NEW f \in Fields, Put(f), op.step \in {"write", "force"}, UNCHANGED backup
       PROVE  /\ \A g \in owed' : /\ backup' # NoBackup
                                  /\ backup'.original[g] = displaced'[g]
                                  /\ registry'[g] # backup'.original[g]
              /\ \A g \in Fields \ {f} : registry'[g] = registry[g]
              /\ shown' = shown
  <2>1. \A g \in Fields \ {f} : registry'[g] = registry[g]
    BY <1>0, <1>12, PutType
  <2>2. owed' = owed \ {f} /\ UNCHANGED <<displaced, shown>> /\ owed \subseteq Fields
    BY <1>0, <1>12 DEF Put, TypeOK
  <2> QED BY <1>0, <1>12, <2>1, <2>2 DEF SnapshotInv, OriginalRecoverable
<1>13. ASSUME RestoreField PROVE SnapshotInv' /\ WindowInv'
  <2> DEFINE f == NextRestore(op.todo)
  <2>1. /\ f \in Fields /\ Put(f) /\ Goto("check", op.todo \ {f})
        /\ op.step = "write" /\ UNCHANGED <<backup, challenge>>
    BY <1>13, NextFields DEF RestoreField, At
  <2>2. op'.step = "check"
    BY <1>1, <2>1, GotoType DEF Steps
  <2> QED BY <1>0, <1>12, <2>1, <2>2
         DEF SnapshotInv, WindowInv, OriginalRecoverable, At
<1>14. ASSUME ForceField PROVE SnapshotInv' /\ WindowInv'
  <2> DEFINE f == NextForce(op.todo)
             rest == op.todo \ {f}
  <2>1. /\ f \in Fields /\ Put(f) /\ Goto(IF rest = {} THEN "notify" ELSE "force", rest)
        /\ op.step = "force" /\ UNCHANGED <<backup, challenge>>
    BY <1>14, NextFields DEF ForceField, At
  <2>2. op'.step = (IF rest = {} THEN "notify" ELSE "force") /\ op'.todo = rest
    BY <1>1, <2>1, GotoType DEF Steps
  <2>3. \A g \in rest : registry'[g] = shown'[g]
    BY <1>0, <1>1, <1>12, <2>1 DEF WindowInv, At
  <2> QED BY <1>0, <1>12, <2>1, <2>2, <2>3
         DEF SnapshotInv, WindowInv, OriginalRecoverable, At
<1>15. ASSUME Notify PROVE SnapshotInv' /\ WindowInv'
  <2>1. op.step # "idle" /\ (Goto("verify", {}) \/ Unlock)
    BY <1>15 DEF Notify, At
  <2>2. op'.step \in {"verify", "idle"}
    BY <1>1, <2>1, GotoType, UnlockType DEF Steps
  <2> QED BY <1>15, <2>2, QuietStep DEF Notify
<1>16. ASSUME Verify PROVE SnapshotInv' /\ WindowInv'
  <2>1. op.step # "idle"
    BY <1>16 DEF Verify, At
  <2>2. CASE registry = op.marker.original /\ backup = op.marker /\ Goto("delete", {})
    <3>1. op'.step = "delete" /\ op'.marker = op.marker
      BY <1>1, <2>1, <2>2, GotoType DEF Steps
    <3>2. owed = {}
      BY <1>0, <2>2 DEF SnapshotInv
    <3> QED BY <1>0, <1>16, <2>2, <3>1, <3>2
           DEF Verify, SnapshotInv, WindowInv, OriginalRecoverable, At
  <2>3. CASE Unlock
    BY <1>16, <2>3, UnlockType, QuietStep DEF Verify
  <2> QED BY <1>16, <2>2, <2>3 DEF Verify
<1>17. ASSUME DeleteBackup PROVE SnapshotInv' /\ WindowInv'
  <2>1. op.step = "delete" /\ Goto("after", {})
    BY <1>17 DEF DeleteBackup, At
  <2>2. op'.step = "after"
    BY <1>1, <2>1, GotoType DEF Steps
  <2> QED BY <1>0, <1>17, <2>1, <2>2
         DEF DeleteBackup, SnapshotInv, WindowInv, OriginalRecoverable, At
<1>18. ASSUME AfterDelete PROVE SnapshotInv' /\ WindowInv'
  <2>1. op.step = "after" /\ owed = {}
    BY <1>0, <1>18 DEF AfterDelete, At, SnapshotInv
  <2> QED BY <1>0, <1>18, <2>1, UnlockType
         DEF AfterDelete, SnapshotInv, WindowInv, OriginalRecoverable, At
<1>19. ASSUME NEW f \in Fields, ForeignWrite(f) PROVE SnapshotInv' /\ WindowInv'
  <2>1. op.step = "idle" /\ op' = op /\ owed' = owed \ {f}
    BY <1>19 DEF ForeignWrite, At
  <2>2. \A g \in Fields \ {f} : registry'[g] = registry[g]
    <3>1. PICK v \in ForeignValues(f) : registry' = [registry EXCEPT ![f] = v]
      BY <1>19 DEF ForeignWrite
    <3>2. Fits(f, v)
      BY <1>19, <3>1 DEF ForeignValues, Fits, Fields
    <3> QED BY <1>0, <3>1, <3>2, WriteField DEF TypeOK
  <2>3. owed \subseteq Fields
    BY <1>0 DEF TypeOK
  <2> QED BY <1>0, <1>19, <2>1, <2>2, <2>3
         DEF ForeignWrite, SnapshotInv, WindowInv, OriginalRecoverable, At
<1> QED
  BY <1>3, <1>4, <1>5, <1>6, <1>7, <1>8, <1>9, <1>10, <1>11, <1>13, <1>14, <1>15, <1>16,
     <1>17, <1>18, <1>19 DEF Next, Command, Proceed

\* The strengthened invariant of proxy.rs's operations holds at all times.
LEMMA CalmInductive ==
  ASSUME RacyForeign = FALSE
  PROVE  Spec => []CalmInv
<1>1. CalmInv /\ [Next]_vars => CalmInv'
  <2> SUFFICES ASSUME CalmInv, [Next]_vars PROVE CalmInv'
    OBVIOUS
  <2>1. TypeOK'
    BY NextTypeOK DEF CalmInv
  <2>2. CASE Next
    BY <2>1, <2>2, NextSnapshotInv DEF CalmInv
  <2>3. CASE UNCHANGED vars
    BY <2>1, <2>3
       DEF vars, CalmInv, SnapshotInv, WindowInv, OriginalRecoverable, At
  <2> QED BY <2>2, <2>3
<1> QED BY <1>1, InitCalmInv, PTL DEF Spec

\* No crash, failing call or second connect loses a setting of the user that
\* the publication overwrote.
THEOREM OriginalsAreRecoverable ==
  ASSUME RacyForeign = FALSE
  PROVE  Spec => []OriginalRecoverable
<1>1. CalmInv => OriginalRecoverable
  BY DEF CalmInv, SnapshotInv
<1> QED BY <1>1, CalmInductive, PTL

\* Whatever command asks, the marker goes only in the exact saved state.
THEOREM ReleasesOnlyOriginal ==
  ASSUME RacyForeign = FALSE
  PROVE  Spec => ReleaseOnlyOriginal
<1>1. CalmInv /\ [Next]_vars =>
        (backup # NoBackup /\ backup' = NoBackup => registry = backup.original)
  <2> SUFFICES ASSUME CalmInv, [Next]_vars, backup # NoBackup, backup' = NoBackup
               PROVE  registry = backup.original
    OBVIOUS
  <2>1. ASSUME DeleteBackup PROVE registry = backup.original
    BY <2>1 DEF CalmInv, TypeOK, WindowInv, DeleteBackup, At
  <2>2. ASSUME AfterDelete PROVE FALSE
    BY <2>2 DEF CalmInv, WindowInv, AfterDelete, At
  <2>3. ASSUME NEW a \in Attempts, PublishBegin(a) PROVE FALSE
    BY <2>3 DEF PublishBegin, NoBackup
  <2> QED BY <2>1, <2>2, <2>3
         DEF Next, Command, Proceed, vars, Clear, RestorePending, Discard, ForceRestore,
             PublishField, Announce, PlanRestore, CheckField, RestoreField, Notify, Verify,
             ForceField, PublishFails, RestoreFails, Crash, ForeignWrite
<1> QED BY <1>1, CalmInductive, PTL DEF Spec, ReleaseOnlyOriginal

\* A step of ours replaces only the saved value, the published value, or a value
\* in the dialog the user confirmed (compare-before-write; the token is bound to
\* the observed state).
THEOREM OverwritesNothingUnseen ==
  ASSUME RacyForeign = FALSE
  PROVE  Spec => ForeignPreserved
<1> DEFINE Seen(f) == \/ registry[f] = backup.original[f]
                      \/ registry[f] = Published(backup.attempt)[f]
                      \/ At("force") /\ registry[f] = shown[f]
           Kept == \A f \in Fields : registry'[f] # registry[f] /\ foreign' = foreign => Seen(f)
<1>1. CalmInv /\ [Next]_vars => Kept
  <2> SUFFICES ASSUME CalmInv, [Next]_vars, NEW f \in Fields,
                      registry'[f] # registry[f], foreign' = foreign
               PROVE  Seen(f)
    OBVIOUS
  <2>1. TypeOK /\ SnapshotInv /\ WindowInv
    BY DEF CalmInv
  <2>2. op.step \notin {"idle", "after"} =>
          op.todo \subseteq Fields /\ op.marker = backup
    BY <2>1, OpType DEF TypeOK
  <2>3. ASSUME PublishField PROVE Seen(f)
    <3> DEFINE g == NextPublish(op.todo)
    <3>1. op.step = "publish" /\ g \in op.todo /\ g \in Fields
      BY <2>1, <2>2, <2>3, NextFields DEF PublishField, SnapshotInv, At
    <3>2. f = g
      BY <3>1, <2>1, <2>3 DEF PublishField, TypeOK, Settings, Fields
    <3> QED BY <2>1, <2>2, <3>1, <3>2 DEF SnapshotInv, At
  <2>4. ASSUME RestoreField PROVE Seen(f)
    <3> DEFINE g == NextRestore(op.todo)
    <3>1. op.step = "write" /\ g \in Fields /\ Put(g)
      BY <2>4, NextFields DEF RestoreField, At
    <3>2. f = g
      BY <2>1, <3>1, PutType
    <3> QED BY <2>1, <2>2, <3>1, <3>2 DEF WindowInv, At
  <2>5. ASSUME ForceField PROVE Seen(f)
    <3> DEFINE g == NextForce(op.todo)
    <3>1. op.step = "force" /\ g \in Fields /\ Put(g)
      BY <2>5, NextFields DEF ForceField, At
    <3>2. f = g /\ g \in op.todo
      BY <2>1, <2>2, <3>1, PutType, NextFields DEF WindowInv, At
    <3> QED BY <2>1, <3>1, <3>2 DEF WindowInv, At
  <2>6. ASSUME NEW g \in Fields, ForeignWrite(g) PROVE FALSE
    BY <2>1, <2>6, BoundsType DEF ForeignWrite, TypeOK
  <2>7. registry' # registry
    OBVIOUS
  <2> QED BY <2>3, <2>4, <2>5, <2>6, <2>7
         DEF Next, Command, Proceed, vars, PublishBegin, Clear, RestorePending, Discard,
             ForceRestore, Announce, PlanRestore, CheckField, Notify, Verify, DeleteBackup,
             AfterDelete, PublishFails, RestoreFails, Crash
<1>2. CalmInv /\ [Next]_vars =>
        [\A f \in Fields :
           registry'[f] # registry[f] /\ foreign' = foreign =>
             \/ registry[f] = backup.original[f]
             \/ registry[f] = Published(backup.attempt)[f]
             \/ At("force") /\ registry[f] = shown[f]]_vars
  BY <1>1
<1> QED BY <1>2, CalmInductive, PTL DEF Spec, ForeignPreserved

=============================================================================
