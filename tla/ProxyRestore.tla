---------------------------- MODULE ProxyRestore ----------------------------
(***************************************************************************)
(* Publication and restoration of the Windows system proxy                 *)
(* (src-tauri/src/platform/proxy.rs).                                      *)
(*                                                                         *)
(* The registry has three fields and no compare-and-swap; other programs   *)
(* write them too.  Before publishing, the client saves the original       *)
(* fields and what it publishes in a backup file, which outlives a crash   *)
(* and is deleted only once the original is verified in place.  All        *)
(* operations of the process run under RESTORE_MUTEX: `op` is the one that *)
(* holds it, cut at every registry, file and WinINet access.               *)
(***************************************************************************)
EXTENDS Naturals

CONSTANTS
  Attempts,     \* connect attempts; each publishes its own ports, once
  Originals,    \* system proxy settings found before the first publication
  RacyForeign,  \* may other programs write while the mutex is held?
  MaxForeign,   \* bound on writes by other programs
  MaxFaults     \* bound on failing calls and crashes

Fields == {"enable", "server", "override"}

\* What ProxyServer may hold: nothing, a foreign proxy, the string published
\* by an attempt, a reordering of the same protocol map, or another spelling
\* that merely names one of its loopback ports.
Servers == {[form |-> f, port |-> "-"] : f \in {"direct", "corporate"}}
           \cup [form : {"exact", "reordered", "alias"}, port : Attempts]

Overrides == {"original", "kwik", "foreign"}

Settings == [enable : {0, 1}, server : Servers, override : Overrides]

ASSUME OriginalsType ==
  Originals \subseteq {s \in Settings : s.override = "original" /\ s.server.port = "-"}
ASSUME BoundsType == RacyForeign \in BOOLEAN /\ MaxForeign \in Nat /\ MaxFaults \in Nat
ASSUME AttemptsNamed == "-" \notin Attempts /\ "none" \notin Attempts

VARIABLES
  registry,     \* HKCU Internet Settings
  backup,       \* proxy_backup.json
  challenge,    \* RESTORE_CHALLENGE: what the token in the slot was minted for
  op,           \* the operation that holds RESTORE_MUTEX
  published,    \* attempts that have published (their ids are fresh UUIDs)
  unnotified,   \* WinINet was not told of our last registry write
  owed,         \* fields we overwrote and have not put back (history)
  displaced,    \* what each field held when we last overwrote it (history)
  shown,        \* the state the last confirmation dialog described (history)
  foreign,      \* writes by other programs so far
  faults        \* failing calls and crashes so far

vars == <<registry, backup, challenge, op, published, unnotified, owed, displaced,
          shown, foreign, faults>>

history == <<owed, displaced, shown>>

-----------------------------------------------------------------------------
(* The data.                                                               *)

NoBackup == [attempt |-> "none"]

Backup == [attempt : Attempts, original : Settings]

\* A token is a fresh UUID: a caller presents the one in the slot or a dead one.
NoChallenge == [backup |-> NoBackup]

Challenge == [backup : Backup, observed : Settings]

\* Where the operation is, the fields it has left, the marker it has in memory.
Steps == {"publish", "announce", "plan", "check", "write", "force", "notify",
          "verify", "delete", "after"}

Operation == [step : Steps, todo : SUBSET Fields, marker : Backup]

Idle == [step |-> "idle", todo |-> {}, marker |-> NoBackup]

\* The write set of attempt a.
Published(a) == [enable   |-> 1,
                 server   |-> [form |-> "exact", port |-> a],
                 override |-> "kwik"]

\* points_to_published_endpoint: enabled, and names one of the attempt's ports.
PointsToUs(s, b) == s.enable = 1 /\ s.server.port = b.attempt

\* strict_published_mapping_matches: the same protocol map, any order.
StrictMapping(s, b) == PointsToUs(s, b) /\ s.server.form \in {"exact", "reordered"}

\* Variant: the bypass list is not part of the write set.
OwnedEndpoint(s, b) == {f \in {"enable", "server"} : /\ s[f] # b.original[f]
                                                    /\ s[f] = Published(b.attempt)[f]}

\* classify_failed_publication_field = RestoreOwnedValue.
OwnedFields(s, b) == {f \in Fields : /\ s[f] # b.original[f]
                                     /\ s[f] = Published(b.attempt)[f]}

\* ... = ForeignConflict.
ConflictFields(s, b) == {f \in Fields : /\ s[f] # b.original[f]
                                        /\ s[f] # Published(b.attempt)[f]}

\* plan_restore.
Plan(s, b) ==
  CASE s = b.original                                         -> "original"
    [] s # b.original /\ ConflictFields(s, b) = {}            -> "owned"
    [] ConflictFields(s, b) # {} /\ PointsToUs(s, b)          -> "manual"
    [] ConflictFields(s, b) # {} /\ ~PointsToUs(s, b)         -> "foreign"

At(step) == op.step = step

\* The operation takes the mutex with this marker; it goes on; it lets go.
Enter(step, todo, marker) == op' = [step |-> step, todo |-> todo, marker |-> marker]

Goto(step, todo) == op' = [op EXCEPT !.step = step, !.todo = todo]

Unlock == op' = Idle

\* A registry, file or WinINet call fails (or the process dies).
Fault == faults < MaxFaults /\ faults' = faults + 1

\* A field of the snapshot goes back.
Put(f) == /\ registry' = [registry EXCEPT ![f] = op.marker.original[f]]
          /\ owed' = owed \ {f}
          /\ unnotified' = TRUE
          /\ UNCHANGED <<displaced, shown>>

-----------------------------------------------------------------------------
(* set_system_proxy_owned.                                                 *)

\* Variant: the marker of an earlier attempt is overwritten.
PublishBeginBlindly(a) ==
  /\ At("idle") /\ a \notin published
  /\ challenge' = NoChallenge
  /\ backup' = [attempt |-> a, original |-> registry]
  /\ published' = published \cup {a}
  /\ Enter("publish", Fields, backup')
  /\ UNCHANGED <<registry, unnotified, history, foreign, faults>>

\* A pending marker or a failing save refuses the publication; otherwise the
\* snapshot is on disk before the first write.
PublishBegin(a) ==
  /\ At("idle") /\ a \notin published
  /\ challenge' = NoChallenge
  /\ \/ /\ backup # NoBackup
        /\ UNCHANGED <<backup, op, published, faults>>
     \/ /\ backup = NoBackup
        /\ backup' = [attempt |-> a, original |-> registry]
        /\ published' = published \cup {a}
        /\ Enter("publish", Fields, backup')
        /\ UNCHANGED faults
     \/ /\ backup = NoBackup
        /\ Fault
        /\ UNCHANGED <<backup, op, published>>
  /\ UNCHANGED <<registry, unnotified, history, foreign>>

\* ProxyServer, then ProxyEnable, then ProxyOverride.
NextPublish(todo) == IF "server" \in todo THEN "server"
                     ELSE IF "enable" \in todo THEN "enable" ELSE "override"

PublishField ==
  /\ At("publish")
  /\ LET f == NextPublish(op.todo)
         v == Published(op.marker.attempt)[f]
         rest == op.todo \ {f}
     IN  /\ registry' = [registry EXCEPT ![f] = v]
         /\ IF registry[f] = v
              THEN UNCHANGED <<owed, displaced>>
              ELSE /\ owed' = owed \cup {f}
                   /\ displaced' = [displaced EXCEPT ![f] = registry[f]]
         /\ Goto(IF rest = {} THEN "announce" ELSE "publish", rest)
  /\ unnotified' = TRUE
  /\ UNCHANGED <<backup, challenge, published, shown, foreign, faults>>

Announce ==
  /\ At("announce")
  /\ unnotified' = FALSE
  /\ Unlock
  /\ UNCHANGED <<registry, backup, challenge, published, history, foreign, faults>>

\* A failing write or notification rolls the publication back at once.
PublishFails ==
  /\ At("publish") \/ At("announce")
  /\ Fault
  /\ Goto("plan", {})
  /\ UNCHANGED <<registry, backup, challenge, published, unnotified, history, foreign>>

-----------------------------------------------------------------------------
(* Ordinary restore: clear_system_proxy_owned, restore_pending_owned_proxy *)
(* and discard_backup all end in restore_owned_publication_locked.         *)

\* Variant: neither the presence nor the owner of the marker is looked at.
ClearAnyway(a) ==
  /\ At("idle")
  /\ Enter("plan", {}, backup)
  /\ UNCHANGED <<registry, backup, challenge, published, unnotified, history, foreign, faults>>

\* Disconnect or rollback of attempt a.
Clear(a) ==
  /\ At("idle") /\ backup # NoBackup
  /\ IF backup.attempt = a
       THEN Enter("plan", {}, backup) /\ UNCHANGED challenge
       ELSE challenge' = NoChallenge /\ UNCHANGED op
  /\ UNCHANGED <<registry, backup, published, unnotified, history, foreign, faults>>

\* Crash recovery: whatever attempt the marker names.
RestorePending ==
  /\ At("idle")
  /\ IF backup = NoBackup
       THEN challenge' = NoChallenge /\ UNCHANGED op
       ELSE Enter("plan", {}, backup) /\ UNCHANGED challenge
  /\ UNCHANGED <<registry, backup, published, unnotified, history, foreign, faults>>

\* Variant: the marker is dropped as the user asked.
DiscardBlindly ==
  /\ At("idle")
  /\ challenge' = NoChallenge
  /\ backup' = NoBackup
  /\ UNCHANGED <<registry, op, published, unnotified, history, foreign, faults>>

\* discard_backup: only the exact original is let go, by the same path.
Discard ==
  /\ At("idle")
  /\ challenge' = NoChallenge
  /\ IF backup # NoBackup /\ registry = backup.original
       THEN Enter("plan", {}, backup) ELSE UNCHANGED op
  /\ UNCHANGED <<registry, backup, published, unnotified, history, foreign, faults>>

\* Read, plan, and either go on or return an error.  A strict mapping among
\* foreign fields mints the token of a confirmation dialog (or returns the
\* one minted for the same marker and state).
PlanRestore ==
  /\ At("plan")
  /\ \/ /\ Plan(registry, op.marker) = "original"
        /\ Goto("notify", {})
        /\ challenge' = NoChallenge /\ UNCHANGED shown
     \/ /\ Plan(registry, op.marker) = "owned"
        /\ Goto("check", OwnedFields(registry, op.marker))
        /\ challenge' = NoChallenge /\ UNCHANGED shown
     \/ /\ Plan(registry, op.marker) = "manual"
        /\ StrictMapping(registry, op.marker)
        /\ Unlock
        /\ challenge' = [backup |-> op.marker, observed |-> registry]
        /\ shown' = registry
     \/ /\ \/ Plan(registry, op.marker) = "foreign"
           \/ Plan(registry, op.marker) = "manual" /\ ~StrictMapping(registry, op.marker)
        /\ Unlock
        /\ challenge' = NoChallenge /\ UNCHANGED shown
  /\ UNCHANGED <<registry, backup, published, unnotified, owed, displaced, foreign, faults>>

\* ProxyEnable, then ProxyServer, then ProxyOverride.
NextRestore(todo) == IF "enable" \in todo THEN "enable"
                     ELSE IF "server" \in todo THEN "server" ELSE "override"

\* Each owned field is read again just before it is written.
CheckField ==
  /\ At("check")
  /\ IF op.todo = {} THEN Goto("notify", {})
     ELSE LET f == NextRestore(op.todo)
          IN  IF registry[f] = Published(op.marker.attempt)[f]
                THEN Goto("write", op.todo) ELSE Unlock
  /\ UNCHANGED <<registry, backup, challenge, published, unnotified, history, foreign, faults>>

RestoreField ==
  /\ At("write")
  /\ LET f == NextRestore(op.todo)
     IN  Put(f) /\ Goto("check", op.todo \ {f})
  /\ UNCHANGED <<backup, challenge, published, foreign, faults>>

\* Variant: a complete original was announced by whoever put it there.
SkipNotify ==
  /\ At("notify")
  /\ IF registry = op.marker.original THEN Goto("verify", {}) ELSE Unlock
  /\ UNCHANGED <<registry, backup, challenge, published, unnotified, history, foreign, faults>>

\* The complete original is in place: tell WinINet, also on a retry.
Notify ==
  /\ At("notify")
  /\ IF registry = op.marker.original
       THEN unnotified' = FALSE /\ Goto("verify", {})
       ELSE Unlock /\ UNCHANGED unnotified
  /\ UNCHANGED <<registry, backup, challenge, published, history, foreign, faults>>

\* The reads after the notification, those of delete_backup_if_matches
\* (registry and marker) included.
Verify ==
  /\ At("verify")
  /\ IF registry = op.marker.original /\ backup = op.marker
       THEN Goto("delete", {}) ELSE Unlock
  /\ UNCHANGED <<registry, backup, challenge, published, unnotified, history, foreign, faults>>

DeleteBackup ==
  /\ At("delete")
  /\ backup' = NoBackup
  /\ Goto("after", {})
  /\ UNCHANGED <<registry, challenge, published, unnotified, history, foreign, faults>>

\* The state is read once more: unchanged, the restore returns Ok(true);
\* otherwise somebody wrote during the deletion and the marker is put back.
AfterDelete ==
  /\ At("after")
  /\ backup' = IF registry = op.marker.original THEN NoBackup ELSE op.marker
  /\ Unlock
  /\ UNCHANGED <<registry, challenge, published, unnotified, history, foreign, faults>>

\* Any other call of a restore may fail; the caller gets the error.
RestoreFails ==
  /\ op.step \in Steps \ {"publish", "announce"}
  /\ Fault
  /\ Unlock
  /\ UNCHANGED <<registry, backup, challenge, published, unnotified, history, foreign>>

-----------------------------------------------------------------------------
(* Confirmed restore: force_restore_owned_proxy and its pending variant.   *)

\* Variant: a live token authorises the overwrite of whatever is there.
AuthorisedByToken == challenge # NoChallenge

\* The token in the slot was minted for this marker and this exact state.
Authorised == challenge = [backup |-> backup, observed |-> registry]

\* The slot is consumed before anything is looked at.
ForceRestore(presented) ==
  /\ At("idle")
  /\ challenge' = NoChallenge
  /\ IF /\ presented = "live" /\ backup # NoBackup
        /\ Authorised
        /\ Plan(registry, backup) = "manual"
        /\ StrictMapping(registry, backup)
       THEN Enter("force", Fields, backup) ELSE UNCHANGED op
  /\ UNCHANGED <<registry, backup, published, unnotified, history, foreign, faults>>

\* write_original_snapshot: a disabled original disables first, an enabled
\* one enables last.
NextForce(todo) ==
  IF op.marker.original.enable = 0 /\ "enable" \in todo THEN "enable"
  ELSE IF "server" \in todo THEN "server"
  ELSE IF "override" \in todo THEN "override" ELSE "enable"

ForceField ==
  /\ At("force")
  /\ LET f == NextForce(op.todo)
         rest == op.todo \ {f}
     IN  Put(f) /\ Goto(IF rest = {} THEN "notify" ELSE "force", rest)
  /\ UNCHANGED <<backup, challenge, published, foreign, faults>>

-----------------------------------------------------------------------------
(* The surroundings.                                                       *)

\* The process dies: the registry and the marker stay.
Crash ==
  /\ Fault
  /\ op' = Idle /\ challenge' = NoChallenge
  /\ UNCHANGED <<registry, backup, published, unnotified, history, foreign>>

\* What another program writes: its own value, the value it found before us,
\* or one it captured while we were published.
ForeignValues(f) ==
  IF f = "server" THEN {s \in Servers : s.port = "-" \/ s.port \in published}
  ELSE IF f = "enable" THEN {0, 1} ELSE Overrides

ForeignWrite(f) ==
  /\ At("idle") \/ RacyForeign
  /\ foreign < MaxForeign
  /\ foreign' = foreign + 1
  /\ \E v \in ForeignValues(f) \ {registry[f]} : registry' = [registry EXCEPT ![f] = v]
  /\ owed' = owed \ {f}
  /\ UNCHANGED <<backup, challenge, op, published, unnotified, displaced, shown, faults>>

-----------------------------------------------------------------------------

Init ==
  /\ registry \in Originals
  /\ backup = NoBackup
  /\ challenge = NoChallenge
  /\ op = Idle
  /\ published = {}
  /\ unnotified = FALSE
  /\ owed = {} /\ displaced = registry /\ shown = registry
  /\ foreign = 0 /\ faults = 0

\* A command of the application takes the mutex.
Command ==
  \/ \E a \in Attempts : PublishBegin(a) \/ Clear(a)
  \/ RestorePending \/ Discard
  \/ \E presented \in {"live", "dead"} : ForceRestore(presented)

\* The operation that holds it goes on.
Proceed ==
  \/ PublishField \/ Announce \/ PlanRestore \/ CheckField \/ RestoreField
  \/ Notify \/ Verify \/ DeleteBackup \/ AfterDelete \/ ForceField

Next ==
  \/ Command
  \/ Proceed
  \/ PublishFails \/ RestoreFails \/ Crash
  \/ \E f \in Fields : ForeignWrite(f)

Spec == Init /\ [][Next]_vars

\* An operation runs to its end, and a pending marker is asked about again
\* (at every start of the application, and by the user).
FairSpec == Spec /\ WF_vars(Proceed) /\ WF_vars(RestorePending)

-----------------------------------------------------------------------------
(* Properties.                                                             *)

\* Types; and whoever holds the mutex works on the marker that is on disk.
TypeOK ==
  /\ registry \in Settings /\ displaced \in Settings /\ shown \in Settings
  /\ backup \in Backup \cup {NoBackup}
  /\ challenge \in Challenge \cup {NoChallenge}
  /\ op \in Operation \cup {Idle}
  /\ op.step \notin {"idle", "after"} => op.marker = backup
  /\ published \subseteq Attempts /\ owed \subseteq Fields
  /\ unnotified \in BOOLEAN
  /\ foreign \in 0..MaxForeign /\ faults \in 0..MaxFaults

\* A field the publication overwrote, and nobody has written since, is in the
\* durable snapshot with the value it had: no crash, failing call or second
\* connect loses the user's settings (set_system_proxy_owned saves first and
\* refuses to overwrite a marker; the marker goes only after the original is
\* back).
OriginalRecoverable ==
  \A f \in owed : backup # NoBackup /\ backup.original[f] = displaced[f]

\* While WinINet has not been told of our last write, the marker that makes a
\* retry tell it is on disk (the retry that finds the original in place).
AnnouncedOrPending == unnotified => backup # NoBackup

\* The marker is let go only in the exact saved state, whatever command asked
\* (a disabled or foreign proxy may come back with our captured endpoint).
ReleaseOnlyOriginal ==
  [][backup # NoBackup /\ backup' = NoBackup => registry = backup.original]_vars

\* We overwrite nothing that another program wrote and the user was not shown:
\* each value a step of ours replaces is the saved one, the published one, or
\* the one in the dialog the user confirmed (compare-before-write, and the
\* one-use token bound to the observed state).
ForeignPreserved ==
  [][\A f \in Fields :
       registry'[f] # registry[f] /\ foreign' = foreign =>
         \/ registry[f] = backup.original[f]
         \/ registry[f] = Published(backup.attempt)[f]
         \/ At("force") /\ registry[f] = shown[f]]_vars

\* A pending marker is released in the end, unless another program's values
\* stand in the way: crashes and failing calls only delay a restore, and a
\* half-done one can be taken up again.
RetryConverges ==
  backup # NoBackup ~>
    (backup = NoBackup \/ Plan(registry, backup) \in {"manual", "foreign"})

\* discard_backup as its comment describes it: the marker is deleted without
\* the snapshot being applied.  The code refuses unless the snapshot is already
\* in place.
DiscardReleases == [][Discard /\ backup # NoBackup => op' # op]_vars

=============================================================================
