----------------------------- MODULE HelperInstall -----------------------------
(***************************************************************************)
(* Installation and removal of the privileged helper: the helper's own     *)
(* command line (service.rs, security.rs), the NSIS hooks that drive it    *)
(* (installer-hooks.nsh) and the Service Control Manager under them.       *)
(*                                                                         *)
(* The helper is run as a process of its own, `proc`, by the installer or  *)
(* by an administrator; each of its steps is one durable effect, so that a *)
(* failed system call, a killed process or a power loss can fall between   *)
(* any two.  Durable state is the protected Program Files tree, the        *)
(* registry manifest, the per-installation runtime directories with their  *)
(* completion markers, and the service entry.                              *)
(*                                                                         *)
(* Bounds: MaxGen manifests are written and MaxFaults failures happen in a *)
(* behaviour.                                                              *)
(***************************************************************************)
EXTENDS Integers, Sequences, FiniteSets

CONSTANTS Owners,       \* desktop users that may start an installation
          NoOwner,      \* "no such user": an absent registry key
          Payload,      \* what the bundle holds beside helper and uninstaller
          AdminOps,     \* commands an administrator may run by hand
          MaxGen, MaxFaults

ASSUME InstallAssumption ==
    /\ NoOwner \notin Owners
    /\ Payload \cap {"helper", "uninstall.exe"} = {}
    /\ AdminOps \subseteq {"install", "uninstall"}
    /\ MaxGen \in Nat \ {0} /\ MaxFaults \in Nat

(* The two names the prune hands back to NSIS. *)
Kept == {"helper", "uninstall.exe"}
Bundle == Payload \cup Kept

(* An access list is the sequence of its entries, in order.                *)
RuntimeAcl(o) == << <<"SYSTEM", "full">>, <<"Administrators", "full">>,
                    <<o, "read">>, <<o, "inherit">> >>
InheritedAcl == << <<"TrustedInstaller", "full">>, <<"SYSTEM", "modify">>,
                   <<"Administrators", "modify">>, <<"Users", "read">> >>

(* Every entry is compared, in order; nothing weaker counts. *)
AclMatches(actual, expected) ==
    /\ Len(actual) = Len(expected)
    /\ \A i \in DOMAIN expected : actual[i] = expected[i]

Verified(acl, o) == AclMatches(acl, RuntimeAcl(o))

(* The user the third entry of an access list names. *)
AclOwner(acl) == acl[3][1]

(* What one ManifestV1 value says, and what a completion marker repeats.   *)
Insts == [gen : 1..MaxGen, id : 1..MaxGen, owner : Owners]
NoInst == [gen |-> 0, id |-> 0, owner |-> NoOwner]

NoDir == [made |-> FALSE, acl |-> NoOwner, marker |-> NoInst]
Leaf(o, i) == [made |-> TRUE, acl |-> o, marker |-> i]
Dirs == [made : BOOLEAN, acl : Owners \cup {NoOwner}, marker : Insts \cup {NoInst}]

VARIABLES
    files,      \* names present in the install root
    rootAcl,    \* access list of the install root
    fileAcl,    \* access list of its resources and critical files
    manifest,   \* registry key: its ACL's user (NoOwner: no key) and value
    issued,     \* manifests written so far; also the source of fresh uuids
    runtime,    \* InstallId -> its directory under ProgramData
    svc,        \* the service entry as the SCM holds it
    svcInst,    \* the Installation the service process loaded
    proc,       \* the helper run as a command
    nsis,       \* where the installer or uninstaller is
    report,     \* what the last of them told the user
    faults      \* failures so far

disk == <<files, rootAcl, fileAcl>>
vars == <<disk, manifest, issued, runtime, svc, svcInst, proc, nsis, report,
          faults>>

NoSvc == [state |-> "absent", marked |-> FALSE, restart |-> FALSE]
SvcStates == {"Stopped", "StartPending", "Running", "StopPending"}
Entries == [state : SvcStates \cup {"absent"}, marked : BOOLEAN, restart : BOOLEAN]

NoProc == [op |-> "none", pc |-> "none", owner |-> NoOwner, inst |-> NoInst]
Ops == {"install", "uninstall", "prune"}
InstallPcs == {"layout", "root", "files", "key", "value", "load", "leaf",
               "invalidate", "marker", "create", "start", "wait"}
RemovePcs == {"identity", "open", "stop", "delete", "deleted", "runtime",
              "fallback", "prunetree"}
Procs == [op : Ops \cup {"none"},
          pc : InstallPcs \cup RemovePcs \cup {"none", "ok", "err"},
          owner : Owners \cup {NoOwner}, inst : Insts \cup {NoInst}]

NsisStages == {"idle", "copy", "provision", "sdset", "rollback", "remove",
               "deletekey", "stock"}
Reports == {"none", "installed", "failedSafely", "rollbackFailed", "aborted",
            "uninstalled"}

TypeOK ==
    /\ files \subseteq Bundle
    /\ rootAcl \in {InheritedAcl} \cup {RuntimeAcl(o) : o \in Owners}
    /\ fileAcl \in {InheritedAcl} \cup {RuntimeAcl(o) : o \in Owners}
    /\ manifest \in [acl : Owners \cup {NoOwner}, val : Insts \cup {NoInst}]
    /\ issued \in 0..MaxGen
    /\ runtime \in [1..MaxGen -> Dirs]
    /\ svc \in Entries
    /\ svcInst \in Insts \cup {NoInst}
    /\ proc \in Procs
    /\ nsis \in NsisStages
    /\ report \in Reports
    /\ faults \in 0..MaxFaults

Init ==
    /\ files = {}
    /\ rootAcl = InheritedAcl
    /\ fileAcl = InheritedAcl
    /\ manifest = [acl |-> NoOwner, val |-> NoInst]
    /\ issued = 0
    /\ runtime = [i \in 1..MaxGen |-> NoDir]
    /\ svc = NoSvc
    /\ svcInst = NoInst
    /\ proc = NoProc
    /\ nsis = "idle"
    /\ report = "none"
    /\ faults = 0

-----------------------------------------------------------------------------
(* What the helper checks before it believes what is on the machine.       *)

FilesVerified(o) == Payload \cup {"helper"} \subseteq files /\ Verified(fileAcl, o)

(* The registry key exists and carries this user's access list. *)
KeyVerified(o) == manifest.acl = o

(* Installation::load: key ACL, root and resource ACLs, every file. *)
Loads ==
    LET m == manifest.val IN
    /\ m # NoInst
    /\ KeyVerified(m.owner)
    /\ Verified(rootAcl, m.owner)
    /\ FilesVerified(m.owner)

(* A key that is readable and carries this owner's ACL must agree. *)
ManifestAgrees(o) ==
    KeyVerified(o) /\ manifest.val # NoInst => manifest.val.owner = o

(* Mutant: the uninstaller asks for an intact payload, as the service does. *)
IdentityNeedsPayload == Loads /\ "helper" \in files

(* UninstallIdentity::load and verify_running_helper: the payload is not   *)
(* looked at, so that a half-done prune can be retried.                    *)
IdentityLoads ==
    /\ AclOwner(rootAcl) \in Owners
    /\ Verified(rootAcl, AclOwner(rootAcl))
    /\ ManifestAgrees(AclOwner(rootAcl))
    /\ "helper" \in files

MarkerMatches(i) == runtime[i.id].made /\ runtime[i.id].marker = i

(* provision_runtime_dir takes a directory it creates, or one whose marker *)
(* is the one this very Installation would write.                          *)
LeafAccepted(i) ==
    runtime[i.id].made => MarkerMatches(i) /\ runtime[i.id].acl = i.owner

(* Mutant: the generation is counted twice. *)
NextInstSkips(o) ==
    [gen |-> issued + 2, id |-> issued + 1, owner |-> o]

(* The InstallId of a manifest of the same owner is kept; the generation   *)
(* never is.                                                               *)
NextInst(o) ==
    [gen |-> issued + 1,
     id |-> IF manifest.val # NoInst /\ manifest.val.owner = o
            THEN manifest.val.id ELSE issued + 1,
     owner |-> o]

-----------------------------------------------------------------------------
(* The helper as a command.                                                *)

At(op, pc) == proc.op = op /\ proc.pc = pc
Removing(pc) == proc.op \in {"uninstall", "prune"} /\ proc.pc = pc
Goto(pc) == proc' = [proc EXCEPT !.pc = pc]
Launch(op, o) ==
    proc' = [op |-> op, pc |-> IF op = "install" THEN "layout" ELSE "identity",
             owner |-> o, inst |-> NoInst]
MayInstall == issued < MaxGen     \* the bound on manifests

Fault == faults < MaxFaults /\ faults' = faults + 1
NoFault == faults' = faults

(* An administrator runs `kwik-helper install` or `uninstall` by hand.     *)
AdminRun(op, o) ==
    /\ op \in AdminOps /\ (op = "install" => MayInstall)
    /\ nsis = "idle" /\ proc = NoProc
    /\ "helper" \in files
    /\ Launch(op, o)
    /\ report' = "none"
    /\ NoFault
    /\ UNCHANGED <<disk, manifest, issued, runtime, svc, svcInst, nsis>>

AdminDone ==
    /\ nsis = "idle" /\ proc.pc \in {"ok", "err"}
    /\ proc' = NoProc
    /\ NoFault
    /\ UNCHANGED <<disk, manifest, issued, runtime, svc, svcInst, nsis, report>>

(* Any step of the command may meet a failed system call or a timeout: the *)
(* command ends with an error and undoes nothing.                          *)
ProcFail ==
    /\ proc.pc \in (InstallPcs \cup RemovePcs) \ {"deleted"}
    /\ Goto("err")
    /\ Fault
    /\ UNCHANGED <<disk, manifest, issued, runtime, svc, svcInst, nsis, report>>

(* Mutant: a repair in place, under a running service. *)
InstallInPlace ==
    /\ At("install", "layout")
    /\ IF Payload \cup {"helper"} \subseteq files THEN Goto("root") ELSE Goto("err")
    /\ NoFault
    /\ UNCHANGED <<disk, manifest, issued, runtime, svc, svcInst, nsis, report>>

(* validate_installed_layout, and no in-place upgrade: an existing service *)
(* is never torn down from here.                                           *)
InstallBegin ==
    /\ At("install", "layout")
    /\ IF Payload \cup {"helper"} \subseteq files /\ svc.state = "absent"
       THEN Goto("root") ELSE Goto("err")
    /\ NoFault
    /\ UNCHANGED <<disk, manifest, issued, runtime, svc, svcInst, nsis, report>>

(* provision_install_tree: the root first, then resources and files.       *)
ProtectRoot ==
    /\ At("install", "root")
    /\ rootAcl' = RuntimeAcl(proc.owner)
    /\ Goto("files")
    /\ NoFault
    /\ UNCHANGED <<files, fileAcl, manifest, issued, runtime, svc, svcInst,
                   nsis, report>>

ProtectFiles ==
    /\ At("install", "files")
    /\ fileAcl' = RuntimeAcl(proc.owner)
    /\ Goto("key")
    /\ NoFault
    /\ UNCHANGED <<files, rootAcl, manifest, issued, runtime, svc, svcInst,
                   nsis, report>>

(* The registry key is created if missing and protected; a value it holds  *)
(* stays for now.                                                          *)
ProtectKey ==
    /\ At("install", "key")
    /\ manifest' = [manifest EXCEPT !.acl = proc.owner]
    /\ Goto("value")
    /\ NoFault
    /\ UNCHANGED <<disk, issued, runtime, svc, svcInst, nsis, report>>

WriteManifest ==
    /\ At("install", "value")
    /\ issued < MaxGen
    /\ issued' = issued + 1
    /\ manifest' = [manifest EXCEPT !.val = NextInst(proc.owner)]
    /\ Goto("load")
    /\ NoFault
    /\ UNCHANGED <<disk, runtime, svc, svcInst, nsis, report>>

LoadInstallation ==
    /\ At("install", "load")
    /\ proc' = IF Loads THEN [proc EXCEPT !.pc = "leaf", !.inst = manifest.val]
                        ELSE [proc EXCEPT !.pc = "err"]
    /\ NoFault
    /\ UNCHANGED <<disk, manifest, issued, runtime, svc, svcInst, nsis, report>>

(* provision_runtime_dir up to the marker: create or accept the leaf.      *)
ProvisionLeaf ==
    LET i == proc.inst IN
    /\ At("install", "leaf")
    /\ IF LeafAccepted(i)
       THEN /\ runtime' = [runtime EXCEPT ![i.id] = Leaf(i.owner, @.marker)]
            /\ Goto("invalidate")
       ELSE UNCHANGED runtime /\ Goto("err")
    /\ NoFault
    /\ UNCHANGED <<disk, manifest, issued, svc, svcInst, nsis, report>>

InvalidateMarker ==
    /\ At("install", "invalidate")
    /\ runtime' = [runtime EXCEPT ![proc.inst.id].marker = NoInst]
    /\ Goto("marker")
    /\ NoFault
    /\ UNCHANGED <<disk, manifest, issued, svc, svcInst, nsis, report>>

(* Written and flushed under a temporary name, then renamed. *)
WriteMarker ==
    /\ At("install", "marker")
    /\ runtime' = [runtime EXCEPT ![proc.inst.id].marker = proc.inst]
    /\ Goto("create")
    /\ NoFault
    /\ UNCHANGED <<disk, manifest, issued, svc, svcInst, nsis, report>>

(* create_service, the description and the restart-on-crash actions.       *)
CreateService ==
    /\ At("install", "create")
    /\ svc.state = "absent"
    /\ svc' = [state |-> "Stopped", marked |-> FALSE, restart |-> FALSE]
    /\ Goto("start")
    /\ NoFault
    /\ UNCHANGED <<disk, manifest, issued, runtime, svcInst, nsis, report>>

StartService ==
    /\ At("install", "start")
    /\ IF svc.state = "Stopped"
       THEN svc' = [svc EXCEPT !.state = "StartPending", !.restart = FALSE]
       ELSE UNCHANGED svc
    /\ Goto("wait")
    /\ NoFault
    /\ UNCHANGED <<disk, manifest, issued, runtime, svcInst, nsis, report>>

(* Poll to Running; a service that stopped during startup is an error that *)
(* leaves the entry behind.                                                *)
WaitStarted ==
    /\ At("install", "wait")
    /\ \/ svc.state = "Running" /\ Goto("ok")
       \/ svc.state = "Stopped" /\ Goto("err")
    /\ NoFault
    /\ UNCHANGED <<disk, manifest, issued, runtime, svc, svcInst, nsis, report>>

(* uninstall_impl: the deletion boundary before anything is changed, and   *)
(* the Installation while its manifest still exists.                       *)
UninstallBegin ==
    /\ Removing("identity")
    /\ proc' = IF proc.op = "prune" /\ ~IdentityLoads
               THEN [proc EXCEPT !.pc = "err"]
               ELSE [proc EXCEPT !.pc = "open",
                                 !.inst = IF Loads THEN manifest.val ELSE NoInst]
    /\ NoFault
    /\ UNCHANGED <<disk, manifest, issued, runtime, svc, svcInst, nsis, report>>

(* No entry: nothing to stop.  An entry already marked for deletion may    *)
(* refuse to open once its process is gone; its disappearance is awaited.  *)
OpenService ==
    /\ Removing("open")
    /\ \/ svc.state = "absent" /\ Goto("runtime")
       \/ svc.state # "absent" /\ Goto("stop")
       \/ svc.marked /\ svc.state = "Stopped" /\ Goto("deleted")
    /\ NoFault
    /\ UNCHANGED <<disk, manifest, issued, runtime, svc, svcInst, nsis, report>>

(* Pending starts are waited out; a running service is asked to stop; then *)
(* its Stopped state is awaited.                                           *)
StopService ==
    /\ Removing("stop")
    /\ \/ /\ svc.state = "Running"
          /\ svc' = [svc EXCEPT !.state = "StopPending"]
          /\ UNCHANGED proc
       \/ svc.state = "Stopped" /\ Goto("delete") /\ UNCHANGED svc
       \/ svc.state = "absent" /\ Goto("err") /\ UNCHANGED svc
    /\ NoFault
    /\ UNCHANGED <<disk, manifest, issued, runtime, svcInst, nsis, report>>

(* delete() marks the entry; it fails on one that is marked or gone.  The  *)
(* SCM may have restarted a crashed service since Stopped was read.        *)
DeleteService ==
    /\ Removing("delete")
    /\ IF svc.state = "absent" \/ svc.marked
       THEN Goto("err") /\ UNCHANGED svc
       ELSE svc' = [svc EXCEPT !.marked = TRUE] /\ Goto("deleted")
    /\ NoFault
    /\ UNCHANGED <<disk, manifest, issued, runtime, svcInst, nsis, report>>

(* Mutant: a successful delete() is taken for the end of the service. *)
DeletionTrusted ==
    /\ Removing("deleted") /\ Goto("runtime")
    /\ NoFault
    /\ UNCHANGED <<disk, manifest, issued, runtime, svc, svcInst, nsis, report>>

(* wait_for_service_deletion: go on only when neither the SCM nor the      *)
(* registry shows the entry; the deadline is an error.                     *)
AwaitDeletion ==
    /\ Removing("deleted")
    /\ \/ svc.state = "absent" /\ Goto("runtime")
       \/ svc.state # "absent" /\ Goto("err")
    /\ NoFault
    /\ UNCHANGED <<disk, manifest, issued, runtime, svc, svcInst, nsis, report>>

AfterRuntime == IF proc.op = "prune" THEN "prunetree" ELSE "ok"

(* The leaf the manifest names, if it is there and protected.  A failure   *)
(* is reported and the bounded product-wide cleanup runs instead.          *)
CleanExactRuntime ==
    LET i == proc.inst
        usable == i # NoInst /\ runtime[i.id].made /\ runtime[i.id].acl = i.owner
    IN
    /\ Removing("runtime")
    /\ \/ /\ usable
          /\ runtime' = [runtime EXCEPT ![i.id] = NoDir]
          /\ Goto(AfterRuntime) /\ NoFault
       \/ ~usable /\ Goto("fallback") /\ UNCHANGED runtime /\ NoFault
       \/ usable /\ Goto("fallback") /\ UNCHANGED runtime /\ Fault
    /\ UNCHANGED <<disk, manifest, issued, svc, svcInst, nsis, report>>

(* Every InstallId-shaped leaf of every owner; stops at the first failure, *)
(* which is reported and otherwise ignored.                                *)
CleanProductRuntime ==
    /\ Removing("fallback")
    /\ \/ runtime' = [i \in 1..MaxGen |-> NoDir] /\ NoFault
       \/ /\ Fault
          /\ \E gone \in SUBSET {i \in 1..MaxGen : runtime[i].made} :
               runtime' = [i \in 1..MaxGen |->
                             IF i \in gone THEN NoDir ELSE runtime[i]]
    /\ Goto(AfterRuntime)
    /\ UNCHANGED <<disk, manifest, issued, svc, svcInst, nsis, report>>

(* cleanup_install_tree_for_uninstaller removes all but the kept names, or *)
(* fails part of the way through.                                          *)
PruneTree ==
    /\ Removing("prunetree")
    /\ \/ files' = files \cap Kept /\ Goto("ok") /\ NoFault
       \/ /\ \E gone \in SUBSET (files \ Kept) : files' = files \ gone
          /\ Goto("err") /\ Fault
    /\ UNCHANGED <<rootAcl, fileAcl, manifest, issued, runtime, svc, svcInst,
                   nsis, report>>

-----------------------------------------------------------------------------
(* The service process and the SCM.                                        *)

(* SCM restarts after a crash or at boot; a marked entry never starts.     *)
ScmStart ==
    /\ svc.state = "Stopped" /\ ~svc.marked /\ svc.restart
    /\ svc' = [svc EXCEPT !.state = "StartPending", !.restart = FALSE]
    /\ NoFault
    /\ UNCHANGED <<disk, manifest, issued, runtime, svcInst, proc, nsis, report>>

(* service_loop up to Running: the readiness checks of prepare_pipe_server *)
(* load the Installation and compare the marker.                           *)
ServiceReady ==
    /\ svc.state = "StartPending"
    /\ Loads /\ MarkerMatches(manifest.val)
    /\ svc' = [svc EXCEPT !.state = "Running"]
    /\ svcInst' = manifest.val
    /\ NoFault
    /\ UNCHANGED <<disk, manifest, issued, runtime, proc, nsis, report>>

(* The readiness checks refuse, or the bounded startup cleanup fails: the  *)
(* service reports Stopped with an error.                                  *)
ServiceRefuses ==
    /\ svc.state = "StartPending"
    /\ IF Loads /\ MarkerMatches(manifest.val) THEN Fault ELSE NoFault
    /\ svc' = [svc EXCEPT !.state = "Stopped"]
    /\ UNCHANGED <<disk, manifest, issued, runtime, svcInst, proc, nsis, report>>

ServiceStopped ==
    /\ svc.state = "StopPending"
    /\ svc' = [svc EXCEPT !.state = "Stopped"]
    /\ svcInst' = NoInst
    /\ NoFault
    /\ UNCHANGED <<disk, manifest, issued, runtime, proc, nsis, report>>

ServiceCrash ==
    /\ svc.state \in {"StartPending", "Running", "StopPending"}
    /\ svc' = [svc EXCEPT !.state = "Stopped", !.restart = TRUE]
    /\ svcInst' = NoInst
    /\ Fault
    /\ UNCHANGED <<disk, manifest, issued, runtime, proc, nsis, report>>

(* The SCM drops a marked entry once its process and handles are gone.     *)
ScmReap ==
    /\ svc.marked /\ svc.state = "Stopped"
    /\ svc' = NoSvc
    /\ NoFault
    /\ UNCHANGED <<disk, manifest, issued, runtime, svcInst, proc, nsis, report>>

-----------------------------------------------------------------------------
(* The NSIS hooks.                                                         *)

(* PREINSTALL aborts on any trace of an earlier installation.              *)
PreInstall ==
    LET clean == files = {} /\ svc.state = "absent" /\ manifest.acl = NoOwner IN
    /\ nsis = "idle" /\ proc = NoProc
    /\ \/ clean /\ MayInstall /\ nsis' = "copy" /\ report' = "none"
       \/ ~clean /\ report' = "aborted" /\ UNCHANGED nsis
    /\ NoFault
    /\ UNCHANGED <<disk, manifest, issued, runtime, svc, svcInst, proc>>

(* The stock template copies the bundle: new names inherit their ACL.      *)
CopyFiles(o) ==
    /\ nsis = "copy"
    /\ files' = Bundle
    /\ fileAcl' = InheritedAcl
    /\ nsis' = "provision"
    /\ Launch("install", o)
    /\ NoFault
    /\ UNCHANGED <<rootAcl, manifest, issued, runtime, svc, svcInst, report>>

(* KWIK_SECURE_DELETE_HELPER_BOUNDED: the one exact name, or still there.  *)
DeleteHelper(done, failed) ==
    \/ files' = files \ {"helper"} /\ report' = done /\ NoFault
    \/ UNCHANGED files /\ report' = failed /\ Fault

(* KWIK_SECURE_RECOVER_UNPROVISIONED_INSTALL may delete the helper when    *)
(* neither a service nor a manifest key exists.                            *)
Unprovisioned == svc.state = "absent" /\ manifest.acl = NoOwner

(* POSTINSTALL: the helper provisions; any failure is rolled back with     *)
(* uninstall-for-installer.                                                *)
PostInstall ==
    /\ nsis = "provision"
    /\ \/ proc.pc = "ok" /\ nsis' = "sdset" /\ proc' = NoProc
       \/ proc.pc = "err" /\ nsis' = "rollback" /\ Launch("prune", NoOwner)
    /\ NoFault
    /\ UNCHANGED <<disk, manifest, issued, runtime, svc, svcInst, report>>

(* The service's own ACL; its failure rolls back too. *)
RestrictService ==
    /\ nsis = "sdset"
    /\ \/ nsis' = "idle" /\ report' = "installed" /\ UNCHANGED proc /\ NoFault
       \/ nsis' = "rollback" /\ Launch("prune", NoOwner) /\ UNCHANGED report /\ Fault
    /\ UNCHANGED <<disk, manifest, issued, runtime, svc, svcInst>>

(* Mutant: the exit code of the rollback is not looked at. *)
RollbackUnchecked ==
    /\ nsis = "rollback" /\ proc.pc \in {"ok", "err"}
    /\ DeleteHelper("failedSafely", "rollbackFailed")
    /\ nsis' = "idle" /\ proc' = NoProc
    /\ UNCHANGED <<rootAcl, fileAcl, manifest, issued, runtime, svc, svcInst>>

Rollback ==
    /\ nsis = "rollback" /\ proc.pc \in {"ok", "err"}
    /\ IF proc.pc = "ok" \/ Unprovisioned
       THEN DeleteHelper("failedSafely", "rollbackFailed")
       ELSE UNCHANGED files /\ report' = "rollbackFailed" /\ NoFault
    /\ nsis' = "idle" /\ proc' = NoProc
    /\ UNCHANGED <<rootAcl, fileAcl, manifest, issued, runtime, svc, svcInst>>

(* PREUNINSTALL with a helper to run, and without: then the absence of the *)
(* service must be provable.                                               *)
PreUninstall ==
    /\ nsis = "idle" /\ proc = NoProc
    /\ "uninstall.exe" \in files
    /\ IF "helper" \in files
       THEN nsis' = "remove" /\ Launch("prune", NoOwner) /\ report' = "none"
       ELSE IF svc.state = "absent"
       THEN nsis' = "deletekey" /\ report' = "none" /\ UNCHANGED proc
       ELSE report' = "aborted" /\ UNCHANGED <<nsis, proc>>
    /\ NoFault
    /\ UNCHANGED <<disk, manifest, issued, runtime, svc, svcInst>>

HelperRemoved ==
    /\ nsis = "remove" /\ proc.pc \in {"ok", "err"}
    /\ proc' = NoProc
    /\ \/ /\ proc.pc = "err"
          /\ nsis' = "idle" /\ report' = "aborted" /\ UNCHANGED files /\ NoFault
       \/ /\ proc.pc = "ok"
          /\ DeleteHelper("none", "aborted")
          /\ nsis' = IF report' = "none" THEN "deletekey" ELSE "idle"
    /\ UNCHANGED <<rootAcl, fileAcl, manifest, issued, runtime, svc, svcInst>>

DeleteManifestKey ==
    /\ nsis = "deletekey"
    /\ \/ /\ manifest' = [acl |-> NoOwner, val |-> NoInst]
          /\ nsis' = "stock" /\ UNCHANGED report /\ NoFault
       \/ /\ UNCHANGED manifest
          /\ nsis' = "idle" /\ report' = "aborted" /\ Fault
    /\ UNCHANGED <<disk, issued, runtime, svc, svcInst, proc>>

(* The stock template deletes its files and itself; POSTUNINSTALL removes  *)
(* the empty root, or fails if anything is left in it.                     *)
PostUninstall ==
    /\ nsis = "stock"
    /\ nsis' = "idle"
    /\ \/ /\ files' = {} /\ rootAcl' = InheritedAcl
          /\ report' = "uninstalled" /\ NoFault
       \/ /\ files' = {} /\ UNCHANGED rootAcl    \* an empty root, still locked
          /\ report' = "uninstalled" /\ Fault
       \/ /\ \E left \in SUBSET files \ {{}} : files' = left
          /\ UNCHANGED rootAcl
          /\ report' = "aborted" /\ Fault
    /\ UNCHANGED <<fileAcl, manifest, issued, runtime, svc, svcInst, proc>>

(* The power fails, or somebody kills installer and helper: what they held *)
(* in memory is gone.  A copy may stop half-way.  After a boot the SCM     *)
(* forgets marked entries and starts the others.                           *)
Kill ==
    /\ nsis # "idle" \/ proc # NoProc
    /\ nsis' = "idle" /\ proc' = NoProc /\ report' = "none"
    /\ \/ UNCHANGED files
       \/ nsis = "copy" /\ \E part \in SUBSET Bundle : files' = part
    /\ \/ UNCHANGED <<svc, svcInst>>
       \/ /\ svc' = IF svc.marked \/ svc.state = "absent" THEN NoSvc
                    ELSE [svc EXCEPT !.state = "Stopped", !.restart = TRUE]
          /\ svcInst' = NoInst
    /\ Fault
    /\ UNCHANGED <<rootAcl, fileAcl, manifest, issued, runtime>>

-----------------------------------------------------------------------------
Command ==
    \/ InstallBegin \/ ProtectRoot \/ ProtectFiles \/ ProtectKey
    \/ WriteManifest \/ LoadInstallation \/ ProvisionLeaf \/ InvalidateMarker
    \/ WriteMarker \/ CreateService \/ StartService \/ WaitStarted
    \/ UninstallBegin \/ OpenService \/ StopService \/ DeleteService
    \/ AwaitDeletion \/ CleanExactRuntime \/ CleanProductRuntime \/ PruneTree

Service ==
    ScmStart \/ ServiceReady \/ ServiceRefuses \/ ServiceStopped \/ ScmReap

Installer ==
    \/ \E o \in Owners : CopyFiles(o)
    \/ PostInstall \/ RestrictService \/ Rollback \/ HelperRemoved \/ DeleteManifestKey \/ PostUninstall

User ==
    \/ PreInstall
    \/ PreUninstall
    \/ \E o \in Owners, op \in AdminOps : AdminRun(op, o)

Next ==
    Command \/ Service \/ Installer \/ User \/ AdminDone
    \/ ProcFail \/ ServiceCrash \/ Kill

Spec == Init /\ [][Next]_vars

(* Commands, the service and the installer run on; the user of a machine   *)
(* with an uninstaller keeps trying to uninstall.                          *)
LiveSpec ==
    /\ Spec
    /\ WF_vars(Command) /\ WF_vars(Service) /\ WF_vars(Installer)
    /\ WF_vars(AdminDone)
    /\ SF_vars(PreUninstall)

-----------------------------------------------------------------------------
(* Properties.                                                             *)

(* While the service runs, everything it checked at startup still holds:   *)
(* the manifest is the one it loaded, its tree is complete and protected,  *)
(* and the runtime directory it writes to carries its own marker.          *)
RunningServiceIsProvisioned ==
    svc.state = "Running" =>
        svcInst = manifest.val /\ Loads /\ MarkerMatches(svcInst)

(* The SCM never holds an entry that would run, as SYSTEM, a helper that   *)
(* is missing or lies in an unprotected tree: not after a crash, a failed  *)
(* removal or a rollback.                                                  *)
ServiceHasItsHelper ==
    svc.state # "absent" =>
        \E o \in Owners : FilesVerified(o) /\ Verified(rootAcl, o)

(* "No SYSTEM service or exact helper remains", as the installer tells the *)
(* user after a rollback, and "uninstalled" leaves nothing privileged.     *)
ReportsAreTrue ==
    /\ report = "failedSafely" => svc.state = "absent" /\ "helper" \notin files
    /\ report = "uninstalled" =>
          svc.state = "absent" /\ manifest.acl = NoOwner /\ files = {}

(* A service entry is backed by what it needs as long as it exists, and    *)
(* what the user is told about installing and removing it is true.         *)
ServiceSound ==
    RunningServiceIsProvisioned /\ ServiceHasItsHelper /\ ReportsAreTrue

(* A runtime directory is removed only once the service that writes to it  *)
(* is gone from the SCM, whatever restarts the SCM slipped in.             *)
RuntimeOutlivesService ==
    [][\A i \in 1..MaxGen :
          runtime[i].made /\ ~runtime'[i].made => svc.state = "absent"]_vars

Removable == "uninstall.exe" \in files
Removed == svc.state = "absent" /\ manifest.acl = NoOwner /\ "helper" \notin files

(* The registry speaks of the user the root is protected for, if of any.   *)
OneUser == {manifest.acl, manifest.val.owner} \subseteq {NoOwner, AclOwner(rootAcl)}
ByHand == nsis = "idle" /\ proc # NoProc

(* Once provisioning has protected the install root, a user who retries    *)
(* the uninstaller ends with no service, no manifest and no helper,        *)
(* however often steps failed or were cut short on the way, unless an      *)
(* administrator steps in by hand or another user's installation does.     *)
ProtectedInstallIsRemovable ==
    (Removable /\ rootAcl # InheritedAcl /\ OneUser) ~> (Removed \/ ByHand \/ ~OneUser)

(* installer-hooks.nsh:118 tells a user whose install root holds leftovers *)
(* to "Complete the prior uninstall": so that must be possible.            *)
LeftoversAreRemovable == Removable ~> Removed

(* security.rs:1433 "A repair may reuse only a directory previously        *)
(* provisioned for this exact random InstallId": one that was is accepted. *)
RepairReusesItsDirectory ==
    LET i == proc.inst
        dir == runtime[i.id]
    IN At("install", "leaf") /\ dir.made /\ dir.acl = i.owner
          /\ dir.marker.id = i.id /\ dir.marker.owner = i.owner
       => LeafAccepted(i)
=============================================================================
