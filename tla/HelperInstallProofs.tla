-------------------------- MODULE HelperInstallProofs --------------------------
(* Theorems about HelperInstall, for every set of users, every payload and  *)
(* every number of manifests and faults.                                    *)
EXTENDS HelperInstall, TLAPS

-----------------------------------------------------------------------------
(* The inductive invariant.                                                *)

\* Which command the installer's stages have running.
StageInv ==
  /\ nsis \in {"copy", "sdset", "deletekey", "stock"} => proc = NoProc
  /\ nsis = "provision" => proc.op = "install"
  /\ nsis \in {"rollback", "remove"} => proc.op = "prune"
  /\ nsis \in {"copy", "deletekey", "stock"} => svc.state = "absent"
  /\ nsis = "stock" => manifest.acl = NoOwner

\* A tree and a key provisioned for user o as far as step pc of `install`.
RootDone(o) == Verified(rootAcl, o)
FilesDone(o) == RootDone(o) /\ FilesVerified(o)
KeyDone(o) == FilesDone(o) /\ KeyVerified(o)

\* What each step of `install` finds done by the steps before it; until the
\* service is created there is none.
InstallInv ==
  proc.op = "install" =>
    /\ proc.owner \in Owners
    /\ proc.pc \in InstallPcs \cup {"ok", "err"}
    /\ proc.pc \in {"root", "files", "key", "value", "load", "leaf",
                    "invalidate", "marker", "create"} =>
         svc.state = "absent" /\ Payload \cup {"helper"} \subseteq files
    /\ proc.pc = "files" => RootDone(proc.owner)
    /\ proc.pc = "key" => FilesDone(proc.owner)
    /\ proc.pc = "value" => KeyDone(proc.owner)
    /\ proc.pc \in {"leaf", "invalidate", "marker", "create"} =>
         Loads /\ proc.inst = manifest.val
    /\ proc.pc \in {"invalidate", "marker", "create"} => runtime[proc.inst.id].made
    /\ proc.pc = "create" => runtime[proc.inst.id].marker = proc.inst

\* Removal touches runtime and tree only once the SCM shows no service.
RemoveInv ==
  /\ proc.op \in {"uninstall", "prune"} =>
       proc.pc \in RemovePcs \cup {"ok", "err"}
  /\ proc.op \in {"uninstall", "prune"}
     /\ proc.pc \in {"runtime", "fallback", "prunetree", "ok"} => svc.state = "absent"

\* A service entry is backed by everything its process checks at startup.
BackedInv ==
  /\ svc.state # "absent" => Loads /\ MarkerMatches(manifest.val)
  /\ svc.state = "Running" => svcInst = manifest.val

IInv == TypeOK /\ StageInv /\ InstallInv /\ RemoveInv /\ BackedInv

-----------------------------------------------------------------------------
(* The helpers.                                                            *)

\* An access list the helper has just written is one it verifies.
LEMMA WrittenAclVerifies == ASSUME NEW o PROVE Verified(RuntimeAcl(o), o)
  BY DEF Verified, AclMatches

\* An access list is verified for the user whose list was written.
LEMMA NoInstIsNone == NoInst \notin Insts
  BY InstallAssumption DEF NoInst, Insts

\* The next manifest is well formed.
LEMMA NextInstType ==
  ASSUME TypeOK, issued < MaxGen, NEW o \in Owners
  PROVE  NextInst(o) \in Insts
  <1>1. issued + 1 \in 1..MaxGen
    BY InstallAssumption DEF TypeOK
  <1>2. manifest.val # NoInst => manifest.val.id \in 1..MaxGen
    BY DEF TypeOK, Insts
  <1> QED
    BY <1>1, <1>2 DEF NextInst, Insts

LEMMA InitIInv == Init => IInv
  BY InstallAssumption
     DEF Init, IInv, TypeOK, StageInv, InstallInv, RemoveInv, BackedInv, NoProc, NoSvc,
         NoDir, NoInst, Insts, Dirs, Procs, Entries, Bundle, Kept, NsisStages, Reports

-----------------------------------------------------------------------------
(* Types are preserved.                                                    *)

LEMMA NextTypeOK == IInv /\ [Next]_vars => TypeOK'
  <1> SUFFICES ASSUME IInv, [Next]_vars PROVE TypeOK'
    OBVIOUS
  <1> USE DEF IInv
  <1>fault. ASSUME Fault \/ NoFault PROVE faults' \in 0..MaxFaults
    BY <1>fault, InstallAssumption DEF TypeOK, Fault, NoFault
  <1>goto. ASSUME NEW pc \in InstallPcs \cup RemovePcs \cup {"none", "ok", "err"}, Goto(pc)
           PROVE proc' \in Procs
    BY <1>goto DEF TypeOK, Goto, Procs
  <1>launch. ASSUME NEW op \in Ops, NEW o \in Owners \cup {NoOwner}, Launch(op, o)
             PROVE proc' \in Procs
    BY <1>launch DEF Launch, InstallPcs, RemovePcs, Procs
  <1>none. NoProc \in Procs
    BY DEF NoProc, Procs
  <1>1. CASE UNCHANGED vars
    BY <1>1 DEF vars, disk, TypeOK
  <1>2. CASE InstallBegin
    BY <1>2, <1>fault, <1>goto DEF InstallBegin, TypeOK, disk, InstallPcs
  <1>3. CASE ProtectRoot
    <2>1. proc.owner \in Owners
      BY <1>3 DEF ProtectRoot, At, InstallInv
    <2> QED
      BY <1>3, <2>1, <1>fault, <1>goto DEF ProtectRoot, TypeOK, InstallPcs
  <1>4. CASE ProtectFiles
    <2>1. proc.owner \in Owners
      BY <1>4 DEF ProtectFiles, At, InstallInv
    <2> QED
      BY <1>4, <2>1, <1>fault, <1>goto DEF ProtectFiles, TypeOK, InstallPcs
  <1>5. CASE ProtectKey
    <2>1. proc.owner \in Owners
      BY <1>5 DEF ProtectKey, At, InstallInv
    <2> QED
      BY <1>5, <2>1, <1>fault, <1>goto DEF ProtectKey, TypeOK, disk, InstallPcs
  <1>6. CASE WriteManifest
    <2>1. proc.owner \in Owners
      BY <1>6 DEF WriteManifest, At, InstallInv
    <2>2. NextInst(proc.owner) \in Insts
      BY <1>6, <2>1, NextInstType DEF WriteManifest
    <2>3. issued' \in 0..MaxGen
      BY <1>6, InstallAssumption DEF WriteManifest, TypeOK
    <2> QED
      BY <1>6, <2>2, <2>3, <1>fault, <1>goto DEF WriteManifest, TypeOK, disk, InstallPcs
  <1>7. CASE LoadInstallation
    <2>1. proc' \in Procs
      BY <1>7 DEF LoadInstallation, TypeOK, InstallPcs, Procs
    <2> QED
      BY <1>7, <2>1, <1>fault DEF LoadInstallation, TypeOK, disk
  <1>8. CASE ProvisionLeaf
    <2>1. proc.inst.owner \in Owners \cup {NoOwner}
      BY DEF TypeOK, Insts, NoInst, Procs
    <2>2. runtime' \in [1..MaxGen -> Dirs]
      <3>1. ASSUME NEW d \in Dirs PROVE Leaf(proc.inst.owner, d.marker) \in Dirs
        BY <2>1 DEF Dirs, Leaf
      <3> QED
        BY <1>8, <3>1 DEF ProvisionLeaf, TypeOK
    <2> QED
      BY <1>8, <2>2, <1>fault, <1>goto DEF ProvisionLeaf, TypeOK, disk, InstallPcs
  <1>9. CASE InvalidateMarker
    <2>1. ASSUME NEW d \in Dirs PROVE [d EXCEPT !.marker = NoInst] \in Dirs
      BY DEF Dirs
    <2>2. runtime' \in [1..MaxGen -> Dirs]
      BY <1>9, <2>1 DEF InvalidateMarker, TypeOK
    <2> QED
      BY <1>9, <2>2, <1>fault, <1>goto DEF InvalidateMarker, TypeOK, disk, InstallPcs
  <1>10. CASE WriteMarker
    <2>1. ASSUME NEW d \in Dirs PROVE [d EXCEPT !.marker = proc.inst] \in Dirs
      BY DEF Dirs, TypeOK, Procs
    <2>2. runtime' \in [1..MaxGen -> Dirs]
      BY <1>10, <2>1 DEF WriteMarker, TypeOK
    <2> QED
      BY <1>10, <2>2, <1>fault, <1>goto DEF WriteMarker, TypeOK, disk, InstallPcs
  <1>11. CASE CreateService
    BY <1>11, <1>fault, <1>goto DEF CreateService, TypeOK, disk, InstallPcs, SvcStates, Entries
  <1>12. CASE StartService
    BY <1>12, <1>fault, <1>goto DEF StartService, TypeOK, disk, InstallPcs, SvcStates, Entries
  <1>13. CASE WaitStarted
    BY <1>13, <1>fault, <1>goto DEF WaitStarted, TypeOK, disk
  <1>14. CASE UninstallBegin
    <2>1. proc' \in Procs
      BY <1>14 DEF UninstallBegin, TypeOK, RemovePcs, Procs
    <2> QED
      BY <1>14, <2>1, <1>fault DEF UninstallBegin, TypeOK, disk
  <1>15. CASE OpenService
    BY <1>15, <1>fault, <1>goto DEF OpenService, TypeOK, disk, RemovePcs
  <1>16. CASE StopService
    BY <1>16, <1>fault, <1>goto DEF StopService, TypeOK, disk, RemovePcs, SvcStates, Entries
  <1>17. CASE DeleteService
    BY <1>17, <1>fault, <1>goto DEF DeleteService, TypeOK, disk, RemovePcs, Entries
  <1>18. CASE AwaitDeletion
    BY <1>18, <1>fault, <1>goto DEF AwaitDeletion, TypeOK, disk, RemovePcs
  <1>19. CASE CleanExactRuntime
    <2>1. NoDir \in Dirs
      BY DEF NoDir, Dirs
    <2>2. runtime' \in [1..MaxGen -> Dirs]
      BY <1>19, <2>1 DEF CleanExactRuntime, TypeOK
    <2> QED
      BY <1>19, <2>2, <1>fault, <1>goto
         DEF CleanExactRuntime, TypeOK, disk, RemovePcs, AfterRuntime
  <1>20. CASE CleanProductRuntime
    <2>1. runtime' \in [1..MaxGen -> Dirs]
      <3>1. NoDir \in Dirs
        BY DEF NoDir, Dirs
      <3> QED
        BY <1>20, <3>1 DEF CleanProductRuntime, TypeOK
    <2> QED
      BY <1>20, <2>1, <1>fault, <1>goto
         DEF CleanProductRuntime, TypeOK, disk, RemovePcs, AfterRuntime
  <1>21. CASE PruneTree
    BY <1>21, <1>fault, <1>goto DEF PruneTree, TypeOK
  <1>22. CASE Service
    <2>1. ASSUME NEW st \in SvcStates PROVE [svc EXCEPT !.state = st] \in Entries
                                      /\ [svc EXCEPT !.state = st, !.restart = FALSE] \in Entries
      BY DEF TypeOK, Entries
    <2>2. NoSvc \in Entries
      BY DEF NoSvc, Entries
    <2>3. manifest.val \in Insts \cup {NoInst}
      BY DEF TypeOK
    <2>4. svc' \in Entries /\ svcInst' \in Insts \cup {NoInst}
      BY <1>22, <2>1, <2>2, <2>3
         DEF Service, ScmStart, ServiceReady, ServiceRefuses, ServiceStopped, ScmReap,
             TypeOK, SvcStates
    <2>5. (Fault \/ NoFault) /\ UNCHANGED <<disk, manifest, issued, runtime, proc, nsis, report>>
      BY <1>22 DEF Service, ScmStart, ServiceReady, ServiceRefuses, ServiceStopped, ScmReap
    <2> QED
      BY <2>4, <2>5, <1>fault DEF TypeOK, disk
  <1>23. ASSUME NEW o \in Owners, CopyFiles(o) PROVE TypeOK'
    BY <1>23, <1>fault, <1>launch DEF CopyFiles, TypeOK, Ops, NsisStages
  <1>24. CASE PostInstall
    BY <1>24, <1>fault, <1>launch, <1>none DEF PostInstall, TypeOK, disk, Ops, NsisStages
  <1>25. CASE RestrictService
    BY <1>25, <1>fault, <1>launch
       DEF RestrictService, TypeOK, disk, Ops, NsisStages, Reports
  <1>26. CASE Rollback
    BY <1>26, <1>fault, <1>none DEF Rollback, DeleteHelper, TypeOK, NsisStages, Reports
  <1>27. CASE HelperRemoved
    BY <1>27, <1>fault, <1>none
       DEF HelperRemoved, DeleteHelper, TypeOK, NsisStages, Reports
  <1>28. CASE DeleteManifestKey
    BY <1>28, <1>fault DEF DeleteManifestKey, TypeOK, disk, NsisStages, Reports
  <1>29. CASE PostUninstall
    BY <1>29, <1>fault DEF PostUninstall, TypeOK, NsisStages, Reports
  <1>30. CASE PreInstall
    BY <1>30, <1>fault DEF PreInstall, TypeOK, disk, NsisStages, Reports
  <1>31. CASE PreUninstall
    BY <1>31, <1>fault, <1>launch DEF PreUninstall, TypeOK, disk, Ops, NsisStages, Reports
  <1>32. ASSUME NEW o \in Owners, NEW op \in AdminOps, AdminRun(op, o) PROVE TypeOK'
    BY <1>32, <1>fault, <1>launch, InstallAssumption
       DEF AdminRun, TypeOK, disk, Ops, Reports
  <1>33. CASE AdminDone
    BY <1>33, <1>fault, <1>none DEF AdminDone, TypeOK, disk
  <1>34. CASE ProcFail
    BY <1>34, <1>fault, <1>goto DEF ProcFail, TypeOK, disk
  <1>35. CASE ServiceCrash
    BY <1>35, <1>fault DEF ServiceCrash, TypeOK, disk, SvcStates, Entries
  <1>36. CASE Kill
    <2>1. svc' \in Entries /\ svcInst' \in Insts \cup {NoInst}
      <3>1. NoSvc \in Entries
        BY DEF NoSvc, Entries
      <3>2. [svc EXCEPT !.state = "Stopped", !.restart = TRUE] \in Entries
        BY DEF TypeOK, Entries, SvcStates
      <3> QED
        BY <1>36, <3>1, <3>2 DEF Kill, TypeOK
    <2>2. files' \subseteq Bundle
      BY <1>36 DEF Kill, TypeOK
    <2> QED
      BY <1>36, <2>1, <2>2, <1>fault, <1>none DEF Kill, TypeOK, NsisStages, Reports
  <1> QED
    BY <1>1, <1>2, <1>3, <1>4, <1>5, <1>6, <1>7, <1>8, <1>9, <1>10, <1>11, <1>12, <1>13,
       <1>14, <1>15, <1>16, <1>17, <1>18, <1>19, <1>20, <1>21, <1>22, <1>23, <1>24,
       <1>25, <1>26, <1>27, <1>28, <1>29, <1>30, <1>31, <1>32, <1>33, <1>34, <1>35,
       <1>36 DEF Next, Command, Installer, User
-----------------------------------------------------------------------------
(* The stages, the command's progress and the service entry.               *)

\* What the checks read: they keep their answers while it stays.
LEMMA ChecksStay ==
  ASSUME UNCHANGED <<disk, manifest>>
  PROVE  /\ Loads' = Loads
         /\ \A o : RootDone(o)' = RootDone(o) /\ FilesDone(o)' = FilesDone(o)
                  /\ KeyDone(o)' = KeyDone(o)
  BY DEF disk, Loads, RootDone, FilesDone, KeyDone, FilesVerified, Verified, KeyVerified

LEMMA NextIInv == IInv /\ [Next]_vars => IInv'
  <1> SUFFICES ASSUME IInv, [Next]_vars PROVE IInv'
    OBVIOUS
  <1>type. TypeOK'
    BY NextTypeOK
  <1>rec. proc \in Procs /\ svc \in Entries /\ runtime \in [1..MaxGen -> Dirs]
    BY DEF IInv, TypeOK
  <1> DEFINE OtherInv == StageInv /\ InstallInv /\ RemoveInv /\ BackedInv
  <1> SUFFICES OtherInv'
    BY <1>type DEF IInv
  <1> USE DEF IInv
  <1>1. CASE UNCHANGED vars
    BY <1>1 DEF vars, disk, StageInv, InstallInv, RemoveInv, BackedInv, RootDone, FilesDone,
       KeyDone, Loads, FilesVerified, MarkerMatches, Verified, KeyVerified
  <1>2. CASE InstallBegin
    BY <1>2, <1>rec, ChecksStay, WrittenAclVerifies
       DEF InstallBegin, StageInv, InstallInv, RemoveInv, BackedInv, Procs, Entries, disk, NoProc,
           InstallPcs, RemovePcs, Goto, At, Removing, MarkerMatches
  <1>3. CASE ProtectRoot
    BY <1>3, <1>rec, WrittenAclVerifies
       DEF ProtectRoot, RootDone, StageInv, InstallInv, RemoveInv, BackedInv, Procs, Entries, disk, NoProc, InstallPcs,
           RemovePcs, Goto, At, Removing, MarkerMatches
  <1>4. CASE ProtectFiles
    BY <1>4, <1>rec, WrittenAclVerifies
       DEF ProtectFiles, RootDone, FilesDone, FilesVerified, StageInv, InstallInv, RemoveInv, BackedInv, Procs, Entries, disk, NoProc, InstallPcs,
           RemovePcs, Goto, At, Removing, MarkerMatches
  <1>5. CASE ProtectKey
    BY <1>5, <1>rec
       DEF ProtectKey, RootDone, FilesDone, KeyDone, KeyVerified, FilesVerified,
           StageInv, InstallInv, RemoveInv, BackedInv, Procs, Entries, disk, NoProc, InstallPcs,
           RemovePcs, Goto, At, Removing, MarkerMatches
  <1>6. CASE WriteManifest
    BY <1>6, <1>rec, ChecksStay, WrittenAclVerifies
       DEF WriteManifest, StageInv, InstallInv, RemoveInv, BackedInv, Procs, Entries, disk, NoProc,
           InstallPcs, RemovePcs, Goto, At, Removing, MarkerMatches
  <1>7. CASE LoadInstallation
    BY <1>7, <1>rec, ChecksStay, WrittenAclVerifies
       DEF LoadInstallation, StageInv, InstallInv, RemoveInv, BackedInv, Procs, Entries, disk, NoProc,
           InstallPcs, RemovePcs, Goto, At, Removing, MarkerMatches
  <1>8. CASE ProvisionLeaf
    <2>1. proc.inst \in Insts /\ proc.inst.id \in 1..MaxGen
      BY <1>8 DEF ProvisionLeaf, At, InstallInv, Loads, TypeOK, Insts
    <2>2. proc'.pc # "err" => runtime'[proc.inst.id].made
      <3>1. CASE LeafAccepted(proc.inst)
        BY <1>8, <1>rec, <2>1, <3>1 DEF ProvisionLeaf, Leaf
      <3>2. CASE ~LeafAccepted(proc.inst)
        BY <1>8, <1>rec, <3>2 DEF ProvisionLeaf, Goto, Procs
      <3> QED
        BY <3>1, <3>2
    <2> QED
      BY <1>8, <1>rec, <2>1, <2>2, ChecksStay
         DEF ProvisionLeaf, StageInv, InstallInv, RemoveInv, BackedInv, Procs, Entries, disk, NoProc, InstallPcs,
           RemovePcs, Goto, At, Removing, MarkerMatches
  <1>9. CASE InvalidateMarker
    BY <1>9, <1>rec, ChecksStay, WrittenAclVerifies
       DEF InvalidateMarker, StageInv, InstallInv, RemoveInv, BackedInv, Procs, Entries, disk, NoProc,
           InstallPcs, RemovePcs, Goto, At, Removing, MarkerMatches
  <1>10. CASE WriteMarker
    <2>1. proc.inst \in Insts /\ proc.inst.id \in 1..MaxGen
      BY <1>10 DEF WriteMarker, At, InstallInv, Loads, TypeOK, Insts
    <2>2. runtime'[proc.inst.id].made /\ runtime'[proc.inst.id].marker = proc.inst
      BY <1>10, <1>rec, <2>1 DEF WriteMarker, At, InstallInv, Leaf, Dirs
    <2> QED
      BY <1>10, <1>rec, <2>1, <2>2, ChecksStay
         DEF WriteMarker, StageInv, InstallInv, RemoveInv, BackedInv, Procs, Entries, disk, NoProc, InstallPcs,
           RemovePcs, Goto, At, Removing, MarkerMatches
  <1>11. CASE CreateService
    BY <1>11, <1>rec, ChecksStay, WrittenAclVerifies
       DEF CreateService, StageInv, InstallInv, RemoveInv, BackedInv, Procs, Entries, disk, NoProc,
           InstallPcs, RemovePcs, Goto, At, Removing, MarkerMatches
  <1>12. CASE StartService
    <2>1. proc.op = "install" /\ proc' = [proc EXCEPT !.pc = "wait"]
      BY <1>12 DEF StartService, At, Goto
    <2>2. \/ UNCHANGED svc
          \/ svc.state = "Stopped" /\ svc'.state = "StartPending"
      BY <1>12, <1>rec DEF StartService, Entries
    <2>3. UNCHANGED <<disk, manifest, runtime, svcInst, nsis>>
      BY <1>12 DEF StartService
    <2> QED
      BY <1>rec, <2>1, <2>2, <2>3, ChecksStay
         DEF StageInv, InstallInv, RemoveInv, BackedInv, Procs, disk, NoProc, InstallPcs,
             MarkerMatches
  <1>13. CASE WaitStarted
    BY <1>13, <1>rec, ChecksStay, WrittenAclVerifies
       DEF WaitStarted, StageInv, InstallInv, RemoveInv, BackedInv, Procs, Entries, disk, NoProc,
           InstallPcs, RemovePcs, Goto, At, Removing, MarkerMatches
  <1>14. CASE UninstallBegin
    BY <1>14, <1>rec, ChecksStay, WrittenAclVerifies
       DEF UninstallBegin, StageInv, InstallInv, RemoveInv, BackedInv, Procs, Entries, disk, NoProc,
           InstallPcs, RemovePcs, Goto, At, Removing, MarkerMatches
  <1>15. CASE OpenService
    BY <1>15, <1>rec, ChecksStay, WrittenAclVerifies
       DEF OpenService, StageInv, InstallInv, RemoveInv, BackedInv, Procs, Entries, disk, NoProc,
           InstallPcs, RemovePcs, Goto, At, Removing, MarkerMatches
  <1>16. CASE StopService
    BY <1>16, <1>rec, ChecksStay, WrittenAclVerifies
       DEF StopService, StageInv, InstallInv, RemoveInv, BackedInv, Procs, Entries, disk, NoProc,
           InstallPcs, RemovePcs, Goto, At, Removing, MarkerMatches
  <1>17. CASE DeleteService
    BY <1>17, <1>rec, ChecksStay, WrittenAclVerifies
       DEF DeleteService, StageInv, InstallInv, RemoveInv, BackedInv, Procs, Entries, disk, NoProc,
           InstallPcs, RemovePcs, Goto, At, Removing, MarkerMatches
  <1>18. CASE AwaitDeletion
    BY <1>18, <1>rec, ChecksStay, WrittenAclVerifies
       DEF AwaitDeletion, StageInv, InstallInv, RemoveInv, BackedInv, Procs, Entries, disk, NoProc,
           InstallPcs, RemovePcs, Goto, At, Removing, MarkerMatches
  <1>19. CASE CleanExactRuntime
    <2>1. proc.op \in {"uninstall", "prune"} /\ svc.state = "absent"
      BY <1>19 DEF CleanExactRuntime, Removing, RemoveInv
    <2>2. proc'.op = proc.op /\ proc'.pc \in {"fallback", "prunetree", "ok"}
      BY <1>19, <1>rec DEF CleanExactRuntime, Goto, AfterRuntime, Procs
    <2>3. UNCHANGED <<disk, manifest, svc, svcInst, nsis>>
      BY <1>19 DEF CleanExactRuntime
    <2>4. proc.pc \in {"runtime", "fallback"}
      BY <1>19 DEF CleanExactRuntime, Removing
    <2> QED
      BY <2>1, <2>2, <2>3, <2>4
         DEF StageInv, InstallInv, RemoveInv, BackedInv, disk, NoProc, RemovePcs
  <1>20. CASE CleanProductRuntime
    <2>1. proc.op \in {"uninstall", "prune"} /\ svc.state = "absent"
      BY <1>20 DEF CleanProductRuntime, Removing, RemoveInv
    <2>2. proc'.op = proc.op /\ proc'.pc \in {"fallback", "prunetree", "ok"}
      BY <1>20, <1>rec DEF CleanProductRuntime, Goto, AfterRuntime, Procs
    <2>3. UNCHANGED <<disk, manifest, svc, svcInst, nsis>>
      BY <1>20 DEF CleanProductRuntime
    <2>4. proc.pc \in {"runtime", "fallback"}
      BY <1>20 DEF CleanProductRuntime, Removing
    <2> QED
      BY <2>1, <2>2, <2>3, <2>4
         DEF StageInv, InstallInv, RemoveInv, BackedInv, disk, NoProc, RemovePcs
  <1>21. CASE PruneTree
    BY <1>21, <1>rec, ChecksStay, WrittenAclVerifies
       DEF PruneTree, StageInv, InstallInv, RemoveInv, BackedInv, Procs, Entries, disk, NoProc,
           InstallPcs, RemovePcs, Goto, At, Removing, MarkerMatches
  <1>22. CASE ScmStart
    BY <1>22, <1>rec, ChecksStay, WrittenAclVerifies
       DEF ScmStart, StageInv, InstallInv, RemoveInv, BackedInv, Procs, Entries, disk, NoProc,
           InstallPcs, RemovePcs, Goto, At, Removing, MarkerMatches, NoSvc
  <1>23. CASE ServiceReady
    BY <1>23, <1>rec, ChecksStay, WrittenAclVerifies
       DEF ServiceReady, StageInv, InstallInv, RemoveInv, BackedInv, Procs, Entries, disk, NoProc,
           InstallPcs, RemovePcs, Goto, At, Removing, MarkerMatches, NoSvc
  <1>24. CASE ServiceRefuses
    BY <1>24, <1>rec, ChecksStay, WrittenAclVerifies
       DEF ServiceRefuses, StageInv, InstallInv, RemoveInv, BackedInv, Procs, Entries, disk, NoProc,
           InstallPcs, RemovePcs, Goto, At, Removing, MarkerMatches, NoSvc
  <1>25. CASE ServiceStopped
    BY <1>25, <1>rec, ChecksStay, WrittenAclVerifies
       DEF ServiceStopped, StageInv, InstallInv, RemoveInv, BackedInv, Procs, Entries, disk, NoProc,
           InstallPcs, RemovePcs, Goto, At, Removing, MarkerMatches, NoSvc
  <1>26. CASE ScmReap
    BY <1>26, <1>rec, ChecksStay, WrittenAclVerifies
       DEF ScmReap, StageInv, InstallInv, RemoveInv, BackedInv, Procs, Entries, disk, NoProc,
           InstallPcs, RemovePcs, Goto, At, Removing, MarkerMatches, NoSvc
  <1>27. ASSUME NEW o \in Owners, CopyFiles(o) PROVE OtherInv'
    BY <1>27, <1>rec DEF CopyFiles, Launch, StageInv, InstallInv, RemoveInv, BackedInv, Procs, Entries, disk, NoProc,
           InstallPcs, RemovePcs, Goto, At, Removing, MarkerMatches
  <1>28. CASE PostInstall
    BY <1>28, <1>rec, ChecksStay, WrittenAclVerifies
       DEF PostInstall, StageInv, InstallInv, RemoveInv, BackedInv, Procs, Entries, disk, NoProc,
           InstallPcs, RemovePcs, Goto, At, Removing, MarkerMatches, Launch, DeleteHelper, Unprovisioned
  <1>29. CASE RestrictService
    BY <1>29, <1>rec, ChecksStay, WrittenAclVerifies
       DEF RestrictService, StageInv, InstallInv, RemoveInv, BackedInv, Procs, Entries, disk, NoProc,
           InstallPcs, RemovePcs, Goto, At, Removing, MarkerMatches, Launch, DeleteHelper, Unprovisioned
  <1>30. CASE Rollback
    BY <1>30, <1>rec, ChecksStay, WrittenAclVerifies
       DEF Rollback, StageInv, InstallInv, RemoveInv, BackedInv, Procs, Entries, disk, NoProc,
           InstallPcs, RemovePcs, Goto, At, Removing, MarkerMatches, Launch, DeleteHelper, Unprovisioned
  <1>31. CASE HelperRemoved
    BY <1>31, <1>rec, ChecksStay, WrittenAclVerifies
       DEF HelperRemoved, StageInv, InstallInv, RemoveInv, BackedInv, Procs, Entries, disk, NoProc,
           InstallPcs, RemovePcs, Goto, At, Removing, MarkerMatches, Launch, DeleteHelper, Unprovisioned
  <1>32. CASE DeleteManifestKey
    BY <1>32, <1>rec, ChecksStay, WrittenAclVerifies
       DEF DeleteManifestKey, StageInv, InstallInv, RemoveInv, BackedInv, Procs, Entries, disk, NoProc,
           InstallPcs, RemovePcs, Goto, At, Removing, MarkerMatches, Launch, DeleteHelper, Unprovisioned
  <1>33. CASE PostUninstall
    BY <1>33, <1>rec, ChecksStay, WrittenAclVerifies
       DEF PostUninstall, StageInv, InstallInv, RemoveInv, BackedInv, Procs, Entries, disk, NoProc,
           InstallPcs, RemovePcs, Goto, At, Removing, MarkerMatches, Launch, DeleteHelper, Unprovisioned
  <1>34. CASE PreInstall
    BY <1>34, <1>rec, ChecksStay, WrittenAclVerifies
       DEF PreInstall, StageInv, InstallInv, RemoveInv, BackedInv, Procs, Entries, disk, NoProc,
           InstallPcs, RemovePcs, Goto, At, Removing, MarkerMatches, Launch, DeleteHelper, Unprovisioned
  <1>35. CASE PreUninstall
    BY <1>35, <1>rec, ChecksStay, WrittenAclVerifies
       DEF PreUninstall, StageInv, InstallInv, RemoveInv, BackedInv, Procs, Entries, disk, NoProc,
           InstallPcs, RemovePcs, Goto, At, Removing, MarkerMatches, Launch, DeleteHelper, Unprovisioned
  <1>36. ASSUME NEW o \in Owners, NEW op \in AdminOps, AdminRun(op, o) PROVE OtherInv'
    BY <1>36, <1>rec, ChecksStay DEF AdminRun, Launch, StageInv, InstallInv, RemoveInv, BackedInv, Procs, Entries, disk, NoProc,
           InstallPcs, RemovePcs, Goto, At, Removing, MarkerMatches
  <1>37. CASE AdminDone
    BY <1>37, <1>rec, ChecksStay, WrittenAclVerifies
       DEF AdminDone, StageInv, InstallInv, RemoveInv, BackedInv, Procs, Entries, disk, NoProc,
           InstallPcs, RemovePcs, Goto, At, Removing, MarkerMatches, NoSvc
  <1>38. CASE ProcFail
    BY <1>38, <1>rec, ChecksStay, WrittenAclVerifies
       DEF ProcFail, StageInv, InstallInv, RemoveInv, BackedInv, Procs, Entries, disk, NoProc,
           InstallPcs, RemovePcs, Goto, At, Removing, MarkerMatches, NoSvc
  <1>39. CASE ServiceCrash
    BY <1>39, <1>rec, ChecksStay, WrittenAclVerifies
       DEF ServiceCrash, StageInv, InstallInv, RemoveInv, BackedInv, Procs, Entries, disk, NoProc,
           InstallPcs, RemovePcs, Goto, At, Removing, MarkerMatches, NoSvc
  <1>40. CASE Kill
    <2>1. proc' = NoProc /\ nsis' = "idle" /\ UNCHANGED <<rootAcl, fileAcl, manifest, runtime>>
      BY <1>40 DEF Kill
    <2>2. \/ UNCHANGED <<svc, svcInst>>
          \/ svc'.state = "absent"
          \/ svc.state # "absent" /\ svc'.state = "Stopped"
      <3>1. CASE svc' = IF svc.marked \/ svc.state = "absent" THEN NoSvc
                         ELSE [svc EXCEPT !.state = "Stopped", !.restart = TRUE]
        BY <1>rec, <3>1 DEF NoSvc, Entries
      <3> QED
        BY <1>40, <3>1 DEF Kill
    <2>3. UNCHANGED files \/ svc.state = "absent"
      BY <1>40 DEF Kill, StageInv
    <2>4. UNCHANGED files => BackedInv'
      BY <2>1, <2>2, ChecksStay DEF BackedInv, MarkerMatches, disk
    <2>5. svc.state = "absent" => BackedInv'
      BY <2>2 DEF BackedInv
    <2> QED
      BY <2>1, <2>3, <2>4, <2>5 DEF StageInv, InstallInv, RemoveInv, NoProc
  <1> QED
    BY <1>1, <1>2, <1>3, <1>4, <1>5, <1>6, <1>7, <1>8, <1>9, <1>10, <1>11, <1>12, <1>13, <1>14, <1>15, <1>16, <1>17, <1>18, <1>19, <1>20, <1>21, <1>22, <1>23, <1>24, <1>25, <1>26, <1>27, <1>28, <1>29, <1>30, <1>31, <1>32, <1>33, <1>34, <1>35, <1>36, <1>37, <1>38, <1>39, <1>40
       DEF Next, Command, Service, Installer, User
LEMMA SpecIInv == Spec => []IInv
  BY InitIInv, NextIInv, PTL DEF Spec

-----------------------------------------------------------------------------
(* The theorems.                                                           *)

\* Every variable keeps its type.
THEOREM Types == Spec => []TypeOK
  BY SpecIInv, PTL DEF IInv

\* A running service is the one the manifest describes, over a verified
\* tree and a runtime directory with its own marker (prepare_pipe_server's
\* checks stay true for as long as the service runs).
THEOREM RunningIsProvisioned == Spec => []RunningServiceIsProvisioned
  <1>1. IInv => RunningServiceIsProvisioned
    BY DEF IInv, BackedInv, RunningServiceIsProvisioned
  <1> QED
    BY SpecIInv, <1>1, PTL

\* No service entry outlives the protected binary it would run as SYSTEM.
THEOREM EntryHasItsHelper == Spec => []ServiceHasItsHelper
  <1>1. IInv => ServiceHasItsHelper
    <2> SUFFICES ASSUME IInv, svc.state # "absent" PROVE ServiceHasItsHelper
      BY DEF ServiceHasItsHelper
    <2>1. manifest.val.owner \in Owners
      BY DEF IInv, BackedInv, Loads, TypeOK, Insts
    <2> QED
      BY <2>1 DEF IInv, BackedInv, Loads, ServiceHasItsHelper
  <1> QED
    BY SpecIInv, <1>1, PTL

\* Runtime directories go only when the SCM shows no service.
THEOREM RuntimeGoesLast == Spec => RuntimeOutlivesService
  <1>1. ASSUME IInv, [Next]_vars, NEW i \in 1..MaxGen, runtime[i].made, ~runtime'[i].made
        PROVE  svc.state = "absent"
    <2>1. CASE UNCHANGED runtime
      BY <1>1, <2>1
    <2>rec. runtime \in [1..MaxGen -> Dirs]
      BY <1>1 DEF IInv, TypeOK
    <2>2. CASE ProvisionLeaf
      <3>1. \/ UNCHANGED runtime
            \/ runtime' = [runtime EXCEPT ![proc.inst.id] =
                              Leaf(proc.inst.owner, runtime[proc.inst.id].marker)]
        BY <2>2 DEF ProvisionLeaf
      <3>2. runtime'[i] = runtime[i]
            \/ runtime'[i] = Leaf(proc.inst.owner, runtime[proc.inst.id].marker)
        BY <3>1, <2>rec
      <3> QED
        BY <1>1, <3>2 DEF Leaf
    <2>3. CASE InvalidateMarker
      BY <1>1, <2>3, <2>rec DEF InvalidateMarker, Dirs
    <2>4. CASE WriteMarker
      BY <1>1, <2>4, <2>rec DEF WriteMarker, Dirs
    <2>5. CASE CleanExactRuntime \/ CleanProductRuntime
      BY <1>1, <2>5
         DEF IInv, RemoveInv, CleanExactRuntime, CleanProductRuntime, Removing
    <2> QED
      BY <1>1, <2>1, <2>2, <2>3, <2>4, <2>5
         DEF Next, Command, Service, Installer, User, vars, disk,
             InstallBegin, ProtectRoot, ProtectFiles, ProtectKey, WriteManifest,
             LoadInstallation, CreateService, StartService, WaitStarted, UninstallBegin,
             OpenService, StopService, DeleteService, AwaitDeletion, PruneTree, ScmStart,
             ServiceReady, ServiceRefuses, ServiceStopped, ScmReap, CopyFiles, PostInstall,
             RestrictService, Rollback, HelperRemoved, DeleteManifestKey, PostUninstall,
             PreInstall, PreUninstall, AdminRun, AdminDone, ProcFail, ServiceCrash, Kill
  <1>2. IInv /\ [Next]_vars =>
          [\A i \in 1..MaxGen :
             runtime[i].made /\ ~runtime'[i].made => svc.state = "absent"]_vars
    BY <1>1
  <1> QED
    BY SpecIInv, <1>2, PTL DEF Spec, RuntimeOutlivesService

-----------------------------------------------------------------------------
(* What the installer tells the user.                                      *)

Final == {"failedSafely", "uninstalled"}

\* After a final report nothing runs that could make it false.
ReportInv ==
  report \in Final =>
    /\ nsis = "idle" /\ proc = NoProc /\ svc.state = "absent"
    /\ "helper" \notin files
    /\ report = "uninstalled" => manifest.acl = NoOwner /\ files = {}

LEMMA NextReportInv == IInv /\ ReportInv /\ [Next]_vars => ReportInv'
  <1> SUFFICES ASSUME IInv, ReportInv, [Next]_vars, report' \in Final PROVE ReportInv'
    BY DEF ReportInv
  <1>idle. CASE report \in Final
    <2>1. nsis = "idle" /\ proc = NoProc /\ svc.state = "absent" /\ "helper" \notin files
      BY <1>idle DEF ReportInv
    <2>2. ~Command
      BY <2>1 DEF Command, InstallBegin, ProtectRoot, ProtectFiles, ProtectKey, WriteManifest,
         LoadInstallation, ProvisionLeaf, InvalidateMarker, WriteMarker, CreateService,
         StartService, WaitStarted, UninstallBegin, OpenService, StopService, DeleteService,
         AwaitDeletion, CleanExactRuntime, CleanProductRuntime, PruneTree, At, Removing, NoProc
    <2>3. ~Service /\ ~ServiceCrash
      <3>1. svc.marked = TRUE => svc.state # "Stopped"
        BY <2>1
      <3> QED
        BY <2>1, <3>1 DEF Service, ScmStart, ServiceReady, ServiceRefuses, ServiceStopped, ScmReap,
           ServiceCrash
    <2>4. ~Installer /\ ~AdminDone /\ ~ProcFail /\ ~Kill
      BY <2>1 DEF Installer, CopyFiles, PostInstall, RestrictService, Rollback, HelperRemoved,
         DeleteManifestKey, PostUninstall, AdminDone, ProcFail, Kill, NoProc, InstallPcs, RemovePcs
    <2>5. ~User
      BY <2>1 DEF User, PreInstall, PreUninstall, AdminRun, Final
    <2> QED
      BY <1>idle, <2>2, <2>3, <2>4, <2>5 DEF Next, vars, disk, ReportInv
  <1>new. CASE report \notin Final
    <2>1. Rollback \/ PostUninstall
      BY <1>new DEF Next, Command, Service, Installer, User, vars, disk, Final,
         InstallBegin, ProtectRoot, ProtectFiles, ProtectKey, WriteManifest,
         LoadInstallation, ProvisionLeaf, InvalidateMarker, WriteMarker, CreateService,
         StartService, WaitStarted, UninstallBegin, OpenService, StopService, DeleteService,
         AwaitDeletion, CleanExactRuntime, CleanProductRuntime, PruneTree, ScmStart,
         ServiceReady, ServiceRefuses, ServiceStopped, ScmReap, CopyFiles, PostInstall,
         RestrictService, HelperRemoved, DeleteHelper, DeleteManifestKey,
         PreInstall, PreUninstall, AdminRun, AdminDone, ProcFail, ServiceCrash, Kill
    <2>2. CASE Rollback
      <3>1. proc.op = "prune"
        BY <2>2 DEF Rollback, IInv, StageInv
      <3>2. proc.pc = "ok" \/ Unprovisioned => svc.state = "absent"
        BY <3>1 DEF IInv, RemoveInv, Unprovisioned
      <3> QED
        BY <2>2, <3>2 DEF Rollback, DeleteHelper, Final, ReportInv
    <2>3. CASE PostUninstall
      <3> QED
        BY <2>3 DEF PostUninstall, Final, ReportInv, IInv, StageInv
    <2> QED
      BY <2>1, <2>2, <2>3
  <1> QED
    BY <1>idle, <1>new

\* "No SYSTEM service or exact helper remains", and "uninstalled", stay true
\* until the user starts something else.
THEOREM TrueReports == Spec => []ReportsAreTrue
  <1>1. Init => ReportInv
    BY DEF Init, ReportInv, Final
  <1>2. ReportInv => ReportsAreTrue
    BY DEF ReportInv, ReportsAreTrue, Final
  <1> QED
    BY SpecIInv, NextReportInv, <1>1, <1>2, PTL DEF Spec

\* A service entry stays backed by what it needs, and the installer's and the
\* uninstaller's messages are true.
THEOREM ServiceIsSound == Spec => []ServiceSound
  BY RunningIsProvisioned, EntryHasItsHelper, TrueReports, PTL DEF ServiceSound
=============================================================================
