---- MODULE SubscriptionStoreProofs ----
(***************************************************************************)
(* The type of the state and the lists of the store (SubscriptionStore),   *)
(* for any subscriptions, URLs and tasks.                                  *)
(***************************************************************************)
EXTENDS SubscriptionStore, SequenceTheorems, TLAPS

Ops == {"idle", "load", "fetch", "push", "add", "remove", "wipe", "primary", "connect", "ping"}
Pcs == {"idle", "lockM", "read", "net", "lockR", "set", "connect", "select", "lockP",
        "setP", "storeP", "undoP", "del", "creds", "index", "stopVpn", "go", "lockW", "setW",
        "delW", "credsW", "ping"}
Statuses == {"stopped", "starting", "running", "stopping", "error"}

\* What one task and its reply look like, and the update of a field.
LEMMA IdleType == Idle \in Task /\ NoId \in IdOrNo /\ NoUrl \in UrlOrNo /\ NoList \in List
  BY DEF Idle, Task, IdOrNo, UrlOrNo, List

LEMMA TaskFields ==
  ASSUME NEW r \in Task
  PROVE  /\ r.op \in Ops /\ r.pc \in Pcs /\ r.id \in IdOrNo /\ r.url \in UrlOrNo
     /\ r.gen \in Nat
         /\ r.list \in List /\ r.back \in IdOrNo /\ r.backList \in List
         /\ r.victim \in IdOrNo /\ r.left \subseteq Ids
  BY DEF Task, Ops, Pcs

LEMMA TaskSteps ==
  ASSUME NEW r \in Task, NEW p \in Pcs
  PROVE  /\ [r EXCEPT !.pc = p] \in Task
         /\ \A o \in Ops : [r EXCEPT !.op = o, !.pc = p] \in Task
         /\ \A i \in IdOrNo : [r EXCEPT !.pc = p, !.id = i] \in Task
         /\ \A u \in UrlOrNo : [r EXCEPT !.pc = p, !.url = u] \in Task
         /\ \A l \in List : [r EXCEPT !.pc = p, !.list = l] \in Task
<1>1. [r EXCEPT !.pc = p] \in Task
  BY DEF Task, Pcs
<1>2. ASSUME NEW o \in Ops PROVE [r EXCEPT !.op = o, !.pc = p] \in Task
  BY ZenonT(30) DEF Task, Pcs, Ops
<1>3. ASSUME NEW i \in IdOrNo PROVE [r EXCEPT !.pc = p, !.id = i] \in Task
  BY DEF Task, Pcs
<1>4. ASSUME NEW u \in UrlOrNo PROVE [r EXCEPT !.pc = p, !.url = u] \in Task
  BY DEF Task, Pcs
<1>5. ASSUME NEW l \in List PROVE [r EXCEPT !.pc = p, !.list = l] \in Task
  BY DEF Task, Pcs
<1> QED BY <1>1, <1>2, <1>3, <1>4, <1>5

Replies == {"none", "yes", "no", "failed"}

LEMMA TaskReplies ==
  ASSUME NEW r \in Task, NEW y \in Replies
  PROVE  /\ [r EXCEPT !.reply = y] \in Task
         /\ \A p \in Pcs : [r EXCEPT !.pc = p, !.reply = y] \in Task
         /\ \A l \in List : [r EXCEPT !.reply = y, !.list = l] \in Task
         /\ \A n \in Nat : [r EXCEPT !.reply = y, !.gen = n] \in Task
         /\ \A p \in Pcs, s \in SUBSET Ids : [r EXCEPT !.pc = p, !.left = s,
               !.reply = y] \in Task
         /\ \A s \in SUBSET Ids : [r EXCEPT !.left = s, !.reply = y] \in Task
         /\ \A p \in Pcs, i \in IdOrNo : [r EXCEPT !.pc = p, !.id = i, !.reply = y] \in Task
<1>1. [r EXCEPT !.reply = y] \in Task
  BY DEF Task, Replies
<1>2. ASSUME NEW p \in Pcs PROVE [r EXCEPT !.pc = p, !.reply = y] \in Task
  BY ZenonT(30) DEF Task, Replies, Pcs
<1>3. ASSUME NEW l \in List PROVE [r EXCEPT !.reply = y, !.list = l] \in Task
  BY DEF Task, Replies
<1>4. ASSUME NEW n \in Nat PROVE [r EXCEPT !.reply = y, !.gen = n] \in Task
  BY DEF Task, Replies
<1>5. ASSUME NEW p \in Pcs, NEW s \in SUBSET Ids
      PROVE  [r EXCEPT !.pc = p, !.left = s, !.reply = y] \in Task
  BY DEF Task, Replies, Pcs
<1>6. ASSUME NEW s \in SUBSET Ids PROVE [r EXCEPT !.left = s, !.reply = y] \in Task
  BY DEF Task, Replies
<1>7. ASSUME NEW p \in Pcs, NEW i \in IdOrNo
      PROVE  [r EXCEPT !.pc = p, !.id = i, !.reply = y] \in Task
  BY DEF Task, Replies, Pcs
<1> QED BY <1>1, <1>2, <1>3, <1>4, <1>5, <1>6, <1>7

LEMMA TaskCommits ==
  ASSUME NEW r \in Task, NEW i \in IdOrNo, NEW u \in UrlOrNo, NEW l \in List, NEW k \in List
  PROVE  /\ \A n \in Nat : [r EXCEPT !.pc = "net", !.id = i, !.url = u, !.gen = n] \in Task
         /\ [r EXCEPT !.pc = "lockR", !.id = i, !.url = u, !.list = l] \in Task
         /\ [r EXCEPT !.pc = "setP", !.list = l, !.back = i, !.backList = k] \in Task
         /\ [r EXCEPT !.pc = "set", !.id = i, !.url = u] \in Task
<1>1. ASSUME NEW n \in Nat
      PROVE  [r EXCEPT !.pc = "net", !.id = i, !.url = u, !.gen = n] \in Task
  BY DEF Task
<1>2. [r EXCEPT !.pc = "lockR", !.id = i, !.url = u, !.list = l] \in Task
  BY DEF Task
<1>3. [r EXCEPT !.pc = "setP", !.list = l, !.back = i, !.backList = k] \in Task
  BY DEF Task
<1>4. [r EXCEPT !.pc = "set", !.id = i, !.url = u] \in Task
  BY DEF Task
<1> QED BY <1>1, <1>2, <1>3, <1>4

LEMMA NewTasks ==
  ASSUME NEW c \in Ops, NEW i \in IdOrNo, NEW u \in UrlOrNo, NEW l \in List
  PROVE  /\ [Idle EXCEPT !.op = c] \in Task /\ [Idle EXCEPT !.url = u] \in Task
         /\ [Idle EXCEPT !.id = i] \in Task /\ [Idle EXCEPT !.victim = i] \in Task
         /\ [Idle EXCEPT !.op = "push", !.pc = "lockR", !.id = i, !.url = u] \in Task
         /\ [Idle EXCEPT !.op = "connect", !.pc = "lockR", !.back = i, !.backList = l] \in Task
         /\ [Idle EXCEPT !.op = "ping", !.pc = "ping", !.id = i] \in Task
<1>0. Idle \in Task
  BY IdleType
<1>1. [Idle EXCEPT !.op = c] \in Task
  BY <1>0 DEF Task, Ops
<1>2. [Idle EXCEPT !.url = u] \in Task /\ [Idle EXCEPT !.id = i] \in Task
  BY <1>0 DEF Task
<1>3. [Idle EXCEPT !.victim = i] \in Task
  BY <1>0 DEF Task
<1>4. [Idle EXCEPT !.op = "push", !.pc = "lockR", !.id = i, !.url = u] \in Task
  BY <1>0 DEF Task
<1>5. [Idle EXCEPT !.op = "connect", !.pc = "lockR", !.back = i, !.backList = l] \in Task
  BY <1>0 DEF Task
<1>6. [Idle EXCEPT !.op = "ping", !.pc = "ping", !.id = i] \in Task
  BY <1>0 DEF Task
<1> QED BY <1>1, <1>2, <1>3, <1>4, <1>5, <1>6

LEMMA MessageTypes ==
  ASSUME NEW to \in Tasks \cup {NoTask}, NEW e \in Nat, NEW i \in Ids, NEW g \in Nat
  PROVE  /\ \A l \in List, type \in {"set", "delete", "connect", "ping"} :
              [type |-> type, to |-> to, epoch |-> e, id |-> i, gen |-> g, list |-> l] \in Message
         /\ \A l \in Servers :
              [type |-> "save", to |-> NoTask, epoch |-> e, id |-> i, gen |-> g,
               list |-> l] \in Message
  BY DEF Message

LEMMA MessageFields ==
  ASSUME NEW m \in Message
  PROVE  /\ m.to \in Tasks \cup {NoTask} /\ m.epoch \in Nat /\ m.id \in Ids /\ m.gen \in Nat
         /\ m.list \in List /\ (m.type = "save" => m.list \in Servers)
         /\ [m EXCEPT !.to = NoTask] \in Message
  BY DEF Message, List

LEMMA SnapshotTypes ==
  /\ \A e \in Nat : EmptySnapshot(e) \in Snapshot
  /\ \A r \in Snapshot :
       /\ r.list \in List /\ r.cacheGen \in [Ids -> Nat] /\ r.epoch \in Nat /\ r.gen \in Nat
       /\ \A g \in Nat, i \in IdOrNo, l \in List :
            [r EXCEPT !.gen = g, !.primary = i, !.list = l] \in Snapshot
       /\ \A i \in Ids, g \in Nat : [r EXCEPT !.cacheGen[i] = g] \in Snapshot
  BY DEF Snapshot, EmptySnapshot, IdOrNo, List

----
(***************************************************************************)
(* The pieces of steps keep the types.                                     *)
(***************************************************************************)

LEMMA Queues ==
  /\ \A q \in Seq(Tasks), t \in Tasks : Append(q, t) \in Seq(Tasks)
        /\ Released(t, q) \in Seq(Tasks)
  /\ \A t \in Tasks : <<t>> \in Seq(Tasks)
  /\ <<>> \in Seq(Tasks)
  BY AppendProperties, HeadTailProperties, EmptySeq DEF Released, Holds

LEMMA GotoTypes ==
  ASSUME TypeOK, NEW t \in Tasks, NEW r \in Task, Goto(t, r)
  PROVE  task' \in [Tasks -> Task] /\ task'[t] = r /\ \A s \in Tasks \ {t} : task'[s] = task[s]
  BY DEF Goto, TypeOK

LEMMA FinishTypes ==
  ASSUME TypeOK, NEW t \in Tasks, Finish(t)
  PROVE  task' \in [Tasks -> Task] /\ mutation' \in Seq(Tasks) /\ runtime' \in Seq(Tasks)
  BY Queues, IdleType DEF Finish, TypeOK

LEMMA WriteTypes ==
  ASSUME TypeOK, NEW t \in Tasks, NEW r \in Task, NEW i \in Ids, NEW l \in List, Write(t, r, i,
     l)
  PROVE  task' \in [Tasks -> Task] /\ runtimeSeq' \in Nat /\ wire' \subseteq Message
<1>1. runtimeSeq + 1 \in Nat /\ epoch \in Nat
  BY DEF TypeOK
<1>2. wire' \subseteq Message
  <2>1. [type |-> "set", to |-> t, epoch |-> epoch, id |-> i, gen |-> runtimeSeq + 1,
         list |-> l] \in Message
    BY <1>1, MessageTypes
  <2> QED BY <2>1 DEF Write, TypeOK
<1>3. task' \in [Tasks -> Task]
  BY <1>1, TaskReplies DEF Write, TypeOK, Replies
<1> QED BY <1>1, <1>2, <1>3 DEF Write

LEMMA DeleteTypes ==
  ASSUME TypeOK, NEW to \in Tasks \cup {NoTask}, NEW ids \in SUBSET Ids, DeleteCaches(to, ids)
  PROVE  fetchSeq' \in Nat /\ fetchGen' \in [Ids -> Nat] /\ wire' \subseteq Message
<1>1. fetchSeq + 1 \in Nat /\ epoch \in Nat
  BY DEF TypeOK
<1>2. \A i \in ids : [type |-> "delete", to |-> to, epoch |-> epoch, id |-> i,
                      gen |-> fetchSeq + 1, list |-> NoList] \in Message
  BY <1>1, MessageTypes, IdleType
<1>3. wire' \subseteq Message
  BY <1>2 DEF DeleteCaches, TypeOK
<1> QED BY <1>1, <1>3 DEF DeleteCaches, TypeOK

LEMMA FetchTypes ==
  ASSUME TypeOK, NEW t \in Tasks, NEW r \in Task, NEW i \in Ids, NEW u \in UrlOrNo,
         BeginFetch(t, r, i, u)
  PROVE  task' \in [Tasks -> Task] /\ fetchSeq' \in Nat /\ fetchGen' \in [Ids -> Nat]
<1>1. fetchSeq + 1 \in Nat /\ i \in IdOrNo
  BY DEF TypeOK, IdOrNo
<1>2. [r EXCEPT !.pc = "net", !.id = i, !.url = u, !.gen = fetchSeq + 1] \in Task
  BY <1>1, TaskCommits, IdleType
<1>3. task' \in [Tasks -> Task]
  BY <1>2, GotoTypes DEF BeginFetch
<1> QED BY <1>1, <1>3 DEF BeginFetch, TypeOK

LEMMA StopTypes ==
  ASSUME TypeOK, StopVpn
  PROVE  vpn' \in Statuses /\ session' \in List
  BY IdleType DEF StopVpn, TypeOK, Statuses

LEMMA EndTypes ==
  ASSUME TypeOK, NEW t \in Tasks, NEW s \in Statuses, EndConnect(t, s)
  PROVE  /\ vpn' \in Statuses
         /\ task' \in [Tasks -> Task] /\ mutation' \in Seq(Tasks) /\ runtime' \in Seq(Tasks)
  BY FinishTypes DEF EndConnect, Statuses

LEMMA OpSteps ==
  ASSUME NEW r \in Task, NEW o \in Ops
  PROVE  [r EXCEPT !.op = o] \in Task
  BY DEF Task, Ops

LEMMA OpTypes ==
  ASSUME TypeOK, NEW t, NEW c, NewOp(t, c), c = "fetch" => primary \in Ids
  PROVE  ops' \in 0..MaxOps /\ late' \subseteq Ids /\ UNCHANGED <<starts, faults>>
<1>1. ops < MaxOps /\ ops' = ops + 1 /\ ops \in 0..MaxOps
  BY DEF NewOp, TypeOK
<1>2. late' \subseteq Ids
  BY DEF NewOp, TypeOK
<1> QED BY <1>1, <1>2, Bounds DEF NewOp

LEMMA FailsTypes ==
  ASSUME TypeOK, Fails
  PROVE  faults' \in 0..MaxFaults /\ UNCHANGED <<ops, starts, late>>
<1>1. faults < MaxFaults /\ faults' = faults + 1 /\ faults \in 0..MaxFaults
  BY DEF Fails, TypeOK
<1> QED BY <1>1, Bounds DEF Fails

LEMMA GiveUpTypes ==
  ASSUME TypeOK, NEW t \in Tasks, GiveUpRemoval(t)
  PROVE  /\ task' \in [Tasks -> Task] /\ mutation' \in Seq(Tasks) /\ runtime' \in Seq(Tasks)
         /\ vpn' \in Statuses /\ session' \in List
<1>1. task[t] \in Task /\ task[t].victim \in IdOrNo /\ vpn \in Statuses /\ session \in List
  BY TaskFields DEF TypeOK, Statuses
<1>2. [task[t] EXCEPT !.pc = "stopVpn", !.id = task[t].victim, !.reply = "none"] \in Task
  BY <1>1, TaskReplies DEF Pcs, Replies
<1>3. CASE task[t].back = NoId
  BY <1>1, <1>3, FinishTypes DEF GiveUpRemoval
<1>4. CASE task[t].back # NoId
  BY <1>2, <1>4, GotoTypes, StopTypes DEF GiveUpRemoval, TypeOK, locks
<1> QED BY <1>3, <1>4

\* A task waits for the runtime mutex, or ends.
LEMMA StepOrFinish ==
  ASSUME TypeOK, NEW t \in Tasks,
         Finish(t) \/ (\E r \in Task : Goto(t, r) /\ runtime' = Append(runtime, t)
            /\ UNCHANGED mutation)
  PROVE  task' \in [Tasks -> Task] /\ mutation' \in Seq(Tasks) /\ runtime' \in Seq(Tasks)
<1>1. CASE Finish(t)
  BY <1>1, FinishTypes
<1>2. ASSUME NEW r \in Task, Goto(t, r), runtime' = Append(runtime, t), UNCHANGED mutation
      PROVE  task' \in [Tasks -> Task] /\ mutation' \in Seq(Tasks) /\ runtime' \in Seq(Tasks)
  BY <1>2, GotoTypes, Queues DEF TypeOK
<1> QED BY <1>1, <1>2

LEMMA ReplyTypes ==
  ASSUME TypeOK, NEW m \in Message, NEW r \in Replies, Reply(m, r)
  PROVE  task' \in [Tasks -> Task]
  BY MessageFields, TaskReplies DEF Reply, TypeOK

\* A new renderer.
LEMMA FreshTypes ==
  ASSUME TypeOK, NEW t \in Tasks, FreshRenderer(t)
  PROVE  /\ task' \in [Tasks -> Task] /\ mutation' \in Seq(Tasks) /\ runtime' \in Seq(Tasks)
         /\ starts' \in 1..MaxStarts
         /\ url' \in [Ids -> UrlOrNo] /\ list' \in [Ids -> List] /\ fetchGen' \in [Ids -> Nat]
         /\ primary' \in IdOrNo /\ shown' \in List /\ pings' \in List
         /\ epoch' \in Nat /\ fetchSeq' \in Nat /\ runtimeSeq' \in Nat
         /\ credQ' \in Seq([id : Ids, url : Urls])
         /\ UNCHANGED <<cache, index, storedPrimary, creds, used, ops, faults, late>>
<1>1. [Idle EXCEPT !.op = "load", !.pc = "lockM"] \in Task
  BY IdleType, TaskSteps DEF Ops, Pcs
<1>2. task' \in [Tasks -> Task]
  BY <1>1, IdleType DEF FreshRenderer
<1>3. mutation' \in Seq(Tasks) /\ runtime' \in Seq(Tasks)
         /\ credQ' \in Seq([id : Ids, url : Urls])
  BY Queues, EmptySeq DEF FreshRenderer
<1>4. starts' \in 1..MaxStarts
  <2>1. starts < MaxStarts /\ starts' = starts + 1 /\ starts \in 1..MaxStarts
    BY DEF FreshRenderer, TypeOK
  <2> QED BY <2>1, Bounds
<1>5. /\ url' \in [Ids -> UrlOrNo] /\ list' \in [Ids -> List] /\ fetchGen' \in [Ids -> Nat]
      /\ primary' \in IdOrNo /\ shown' \in List /\ pings' \in List
  BY IdleType DEF FreshRenderer
<1> QED BY <1>2, <1>3, <1>4, <1>5 DEF FreshRenderer

LEMMA MutationTypes ==
  ASSUME TypeOK, NEW t \in Tasks, NEW c, NEW r, [r EXCEPT !.op = c, !.pc = "lockM"] \in Task,
         c # "fetch", StartMutation(t, c, r)
  PROVE  /\ task' \in [Tasks -> Task] /\ mutation' \in Seq(Tasks) /\ ops' \in 0..MaxOps
         /\ UNCHANGED <<backend, wire, disk, store, vpn, seqs, runtime, starts, faults,
                      late>>
<1>1. task' \in [Tasks -> Task]
  BY GotoTypes DEF StartMutation
<1>2. mutation' \in Seq(Tasks)
  BY Queues DEF StartMutation, TypeOK
<1>3. ops' \in 0..MaxOps
  BY Bounds DEF StartMutation, NewOp, TypeOK
<1> QED BY <1>1, <1>2, <1>3 DEF StartMutation, NewOp

----
(***************************************************************************)
(* The invariant.                                                          *)
(***************************************************************************)

MutOps == {"load", "add", "remove", "wipe", "primary"}

\* A structural mutation at work holds the mutation mutex.
LockInv(t) == task[t].op \in MutOps /\ task[t].pc # "lockM" => Holds(t, mutation)

\* What a task has noted is there when it is used.
NoteInv(t) ==
  /\ task[t].pc \in {"net", "set", "connect", "lockP", "setP", "storeP", "undoP"}
       => task[t].id \in Ids
  /\ task[t].pc = "lockR" /\ task[t].op # "connect" => task[t].id \in Ids
  /\ task[t].op = "primary" => task[t].id \in Ids
  /\ task[t].op = "remove" => task[t].victim \in Ids
  /\ task[t].op = "add" /\ task[t].pc \in {"lockM", "index"} => task[t].url \in Urls
  /\ task[t].pc = "net" => task[t].url \in Urls
  /\ task[t].pc \in {"lockW", "setW", "delW", "credsW"} => task[t].op = "wipe"
  /\ task[t].op = "remove" /\ task[t].pc = "lockM" => task[t].back = NoId

\* What is removed, and what becomes the primary instead, exists until the index is
\* rewritten.
RemoveInv(t) ==
  task[t].op = "remove" /\ task[t].pc \notin {"lockM", "net", "lockR", "set"} =>
    /\ task[t].victim \in Subs
    /\ (task[t].back # NoId \/ task[t].pc \in {"select", "lockP", "setP", "storeP", "undoP"})
         => task[t].id \in Subs

\* What is added does not exist yet.
AddInv(t) ==
  task[t].op = "add" /\ task[t].pc = "index" => task[t].id \in Ids /\ url[task[t].id] = NoUrl

UsedInv(t) == {task[t].id, task[t].victim} \subseteq used \cup {NoId}

TaskOk(t) == LockInv(t) /\ NoteInv(t) /\ RemoveInv(t) /\ AddInv(t) /\ UsedInv(t)

StoreInv == Subs \subseteq used /\ index \subseteq used /\ primary \in used \cup {NoId}

\* A list belongs to the URL of its id.
ListInv == \A i \in Ids : list[i] # NoList => list[i].url = url[i]

Invariant ==
  /\ TypeOK /\ \A t \in Tasks : TaskOk(t)
  /\ StoreInv
  /\ ListInv

\* Every step keeps the types, given what the tasks have noted.
LEMMA TypesKept == TypeOK /\ (\A t \in Tasks : TaskOk(t)) /\ [Next]_vars => TypeOK'
<1> SUFFICES ASSUME TypeOK /\ (\A t \in Tasks : TaskOk(t)), [Next]_vars
             PROVE  TypeOK'
  OBVIOUS
<1> USE DEF backend, disk, store, seqs, locks, bounds
<1>a. /\ \A t \in Tasks : task[t] \in Task
      /\ \A i \in Ids : url[i] \in UrlOrNo /\ list[i] \in List
      /\ wire \subseteq Message /\ primary \in IdOrNo /\ shown \in List
      /\ rust \in Snapshot /\ cache \in [Ids -> List] /\ session \in List
  BY DEF TypeOK
<1>b. /\ Ids \subseteq IdOrNo /\ Urls \subseteq UrlOrNo
      /\ NoId \in IdOrNo /\ NoUrl \in UrlOrNo /\ NoList \in List
  BY IdleType DEF IdOrNo, UrlOrNo
<1>1. ASSUME NEW t \in Tasks, NEW i \in Ids, StartFetch(t, i) PROVE TypeOK'
  <2>1. [Idle EXCEPT !.op = "fetch"] \in Task
    BY <1>1, <1>b, NewTasks DEF Ops
  <2>2. task' \in [Tasks -> Task] /\ fetchSeq' \in Nat /\ fetchGen' \in [Ids -> Nat]
    BY <1>1, <2>1, <1>a, FetchTypes DEF StartFetch
  <2>3. ops' \in 0..MaxOps /\ late' \subseteq Ids /\ UNCHANGED <<starts, faults>>
    BY <1>1, OpTypes DEF StartFetch, Subs
  <2> QED BY <1>1, <2>1, <2>2, <2>3 DEF StartFetch, TypeOK, Statuses
<1>2. ASSUME NEW t \in Tasks, NEW i \in Ids, StartPrimary(t, i) PROVE TypeOK'
  <2>1. [[Idle EXCEPT !.id = i] EXCEPT !.op = "primary", !.pc = "lockM"] \in Task
    BY <1>2, <1>b, NewTasks, TaskSteps DEF Ops, Pcs
  <2>2. task' \in [Tasks -> Task] /\ mutation' \in Seq(Tasks) /\ ops' \in 0..MaxOps
       /\ UNCHANGED <<backend, wire, disk, store, vpn, seqs, runtime, starts, faults,
                    late>>
    BY <1>2, <2>1, MutationTypes DEF StartPrimary
  <2> QED BY <1>2, <2>1, <2>2 DEF TypeOK, Statuses
<1>3. ASSUME NEW t \in Tasks, NEW i \in Ids, StartRemove(t, i) PROVE TypeOK'
  <2>1. [[Idle EXCEPT !.victim = i] EXCEPT !.op = "remove", !.pc = "lockM"] \in Task
    BY <1>3, <1>b, NewTasks, TaskSteps DEF Ops, Pcs
  <2>2. task' \in [Tasks -> Task] /\ mutation' \in Seq(Tasks) /\ ops' \in 0..MaxOps
       /\ UNCHANGED <<backend, wire, disk, store, vpn, seqs, runtime, starts, faults,
                    late>>
    BY <1>3, <2>1, MutationTypes DEF StartRemove
  <2> QED BY <1>3, <2>1, <2>2 DEF TypeOK, Statuses
<1>4. ASSUME NEW t \in Tasks, NEW u \in Urls, SetUrl(t, u) PROVE TypeOK'
  <2>1. primary \in Ids /\ {primary} \in SUBSET Ids
    BY <1>4, <1>a DEF SetUrl, IdOrNo
  <2>2. [Idle EXCEPT !.op = "push", !.pc = "lockR", !.id = primary, !.url = u] \in Task
    BY <1>4, <1>a, <1>b, NewTasks DEF Ops
  <2>3. task' \in [Tasks -> Task]
    BY <1>4, <2>2, GotoTypes DEF SetUrl
  <2>4. fetchSeq' \in Nat /\ fetchGen' \in [Ids -> Nat] /\ wire' \subseteq Message
    BY <1>4, <2>1, DeleteTypes DEF SetUrl
  <2>5. url' \in [Ids -> UrlOrNo] /\ list' \in [Ids -> List] /\ shown' \in List
           /\ pings' \in List
    BY <1>4, <1>b DEF SetUrl, TypeOK
  <2>6. credQ' \in Seq([id : Ids, url : Urls])
    BY <1>4, <2>1, AppendProperties DEF SetUrl, TypeOK
  <2>7. runtime' \in Seq(Tasks)
    BY <1>4, Queues DEF SetUrl, TypeOK
  <2>8. ops' \in 0..MaxOps /\ late' \subseteq Ids /\ UNCHANGED <<starts, faults>>
    BY <1>4, OpTypes DEF SetUrl
  <2> QED BY <1>4, <2>1, <2>2, <2>3, <2>4, <2>5, <2>6, <2>7, <2>8 DEF SetUrl, TypeOK, Statuses
<1>5. ASSUME NEW t \in Tasks, NEW u \in Urls, StartAdd(t, u) PROVE TypeOK'
  <2>1. [[Idle EXCEPT !.url = u] EXCEPT !.op = "add", !.pc = "lockM"] \in Task
    BY <1>5, <1>b, NewTasks, TaskSteps DEF Ops, Pcs
  <2>2. task' \in [Tasks -> Task] /\ mutation' \in Seq(Tasks) /\ ops' \in 0..MaxOps
       /\ UNCHANGED <<backend, wire, disk, store, vpn, seqs, runtime, starts, faults,
                    late>>
    BY <1>5, <2>1, MutationTypes DEF StartAdd
  <2> QED BY <1>5, <2>1, <2>2 DEF TypeOK, Statuses
<1>6. ASSUME NEW t \in Tasks, StartWipe(t) PROVE TypeOK'
  <2>1. [Idle EXCEPT !.op = "wipe", !.pc = "lockM"] \in Task
    BY <1>6, IdleType, TaskSteps DEF Ops, Pcs
  <2>2. task' \in [Tasks -> Task] /\ mutation' \in Seq(Tasks) /\ ops' \in 0..MaxOps
       /\ UNCHANGED <<backend, wire, disk, store, vpn, seqs, runtime, starts, faults,
                    late>>
    BY <1>6, <2>1, MutationTypes DEF StartWipe
  <2> QED BY <1>6, <2>1, <2>2 DEF TypeOK, Statuses
<1>7. ASSUME NEW t \in Tasks, StartConnect(t) PROVE TypeOK'
  <2>1. [Idle EXCEPT !.op = "connect", !.pc = "lockR", !.back = primary,
           !.backList = shown] \in Task
    BY <1>7, <1>a, <1>b, NewTasks DEF Ops
  <2>2. task' \in [Tasks -> Task]
    BY <1>7, <2>1, GotoTypes DEF StartConnect
  <2>3. runtime' \in Seq(Tasks)
    BY <1>7, Queues DEF StartConnect, TypeOK
  <2>4. ops' \in 0..MaxOps /\ late' \subseteq Ids /\ UNCHANGED <<starts, faults>>
    BY <1>7, OpTypes DEF StartConnect
  <2> QED BY <1>7, <2>1, <2>2, <2>3, <2>4 DEF StartConnect, TypeOK, Statuses
<1>8. ASSUME NEW t \in Tasks, StartPing(t) PROVE TypeOK'
  <2>1. primary \in Ids
    BY <1>8, <1>a DEF StartPing, IdOrNo
  <2>2. [Idle EXCEPT !.op = "ping", !.pc = "ping", !.id = primary] \in Task
    BY <1>8, <1>a, <1>b, NewTasks DEF Ops
  <2>3. task' \in [Tasks -> Task]
    BY <1>8, <2>2, GotoTypes DEF StartPing
  <2>4. [type |-> "ping", to |-> t, epoch |-> epoch, id |-> primary, gen |-> 0,
           list |-> NoList] \in Message
    BY <1>8, <2>1, <1>b, MessageTypes DEF TypeOK
  <2>5. wire' \subseteq Message
    BY <1>8, <2>4, <1>a DEF StartPing
  <2>6. ops' \in 0..MaxOps /\ late' \subseteq Ids /\ UNCHANGED <<starts, faults>>
    BY <1>8, OpTypes DEF StartPing
  <2> QED BY <1>8, <2>1, <2>2, <2>3, <2>4, <2>5, <2>6 DEF StartPing, TypeOK, Statuses
<1>9. ASSUME NEW t \in Tasks, Reload(t) PROVE TypeOK'
  <2>1. wire' \subseteq Message
    BY <1>9, <1>a, MessageFields DEF Reload
  <2>2. vpn' \in Statuses
    BY <1>9 DEF Reload, Statuses
  <2> QED BY <1>9, <2>1, <2>2, <1>b, FreshTypes DEF Reload, TypeOK, Statuses
<1>10. ASSUME NEW t \in Tasks, Restart(t) PROVE TypeOK'
  <2>1. rust' \in Snapshot
    BY <1>10, SnapshotTypes DEF Restart
  <2> QED BY <1>10, <2>1, <1>b, FreshTypes DEF Restart, TypeOK, Statuses
<1>11. CASE Disconnect
  <2>1. vpn' \in Statuses /\ session' \in List
    BY <1>11, StopTypes DEF Disconnect
  <2> QED BY <1>11, <2>1 DEF Disconnect, TypeOK, Statuses
<1>12. ASSUME NEW t \in Tasks, BeginEpoch(t) PROVE TypeOK'
  <2>1. [task[t] EXCEPT !.pc = "read"] \in Task
    BY <1>12, <1>a, TaskSteps DEF Pcs
  <2>2. task' \in [Tasks -> Task]
    BY <1>12, <2>1, GotoTypes DEF BeginEpoch
  <2>3. starts \in Nat
    BY <1>12, Bounds DEF TypeOK
  <2>4. epoch' \in Nat /\ rust' \in Snapshot
    BY <1>12, <2>3, SnapshotTypes DEF BeginEpoch
  <2> QED BY <1>12, <2>1, <2>2, <2>3, <2>4 DEF BeginEpoch, TypeOK, Statuses
<1>13. ASSUME NEW t \in Tasks, LoadSecureCreds(t) PROVE TypeOK'
  <2>1. PICK ids \in SUBSET index : \E p \in PrimaryChoices(ids) : Hydrate(t, ids, p)
    BY <1>13 DEF LoadSecureCreds
  <2>2. PICK p \in PrimaryChoices(ids) : Hydrate(t, ids, p)
    BY <2>1
  <2>3. creds \in [Ids -> UrlOrNo] /\ index \subseteq Ids /\ ids \subseteq Ids
    BY <2>1 DEF TypeOK
  <2>4. p \in IdOrNo /\ (p # NoId => p \in Ids)
    BY <2>1, <2>3, <1>b DEF PrimaryChoices, IdOrNo
  <2>5. Hydrated(ids) \in [Ids -> List]
    BY <2>3, <1>a, <1>b DEF Hydrated, Cached
  <2>6. url' \in [Ids -> UrlOrNo] /\ list' \in [Ids -> List] /\ primary' \in IdOrNo
    BY <2>2, <2>3, <2>4, <2>5, <1>b DEF Hydrate
  <2>7. shown' \in List /\ pings' \in List
    BY <2>2, <2>4, <2>5, <1>b DEF Hydrate
  <2>8. faults' \in 0..MaxFaults
    BY <1>13, Bounds DEF LoadSecureCreds, TypeOK
  <2>9. p # NoId => [task[t] EXCEPT !.pc = "lockR", !.id = p, !.url = creds[p],
                                    !.list = Hydrated(ids)[p]] \in Task
    BY <2>3, <2>4, <2>5, <1>a, TaskCommits, IdleType
  <2>10. CASE p # NoId /\ Hydrated(ids)[p] # NoList
    <3>1. task' \in [Tasks -> Task]
      BY <2>2, <2>9, <2>10, GotoTypes DEF Hydrate
    <3>2. mutation' \in Seq(Tasks) /\ runtime' \in Seq(Tasks)
      BY <2>2, <2>10, Queues DEF Hydrate, TypeOK
    <3> QED BY <1>13, <2>6, <2>7, <2>8, <3>1, <3>2 DEF LoadSecureCreds, TypeOK
  <2>11. CASE ~(p # NoId /\ Hydrated(ids)[p] # NoList)
    <3>1. task' \in [Tasks -> Task] /\ mutation' \in Seq(Tasks) /\ runtime' \in Seq(Tasks)
      BY <2>2, <2>11, FinishTypes DEF Hydrate
    <3> QED BY <1>13, <2>6, <2>7, <2>8, <3>1 DEF LoadSecureCreds, TypeOK
  <2> QED BY <2>10, <2>11
<1>14. ASSUME NEW t \in Tasks, Push(t) PROVE TypeOK'
  <2>1. task[t].id \in Ids
    BY <1>14 DEF Push, TaskOk, NoteInv
  <2>2. [task[t] EXCEPT !.pc = "set"] \in Task /\ task[t].list \in List
    BY <1>14, <1>a, TaskSteps, TaskFields DEF Pcs
  <2>3. task' \in [Tasks -> Task] /\ mutation' \in Seq(Tasks) /\ runtime' \in Seq(Tasks)
           /\ runtimeSeq' \in Nat /\ wire' \subseteq Message
    BY <1>14, <2>1, <2>2, <1>a, WriteTypes, FinishTypes DEF Push, TypeOK
  <2> QED BY <1>14, <2>1, <2>2, <2>3 DEF Push, TypeOK, Statuses
<1>15. ASSUME NEW t \in Tasks, Pushed(t) PROVE TypeOK'
  <2>1. task' \in [Tasks -> Task] /\ mutation' \in Seq(Tasks) /\ runtime' \in Seq(Tasks)
    BY <1>15, FinishTypes DEF Pushed
  <2> QED BY <1>15, <2>1 DEF Pushed, TypeOK, Statuses
<1>16. ASSUME NEW t \in Tasks, FetchDropped(t) PROVE TypeOK'
  <2>1. task' \in [Tasks -> Task] /\ mutation' \in Seq(Tasks) /\ runtime' \in Seq(Tasks)
    BY <1>16, FinishTypes DEF FetchDropped
  <2> QED BY <1>16, <2>1 DEF FetchDropped, TypeOK, Statuses
<1>17. ASSUME NEW t \in Tasks, FetchApplied(t) PROVE TypeOK'
  <2>1. task[t].id \in Ids /\ task[t].url \in Urls
    BY <1>17 DEF FetchApplied, TaskOk, NoteInv
  <2>2. PICK fetched \in Answers(task[t]) :
          /\ faults' = IF fetched.fits THEN faults ELSE faults + 1
          /\ list' = [list EXCEPT ![task[t].id] = fetched]
          /\ wire' = wire \cup {[type |-> "save", to |-> NoTask, epoch |-> epoch,
                                 id |-> task[t].id, gen |-> task[t].gen, list |-> fetched]}
          /\ \/ /\ shown' = fetched /\ pings' = NoList
                /\ Goto(t, [task[t] EXCEPT !.pc = "lockR", !.list = fetched])
                /\ runtime' = Append(runtime, t)
                /\ UNCHANGED mutation
             \/ Finish(t) /\ UNCHANGED <<shown, pings>>
    BY <1>17 DEF FetchApplied
  <2>3. /\ task[t].gen \in Nat /\ fetched \in Servers /\ fetched \in List
        /\ ~fetched.fits => faults < MaxFaults
    <3>1. epoch \in Nat /\ task[t].gen \in Nat
      BY <1>a, TaskFields DEF TypeOK
    <3>2. PICK f \in BOOLEAN :
            /\ fetched = [url |-> task[t].url, ver |-> task[t].gen, epoch |-> epoch, fits |-> f]
            /\ ~f => faults < MaxFaults
      BY <2>2 DEF Answers
    <3>3. fetched \in Servers /\ fetched.fits = f
      BY <2>1, <3>1, <3>2 DEF Servers
    <3> QED BY <3>1, <3>2, <3>3 DEF List
  <2>4. [task[t] EXCEPT !.pc = "lockR", !.list = fetched] \in Task
    BY <2>3, <1>a, TaskSteps DEF Pcs
  <2>5. task' \in [Tasks -> Task] /\ mutation' \in Seq(Tasks) /\ runtime' \in Seq(Tasks)
    BY <2>2, <2>4, StepOrFinish
  <2>6. [type |-> "save", to |-> NoTask, epoch |-> epoch, id |-> task[t].id,
         gen |-> task[t].gen, list |-> fetched] \in Message
    BY <2>1, <2>3, MessageTypes DEF TypeOK
  <2>7. wire' \subseteq Message
    BY <2>2, <2>6, <1>a
  <2>8. list' \in [Ids -> List] /\ shown' \in List /\ pings' \in List
    BY <2>2, <2>3, <1>b DEF TypeOK
  <2>9. faults' \in 0..MaxFaults
    BY <2>2, <2>3, Bounds DEF TypeOK
  <2> QED BY <1>17, <2>5, <2>7, <2>8, <2>9 DEF FetchApplied, TypeOK
<1>18. ASSUME NEW t \in Tasks, AddCredential(t) PROVE TypeOK'
  <2>1. task[t].url \in Urls
    BY <1>18 DEF AddCredential, TaskOk, NoteInv
  <2>2. \A i \in Ids : [task[t] EXCEPT !.pc = "index", !.id = i] \in Task
    BY <1>18, <1>a, <1>b, TaskSteps DEF Pcs
  <2>3. task' \in [Tasks -> Task] /\ mutation' \in Seq(Tasks) /\ runtime' \in Seq(Tasks)
    BY <1>18, <2>2, GotoTypes, FinishTypes DEF AddCredential, TypeOK
  <2>4. used' \subseteq Ids /\ creds' \in [Ids -> UrlOrNo]
    BY <1>18, <2>1, <1>b DEF AddCredential, TypeOK
  <2> QED BY <1>18, <2>1, <2>2, <2>3, <2>4 DEF AddCredential, TypeOK, Statuses
<1>19. ASSUME NEW t \in Tasks, AddIndex(t) PROVE TypeOK'
  <2>1. task[t].id \in Ids /\ task[t].url \in Urls
    BY <1>19 DEF AddIndex, TaskOk, NoteInv, AddInv
  <2>2. task' \in [Tasks -> Task] /\ fetchSeq' \in Nat /\ fetchGen' \in [Ids -> Nat]
    BY <1>19, <2>1, <1>a, <1>b, FetchTypes DEF AddIndex
  <2>3. index' \subseteq Ids /\ storedPrimary' \in IdOrNo /\ primary' \in IdOrNo
    BY <1>19, <2>1, <1>a, <1>b DEF AddIndex, Subs
  <2>4. url' \in [Ids -> UrlOrNo]
    BY <1>19, <2>1, <1>b DEF AddIndex, TypeOK
  <2> QED BY <1>19, <2>1, <2>2, <2>3, <2>4 DEF AddIndex, TypeOK, Statuses
<1>20. ASSUME NEW t \in Tasks, BeginPrimary(t) PROVE TypeOK'
  <2>1. task[t].id \in Ids => [task[t] EXCEPT !.pc = "lockP", !.url = url[task[t].id]] \in Task
    BY <1>20, <1>a, TaskSteps DEF Pcs
  <2>2. task' \in [Tasks -> Task] /\ mutation' \in Seq(Tasks) /\ runtime' \in Seq(Tasks)
    BY <1>20, <2>1, StepOrFinish DEF BeginPrimary, Subs
  <2> QED BY <1>20, <2>1, <2>2 DEF BeginPrimary, TypeOK, Statuses
<1>21. ASSUME NEW t \in Tasks, CommitPrimary(t) PROVE TypeOK'
  <2>1. task[t].id \in Ids
    BY <1>21 DEF CommitPrimary, TaskOk, NoteInv
  <2>2. (IF primary = NoId THEN NoList ELSE list[primary]) \in List
    BY <1>21, <1>a, <1>b DEF IdOrNo
  <2>3. [task[t] EXCEPT !.pc = "setP", !.list = list[task[t].id], !.back = primary,
                    !.backList = IF primary = NoId THEN NoList ELSE list[primary]] \in Task
    BY <1>21, <2>1, <2>2, <1>a, <1>b, TaskCommits
  <2>4. task' \in [Tasks -> Task] /\ mutation' \in Seq(Tasks) /\ runtime' \in Seq(Tasks)
           /\ runtimeSeq' \in Nat /\ wire' \subseteq Message
    BY <1>21, <2>1, <2>3, <1>a, WriteTypes, FinishTypes DEF CommitPrimary, TypeOK
  <2> QED BY <1>21, <2>1, <2>2, <2>3, <2>4 DEF CommitPrimary, TypeOK, Statuses
<1>22. ASSUME NEW t \in Tasks, CheckPrimary(t) PROVE TypeOK'
  <2>1. task[t].id \in Ids
    BY <1>22 DEF CheckPrimary, TaskOk, NoteInv
  <2>2. (IF task[t].back = NoId THEN task[t].id ELSE task[t].back) \in Ids
           /\ task[t].backList \in List
    BY <1>22, <2>1, <1>a, TaskFields DEF IdOrNo
  <2>3. [task[t] EXCEPT !.pc = "undoP"] \in Task /\ [task[t] EXCEPT !.pc = "storeP"] \in Task
    BY <1>22, <1>a, TaskSteps DEF Pcs
  <2>4. task' \in [Tasks -> Task] /\ mutation' \in Seq(Tasks) /\ runtime' \in Seq(Tasks)
           /\ runtimeSeq' \in Nat /\ wire' \subseteq Message
    BY <1>22, <2>2, <2>3, <1>a, WriteTypes, FinishTypes, GotoTypes DEF CheckPrimary,
       RollBackPrimary, TypeOK
  <2> QED BY <1>22, <2>1, <2>2, <2>3, <2>4 DEF CheckPrimary, TypeOK, Statuses
<1>23. ASSUME NEW t \in Tasks, PublishPrimary(t) PROVE TypeOK'
  <2>1. task[t].id \in IdOrNo /\ task[t].list \in List
    BY <1>23, <1>a, TaskFields
  <2>2. task[t].op = "remove" => {task[t].victim} \in SUBSET Ids
    BY <1>23 DEF PublishPrimary, TaskOk, NoteInv
  <2>3. task[t].op = "remove"
           => [task[t] EXCEPT !.pc = "del", !.left = {task[t].victim},
              !.reply = "none"] \in Task
    BY <1>23, <2>2, <1>a, TaskReplies DEF Pcs, Replies
  <2>4. task' \in [Tasks -> Task] /\ mutation' \in Seq(Tasks) /\ runtime' \in Seq(Tasks)
    BY <1>23, <2>3, GotoTypes, FinishTypes, Queues, SMTT(30) DEF PublishPrimary, TypeOK
  <2>5. fetchSeq' \in Nat /\ fetchGen' \in [Ids -> Nat] /\ wire' \subseteq Message
    BY <1>23, <2>2, DeleteTypes DEF PublishPrimary, TypeOK
  <2>6. storedPrimary' \in IdOrNo /\ primary' \in IdOrNo /\ shown' \in List /\ pings' \in List
    BY <1>23, <2>1, <1>b DEF PublishPrimary
  <2> QED BY <1>23, <2>1, <2>2, <2>3, <2>4, <2>5, <2>6 DEF PublishPrimary, TypeOK, Statuses
<1>24. ASSUME NEW t \in Tasks, PrimaryUndone(t) PROVE TypeOK'
  <2>1. task' \in [Tasks -> Task] /\ mutation' \in Seq(Tasks) /\ runtime' \in Seq(Tasks)
    BY <1>24, FinishTypes DEF PrimaryUndone
  <2> QED BY <1>24, <2>1 DEF PrimaryUndone, TypeOK, Statuses
<1>25. ASSUME NEW t \in Tasks, BeginRemove(t) PROVE TypeOK'
  <2>1. [task[t] EXCEPT !.pc = "stopVpn"] \in Task /\ [task[t] EXCEPT !.pc = "go"] \in Task
    BY <1>25, <1>a, TaskSteps DEF Pcs
  <2>2. task' \in [Tasks -> Task] /\ mutation' \in Seq(Tasks) /\ runtime' \in Seq(Tasks)
    BY <1>25, <2>1, GotoTypes, FinishTypes DEF BeginRemove, TypeOK
  <2>3. vpn' \in Statuses /\ session' \in List
    BY <1>25, <1>a, StopTypes DEF BeginRemove, TypeOK, Statuses
  <2> QED BY <1>25, <2>1, <2>2, <2>3 DEF BeginRemove, TypeOK, Statuses
<1>26. ASSUME NEW t \in Tasks, VpnStopped(t) PROVE TypeOK'
  <2>1. [task[t] EXCEPT !.pc = "select"] \in Task /\ [task[t] EXCEPT !.pc = "go"] \in Task
    BY <1>26, <1>a, TaskSteps DEF Pcs
  <2>2. task' \in [Tasks -> Task] /\ mutation' \in Seq(Tasks) /\ runtime' \in Seq(Tasks)
    BY <1>26, <2>1, GotoTypes, FinishTypes DEF VpnStopped, TypeOK
  <2> QED BY <1>26, <2>1, <2>2 DEF VpnStopped, TypeOK, Statuses
<1>27. ASSUME NEW t \in Tasks, RemoveGo(t) PROVE TypeOK'
  <2>1. {task[t].victim} \in SUBSET Ids
    BY <1>27 DEF RemoveGo, TaskOk, NoteInv
  <2>2. [task[t] EXCEPT !.pc = "del", !.left = {task[t].victim}, !.reply = "none"] \in Task
    BY <1>27, <2>1, <1>a, TaskReplies DEF Pcs, Replies
  <2>3. [task[t] EXCEPT !.op = "wipe"] \in Task
    BY <1>27, <1>a, OpSteps DEF Ops
  <2>4. \A i \in Ids : [task[t] EXCEPT !.pc = "select", !.id = i] \in Task
    BY <1>27, <1>a, <1>b, TaskSteps DEF Pcs
  <2>5. primary # task[t].victim => task' \in [Tasks -> Task]
    BY <1>27, <2>2, GotoTypes DEF RemoveGo
  <2>6. Goto(t, [task[t] EXCEPT !.op = "wipe"]) => task' \in [Tasks -> Task]
    BY <1>27, <2>3, GotoTypes
  <2>7. \A i \in Ids : Goto(t, [task[t] EXCEPT !.pc = "select", !.id = i])
           => task' \in [Tasks -> Task]
    BY <1>27, <2>4, GotoTypes
  <2>8. primary = task[t].victim /\ ~Goto(t, [task[t] EXCEPT !.op = "wipe"]) =>
         \E i \in Subs \ {task[t].victim} : Goto(t, [task[t] EXCEPT !.pc = "select", !.id = i])
    BY <1>27 DEF RemoveGo
  <2>9. task' \in [Tasks -> Task]
    BY <1>27, <2>5, <2>6, <2>7, <2>8 DEF Subs
  <2>10. fetchSeq' \in Nat /\ fetchGen' \in [Ids -> Nat] /\ wire' \subseteq Message
    BY <1>27, <2>1, DeleteTypes DEF RemoveGo, TypeOK
  <2> QED BY <1>27, <2>1, <2>2, <2>3, <2>4, <2>5, <2>6, <2>7, <2>8, <2>9, <2>10 DEF RemoveGo,
             TypeOK, Statuses
<1>28. ASSUME NEW t \in Tasks, RemoveDeleted(t) PROVE TypeOK'
  <2>1. [task[t] EXCEPT !.pc = "creds"] \in Task
    BY <1>28, <1>a, TaskSteps DEF Pcs
  <2>2. task' \in [Tasks -> Task] /\ mutation' \in Seq(Tasks) /\ runtime' \in Seq(Tasks)
    BY <1>28, <2>1, GotoTypes, GiveUpTypes DEF RemoveDeleted, TypeOK
  <2>3. vpn' \in Statuses /\ session' \in List
    BY <1>28, <1>a, GiveUpTypes DEF RemoveDeleted, TypeOK, Statuses
  <2> QED BY <1>28, <2>2, <2>3 DEF RemoveDeleted, TypeOK, Statuses
<1>29. ASSUME NEW t \in Tasks, RemoveCredential(t) PROVE TypeOK'
  <2>1. [task[t] EXCEPT !.pc = "index", !.url = creds[task[t].victim]] \in Task
    <3>1. task[t].victim \in Ids
      BY <1>29 DEF RemoveCredential, TaskOk, NoteInv
    <3> QED BY <3>1, <1>a, TaskSteps DEF Pcs, TypeOK
  <2>2. task' \in [Tasks -> Task]
    BY <1>29, <2>1, GotoTypes DEF RemoveCredential
  <2>3. creds' \in [Ids -> UrlOrNo]
    BY <1>29, <1>b DEF RemoveCredential, TypeOK
  <2> QED BY <1>29, <2>1, <2>2, <2>3 DEF RemoveCredential, TypeOK, Statuses
<1>30. ASSUME NEW t \in Tasks, RemoveIndex(t) PROVE TypeOK'
  <2>1. task[t].back # NoId => task[t].id \in Ids
    BY <1>30 DEF RemoveIndex, TaskOk, RemoveInv, Subs
  <2>2. task' \in [Tasks -> Task] /\ mutation' \in Seq(Tasks) /\ runtime' \in Seq(Tasks)
           /\ fetchSeq' \in Nat /\ fetchGen' \in [Ids -> Nat]
    BY <1>30, <2>1, <1>a, FetchTypes, FinishTypes DEF RemoveIndex, TypeOK
  <2>3. index' \subseteq Ids
    BY <1>30 DEF RemoveIndex, Subs
  <2>4. url' \in [Ids -> UrlOrNo] /\ list' \in [Ids -> List]
    BY <1>30, <1>b DEF RemoveIndex, TypeOK
  <2> QED BY <1>30, <2>1, <2>2, <2>3, <2>4 DEF RemoveIndex, TypeOK, Statuses
<1>31. ASSUME NEW t \in Tasks, BeginWipe(t) PROVE TypeOK'
  <2>1. [task[t] EXCEPT !.pc = "stopVpn"] \in Task /\ [task[t] EXCEPT !.pc = "go"] \in Task
    BY <1>31, <1>a, TaskSteps DEF Pcs
  <2>2. task' \in [Tasks -> Task]
    BY <1>31, <2>1, GotoTypes DEF BeginWipe
  <2>3. vpn' \in Statuses /\ session' \in List
    BY <1>31, <1>a, StopTypes DEF BeginWipe, TypeOK, Statuses
  <2> QED BY <1>31, <2>1, <2>2, <2>3 DEF BeginWipe, TypeOK, Statuses
<1>32. ASSUME NEW t \in Tasks, WipeFence(t) PROVE TypeOK'
  <2>1. [task[t] EXCEPT !.pc = "lockW"] \in Task
    BY <1>32, <1>a, TaskSteps DEF Pcs
  <2>2. task' \in [Tasks -> Task]
    BY <1>32, <2>1, GotoTypes DEF WipeFence
  <2>3. runtime' \in Seq(Tasks)
    BY <1>32, Queues DEF WipeFence, TypeOK
  <2>4. credQ' \in Seq([id : Ids, url : Urls])
    BY <1>32, EmptySeq DEF WipeFence
  <2> QED BY <1>32, <2>1, <2>2, <2>3, <2>4 DEF WipeFence, TypeOK, Statuses
<1>33. ASSUME NEW t \in Tasks, WipeTombstone(t) PROVE TypeOK'
  <2>1. [task[t] EXCEPT !.pc = "setW"] \in Task
           /\ [task[t] EXCEPT !.pc = "setW", !.reply = "yes"] \in Task
    BY <1>33, <1>a, TaskSteps, TaskReplies DEF Pcs, Replies
  <2>2. primary # NoId => primary \in Ids
    BY <1>33, <1>a DEF IdOrNo
  <2>3. task' \in [Tasks -> Task] /\ mutation' \in Seq(Tasks) /\ runtime' \in Seq(Tasks)
           /\ runtimeSeq' \in Nat /\ wire' \subseteq Message
    BY <1>33, <2>1, <2>2, <1>a, <1>b, WriteTypes, FinishTypes, GotoTypes DEF WipeTombstone,
       TypeOK
  <2> QED BY <1>33, <2>1, <2>2, <2>3 DEF WipeTombstone, TypeOK, Statuses
<1>34. ASSUME NEW t \in Tasks, WipeCaches(t) PROVE TypeOK'
  <2>1. Subs \in SUBSET Ids /\ (IF Subs = {} THEN "yes" ELSE "none") \in Replies
    BY <1>34 DEF Subs, Replies
  <2>2. [task[t] EXCEPT !.pc = "delW", !.left = Subs,
           !.reply = IF Subs = {} THEN "yes" ELSE "none"] \in Task
    BY <1>34, <2>1, <1>a, TaskReplies DEF Pcs
  <2>3. task' \in [Tasks -> Task] /\ mutation' \in Seq(Tasks) /\ runtime' \in Seq(Tasks)
    BY <1>34, <2>2, GotoTypes, FinishTypes DEF WipeCaches, TypeOK
  <2>4. fetchSeq' \in Nat /\ fetchGen' \in [Ids -> Nat] /\ wire' \subseteq Message
    BY <1>34, <2>1, DeleteTypes DEF WipeCaches, TypeOK
  <2> QED BY <1>34, <2>1, <2>2, <2>3, <2>4 DEF WipeCaches, TypeOK, Statuses
<1>35. ASSUME NEW t \in Tasks, WipeFailed(t) PROVE TypeOK'
  <2>1. task' \in [Tasks -> Task] /\ mutation' \in Seq(Tasks) /\ runtime' \in Seq(Tasks)
    BY <1>35, FinishTypes DEF WipeFailed
  <2>2. wire' \subseteq Message
    BY <1>35, <1>a, MessageFields DEF WipeFailed
  <2> QED BY <1>35, <2>1, <2>2 DEF WipeFailed, TypeOK, Statuses
<1>36. ASSUME NEW t \in Tasks, WipeCredentials(t) PROVE TypeOK'
  <2>1. [task[t] EXCEPT !.pc = "credsW"] \in Task
    BY <1>36, <1>a, TaskSteps DEF Pcs
  <2>2. task' \in [Tasks -> Task]
    BY <1>36, <2>1, GotoTypes DEF WipeCredentials
  <2>3. creds' \in [Ids -> UrlOrNo]
    BY <1>36, <1>b DEF WipeCredentials, TypeOK
  <2> QED BY <1>36, <2>1, <2>2, <2>3 DEF WipeCredentials, TypeOK, Statuses
<1>37. ASSUME NEW t \in Tasks, WipePublish(t) PROVE TypeOK'
  <2>1. task' \in [Tasks -> Task] /\ mutation' \in Seq(Tasks) /\ runtime' \in Seq(Tasks)
    BY <1>37, FinishTypes DEF WipePublish
  <2>2. url' \in [Ids -> UrlOrNo] /\ list' \in [Ids -> List]
    BY <1>37, <1>b DEF WipePublish
  <2> QED BY <1>37, <2>1, <2>2, <1>b DEF WipePublish, TypeOK, Statuses
<1>38. ASSUME NEW t \in Tasks, CommitForConnect(t) PROVE TypeOK'
  <2>1. primary # NoId => primary \in Ids
    BY <1>38, <1>a DEF IdOrNo
  <2>2. primary # NoId
           => [task[t] EXCEPT !.pc = "set", !.id = primary, !.url = url[primary]] \in Task
    BY <1>38, <2>1, <1>a, <1>b, TaskCommits
  <2>3. task' \in [Tasks -> Task] /\ mutation' \in Seq(Tasks) /\ runtime' \in Seq(Tasks)
           /\ runtimeSeq' \in Nat /\ wire' \subseteq Message
    BY <1>38, <2>1, <2>2, <1>a, WriteTypes, EndTypes DEF CommitForConnect, TypeOK, Statuses
  <2>4. vpn' \in Statuses
    BY <1>38, EndTypes DEF CommitForConnect, TypeOK, Statuses
  <2> QED BY <1>38, <2>1, <2>2, <2>3, <2>4 DEF CommitForConnect, TypeOK, Statuses
<1>39. ASSUME NEW t \in Tasks, ConsumeReceipt(t) PROVE TypeOK'
  <2>1. task[t].id \in Ids /\ task[t].gen \in Nat
    BY <1>39, <1>a, TaskFields DEF ConsumeReceipt, TaskOk, NoteInv
  <2>2. [type |-> "connect", to |-> t, epoch |-> epoch, id |-> task[t].id, gen |-> task[t].gen,
       list |-> NoList] \in Message
    BY <1>39, <2>1, <1>b, MessageTypes DEF TypeOK
  <2>3. wire' \subseteq Message
    BY <1>39, <2>2, <1>a DEF ConsumeReceipt
  <2>4. [task[t] EXCEPT !.pc = "connect", !.reply = "none"] \in Task
    BY <1>39, <1>a, TaskReplies DEF Pcs, Replies
  <2>5. task' \in [Tasks -> Task] /\ mutation' \in Seq(Tasks) /\ runtime' \in Seq(Tasks)
           /\ vpn' \in Statuses
    BY <1>39, <2>4, GotoTypes, EndTypes DEF ConsumeReceipt, TypeOK, Statuses
  <2> QED BY <1>39, <2>1, <2>2, <2>3, <2>4, <2>5 DEF ConsumeReceipt, TypeOK, Statuses
<1>40. ASSUME NEW t \in Tasks, ConnectReturns(t) PROVE TypeOK'
  <2>1. task' \in [Tasks -> Task] /\ mutation' \in Seq(Tasks) /\ runtime' \in Seq(Tasks)
           /\ vpn' \in Statuses
    BY <1>40, EndTypes DEF ConnectReturns, Statuses
  <2>2. session' \in List
    BY <1>40, <1>a, <1>b DEF ConnectReturns
  <2> QED BY <1>40, <2>1, <2>2 DEF ConnectReturns, TypeOK, Statuses
<1>41. ASSUME NEW t \in Tasks, ApplyPings(t) PROVE TypeOK'
  <2>1. task' \in [Tasks -> Task] /\ mutation' \in Seq(Tasks) /\ runtime' \in Seq(Tasks)
    BY <1>41, FinishTypes DEF ApplyPings
  <2>2. pings' \in List
    BY <1>41, <1>a, TaskFields DEF ApplyPings
  <2> QED BY <1>41, <2>1, <2>2 DEF ApplyPings, TypeOK, Statuses
<1>42. ASSUME NEW m \in wire, DeleteCache(m) PROVE TypeOK'
  <2>1. m \in Message /\ wire' \subseteq Message
    BY <1>42, <1>a DEF DeleteCache, Handle
  <2>2. rust' \in Snapshot
    BY <1>42, <2>1, <1>a, MessageFields, SnapshotTypes DEF DeleteCache, Tombstone, Passed
  <2>3. cache' \in [Ids -> List]
    BY <1>42, <1>a, <1>b DEF DeleteCache
  <2>4. faults' = faults \/ (faults < MaxFaults /\ faults' = faults + 1)
    BY <1>42 DEF DeleteCache
  <2>5. faults' \in 0..MaxFaults
    BY <1>42, <2>4, Bounds DEF TypeOK
  <2>6. \A ok : DeleteOutcome(m, ok) \in Replies
    BY <1>42 DEF DeleteOutcome, Replies
  <2>7. m.to # NoTask => m.to \in Tasks /\ task[m.to].left \ {m.id} \in SUBSET Ids
    BY <1>42, <2>1, <1>a, MessageFields, TaskFields
  <2>8. m.to # NoTask => \A y \in Replies :
         [task[m.to] EXCEPT !.left = task[m.to].left \ {m.id}, !.reply = y] \in Task
    BY <1>42, <2>7, <1>a, TaskReplies
  <2>9. \/ task' = task
       \/ /\ m.to # NoTask
          /\ \E y \in Replies : task' = [task EXCEPT ![m.to].left = @ \ {m.id},
                                                    ![m.to].reply = y]
    BY <1>42, <2>6, Zenon DEF DeleteCache
  <2>10. task' \in [Tasks -> Task]
    BY <1>42, <2>7, <2>8, <2>9, ZenonT(30) DEF TypeOK
  <2> QED BY <1>42, <2>1, <2>2, <2>3, <2>4, <2>5, <2>6, <2>7, <2>8, <2>9, <2>10
             DEF DeleteCache, TypeOK, Statuses, Handle
<1>43. ASSUME NEW m \in wire, SetServers(m), UNCHANGED faults PROVE TypeOK'
  <2>1. m \in Message /\ wire' \subseteq Message
    BY <1>43, <1>a DEF SetServers, Handle
  <2>2. rust' \in Snapshot
    BY <1>43, <2>1, <1>a, <1>b, MessageFields, SnapshotTypes DEF SetServers
  <2>3. task' \in [Tasks -> Task]
    BY <1>43, <2>1, ReplyTypes DEF SetServers, Replies
  <2> QED BY <1>43, <2>1, <2>2, <2>3 DEF SetServers, TypeOK, Statuses, Handle
<1>44. ASSUME NEW m \in wire, SaveCache(m), UNCHANGED faults PROVE TypeOK'
  <2>1. m \in Message /\ wire' \subseteq Message
    BY <1>44, <1>a DEF SaveCache, Handle
  <2>2. m.id \in Ids /\ m.gen \in Nat
    BY <1>44, <2>1, MessageFields
  <2>3. Passed(m) \in Snapshot
    BY <1>44, <2>2, <1>a, SnapshotTypes DEF Passed
  <2>4. rust' \in Snapshot
    BY <1>44, <2>3, <1>a DEF SaveCache
  <2>5. cache' \in [Ids -> List]
    <3>1. m.list \in Servers
      BY <1>44, <2>1, MessageFields DEF SaveCache, Handle
    <3>2. [m.list EXCEPT !.fits = TRUE] \in List
      BY <3>1 DEF List, Servers
    <3> QED BY <1>44, <3>2, <1>a DEF SaveCache
  <2> QED BY <1>44, <2>1, <2>2, <2>3, <2>4, <2>5 DEF SaveCache, TypeOK, Statuses, Handle
<1>45. ASSUME NEW m \in wire, SaveFails(m), UNCHANGED faults PROVE TypeOK'
  <2>1. wire' \subseteq Message
    BY <1>45, <1>a DEF SaveFails, Handle
  <2> QED BY <1>45, <2>1 DEF SaveFails, TypeOK, Statuses, Handle
<1>46. ASSUME NEW m \in wire, Connect(m), UNCHANGED faults PROVE TypeOK'
  <2>1. m \in Message /\ wire' \subseteq Message
    BY <1>46, <1>a DEF Connect, Handle
  <2>2. session' \in List
    BY <1>46, <1>a, SnapshotTypes DEF Connect
  <2>3. task' \in [Tasks -> Task]
    BY <1>46, <2>1, ReplyTypes DEF Connect, Replies
  <2> QED BY <1>46, <2>1, <2>2, <2>3 DEF Connect, TypeOK, Statuses, Handle
<1>47. ASSUME NEW m \in wire, PingServers(m), UNCHANGED faults PROVE TypeOK'
  <2>1. m \in Message /\ wire' \subseteq Message
    BY <1>47, <1>a DEF PingServers, Handle
  <2>2. \A s \in Tasks : [task[s] EXCEPT !.reply = "yes", !.list = rust.list] \in Task
    BY <1>47, <1>a, SnapshotTypes, TaskReplies DEF Replies
  <2>3. task' \in [Tasks -> Task]
    BY <1>47, <2>1, <2>2, MessageFields DEF PingServers, TypeOK
  <2> QED BY <1>47, <2>1, <2>2, <2>3 DEF PingServers, TypeOK, Statuses, Handle
<1>48. CASE WriteCredential
  <2>1. Head(credQ) \in [id : Ids, url : Urls] /\ Tail(credQ) \in Seq([id : Ids, url : Urls])
    BY <1>48, HeadTailProperties DEF WriteCredential, TypeOK
  <2>2. creds' \in [Ids -> UrlOrNo]
    BY <1>48, <2>1, <1>b DEF WriteCredential, TypeOK
  <2> QED BY <1>48, <2>1, <2>2 DEF WriteCredential, TypeOK, Statuses
<1>49. CASE UNCHANGED vars
  BY <1>49 DEF vars, TypeOK
<1>50. ASSUME NEW t \in Tasks, AddCredentialFails(t) PROVE TypeOK'
  <2>1. task[t].url \in Urls
    BY <1>50 DEF AddCredentialFails, TaskOk, NoteInv
  <2>2. task' \in [Tasks -> Task] /\ mutation' \in Seq(Tasks) /\ runtime' \in Seq(Tasks)
    BY <1>50, FinishTypes DEF AddCredentialFails
  <2>3. used' \subseteq Ids /\ creds' \in [Ids -> UrlOrNo]
    BY <1>50, <2>1, <1>b DEF AddCredentialFails, TypeOK
  <2>4. faults' \in 0..MaxFaults /\ UNCHANGED <<ops, starts, late>>
    BY <1>50, FailsTypes DEF AddCredentialFails
  <2> QED BY <1>50, <2>2, <2>3, <2>4 DEF AddCredentialFails, TypeOK
<1>51. ASSUME NEW t \in Tasks, AddIndexFails(t) PROVE TypeOK'
  <2>1. task' \in [Tasks -> Task] /\ mutation' \in Seq(Tasks) /\ runtime' \in Seq(Tasks)
    BY <1>51, FinishTypes DEF AddIndexFails
  <2>2. creds' \in [Ids -> UrlOrNo]
    BY <1>51, <1>b DEF AddIndexFails, TypeOK
  <2>3. faults' \in 0..MaxFaults /\ UNCHANGED <<ops, starts, late>>
    BY <1>51, FailsTypes DEF AddIndexFails
  <2> QED BY <1>51, <2>1, <2>2, <2>3 DEF AddIndexFails, TypeOK
<1>52. ASSUME NEW t \in Tasks, PrimaryNotSaved(t) PROVE TypeOK'
  <2>1. task[t].id \in Ids
    BY <1>52 DEF PrimaryNotSaved, TaskOk, NoteInv
  <2>2. (IF task[t].back = NoId THEN task[t].id ELSE task[t].back) \in Ids
           /\ task[t].backList \in List
    BY <2>1, <1>a, TaskFields DEF IdOrNo
  <2>3. [task[t] EXCEPT !.pc = "undoP"] \in Task
    BY <1>a, TaskSteps DEF Pcs
  <2>4. task' \in [Tasks -> Task] /\ runtimeSeq' \in Nat /\ wire' \subseteq Message
    BY <1>52, <2>2, <2>3, WriteTypes DEF PrimaryNotSaved, RollBackPrimary
  <2>5. faults' \in 0..MaxFaults /\ UNCHANGED <<ops, starts, late>>
    BY <1>52, FailsTypes DEF PrimaryNotSaved
  <2> QED BY <1>52, <2>4, <2>5 DEF PrimaryNotSaved, TypeOK
<1>53. ASSUME NEW t \in Tasks, RemoveCredentialFails(t) PROVE TypeOK'
  <2>1. /\ task' \in [Tasks -> Task] /\ mutation' \in Seq(Tasks) /\ runtime' \in Seq(Tasks)
        /\ vpn' \in Statuses /\ session' \in List
    BY <1>53, GiveUpTypes DEF RemoveCredentialFails
  <2>2. creds' \in [Ids -> UrlOrNo]
    BY <1>53, <1>b DEF RemoveCredentialFails, TypeOK
  <2>3. faults' \in 0..MaxFaults /\ UNCHANGED <<ops, starts, late>>
    BY <1>53, FailsTypes DEF RemoveCredentialFails
  <2> QED BY <1>53, <2>1, <2>2, <2>3 DEF RemoveCredentialFails, TypeOK, Statuses
<1>54. ASSUME NEW t \in Tasks, RemoveIndexFails(t) PROVE TypeOK'
  <2>1. /\ task' \in [Tasks -> Task] /\ mutation' \in Seq(Tasks) /\ runtime' \in Seq(Tasks)
        /\ vpn' \in Statuses /\ session' \in List
    BY <1>54, GiveUpTypes DEF RemoveIndexFails
  <2>2. creds' \in [Ids -> UrlOrNo]
    BY <1>54, <1>a, TaskFields DEF RemoveIndexFails, TypeOK
  <2>3. faults' \in 0..MaxFaults /\ UNCHANGED <<ops, starts, late>>
    BY <1>54, FailsTypes DEF RemoveIndexFails
  <2> QED BY <1>54, <2>1, <2>2, <2>3 DEF RemoveIndexFails, TypeOK, Statuses
<1>55. ASSUME NEW t \in Tasks, WipeCredentialsFail(t) PROVE TypeOK'
  <2>1. task' \in [Tasks -> Task] /\ mutation' \in Seq(Tasks) /\ runtime' \in Seq(Tasks)
    BY <1>55, FinishTypes DEF WipeCredentialsFail
  <2>2. creds' \in [Ids -> UrlOrNo]
    BY <1>55, <1>b DEF WipeCredentialsFail, TypeOK
  <2>3. faults' \in 0..MaxFaults /\ UNCHANGED <<ops, starts, late>>
    BY <1>55, FailsTypes DEF WipeCredentialsFail
  <2> QED BY <1>55, <2>1, <2>2, <2>3 DEF WipeCredentialsFail, TypeOK
<1>56. CASE WriteRefused
  <2>1. credQ' \in Seq([id : Ids, url : Urls])
    BY <1>56, HeadTailProperties DEF WriteRefused, TypeOK
  <2>2. faults' \in 0..MaxFaults /\ UNCHANGED <<ops, starts, late>>
    BY <1>56, FailsTypes DEF WriteRefused
  <2> QED BY <1>56, <2>1, <2>2 DEF WriteRefused, TypeOK
<1> QED BY <1>1, <1>2, <1>3, <1>4, <1>5, <1>6, <1>7, <1>8, <1>9, <1>10, <1>11, <1>12, <1>13,
           <1>14, <1>15, <1>16, <1>17, <1>18, <1>19, <1>20, <1>21, <1>22, <1>23, <1>24,
           <1>25, <1>26, <1>27, <1>28, <1>29, <1>30, <1>31, <1>32, <1>33, <1>34, <1>35,
           <1>36, <1>37, <1>38, <1>39, <1>40, <1>41, <1>42, <1>43, <1>44, <1>45, <1>46,
           <1>47, <1>48, <1>49, <1>50, <1>51, <1>52, <1>53, <1>54, <1>55, <1>56
        DEF Next, User, Resume, Deliver, KeyringWrites


----
(***************************************************************************)
(* The tasks.                                                              *)
(***************************************************************************)

\* What a step of task t leaves to the others: it takes and gives back only its
\* own place in the mutex, and changes URLs only inside it or when nobody is.
Frame(t) ==
  /\ \A s \in Tasks \ {t} : task'[s] = task[s]
  /\ mutation' \in {mutation, Append(mutation, t), Released(t, mutation)}
  /\ url' = url \/ mutation = <<>> \/ Holds(t, mutation)
  /\ used \subseteq used'

\* The fields of task t after a step that does not end it.
Moved(t, o, p, i, u, b, v) ==
  /\ task'[t].op = o /\ task'[t].pc = p /\ task'[t].id = i /\ task'[t].url = u
  /\ task'[t].back = b /\ task'[t].victim = v

\* Task t has only gone on to its next await.
Goes(t, p) ==
  Moved(t, task[t].op, p, task[t].id, task[t].url, task[t].back, task[t].victim)

AllTasks == \A t \in Tasks : TaskOk(t)

LEMMA Others ==
  ASSUME TypeOK, AllTasks, NEW t \in Tasks, Frame(t)
  PROVE  \A s \in Tasks \ {t} : TaskOk(s)'
<1> SUFFICES ASSUME NEW s \in Tasks \ {t} PROVE TaskOk(s)'
  OBVIOUS
<1>1. TaskOk(s) /\ task'[s] = task[s] /\ used \subseteq used'
  BY DEF AllTasks, Frame
<1>2. Holds(s, mutation) => Holds(s, mutation')
  <2>1. mutation \in Seq(Tasks)
    BY DEF TypeOK
  <2> QED BY <2>1 DEF Frame, Holds, Released
<1>3. Holds(s, mutation) => url' = url
  BY DEF Frame, Holds
<1>4. LockInv(s)'
  BY <1>1, <1>2 DEF TaskOk, LockInv
<1>5. NoteInv(s)'
  BY <1>1 DEF TaskOk, NoteInv
<1>6. RemoveInv(s)'
  BY <1>1, <1>3 DEF TaskOk, RemoveInv, LockInv, MutOps, Subs
<1>7. AddInv(s)'
  BY <1>1, <1>3 DEF TaskOk, AddInv, LockInv, MutOps
<1>8. UsedInv(s)'
  BY <1>1 DEF TaskOk, UsedInv
<1> QED BY <1>4, <1>5, <1>6, <1>7, <1>8 DEF TaskOk

LEMMA FinishOk ==
  ASSUME TypeOK, NEW t \in Tasks, Finish(t)
  PROVE  /\ TaskOk(t)'
         /\ \A s \in Tasks \ {t} : task'[s] = task[s]
         /\ mutation' = Released(t, mutation)
<1>1. task'[t] = Idle /\ \A s \in Tasks \ {t} : task'[s] = task[s]
  BY DEF Finish, TypeOK
<1>2. Idle.op = "idle" /\ Idle.pc = "idle" /\ Idle.id = NoId /\ Idle.victim = NoId
  BY DEF Idle
<1>3. TaskOk(t)'
  BY <1>1, <1>2 DEF TaskOk, LockInv, NoteInv, RemoveInv, AddInv, UsedInv, MutOps
<1> QED BY <1>1, <1>3 DEF Finish

\* Nothing that matters has changed.
LEMMA SameTasks ==
  ASSUME AllTasks, UNCHANGED <<mutation, url, used>>,
         \A s \in Tasks : /\ task'[s].op = task[s].op /\ task'[s].pc = task[s].pc
                          /\ task'[s].id = task[s].id /\ task'[s].url = task[s].url
                          /\ task'[s].victim = task[s].victim /\ task'[s].back = task[s].back
  PROVE  AllTasks'
<1> SUFFICES ASSUME NEW s \in Tasks PROVE TaskOk(s)'
  BY DEF AllTasks
<1>1. TaskOk(s)
  BY DEF AllTasks
<1> QED BY <1>1 DEF TaskOk, LockInv, NoteInv, RemoveInv, AddInv, UsedInv, Subs

LEMMA FreshOk ==
  ASSUME NEW t \in Tasks, FreshRenderer(t)
  PROVE  AllTasks'
<1> SUFFICES ASSUME NEW s \in Tasks PROVE TaskOk(s)'
  BY DEF AllTasks
<1>1. CASE s = t
  <2>1. /\ task'[s].op = "load" /\ task'[s].pc = "lockM"
        /\ task'[s].id = NoId /\ task'[s].victim = NoId
    BY <1>1 DEF FreshRenderer, Idle
  <2> QED BY <2>1 DEF TaskOk, LockInv, NoteInv, RemoveInv, AddInv, UsedInv
<1>2. CASE s # t
  <2>1. /\ task'[s].op = "idle" /\ task'[s].pc = "idle"
        /\ task'[s].id = NoId /\ task'[s].victim = NoId
    BY <1>2 DEF FreshRenderer, Idle
  <2> QED BY <2>1 DEF TaskOk, LockInv, NoteInv, RemoveInv, AddInv, UsedInv, MutOps
<1> QED BY <1>1, <1>2

\* A removal that has failed goes back to the primary it had, or ends.
LEMMA GivenUp ==
  ASSUME TypeOK, AllTasks, NEW t \in Tasks, GiveUpRemoval(t), UNCHANGED <<url, used>>,
         task[t].op = "remove", task[t].pc \in {"del", "creds", "index"}
  PROVE  AllTasks'
<1> USE DEF locks
<1>1. Frame(t)
  BY FinishOk DEF Frame, GiveUpRemoval, Goto, TypeOK
<1>2. TaskOk(t) /\ task[t] \in Task /\ task \in [Tasks -> Task]
  BY DEF AllTasks, TypeOK
<1>3. CASE Finish(t)
  BY <1>1, <1>3, FinishOk, Others DEF AllTasks
<1>4. CASE ~Finish(t)
  <2>1. /\ task'[t] = [task[t] EXCEPT !.pc = "stopVpn", !.id = task[t].victim,
                                      !.reply = "none"]
        /\ mutation' = mutation
    BY <1>2, <1>4 DEF GiveUpRemoval, Goto
  <2>2. Moved(t, task[t].op, "stopVpn", task[t].victim, task[t].url, task[t].back,
              task[t].victim)
    BY <2>1, <1>2 DEF Moved, Task
  <2>3. TaskOk(t)'
    BY <2>1, <2>2, <1>2 DEF Moved, Holds, TaskOk, LockInv, NoteInv, RemoveInv, AddInv,
       UsedInv, MutOps, Subs
  <2> QED BY <1>1, <2>3, Others DEF AllTasks
<1> QED BY <1>3, <1>4

\* A step of one task leaves the others what they rely on (Frame, Others); what it
\* relies on itself at its next await is read off where it has got to (Moved).
LEMMA TasksKept == TypeOK /\ StoreInv /\ AllTasks /\ [Next]_vars => AllTasks'
<1> SUFFICES ASSUME TypeOK /\ StoreInv /\ AllTasks, [Next]_vars
             PROVE  AllTasks'
  OBVIOUS
<1> USE DEF backend, disk, store, seqs, locks, bounds
<1> USE DEF TaskOk, LockInv, NoteInv, RemoveInv, AddInv, UsedInv, MutOps, StoreInv, Subs
<1>a. \A t \in Tasks : task[t] \in Task /\ TaskOk(t)
  BY DEF TypeOK, AllTasks
<1>c. task \in [Tasks -> Task]
  BY DEF TypeOK
<1>b. NoId \notin Ids /\ NoUrl \notin Urls /\ (\A i \in Ids : url[i] \in UrlOrNo)
      /\ primary \in IdOrNo /\ index \subseteq Ids
  BY Sentinels DEF TypeOK
<1>1. ASSUME NEW t \in Tasks, NEW i \in Ids, StartFetch(t, i) PROVE AllTasks'
  <2>1. Frame(t)
    BY <1>1, FinishOk DEF Frame, StartFetch, Goto, BeginFetch, TypeOK, StartMutation, NewOp
  <2>g. i \in Subs
    BY <1>1 DEF StartFetch
  <2>u. UNCHANGED <<url, used>>
    BY <1>1 DEF StartFetch
  <2>2. Moved(t, "fetch", "net", i, url[i], NoId, NoId)
    BY <1>1, <1>a, <1>c DEF Moved, Goes, StartFetch, Goto, BeginFetch, StartMutation, NewOp,
       Task, Idle
  <2>3. TaskOk(t)'
    BY <2>2, <1>a, <2>g, <2>u, <2>1, <1>b DEF Moved, Holds, UrlOrNo, IdOrNo
  <2> QED BY <2>1, <2>3, Others DEF AllTasks
<1>2. ASSUME NEW t \in Tasks, NEW i \in Ids, StartPrimary(t, i) PROVE AllTasks'
  <2>1. Frame(t)
    BY <1>2, FinishOk DEF Frame, StartPrimary, Goto, TypeOK, StartMutation, NewOp
  <2>g. i \in Subs
    BY <1>2 DEF StartPrimary
  <2>u. UNCHANGED <<url, used>>
    BY <1>2 DEF StartPrimary, StartMutation
  <2>2. Moved(t, "primary", "lockM", i, NoUrl, NoId, NoId)
    BY <1>2, <1>a, <1>c DEF Moved, Goes, StartPrimary, Goto, StartMutation, NewOp, Task, Idle
  <2>3. TaskOk(t)'
    BY <2>2, <1>a, <2>g, <2>u, <2>1, <1>b DEF Moved, Holds, UrlOrNo, IdOrNo
  <2> QED BY <2>1, <2>3, Others DEF AllTasks
<1>3. ASSUME NEW t \in Tasks, NEW i \in Ids, StartRemove(t, i) PROVE AllTasks'
  <2>1. Frame(t)
    BY <1>3, FinishOk DEF Frame, StartRemove, Goto, TypeOK, StartMutation, NewOp
  <2>g. i \in Subs
    BY <1>3 DEF StartRemove
  <2>u. UNCHANGED <<url, used>>
    BY <1>3 DEF StartRemove, StartMutation
  <2>2. Moved(t, "remove", "lockM", NoId, NoUrl, NoId, i)
    BY <1>3, <1>a, <1>c DEF Moved, Goes, StartRemove, Goto, StartMutation, NewOp, Task, Idle
  <2>3. TaskOk(t)'
    BY <2>2, <1>a, <2>g, <2>u, <2>1, <1>b DEF Moved, Holds, UrlOrNo, IdOrNo
  <2> QED BY <2>1, <2>3, Others DEF AllTasks
<1>4. ASSUME NEW t \in Tasks, NEW u \in Urls, SetUrl(t, u) PROVE AllTasks'
  <2>1. Frame(t)
    BY <1>4, FinishOk DEF Frame, SetUrl, Goto, TypeOK, StartMutation, NewOp, SourceFenced
  <2>g. primary # NoId
    BY <1>4 DEF SetUrl
  <2>2. Moved(t, "push", "lockR", primary, u, NoId, NoId)
    BY <1>4, <1>a, <1>c DEF Moved, Goes, SetUrl, Goto, StartMutation, NewOp, Task, Idle
  <2>3. TaskOk(t)'
    BY <2>2, <1>a, <2>g, <2>1, <1>b DEF Moved, Holds, UrlOrNo, IdOrNo, Frame
  <2> QED BY <2>1, <2>3, Others DEF AllTasks
<1>5. ASSUME NEW t \in Tasks, NEW u \in Urls, StartAdd(t, u) PROVE AllTasks'
  <2>1. Frame(t)
    BY <1>5, FinishOk DEF Frame, StartAdd, Goto, TypeOK, StartMutation, NewOp
  <2>u. UNCHANGED <<url, used>>
    BY <1>5 DEF StartAdd, StartMutation
  <2>2. Moved(t, "add", "lockM", NoId, u, NoId, NoId)
    BY <1>5, <1>a, <1>c DEF Moved, Goes, StartAdd, Goto, StartMutation, NewOp, Task, Idle
  <2>3. TaskOk(t)'
    BY <2>2, <1>a, <2>u, <2>1, <1>b DEF Moved, Holds, UrlOrNo, IdOrNo
  <2> QED BY <2>1, <2>3, Others DEF AllTasks
<1>6. ASSUME NEW t \in Tasks, StartWipe(t) PROVE AllTasks'
  <2>1. Frame(t)
    BY <1>6, FinishOk DEF Frame, StartWipe, Goto, TypeOK, StartMutation, NewOp
  <2>u. UNCHANGED <<url, used>>
    BY <1>6 DEF StartWipe, StartMutation
  <2>2. Moved(t, "wipe", "lockM", NoId, NoUrl, NoId, NoId)
    BY <1>6, <1>a, <1>c DEF Moved, Goes, StartWipe, Goto, StartMutation, NewOp, Task, Idle
  <2>3. TaskOk(t)'
    BY <2>2, <1>a, <2>u, <2>1, <1>b DEF Moved, Holds, UrlOrNo, IdOrNo
  <2> QED BY <2>1, <2>3, Others DEF AllTasks
<1>7. ASSUME NEW t \in Tasks, StartConnect(t) PROVE AllTasks'
  <2>1. Frame(t)
    BY <1>7, FinishOk DEF Frame, StartConnect, Goto, TypeOK, StartMutation, NewOp
  <2>u. UNCHANGED <<url, used>>
    BY <1>7 DEF StartConnect
  <2>2. Moved(t, "connect", "lockR", NoId, NoUrl, primary, NoId)
    BY <1>7, <1>a, <1>c DEF Moved, Goes, StartConnect, Goto, StartMutation, NewOp, Task, Idle
  <2>3. TaskOk(t)'
    BY <2>2, <1>a, <2>u, <2>1, <1>b DEF Moved, Holds, UrlOrNo, IdOrNo
  <2> QED BY <2>1, <2>3, Others DEF AllTasks
<1>8. ASSUME NEW t \in Tasks, StartPing(t) PROVE AllTasks'
  <2>1. Frame(t)
    BY <1>8, FinishOk DEF Frame, StartPing, Goto, TypeOK, StartMutation, NewOp
  <2>g. primary # NoId
    BY <1>8 DEF StartPing
  <2>u. UNCHANGED <<url, used>>
    BY <1>8 DEF StartPing
  <2>2. Moved(t, "ping", "ping", primary, NoUrl, NoId, NoId)
    BY <1>8, <1>a, <1>c DEF Moved, Goes, StartPing, Goto, StartMutation, NewOp, Task, Idle
  <2>3. TaskOk(t)'
    BY <2>2, <1>a, <2>g, <2>u, <2>1, <1>b DEF Moved, Holds, UrlOrNo, IdOrNo
  <2> QED BY <2>1, <2>3, Others DEF AllTasks
<1>9. ASSUME NEW t \in Tasks, Reload(t) PROVE AllTasks'
  BY <1>9, FreshOk DEF Reload
<1>10. ASSUME NEW t \in Tasks, Restart(t) PROVE AllTasks'
  BY <1>10, FreshOk DEF Restart
<1>11. CASE Disconnect
  BY <1>11, SameTasks DEF Disconnect
<1>12. ASSUME NEW t \in Tasks, BeginEpoch(t) PROVE AllTasks'
  <2>1. Frame(t)
    BY <1>12, FinishOk DEF Frame, BeginEpoch, Goto, TypeOK
  <2>g. task[t].op = "load" /\ Holds(t, mutation)
    BY <1>12 DEF BeginEpoch
  <2>u. UNCHANGED <<url, used>>
    BY <1>12 DEF BeginEpoch
  <2>2. Goes(t, "read") /\ mutation' = mutation
    BY <1>12, <1>a, <1>c DEF Moved, Goes, BeginEpoch, Goto, Task
  <2>3. TaskOk(t)'
    BY <2>2, <1>a, <2>g, <2>u, <2>1, <1>b DEF Moved, Goes, Holds, UrlOrNo, IdOrNo
  <2> QED BY <2>1, <2>3, Others DEF AllTasks
<1>13. ASSUME NEW t \in Tasks, LoadSecureCreds(t) PROVE AllTasks'
  <2>1. Frame(t)
    BY <1>13, FinishOk, <1>a DEF Frame, LoadSecureCreds, Goto, TypeOK, Hydrate
  <2>g. task[t].op = "load" /\ task[t].pc = "read"
    BY <1>13 DEF LoadSecureCreds
  <2>2. \/ Finish(t)
        \/ \E p \in index \cap Ids : Moved(t, task[t].op, "lockR", p, creds[p], task[t].back,
              task[t].victim) /\ mutation' = mutation
    <3>1. PICK unread \in SUBSET index, p \in Ids \cup {NoId} :
                 LET ids == {i \in index \ unread : creds[i] # NoUrl} IN
                 p \in ids \cup {NoId} /\ Hydrate(t, ids, p)
      BY <1>13, <1>b DEF LoadSecureCreds, PrimaryChoices
    <3>2. ASSUME ~Finish(t)
          PROVE  /\ p \in index \cap Ids /\ mutation' = mutation
                 /\ \E l : task'[t] = [task[t] EXCEPT !.pc = "lockR", !.id = p,
                                                     !.url = creds[p], !.list = l]
      BY <3>1, <3>2, <1>b, <1>c, ZenonT(30) DEF Hydrate, Goto
    <3> QED BY <3>2, <1>a, ZenonT(30) DEF Moved, Task
  <2>3. TaskOk(t)'
    BY <2>2, FinishOk, <1>a, <2>g, <2>1, <1>b DEF Moved, Holds, UrlOrNo, IdOrNo, Frame
  <2> QED BY <2>1, <2>3, Others DEF AllTasks
<1>14. ASSUME NEW t \in Tasks, Push(t) PROVE AllTasks'
  <2>1. Frame(t)
    BY <1>14, FinishOk DEF Frame, Push, Write, TypeOK
  <2>g. task[t].pc = "lockR" /\ task[t].op # "connect"
    BY <1>14 DEF Push
  <2>u. UNCHANGED <<url, used>>
    BY <1>14 DEF Push
  <2>2. \/ Finish(t)
        \/ Goes(t, "set") /\ mutation' = mutation
    <3>1. \/ Finish(t)
          \/ task'[t] = [[task[t] EXCEPT !.pc = "set"] EXCEPT !.reply = "none",
                !.gen = runtimeSeq + 1]
               /\ mutation' = mutation
      BY <1>14, <1>c DEF Push, Goto, Write
    <3> QED BY <3>1, <1>a, <1>b DEF Moved, Goes, Task
  <2>3. TaskOk(t)'
    BY <2>2, FinishOk, <1>a, <2>g, <2>u, <2>1, <1>b DEF Moved, Goes, Holds, UrlOrNo, IdOrNo
  <2> QED BY <2>1, <2>3, Others DEF AllTasks
<1>15. ASSUME NEW t \in Tasks, Pushed(t) PROVE AllTasks'
  <2>1. Frame(t)
    BY <1>15, FinishOk DEF Frame, Pushed, TypeOK
  <2>2. TaskOk(t)'
    BY <1>15, FinishOk DEF Pushed, EndConnect
  <2> QED BY <2>1, <2>2, Others DEF AllTasks
<1>16. ASSUME NEW t \in Tasks, FetchDropped(t) PROVE AllTasks'
  <2>1. Frame(t)
    BY <1>16, FinishOk DEF Frame, FetchDropped, TypeOK
  <2>2. TaskOk(t)'
    BY <1>16, FinishOk DEF FetchDropped, EndConnect
  <2> QED BY <2>1, <2>2, Others DEF AllTasks
<1>17. ASSUME NEW t \in Tasks, FetchApplied(t) PROVE AllTasks'
  <2>1. Frame(t)
    BY <1>17, FinishOk DEF Frame, FetchApplied, Goto, TypeOK
  <2>g. task[t].pc = "net"
    BY <1>17 DEF FetchApplied
  <2>u. UNCHANGED <<url, used>>
    BY <1>17 DEF FetchApplied
  <2>2. \/ Finish(t)
        \/ Goes(t, "lockR") /\ mutation' = mutation
    <3>1. \/ Finish(t)
          \/ \E fetched : task'[t] = [task[t] EXCEPT !.pc = "lockR", !.list = fetched]
               /\ mutation' = mutation
      BY <1>17, <1>c DEF FetchApplied, Goto
    <3> QED BY <3>1, <1>a, <1>b DEF Moved, Goes, Task
  <2>3. TaskOk(t)'
    BY <2>2, FinishOk, <1>a, <2>g, <2>u, <2>1, <1>b DEF Moved, Goes, Holds, UrlOrNo, IdOrNo
  <2> QED BY <2>1, <2>3, Others DEF AllTasks
<1>18. ASSUME NEW t \in Tasks, AddCredential(t) PROVE AllTasks'
  <2>1. Frame(t)
    BY <1>18, FinishOk DEF Frame, AddCredential, Goto, TypeOK
  <2>g. task[t].op = "add" /\ task[t].pc = "lockM" /\ Holds(t, mutation)
    BY <1>18 DEF AddCredential
  <2>u. url' = url
    BY <1>18 DEF AddCredential
  <2>2. \/ Finish(t)
        \/ \E i \in Ids \ used : Moved(t, task[t].op, "index", i, task[t].url, task[t].back,
              task[t].victim) /\ mutation' = mutation /\ i \in used'
    <3>1. \/ Finish(t)
          \/ \E i \in Ids \ used : task'[t] = [task[t] EXCEPT !.pc = "index", !.id = i]
               /\ mutation' = mutation /\ i \in used'
      BY <1>18, <1>c DEF AddCredential, Goto
    <3> QED BY <3>1, <1>a, <1>b DEF Moved, Goes, Task
  <2>3. TaskOk(t)'
    BY <2>2, FinishOk, <1>a, <2>g, <2>u, <2>1, <1>b DEF Moved, Holds, UrlOrNo, IdOrNo, Frame
  <2> QED BY <2>1, <2>3, Others DEF AllTasks
<1>19. ASSUME NEW t \in Tasks, AddIndex(t) PROVE AllTasks'
  <2>1. Frame(t)
    BY <1>19, FinishOk, <1>a DEF Frame, AddIndex, Goto, BeginFetch, TypeOK
  <2>g. task[t].op = "add" /\ task[t].pc = "index"
    BY <1>19 DEF AddIndex
  <2>2. Goes(t, "net") /\ mutation' = mutation
    BY <1>19, <1>a, <1>c DEF Moved, Goes, AddIndex, Goto, BeginFetch, Task
  <2>3. TaskOk(t)'
    BY <2>2, <1>a, <2>g, <2>1, <1>b DEF Moved, Goes, Holds, UrlOrNo, IdOrNo, Frame
  <2> QED BY <2>1, <2>3, Others DEF AllTasks
<1>20. ASSUME NEW t \in Tasks, BeginPrimary(t) PROVE AllTasks'
  <2>1. Frame(t)
    BY <1>20, FinishOk DEF Frame, BeginPrimary, Goto, TypeOK
  <2>g. (task[t].pc = "lockM" /\ Holds(t, mutation)
           /\ task[t].op = "primary") \/ task[t].pc = "select"
    BY <1>20 DEF BeginPrimary
  <2>u. UNCHANGED <<url, used>>
    BY <1>20 DEF BeginPrimary
  <2>2. \/ Finish(t)
        \/ Moved(t, task[t].op, "lockP", task[t].id, url[task[t].id], task[t].back,
              task[t].victim) /\ mutation' = mutation /\ task[t].id \in Subs
    <3>1. \/ Finish(t)
          \/ task'[t] = [task[t] EXCEPT !.pc = "lockP", !.url = url[task[t].id]]
               /\ mutation' = mutation /\ task[t].id \in Subs
      BY <1>20, <1>c DEF BeginPrimary, Goto
    <3> QED BY <3>1, <1>a, <1>b DEF Moved, Goes, Task
  <2>3. TaskOk(t)'
    BY <2>2, FinishOk, <1>a, <2>g, <2>u, <2>1, <1>b DEF Moved, Holds, UrlOrNo, IdOrNo
  <2> QED BY <2>1, <2>3, Others DEF AllTasks
<1>21. ASSUME NEW t \in Tasks, CommitPrimary(t) PROVE AllTasks'
  <2>1. Frame(t)
    BY <1>21, FinishOk DEF Frame, CommitPrimary, Write, TypeOK
  <2>g. task[t].pc = "lockP"
    BY <1>21 DEF CommitPrimary
  <2>u. UNCHANGED <<url, used>>
    BY <1>21 DEF CommitPrimary
  <2>2. \/ Finish(t)
        \/ Moved(t, task[t].op, "setP", task[t].id, task[t].url, primary, task[t].victim)
              /\ mutation' = mutation
    <3>1. \/ Finish(t)
          \/ task'[t] = [[task[t] EXCEPT !.pc = "setP", !.list = list[task[t].id],
                           !.back = primary,
                           !.backList = IF primary = NoId THEN NoList ELSE list[primary]]
                         EXCEPT !.reply = "none", !.gen = runtimeSeq + 1]
               /\ mutation' = mutation
      BY <1>21, <1>c DEF CommitPrimary, Goto, Write
    <3> QED BY <3>1, <1>a, <1>b, ZenonT(30) DEF Moved, Goes, Task
  <2>3. TaskOk(t)'
    BY <2>2, FinishOk, <1>a, <2>g, <2>u, <2>1, <1>b DEF Moved, Holds, UrlOrNo, IdOrNo
  <2> QED BY <2>1, <2>3, Others DEF AllTasks
<1>22. ASSUME NEW t \in Tasks, CheckPrimary(t) PROVE AllTasks'
  <2>1. Frame(t)
    BY <1>22, FinishOk DEF Frame, CheckPrimary, RollBackPrimary, Goto, Write, TypeOK
  <2>g. task[t].pc = "setP"
    BY <1>22 DEF CheckPrimary
  <2>u. UNCHANGED <<url, used>>
    BY <1>22 DEF CheckPrimary
  <2>2. \/ Finish(t)
        \/ Goes(t, "storeP") /\ mutation' = mutation
        \/ Goes(t, "undoP") /\ mutation' = mutation
    <3>1. \/ Finish(t)
          \/ task'[t] = [task[t] EXCEPT !.pc = "storeP"]
               /\ mutation' = mutation
          \/ task'[t] = [[task[t] EXCEPT !.pc = "undoP"] EXCEPT !.reply = "none",
                !.gen = runtimeSeq + 1]
               /\ mutation' = mutation
      BY <1>22, <1>c DEF CheckPrimary, RollBackPrimary, Goto, Write
    <3> QED BY <3>1, <1>a, <1>b, ZenonT(30) DEF Moved, Goes, Task
  <2>3. TaskOk(t)'
    <3>1. CASE Finish(t)
      BY <3>1, FinishOk
    <3>2. CASE Goes(t, "storeP") /\ mutation' = mutation
      BY <3>2, <1>a, <2>g, <2>u, <2>1, <1>b DEF Moved, Goes, Holds, UrlOrNo, IdOrNo
    <3>3. CASE Goes(t, "undoP") /\ mutation' = mutation
      BY <3>3, <1>a, <2>g, <2>u, <2>1, <1>b DEF Moved, Goes, Holds, UrlOrNo, IdOrNo
    <3> QED BY <2>2, <3>1, <3>2, <3>3
  <2> QED BY <2>1, <2>3, Others DEF AllTasks
<1>23. ASSUME NEW t \in Tasks, PublishPrimary(t) PROVE AllTasks'
  <2>1. Frame(t)
    BY <1>23, FinishOk DEF Frame, PublishPrimary, Goto, TypeOK
  <2>g. task[t].pc = "storeP"
    BY <1>23 DEF PublishPrimary
  <2>u. UNCHANGED <<url, used>>
    BY <1>23 DEF PublishPrimary
  <2>2. \/ Finish(t)
        \/ Goes(t, "del") /\ mutation' = mutation
    <3>1. \/ Finish(t)
          \/ task'[t] = [task[t] EXCEPT !.pc = "del", !.left = {task[t].victim},
                !.reply = "none"]
               /\ mutation' = mutation
      BY <1>23, <1>c DEF PublishPrimary, Goto
    <3> QED BY <3>1, <1>a, <1>b DEF Moved, Goes, Task
  <2>3. TaskOk(t)'
    BY <2>2, FinishOk, <1>a, <2>g, <2>u, <2>1, <1>b DEF Moved, Goes, Holds, UrlOrNo, IdOrNo
  <2> QED BY <2>1, <2>3, Others DEF AllTasks
<1>24. ASSUME NEW t \in Tasks, PrimaryUndone(t) PROVE AllTasks'
  <2>1. Frame(t)
    BY <1>24, FinishOk DEF Frame, PrimaryUndone, TypeOK
  <2>2. TaskOk(t)'
    BY <1>24, FinishOk DEF PrimaryUndone, EndConnect
  <2> QED BY <2>1, <2>2, Others DEF AllTasks
<1>25. ASSUME NEW t \in Tasks, BeginRemove(t) PROVE AllTasks'
  <2>1. Frame(t)
    BY <1>25, FinishOk DEF Frame, BeginRemove, Goto, TypeOK
  <2>g. task[t].op = "remove" /\ task[t].pc = "lockM" /\ Holds(t, mutation)
    BY <1>25 DEF BeginRemove
  <2>u. UNCHANGED <<url, used>>
    BY <1>25 DEF BeginRemove
  <2>2. \/ Finish(t)
        \/ Goes(t, "stopVpn") /\ mutation' = mutation /\ task[t].victim \in Subs
        \/ Goes(t, "go") /\ mutation' = mutation /\ task[t].victim \in Subs
    BY <1>25, <1>a, <1>c DEF Moved, Goes, BeginRemove, Goto, Task
  <2>3. TaskOk(t)'
    <3>1. CASE Finish(t)
      BY <3>1, FinishOk
    <3>2. CASE Goes(t, "stopVpn") /\ mutation' = mutation /\ task[t].victim \in Subs
      BY <3>2, <1>a, <2>g, <2>u, <2>1, <1>b DEF Moved, Goes, Holds, UrlOrNo, IdOrNo
    <3>3. CASE Goes(t, "go") /\ mutation' = mutation /\ task[t].victim \in Subs
      BY <3>3, <1>a, <2>g, <2>u, <2>1, <1>b DEF Moved, Goes, Holds, UrlOrNo, IdOrNo
    <3> QED BY <2>2, <3>1, <3>2, <3>3
  <2> QED BY <2>1, <2>3, Others DEF AllTasks
<1>26. ASSUME NEW t \in Tasks, VpnStopped(t) PROVE AllTasks'
  <2>1. Frame(t)
    BY <1>26, FinishOk DEF Frame, VpnStopped, Goto, TypeOK
  <2>g. task[t].pc = "stopVpn"
    BY <1>26 DEF VpnStopped
  <2>u. UNCHANGED <<url, used>>
    BY <1>26 DEF VpnStopped
  <2>2. \/ Finish(t)
        \/ Goes(t, "select") /\ mutation' = mutation /\ task[t].back = task[t].victim
        \/ Goes(t, "go") /\ mutation' = mutation
    BY <1>26, <1>a, <1>c DEF Moved, Goes, VpnStopped, Goto, Task
  <2>3. TaskOk(t)'
    <3>1. CASE Finish(t)
      BY <3>1, FinishOk
    <3>2. CASE Goes(t, "select") /\ mutation' = mutation /\ task[t].back = task[t].victim
      BY <3>2, <1>a, <2>g, <2>u, <2>1, <1>b DEF Moved, Goes, Holds, UrlOrNo, IdOrNo
    <3>3. CASE Goes(t, "go") /\ mutation' = mutation
      BY <3>3, <1>a, <2>g, <2>u, <2>1, <1>b DEF Moved, Goes, Holds, UrlOrNo, IdOrNo
    <3> QED BY <2>2, <3>1, <3>2, <3>3
  <2> QED BY <2>1, <2>3, Others DEF AllTasks
<1>27. ASSUME NEW t \in Tasks, RemoveGo(t) PROVE AllTasks'
  <2>1. Frame(t)
    BY <1>27, FinishOk DEF Frame, RemoveGo, Goto, TypeOK
  <2>g. task[t].op = "remove" /\ task[t].pc = "go"
    BY <1>27 DEF RemoveGo
  <2>u. UNCHANGED <<url, used>>
    BY <1>27 DEF RemoveGo
  <2>2. \/ Moved(t, "wipe", task[t].pc, task[t].id, task[t].url, task[t].back,
              task[t].victim) /\ mutation' = mutation
        \/ \E i \in Subs : Moved(t, task[t].op, "select", i, task[t].url, task[t].back,
              task[t].victim) /\ mutation' = mutation
        \/ Goes(t, "del") /\ mutation' = mutation
    <3>1. \/ task'[t] = [task[t] EXCEPT !.op = "wipe"]
               /\ mutation' = mutation
          \/ \E i \in Subs : task'[t] = [task[t] EXCEPT !.pc = "select", !.id = i]
               /\ mutation' = mutation
          \/ task'[t] = [task[t] EXCEPT !.pc = "del", !.left = {task[t].victim},
                !.reply = "none"]
               /\ mutation' = mutation
      BY <1>27, <1>c DEF RemoveGo, Goto
    <3> QED BY <3>1, <1>a, <1>b, ZenonT(30) DEF Moved, Goes, Task
  <2>3. TaskOk(t)'
    <3>1. CASE Moved(t, "wipe", task[t].pc, task[t].id, task[t].url, task[t].back,
                  task[t].victim) /\ mutation' = mutation
      BY <3>1, <1>a, <2>g, <2>u, <2>1, <1>b DEF Moved, Goes, Holds, UrlOrNo, IdOrNo
    <3>2. CASE \E i \in Subs : Moved(t, task[t].op, "select", i, task[t].url, task[t].back,
                  task[t].victim) /\ mutation' = mutation
      BY <3>2, <1>a, <2>g, <2>u, <2>1, <1>b DEF Moved, Goes, Holds, UrlOrNo, IdOrNo
    <3>3. CASE Goes(t, "del") /\ mutation' = mutation
      BY <3>3, <1>a, <2>g, <2>u, <2>1, <1>b DEF Moved, Goes, Holds, UrlOrNo, IdOrNo
    <3> QED BY <2>2, <3>1, <3>2, <3>3
  <2> QED BY <2>1, <2>3, Others DEF AllTasks
<1>28. ASSUME NEW t \in Tasks, RemoveDeleted(t) PROVE AllTasks'
  <2>g. task[t].op = "remove" /\ task[t].pc = "del"
    BY <1>28 DEF RemoveDeleted
  <2>u. UNCHANGED <<url, used>>
    BY <1>28 DEF RemoveDeleted
  <2>1. CASE GiveUpRemoval(t)
    BY <2>1, <2>g, <2>u, GivenUp
  <2>2. CASE Goto(t, [task[t] EXCEPT !.pc = "creds"]) /\ UNCHANGED locks
    <3>1. Frame(t)
      BY <2>2, <2>u DEF Frame, Goto, TypeOK
    <3>2. Goes(t, "creds") /\ mutation' = mutation
      BY <2>2, <1>a, <1>c DEF Moved, Goes, Goto, Task
    <3>3. TaskOk(t)'
      BY <3>1, <3>2, <1>a, <2>g, <2>u, <1>b DEF Moved, Goes, Holds, UrlOrNo, IdOrNo
    <3> QED BY <3>1, <3>3, Others DEF AllTasks
  <2> QED BY <1>28, <2>1, <2>2 DEF RemoveDeleted
<1>29. ASSUME NEW t \in Tasks, RemoveCredential(t) PROVE AllTasks'
  <2>1. Frame(t)
    BY <1>29, FinishOk DEF Frame, RemoveCredential, Goto, TypeOK
  <2>g. task[t].op = "remove" /\ task[t].pc = "creds"
    BY <1>29 DEF RemoveCredential
  <2>u. UNCHANGED <<url, used>>
    BY <1>29 DEF RemoveCredential
  <2>2. /\ mutation' = mutation
        /\ Moved(t, task[t].op, "index", task[t].id, creds[task[t].victim], task[t].back,
                 task[t].victim)
    BY <1>29, <1>a, <1>c DEF Moved, Goes, RemoveCredential, Goto, Task
  <2>3. TaskOk(t)'
    BY <2>2, <1>a, <2>g, <2>u, <2>1, <1>b DEF Moved, Goes, Holds, UrlOrNo, IdOrNo
  <2> QED BY <2>1, <2>3, Others DEF AllTasks
<1>30. ASSUME NEW t \in Tasks, RemoveIndex(t) PROVE AllTasks'
  <2>1. Frame(t)
    BY <1>30, FinishOk, <1>a DEF Frame, RemoveIndex, Goto, BeginFetch, TypeOK
  <2>g. task[t].op = "remove" /\ task[t].pc = "index"
    BY <1>30 DEF RemoveIndex
  <2>2. \/ Finish(t)
        \/ Moved(t, task[t].op, "net", task[t].id, url[task[t].id], task[t].back,
              task[t].victim) /\ mutation' = mutation /\ task[t].back # NoId
    <3>1. \/ Finish(t)
          \/ task'[t] = [task[t] EXCEPT !.pc = "net", !.id = task[t].id,
                !.url = url[task[t].id], !.gen = fetchSeq + 1]
               /\ mutation' = mutation /\ task[t].back # NoId
      BY <1>30, <1>c DEF RemoveIndex, Goto, BeginFetch
    <3> QED BY <3>1, <1>a, <1>b DEF Moved, Goes, Task
  <2>3. TaskOk(t)'
    BY <2>2, FinishOk, <1>a, <2>g, <2>1, <1>b DEF Moved, Holds, UrlOrNo, IdOrNo, Frame
  <2> QED BY <2>1, <2>3, Others DEF AllTasks
<1>31. ASSUME NEW t \in Tasks, BeginWipe(t) PROVE AllTasks'
  <2>1. Frame(t)
    BY <1>31, FinishOk DEF Frame, BeginWipe, Goto, TypeOK
  <2>g. task[t].op = "wipe" /\ task[t].pc = "lockM" /\ Holds(t, mutation)
    BY <1>31 DEF BeginWipe
  <2>u. UNCHANGED <<url, used>>
    BY <1>31 DEF BeginWipe
  <2>2. \/ Goes(t, "go") /\ mutation' = mutation
        \/ Goes(t, "stopVpn") /\ mutation' = mutation
    BY <1>31, <1>a, <1>c DEF Moved, Goes, BeginWipe, Goto, Task
  <2>3. TaskOk(t)'
    <3>1. CASE Goes(t, "go") /\ mutation' = mutation
      BY <3>1, <1>a, <2>g, <2>u, <2>1, <1>b DEF Moved, Goes, Holds, UrlOrNo, IdOrNo
    <3>2. CASE Goes(t, "stopVpn") /\ mutation' = mutation
      BY <3>2, <1>a, <2>g, <2>u, <2>1, <1>b DEF Moved, Goes, Holds, UrlOrNo, IdOrNo
    <3> QED BY <2>2, <3>1, <3>2
  <2> QED BY <2>1, <2>3, Others DEF AllTasks
<1>32. ASSUME NEW t \in Tasks, WipeFence(t) PROVE AllTasks'
  <2>1. Frame(t)
    BY <1>32, FinishOk DEF Frame, WipeFence, Goto, TypeOK
  <2>g. task[t].op = "wipe" /\ task[t].pc = "go"
    BY <1>32 DEF WipeFence
  <2>u. UNCHANGED <<url, used>>
    BY <1>32 DEF WipeFence
  <2>2. Goes(t, "lockW") /\ mutation' = mutation
    BY <1>32, <1>a, <1>c DEF Moved, Goes, WipeFence, Goto, Task
  <2>3. TaskOk(t)'
    BY <2>2, <1>a, <2>g, <2>u, <2>1, <1>b DEF Moved, Goes, Holds, UrlOrNo, IdOrNo
  <2> QED BY <2>1, <2>3, Others DEF AllTasks
<1>33. ASSUME NEW t \in Tasks, WipeTombstone(t) PROVE AllTasks'
  <2>1. Frame(t)
    BY <1>33, FinishOk DEF Frame, WipeTombstone, Goto, Write, TypeOK
  <2>g. task[t].pc = "lockW"
    BY <1>33 DEF WipeTombstone
  <2>u. UNCHANGED <<url, used>>
    BY <1>33 DEF WipeTombstone
  <2>2. \/ Finish(t)
        \/ Goes(t, "setW") /\ mutation' = mutation
    <3>1. \/ Finish(t)
          \/ task'[t] = [[task[t] EXCEPT !.pc = "setW"] EXCEPT !.reply = "none",
                !.gen = runtimeSeq + 1]
               /\ mutation' = mutation
          \/ task'[t] = [task[t] EXCEPT !.pc = "setW", !.reply = "yes"]
               /\ mutation' = mutation
      BY <1>33, <1>c DEF WipeTombstone, Goto, Write
    <3> QED BY <3>1, <1>a, <1>b, ZenonT(30) DEF Moved, Goes, Task
  <2>3. TaskOk(t)'
    BY <2>2, FinishOk, <1>a, <2>g, <2>u, <2>1, <1>b DEF Moved, Goes, Holds, UrlOrNo, IdOrNo
  <2> QED BY <2>1, <2>3, Others DEF AllTasks
<1>34. ASSUME NEW t \in Tasks, WipeCaches(t) PROVE AllTasks'
  <2>1. Frame(t)
    BY <1>34, FinishOk DEF Frame, WipeCaches, Goto, TypeOK
  <2>g. task[t].pc = "setW"
    BY <1>34 DEF WipeCaches
  <2>u. UNCHANGED <<url, used>>
    BY <1>34 DEF WipeCaches
  <2>2. \/ Finish(t)
        \/ Goes(t, "delW") /\ mutation' = mutation
    <3>1. \/ Finish(t)
          \/ task'[t] = [task[t] EXCEPT !.pc = "delW", !.left = Subs,
                !.reply = IF Subs = {} THEN "yes" ELSE "none"]
               /\ mutation' = mutation
      BY <1>34, <1>c DEF WipeCaches, Goto
    <3> QED BY <3>1, <1>a, <1>b DEF Moved, Goes, Task
  <2>3. TaskOk(t)'
    BY <2>2, FinishOk, <1>a, <2>g, <2>u, <2>1, <1>b DEF Moved, Goes, Holds, UrlOrNo, IdOrNo
  <2> QED BY <2>1, <2>3, Others DEF AllTasks
<1>35. ASSUME NEW t \in Tasks, WipeFailed(t) PROVE AllTasks'
  <2>1. Frame(t)
    BY <1>35, FinishOk DEF Frame, WipeFailed, TypeOK
  <2>2. TaskOk(t)'
    BY <1>35, FinishOk DEF WipeFailed, EndConnect
  <2> QED BY <2>1, <2>2, Others DEF AllTasks
<1>36. ASSUME NEW t \in Tasks, WipeCredentials(t) PROVE AllTasks'
  <2>1. Frame(t)
    BY <1>36, FinishOk DEF Frame, WipeCredentials, Goto, TypeOK
  <2>g. task[t].pc = "delW"
    BY <1>36 DEF WipeCredentials
  <2>u. UNCHANGED <<url, used>>
    BY <1>36 DEF WipeCredentials
  <2>2. Goes(t, "credsW") /\ mutation' = mutation
    BY <1>36, <1>a, <1>c DEF Moved, Goes, WipeCredentials, Goto, Task
  <2>3. TaskOk(t)'
    BY <2>2, <1>a, <2>g, <2>u, <2>1, <1>b DEF Moved, Goes, Holds, UrlOrNo, IdOrNo
  <2> QED BY <2>1, <2>3, Others DEF AllTasks
<1>37. ASSUME NEW t \in Tasks, WipePublish(t) PROVE AllTasks'
  <2>1. Frame(t)
    BY <1>37, FinishOk, <1>a DEF Frame, WipePublish, TypeOK
  <2>2. TaskOk(t)'
    BY <1>37, FinishOk DEF WipePublish, EndConnect
  <2> QED BY <2>1, <2>2, Others DEF AllTasks
<1>38. ASSUME NEW t \in Tasks, CommitForConnect(t) PROVE AllTasks'
  <2>1. Frame(t)
    BY <1>38, FinishOk DEF Frame, CommitForConnect, Write, EndConnect, TypeOK
  <2>g. task[t].op = "connect" /\ task[t].pc = "lockR"
    BY <1>38 DEF CommitForConnect
  <2>u. UNCHANGED <<url, used>>
    BY <1>38 DEF CommitForConnect
  <2>2. \/ Finish(t)
        \/ Moved(t, task[t].op, "set", primary, url[primary], task[t].back, task[t].victim)
              /\ mutation' = mutation /\ primary \in Ids
    <3>1. \/ Finish(t)
          \/ task'[t] = [[task[t] EXCEPT !.pc = "set", !.id = primary,
                !.url = url[primary]] EXCEPT !.reply = "none", !.gen = runtimeSeq + 1]
               /\ mutation' = mutation /\ primary \in Ids
      BY <1>38, <1>c, <1>b DEF CommitForConnect, Goto, Write, EndConnect, IdOrNo
    <3> QED BY <3>1, <1>a, <1>b DEF Moved, Goes, Task
  <2>3. TaskOk(t)'
    BY <2>2, FinishOk, <1>a, <2>g, <2>u, <2>1, <1>b DEF Moved, Holds, UrlOrNo, IdOrNo
  <2> QED BY <2>1, <2>3, Others DEF AllTasks
<1>39. ASSUME NEW t \in Tasks, ConsumeReceipt(t) PROVE AllTasks'
  <2>1. Frame(t)
    BY <1>39, FinishOk DEF Frame, ConsumeReceipt, Goto, EndConnect, TypeOK
  <2>g. task[t].op = "connect" /\ task[t].pc = "set"
    BY <1>39 DEF ConsumeReceipt
  <2>u. UNCHANGED <<url, used>>
    BY <1>39 DEF ConsumeReceipt
  <2>2. \/ Finish(t)
        \/ Goes(t, "connect") /\ mutation' = mutation
    <3>1. \/ Finish(t)
          \/ task'[t] = [task[t] EXCEPT !.pc = "connect", !.reply = "none"]
               /\ mutation' = mutation
      BY <1>39, <1>c DEF ConsumeReceipt, Goto, EndConnect
    <3> QED BY <3>1, <1>a, <1>b DEF Moved, Goes, Task
  <2>3. TaskOk(t)'
    BY <2>2, FinishOk, <1>a, <2>g, <2>u, <2>1, <1>b DEF Moved, Goes, Holds, UrlOrNo, IdOrNo
  <2> QED BY <2>1, <2>3, Others DEF AllTasks
<1>40. ASSUME NEW t \in Tasks, ConnectReturns(t) PROVE AllTasks'
  <2>1. Frame(t)
    BY <1>40, FinishOk DEF Frame, ConnectReturns, EndConnect, TypeOK
  <2>2. TaskOk(t)'
    BY <1>40, FinishOk DEF ConnectReturns, EndConnect
  <2> QED BY <2>1, <2>2, Others DEF AllTasks
<1>41. ASSUME NEW t \in Tasks, ApplyPings(t) PROVE AllTasks'
  <2>1. Frame(t)
    BY <1>41, FinishOk DEF Frame, ApplyPings, TypeOK
  <2>2. TaskOk(t)'
    BY <1>41, FinishOk DEF ApplyPings, EndConnect
  <2> QED BY <2>1, <2>2, Others DEF AllTasks
<1>42. ASSUME NEW m \in wire, DeleteCache(m) PROVE AllTasks'
  BY <1>42, SameTasks, <1>a, MessageFields DEF DeleteCache, Handle, Task, TypeOK
<1>43. ASSUME NEW m \in wire, SetServers(m), UNCHANGED faults PROVE AllTasks'
  BY <1>43, SameTasks, <1>a, MessageFields DEF SetServers, Handle, Reply, Task, TypeOK
<1>44. ASSUME NEW m \in wire, SaveCache(m), UNCHANGED faults PROVE AllTasks'
  BY <1>44, SameTasks DEF SaveCache, Handle
<1>45. ASSUME NEW m \in wire, SaveFails(m), UNCHANGED faults PROVE AllTasks'
  BY <1>45, SameTasks DEF SaveFails, Handle
<1>46. ASSUME NEW m \in wire, Connect(m), UNCHANGED faults PROVE AllTasks'
  BY <1>46, SameTasks, <1>a, MessageFields DEF Connect, Handle, Reply, Task, TypeOK
<1>47. ASSUME NEW m \in wire, PingServers(m), UNCHANGED faults PROVE AllTasks'
  BY <1>47, SameTasks, <1>a, MessageFields DEF PingServers, Handle, Reply, Task, TypeOK
<1>48. CASE WriteCredential
  BY <1>48, SameTasks DEF WriteCredential
<1>49. CASE UNCHANGED vars
  BY <1>49, SameTasks DEF vars
<1>50. ASSUME NEW t \in Tasks, AddCredentialFails(t) PROVE AllTasks'
  <2>1. Frame(t)
    BY <1>50, FinishOk DEF Frame, AddCredentialFails, TypeOK
  <2>2. TaskOk(t)'
    BY <1>50, FinishOk DEF AddCredentialFails
  <2> QED BY <2>1, <2>2, Others DEF AllTasks
<1>51. ASSUME NEW t \in Tasks, AddIndexFails(t) PROVE AllTasks'
  <2>1. Frame(t)
    BY <1>51, FinishOk DEF Frame, AddIndexFails, TypeOK
  <2>2. TaskOk(t)'
    BY <1>51, FinishOk DEF AddIndexFails
  <2> QED BY <2>1, <2>2, Others DEF AllTasks
<1>52. ASSUME NEW t \in Tasks, PrimaryNotSaved(t) PROVE AllTasks'
  <2>1. Frame(t)
    BY <1>52 DEF Frame, PrimaryNotSaved, RollBackPrimary, Write, TypeOK
  <2>g. task[t].pc = "storeP"
    BY <1>52 DEF PrimaryNotSaved
  <2>u. UNCHANGED <<url, used>>
    BY <1>52 DEF PrimaryNotSaved
  <2>2. Goes(t, "undoP") /\ mutation' = mutation
    <3>1. task'[t] = [[task[t] EXCEPT !.pc = "undoP"] EXCEPT !.reply = "none",
                                                           !.gen = runtimeSeq + 1]
               /\ mutation' = mutation
      BY <1>52, <1>c DEF PrimaryNotSaved, RollBackPrimary, Write
    <3> QED BY <3>1, <1>a, <1>b, ZenonT(30) DEF Moved, Goes, Task
  <2>3. TaskOk(t)'
    BY <2>2, <1>a, <2>g, <2>u, <2>1, <1>b DEF Moved, Goes, Holds, UrlOrNo, IdOrNo
  <2> QED BY <2>1, <2>3, Others DEF AllTasks
<1>53. ASSUME NEW t \in Tasks, RemoveCredentialFails(t) PROVE AllTasks'
  <2>1. UNCHANGED <<url, used>> /\ GiveUpRemoval(t)
    BY <1>53 DEF RemoveCredentialFails
  <2>2. task[t].op = "remove" /\ task[t].pc = "creds"
    BY <1>53 DEF RemoveCredentialFails
  <2> QED BY <2>1, <2>2, GivenUp
<1>54. ASSUME NEW t \in Tasks, RemoveIndexFails(t) PROVE AllTasks'
  <2>1. UNCHANGED <<url, used>> /\ GiveUpRemoval(t)
    BY <1>54 DEF RemoveIndexFails
  <2>2. task[t].op = "remove" /\ task[t].pc = "index"
    BY <1>54 DEF RemoveIndexFails
  <2> QED BY <2>1, <2>2, GivenUp
<1>55. ASSUME NEW t \in Tasks, WipeCredentialsFail(t) PROVE AllTasks'
  <2>1. Frame(t)
    BY <1>55, FinishOk DEF Frame, WipeCredentialsFail, TypeOK
  <2>2. TaskOk(t)'
    BY <1>55, FinishOk DEF WipeCredentialsFail
  <2> QED BY <2>1, <2>2, Others DEF AllTasks
<1>56. CASE WriteRefused
  BY <1>56, SameTasks DEF WriteRefused
<1> QED BY <1>1, <1>2, <1>3, <1>4, <1>5, <1>6, <1>7, <1>8, <1>9, <1>10, <1>11, <1>12, <1>13,
           <1>14, <1>15, <1>16, <1>17, <1>18, <1>19, <1>20, <1>21, <1>22, <1>23, <1>24,
           <1>25, <1>26, <1>27, <1>28, <1>29, <1>30, <1>31, <1>32, <1>33, <1>34, <1>35,
           <1>36, <1>37, <1>38, <1>39, <1>40, <1>41, <1>42, <1>43, <1>44, <1>45, <1>46,
           <1>47, <1>48, <1>49, <1>50, <1>51, <1>52, <1>53, <1>54, <1>55, <1>56
        DEF Next, User, Resume, Deliver, KeyringWrites


----
(***************************************************************************)
(* The subscriptions and their lists.                                      *)
(***************************************************************************)

LEMMA SameStore ==
  ASSUME StoreInv, ListInv, UNCHANGED <<index, used, url, list, primary>>
  PROVE  StoreInv' /\ ListInv'
  BY DEF StoreInv, ListInv, Subs

LEMMA FreshStore ==
  ASSUME TypeOK, StoreInv, NEW t \in Tasks, FreshRenderer(t)
  PROVE  StoreInv' /\ ListInv'
  BY Sentinels DEF FreshRenderer, StoreInv, ListInv, Subs, TypeOK

\* Ids in the store and in the index were generated before; a list that appears is the
\* reply to a request for the URL of that moment, and an edited URL has no list.
LEMMA StoresKept == TypeOK /\ StoreInv /\ ListInv /\ AllTasks /\ [Next]_vars => StoreInv'
   /\ ListInv'
<1> SUFFICES ASSUME TypeOK /\ StoreInv /\ ListInv /\ AllTasks, [Next]_vars
             PROVE  StoreInv' /\ ListInv'
  OBVIOUS
<1> USE DEF backend, disk, store, seqs, locks, bounds
<1>a. \A t \in Tasks : TaskOk(t)
  BY DEF AllTasks
<1>b. /\ NoId \notin Ids /\ NoUrl \notin Urls /\ primary \in IdOrNo /\ index \subseteq Ids
      /\ url \in [Ids -> UrlOrNo] /\ list \in [Ids -> List] /\ used \subseteq Ids
      /\ cache \in [Ids -> List] /\ creds \in [Ids -> UrlOrNo]
  BY Sentinels DEF TypeOK
<1>1. ASSUME NEW t \in Tasks, NEW i \in Ids, StartFetch(t, i) PROVE StoreInv' /\ ListInv'
  BY <1>1, SameStore DEF StartFetch
<1>2. ASSUME NEW t \in Tasks, NEW i \in Ids, StartPrimary(t, i) PROVE StoreInv' /\ ListInv'
  BY <1>2, SameStore DEF StartPrimary, StartMutation
<1>3. ASSUME NEW t \in Tasks, NEW i \in Ids, StartRemove(t, i) PROVE StoreInv' /\ ListInv'
  BY <1>3, SameStore DEF StartRemove, StartMutation
<1>4. ASSUME NEW t \in Tasks, NEW u \in Urls, SetUrl(t, u) PROVE StoreInv' /\ ListInv'
  <2>1. StoreInv'
    BY <1>4, <1>b DEF SetUrl, StoreInv, Subs, IdOrNo, UrlOrNo
  <2>2. ListInv'
    BY <1>4, <1>b DEF SetUrl, ListInv, IdOrNo
  <2> QED BY <2>1, <2>2
<1>5. ASSUME NEW t \in Tasks, NEW u \in Urls, StartAdd(t, u) PROVE StoreInv' /\ ListInv'
  BY <1>5, SameStore DEF StartAdd, StartMutation
<1>6. ASSUME NEW t \in Tasks, StartWipe(t) PROVE StoreInv' /\ ListInv'
  BY <1>6, SameStore DEF StartWipe, StartMutation
<1>7. ASSUME NEW t \in Tasks, StartConnect(t) PROVE StoreInv' /\ ListInv'
  BY <1>7, SameStore DEF StartConnect
<1>8. ASSUME NEW t \in Tasks, StartPing(t) PROVE StoreInv' /\ ListInv'
  BY <1>8, SameStore DEF StartPing
<1>9. ASSUME NEW t \in Tasks, Reload(t) PROVE StoreInv' /\ ListInv'
  BY <1>9, FreshStore DEF Reload
<1>10. ASSUME NEW t \in Tasks, Restart(t) PROVE StoreInv' /\ ListInv'
  BY <1>10, FreshStore DEF Restart
<1>11. CASE Disconnect
  BY <1>11, SameStore DEF Disconnect
<1>12. ASSUME NEW t \in Tasks, BeginEpoch(t) PROVE StoreInv' /\ ListInv'
  BY <1>12, SameStore DEF BeginEpoch
<1>13. ASSUME NEW t \in Tasks, LoadSecureCreds(t) PROVE StoreInv' /\ ListInv'
  <2>1. PICK unread \in SUBSET index, p \in Ids \cup {NoId} :
               LET ids == {i \in index \ unread : creds[i] # NoUrl} IN
               /\ p \in ids \cup {NoId}
               /\ Hydrate(t, ids, p)
    BY <1>13, <1>b DEF LoadSecureCreds, PrimaryChoices
  <2>2. index' = index /\ used' = used
    BY <1>13 DEF LoadSecureCreds
  <2>3. StoreInv'
    BY <2>1, <2>2, <1>b DEF Hydrate, StoreInv, Subs
  <2>4. ListInv'
    BY <2>1, <1>b DEF Hydrate, Hydrated, Cached, ListInv
  <2> QED BY <2>3, <2>4
<1>14. ASSUME NEW t \in Tasks, Push(t) PROVE StoreInv' /\ ListInv'
  BY <1>14, SameStore DEF Push
<1>15. ASSUME NEW t \in Tasks, Pushed(t) PROVE StoreInv' /\ ListInv'
  BY <1>15, SameStore DEF Pushed
<1>16. ASSUME NEW t \in Tasks, FetchDropped(t) PROVE StoreInv' /\ ListInv'
  BY <1>16, SameStore DEF FetchDropped
<1>17. ASSUME NEW t \in Tasks, FetchApplied(t) PROVE StoreInv' /\ ListInv'
  <2>1. StoreInv'
    BY <1>17 DEF FetchApplied, StoreInv, Subs
  <2>2. ListInv'
    <3>1. PICK fetched \in Answers(task[t]) : list' = [list EXCEPT ![task[t].id] = fetched]
      BY <1>17 DEF FetchApplied
    <3>2. fetched.url = task[t].url
      <4>1. \E f : fetched = [url |-> task[t].url, ver |-> task[t].gen, epoch |-> epoch,
                             fits |-> f]
        BY <3>1, Zenon DEF Answers
      <4> QED BY <4>1
    <3>3. url' = url /\ url[task[t].id] = task[t].url
      BY <1>17 DEF FetchApplied, Current
    <3> QED BY <3>1, <3>2, <3>3, <1>b DEF ListInv
  <2> QED BY <2>1, <2>2
<1>18. ASSUME NEW t \in Tasks, AddCredential(t) PROVE StoreInv' /\ ListInv'
  <2>1. StoreInv'
    BY <1>18 DEF AddCredential, StoreInv, Subs
  <2>2. ListInv'
    BY <1>18 DEF AddCredential, ListInv
  <2> QED BY <2>1, <2>2
<1>19. ASSUME NEW t \in Tasks, AddIndex(t) PROVE StoreInv' /\ ListInv'
  <2>1. StoreInv'
    BY <1>19, <1>a, <1>b DEF AddIndex, StoreInv, Subs, TaskOk, AddInv, UsedInv, BeginFetch
  <2>2. ListInv'
    BY <1>19, <1>a, <1>b DEF AddIndex, ListInv, List, Servers, TaskOk, AddInv, BeginFetch
  <2> QED BY <2>1, <2>2
<1>20. ASSUME NEW t \in Tasks, BeginPrimary(t) PROVE StoreInv' /\ ListInv'
  BY <1>20, SameStore DEF BeginPrimary
<1>21. ASSUME NEW t \in Tasks, CommitPrimary(t) PROVE StoreInv' /\ ListInv'
  BY <1>21, SameStore DEF CommitPrimary
<1>22. ASSUME NEW t \in Tasks, CheckPrimary(t) PROVE StoreInv' /\ ListInv'
  BY <1>22, SameStore DEF CheckPrimary
<1>23. ASSUME NEW t \in Tasks, PublishPrimary(t) PROVE StoreInv' /\ ListInv'
  <2>1. StoreInv'
    BY <1>23, <1>a DEF PublishPrimary, StoreInv, Subs, TaskOk, UsedInv
  <2>2. ListInv'
    BY <1>23 DEF PublishPrimary, ListInv
  <2> QED BY <2>1, <2>2
<1>24. ASSUME NEW t \in Tasks, PrimaryUndone(t) PROVE StoreInv' /\ ListInv'
  BY <1>24, SameStore DEF PrimaryUndone
<1>25. ASSUME NEW t \in Tasks, BeginRemove(t) PROVE StoreInv' /\ ListInv'
  BY <1>25, SameStore DEF BeginRemove
<1>26. ASSUME NEW t \in Tasks, VpnStopped(t) PROVE StoreInv' /\ ListInv'
  BY <1>26, SameStore DEF VpnStopped
<1>27. ASSUME NEW t \in Tasks, RemoveGo(t) PROVE StoreInv' /\ ListInv'
  BY <1>27, SameStore DEF RemoveGo
<1>28. ASSUME NEW t \in Tasks, RemoveDeleted(t) PROVE StoreInv' /\ ListInv'
  BY <1>28, SameStore DEF RemoveDeleted
<1>29. ASSUME NEW t \in Tasks, RemoveCredential(t) PROVE StoreInv' /\ ListInv'
  BY <1>29, SameStore DEF RemoveCredential
<1>30. ASSUME NEW t \in Tasks, RemoveIndex(t) PROVE StoreInv' /\ ListInv'
  <2>1. StoreInv'
    BY <1>30, <1>b DEF RemoveIndex, StoreInv, Subs, BeginFetch
  <2>2. ListInv'
    BY <1>30, <1>b DEF RemoveIndex, ListInv, BeginFetch
  <2> QED BY <2>1, <2>2
<1>31. ASSUME NEW t \in Tasks, BeginWipe(t) PROVE StoreInv' /\ ListInv'
  BY <1>31, SameStore DEF BeginWipe
<1>32. ASSUME NEW t \in Tasks, WipeFence(t) PROVE StoreInv' /\ ListInv'
  BY <1>32, SameStore DEF WipeFence
<1>33. ASSUME NEW t \in Tasks, WipeTombstone(t) PROVE StoreInv' /\ ListInv'
  BY <1>33, SameStore DEF WipeTombstone
<1>34. ASSUME NEW t \in Tasks, WipeCaches(t) PROVE StoreInv' /\ ListInv'
  BY <1>34, SameStore DEF WipeCaches
<1>35. ASSUME NEW t \in Tasks, WipeFailed(t) PROVE StoreInv' /\ ListInv'
  BY <1>35, SameStore DEF WipeFailed
<1>36. ASSUME NEW t \in Tasks, WipeCredentials(t) PROVE StoreInv' /\ ListInv'
  BY <1>36, SameStore DEF WipeCredentials
<1>37. ASSUME NEW t \in Tasks, WipePublish(t) PROVE StoreInv' /\ ListInv'
  <2>1. StoreInv'
    BY <1>37, <1>b DEF WipePublish, StoreInv, Subs
  <2>2. ListInv'
    BY <1>37 DEF WipePublish, ListInv
  <2> QED BY <2>1, <2>2
<1>38. ASSUME NEW t \in Tasks, CommitForConnect(t) PROVE StoreInv' /\ ListInv'
  BY <1>38, SameStore DEF CommitForConnect
<1>39. ASSUME NEW t \in Tasks, ConsumeReceipt(t) PROVE StoreInv' /\ ListInv'
  BY <1>39, SameStore DEF ConsumeReceipt
<1>40. ASSUME NEW t \in Tasks, ConnectReturns(t) PROVE StoreInv' /\ ListInv'
  BY <1>40, SameStore DEF ConnectReturns
<1>41. ASSUME NEW t \in Tasks, ApplyPings(t) PROVE StoreInv' /\ ListInv'
  BY <1>41, SameStore DEF ApplyPings
<1>42. ASSUME NEW m \in wire, DeleteCache(m) PROVE StoreInv' /\ ListInv'
  BY <1>42, SameStore DEF DeleteCache, Handle
<1>43. ASSUME NEW m \in wire, SetServers(m), UNCHANGED faults PROVE StoreInv' /\ ListInv'
  BY <1>43, SameStore DEF SetServers, Handle
<1>44. ASSUME NEW m \in wire, SaveCache(m), UNCHANGED faults PROVE StoreInv' /\ ListInv'
  BY <1>44, SameStore DEF SaveCache, Handle
<1>45. ASSUME NEW m \in wire, SaveFails(m), UNCHANGED faults PROVE StoreInv' /\ ListInv'
  BY <1>45, SameStore DEF SaveFails, Handle
<1>46. ASSUME NEW m \in wire, Connect(m), UNCHANGED faults PROVE StoreInv' /\ ListInv'
  BY <1>46, SameStore DEF Connect, Handle
<1>47. ASSUME NEW m \in wire, PingServers(m), UNCHANGED faults PROVE StoreInv' /\ ListInv'
  BY <1>47, SameStore DEF PingServers, Handle
<1>48. CASE WriteCredential
  BY <1>48, SameStore DEF WriteCredential
<1>49. CASE UNCHANGED vars
  BY <1>49, SameStore DEF vars
<1>50. ASSUME NEW t \in Tasks, AddCredentialFails(t) PROVE StoreInv' /\ ListInv'
  <2>1. StoreInv'
    BY <1>50 DEF AddCredentialFails, StoreInv, Subs
  <2>2. ListInv'
    BY <1>50 DEF AddCredentialFails, ListInv
  <2> QED BY <2>1, <2>2
<1>51. ASSUME NEW t \in Tasks, AddIndexFails(t) PROVE StoreInv' /\ ListInv'
  BY <1>51, SameStore DEF AddIndexFails
<1>52. ASSUME NEW t \in Tasks, PrimaryNotSaved(t) PROVE StoreInv' /\ ListInv'
  BY <1>52, SameStore DEF PrimaryNotSaved
<1>53. ASSUME NEW t \in Tasks, RemoveCredentialFails(t) PROVE StoreInv' /\ ListInv'
  BY <1>53, SameStore DEF RemoveCredentialFails
<1>54. ASSUME NEW t \in Tasks, RemoveIndexFails(t) PROVE StoreInv' /\ ListInv'
  BY <1>54, SameStore DEF RemoveIndexFails
<1>55. ASSUME NEW t \in Tasks, WipeCredentialsFail(t) PROVE StoreInv' /\ ListInv'
  BY <1>55, SameStore DEF WipeCredentialsFail
<1>56. CASE WriteRefused
  BY <1>56, SameStore DEF WriteRefused
<1> QED BY <1>1, <1>2, <1>3, <1>4, <1>5, <1>6, <1>7, <1>8, <1>9, <1>10, <1>11, <1>12, <1>13,
           <1>14, <1>15, <1>16, <1>17, <1>18, <1>19, <1>20, <1>21, <1>22, <1>23, <1>24,
           <1>25, <1>26, <1>27, <1>28, <1>29, <1>30, <1>31, <1>32, <1>33, <1>34, <1>35,
           <1>36, <1>37, <1>38, <1>39, <1>40, <1>41, <1>42, <1>43, <1>44, <1>45, <1>46,
           <1>47, <1>48, <1>49, <1>50, <1>51, <1>52, <1>53, <1>54, <1>55, <1>56
        DEF Next, User, Resume, Deliver, KeyringWrites


----
(***************************************************************************)
(* The theorems.                                                           *)
(***************************************************************************)

LEMMA InitInvariant == Init => Invariant
<1> SUFFICES ASSUME Init PROVE Invariant
  OBVIOUS
<1>0. FirstOf(Tasks) \in Tasks
  BY Sentinels DEF FirstOf
<1> USE DEF Init
<1>1. TypeOK
  <2>1. EmptySnapshot(0) \in Snapshot
    BY SnapshotTypes
  <2>2. task \in [Tasks -> Task]
    <3>1. [Idle EXCEPT !.op = "load", !.pc = "lockM"] \in Task
      BY IdleType, TaskSteps DEF Ops, Pcs
    <3> QED BY <3>1, IdleType
  <2>3. mutation \in Seq(Tasks) /\ runtime \in Seq(Tasks)
           /\ credQ \in Seq([id : Ids, url : Urls])
    BY <1>0, Queues, EmptySeq
  <2>4. 0 \in 0..MaxOps /\ 1 \in 1..MaxStarts /\ 0 \in 0..MaxFaults
    BY Bounds
  <2> QED BY <2>1, <2>2, <2>3, <2>4, IdleType DEF TypeOK
<1>2. AllTasks
  <2> SUFFICES ASSUME NEW s \in Tasks PROVE TaskOk(s)
    BY DEF AllTasks
  <2>1. /\ task[s].op \in {"load", "idle"} /\ task[s].pc \in {"lockM", "idle"}
        /\ task[s].op = "load" => task[s].pc = "lockM"
        /\ task[s].id = NoId /\ task[s].victim = NoId
    <3>1. PICK t \in Tasks :
            task = [r \in Tasks |-> IF r = t THEN [Idle EXCEPT !.op = "load", !.pc = "lockM"]
                                   ELSE Idle]
      BY <1>0
    <3>2. CASE s = t
      BY <3>1, <3>2 DEF Idle
    <3>3. CASE s # t
      BY <3>1, <3>3 DEF Idle
    <3> QED BY <3>2, <3>3
  <2> QED BY <2>1 DEF TaskOk, LockInv, NoteInv, RemoveInv, AddInv, UsedInv, MutOps
<1>3. StoreInv /\ ListInv
  BY DEF StoreInv, Subs, ListInv
<1> QED BY <1>1, <1>2, <1>3 DEF Invariant, AllTasks

LEMMA InvariantKept == Invariant /\ [Next]_vars => Invariant'
  BY TypesKept, TasksKept, StoresKept DEF Invariant, AllTasks

LEMMA AlwaysInvariant == Spec => []Invariant
  BY InitInvariant, InvariantKept, PTL DEF Spec

\* Types: the snapshot and the cache of the backend, the invokes on the way, what is
\* persisted, the store, the queues of the two mutexes and every async call.
THEOREM TypeCorrect == Spec => []TypeOK
<1>1. Invariant => TypeOK
  BY DEF Invariant
<1> QED BY <1>1, AlwaysInvariant, PTL

\* The servers shown for a subscription were answered for the URL it has now: an
\* edit, a removal, a reload or a late reply never leaves those of another source.
THEOREM ListsFollowUrls == Spec => []ListOfUrl
<1>1. Invariant => ListOfUrl
  BY DEF Invariant, ListInv, ListOfUrl, Subs
<1> QED BY <1>1, AlwaysInvariant, PTL

====
