------------------------- MODULE SubscriptionStore -------------------------
(***************************************************************************)
(* Subscriptions: the renderer's store (stores/subscriptionStore.ts with   *)
(* lib/asyncControl.ts), the runtime snapshot of the backend               *)
(* (SubscriptionState, config/subscription.rs) and the encrypted cache on  *)
(* disk (config/subscription_cache.rs).                                    *)
(*                                                                         *)
(* The renderer is single-threaded: what it does between two awaits is one *)
(* step of a task.  An invoke is a message on `wire`; the backend handles  *)
(* messages one at a time in any order, also those of a renderer that has  *)
(* been reloaded since.  The two AsyncMutexes are FIFO queues of tasks.    *)
(***************************************************************************)
EXTENDS Naturals, Sequences, FiniteSets

CONSTANTS
  Ids,        \* uuids of subscriptions, never used twice
  Urls,
  Tasks,      \* concurrent async calls of the renderer
  NoId, NoUrl, NoList, NoTask,
  Commands,   \* the user operations of this instance
  MaxFaults,  \* bound on failures: files, credentials, localStorage, lists too large
  MaxOps,     \* bound on user operations
  MaxStarts   \* bound on starts of the renderer

ASSUME Sentinels ==
  NoId \notin Ids /\ NoUrl \notin Urls /\ NoTask \notin Tasks /\ Tasks # {}
ASSUME Bounds ==
  MaxFaults \in Nat /\ MaxOps \in Nat /\ MaxStarts \in Nat \ {0}
ASSUME CommandNames ==
  Commands \subseteq {"fetch", "url", "add", "remove", "wipe", "primary", "connect",
                      "disconnect", "ping"}

VARIABLES
  rust,          \* RuntimeSubscription of the backend process
  cache,         \* the DPAPI record of each id; a list carries its source URL
  wire,          \* invokes the backend has not handled
  session,       \* server list the running connection was started from
  index,         \* persisted subscription ids (localStorage)
  storedPrimary, \* persisted primary id
  creds,         \* persisted URL of each id (Credential Manager)
  credQ,         \* URL writes queued behind the credential mutex
  used,          \* ids generated so far
  url,           \* store: URL of each subscription, NoUrl when there is none
  list,          \* store: servers of each subscription
  primary,       \* store: primaryId
  shown,         \* store: legacy `servers`, the list on screen
  pings,         \* store: legacy `pings`, named by the list they were measured on
  vpn,           \* vpnStore: status
  epoch,         \* epoch this renderer was issued, 0 before it asked
  fetchSeq,      \* nextFetchGeneration
  fetchGen,      \* fetchGenerations
  runtimeSeq,    \* nextRuntimeGeneration
  mutation,      \* waiters of subscriptionMutationMutex, its holder first
  runtime,       \* waiters of primaryRuntimeMutex, its holder first
  task,
  ops,
  starts,
  faults,
  late           \* history: ids refreshed while a wipe was destroying their records

backend == <<rust, cache, session>>
disk    == <<index, storedPrimary, creds, credQ, used>>
store   == <<url, list, primary, shown, pings>>
seqs    == <<epoch, fetchSeq, fetchGen, runtimeSeq>>
locks   == <<mutation, runtime>>
bounds  == <<ops, starts, faults, late>>

vars == <<backend, wire, disk, store, vpn, seqs, locks, task, bounds>>

-----------------------------------------------------------------------------
(* The data.                                                               *)

IdOrNo  == Ids \cup {NoId}
UrlOrNo == Urls \cup {NoUrl}

\* A list that does not fit is larger than the backend takes as its snapshot.
Servers == [url : Urls, ver : Nat, epoch : Nat, fits : BOOLEAN]
List    == Servers \cup {NoList}

Fits(l) == l = NoList \/ l.fits

Snapshot == [epoch : Nat, gen : Nat, primary : IdOrNo, list : List,
             cacheGen : [Ids -> Nat]]

Message ==
  [type : {"set", "delete", "connect", "ping"}, to : Tasks \cup {NoTask}, epoch : Nat,
   id : Ids, gen : Nat, list : List]
  \cup
  [type : {"save"}, to : {NoTask}, epoch : Nat, id : Ids, gen : Nat, list : Servers]

Idle == [op |-> "idle", pc |-> "idle", reply |-> "none", id |-> NoId, url |-> NoUrl,
         gen |-> 0, list |-> NoList, back |-> NoId, backList |-> NoList,
         victim |-> NoId, left |-> {}]

Task == [op : {"idle", "load", "fetch", "push", "add", "remove", "wipe", "primary",
               "connect", "ping"},
         pc : {"idle", "lockM", "read", "net", "lockR", "set", "connect",
               "select", "lockP", "setP", "storeP", "undoP", "del", "creds", "index",
               "stopVpn", "go", "lockW", "setW", "delW", "credsW", "ping"},
         reply : {"none", "yes", "no", "failed"}, id : IdOrNo, url : UrlOrNo, gen : Nat,
         list : List, back : IdOrNo, backList : List, victim : IdOrNo,
         left : SUBSET Ids]

EmptySnapshot(e) == [epoch |-> e, gen |-> 0, primary |-> NoId, list |-> NoList,
                     cacheGen |-> [i \in Ids |-> 0]]

Subs == {i \in Ids : url[i] # NoUrl}

\* isCurrentFetch
Current(i, u, g) == fetchGen[i] = g /\ url[i] = u

\* A destructive or structural mutation runs (subscriptionSourceFence).
SourceFenced == mutation # <<>>

Holds(t, lock) == lock # <<>> /\ Head(lock) = t

Released(t, lock) == IF Holds(t, lock) THEN Tail(lock) ELSE lock

-----------------------------------------------------------------------------
(* Pieces of steps.                                                        *)

Goto(t, rec) == task' = [task EXCEPT ![t] = rec]

\* Mutant: the `finally` of the runtime mutex is missing.
FinishKeepingRuntime(t) ==
  /\ task' = [task EXCEPT ![t] = Idle]
  /\ mutation' = Released(t, mutation)
  /\ UNCHANGED runtime

\* The async call returns or throws: `finally` releases what it holds.
Finish(t) ==
  /\ task' = [task EXCEPT ![t] = Idle]
  /\ mutation' = Released(t, mutation)
  /\ runtime' = Released(t, runtime)

\* The send half of writeRuntimeSnapshot; rec is the task that waits for the reply.
Write(t, rec, i, l) ==
  /\ runtimeSeq' = runtimeSeq + 1
  /\ wire' = wire \cup {[type |-> "set", to |-> t, epoch |-> epoch, id |-> i,
                         gen |-> runtimeSeq + 1, list |-> l]}
  /\ task' = [task EXCEPT ![t] = [rec EXCEPT !.reply = "none", !.gen = runtimeSeq + 1]]

\* invalidateFetch for the ids, and the delete of their cache records.
DeleteCaches(to, ids) ==
  /\ fetchSeq' = fetchSeq + 1
  /\ fetchGen' = [i \in Ids |-> IF i \in ids THEN fetchSeq + 1 ELSE fetchGen[i]]
  /\ wire' = wire \cup {[type |-> "delete", to |-> to, epoch |-> epoch, id |-> i,
                         gen |-> fetchSeq + 1, list |-> NoList] : i \in ids}

\* vpn.disconnect(): a connect in flight is cancelled, a session is stopped.
StopVpn ==
  IF vpn \in {"starting", "stopping"}
    THEN vpn' = "stopping" /\ UNCHANGED session
    ELSE vpn' = "stopped" /\ session' = NoList

\* A wipe has sent the deletes of the records and has not published its end.
Wiping == \E t \in Tasks : task[t].pc \in {"delW", "credsW"}

\* Slots of calls and fresh uuids are interchangeable: the first free one is taken.
FirstOf(S) == CHOOSE t \in S : TRUE

NewOp(t, command) ==
  /\ command \in Commands
  /\ epoch # 0
  /\ task[t].op = "idle" /\ t = FirstOf({s \in Tasks : task[s].op = "idle"})
  /\ ops < MaxOps
  /\ ops' = ops + 1
  /\ late' = IF command = "fetch" /\ Wiping THEN late \cup {primary} ELSE late
  /\ UNCHANGED <<starts, faults>>

\* The call fails that this step awaited.
Fails == faults < MaxFaults /\ faults' = faults + 1 /\ UNCHANGED <<ops, starts, late>>

-----------------------------------------------------------------------------
(* The backend handles one invoke.                                         *)

Reply(m, r) ==
  task' = IF m.to = NoTask THEN task ELSE [task EXCEPT ![m.to].reply = r]

Handle(m, type) ==
  /\ m \in wire /\ m.type = type
  /\ wire' = wire \ {m}
  /\ UNCHANGED <<disk, store, vpn, seqs, locks, ops, starts, late>>

\* Mutant: the epoch of the renderer is not compared.
AcceptsAnyEpoch(m) == m.gen > rust.gen

\* set_servers refuses what is too large; of the rest only a strictly newer
\* generation of the current epoch commits.
Accepts(m) == m.epoch = rust.epoch /\ m.gen > rust.gen

SetServers(m) ==
  /\ Handle(m, "set")
  /\ rust' = IF Fits(m.list) /\ Accepts(m)
               THEN [rust EXCEPT !.gen = m.gen, !.primary = m.id, !.list = m.list]
               ELSE rust
  /\ Reply(m, IF ~Fits(m.list) THEN "failed" ELSE IF Accepts(m) THEN "yes" ELSE "no")
  /\ UNCHANGED <<cache, session>>

\* Mutant: the generation is not compared.
FreshInEpoch(m) == m.epoch = rust.epoch

\* A cache mutation of this epoch that no newer one of the same id has passed.
Fresh(m) == m.epoch = rust.epoch /\ m.gen > rust.cacheGen[m.id]

Passed(m) == [rust EXCEPT !.cacheGen[m.id] = m.gen]

\* save_subscription_cache: the file is written, then the generation advances;
\* nobody waits for the outcome, so a failed write is the same as no message.
\* The record is bounded like the snapshot: what was written fits.
SaveCache(m) ==
  /\ Handle(m, "save")
  /\ IF Fresh(m)
       THEN /\ rust' = Passed(m)
            /\ cache' = [cache EXCEPT ![m.id] = [m.list EXCEPT !.fits = TRUE]]
       ELSE UNCHANGED <<rust, cache>>
  /\ UNCHANGED <<session, task>>

SaveFails(m) == Handle(m, "save") /\ UNCHANGED <<backend, task>>

\* Mutant: a delete does not advance the generation.
Tombstoneless(m) == rust

\* The tombstone stays although the file could not be removed.
Tombstone(m) == IF Fresh(m) THEN Passed(m) ELSE rust

\* Promise.all of the deletes that the task m.to waits for.
DeleteOutcome(m, ok) ==
  IF ~ok \/ task[m.to].reply = "no" THEN "no"
  ELSE IF task[m.to].left \ {m.id} = {} THEN "yes" ELSE "none"

DeleteCache(m) ==
  /\ Handle(m, "delete")
  /\ rust' = Tombstone(m)
  /\ \E removed \in IF faults < MaxFaults THEN BOOLEAN ELSE {TRUE} :
       LET ok == m.epoch = rust.epoch /\ (Fresh(m) => removed) IN
       /\ cache' = IF Fresh(m) /\ removed THEN [cache EXCEPT ![m.id] = NoList] ELSE cache
       /\ faults' = IF removed THEN faults ELSE faults + 1
       /\ task' = IF m.to = NoTask THEN task
                  ELSE [task EXCEPT ![m.to].left = @ \ {m.id},
                                    ![m.to].reply = DeleteOutcome(m, ok)]
  /\ UNCHANGED session

\* The connect command reads exactly the snapshot its receipt names.
SnapshotForConnect(m) ==
  m.epoch = rust.epoch /\ m.id = rust.primary /\ m.gen = rust.gen

Connect(m) ==
  /\ Handle(m, "connect")
  /\ \E started \in BOOLEAN :
       LET ok == SnapshotForConnect(m) /\ started /\ rust.list # NoList IN
       /\ session' = IF ok THEN rust.list ELSE session
       /\ Reply(m, IF ok THEN "yes" ELSE "no")
  /\ UNCHANGED <<rust, cache>>

\* ping_servers measures the servers of the snapshot, whichever it is by then.
PingServers(m) ==
  /\ Handle(m, "ping")
  /\ task' = IF m.to = NoTask THEN task
             ELSE [task EXCEPT ![m.to].reply = "yes", ![m.to].list = rust.list]
  /\ UNCHANGED backend

-----------------------------------------------------------------------------
(* Start of the renderer: loadSecureCreds under the mutation mutex.        *)

\* begin_subscription_epoch, before anything is read.
BeginEpoch(t) ==
  /\ task[t].op = "load" /\ task[t].pc = "lockM" /\ Holds(t, mutation)
  /\ epoch' = starts
  /\ rust' = EmptySnapshot(starts)
  /\ Goto(t, [task[t] EXCEPT !.pc = "read"])
  /\ UNCHANGED <<cache, session, wire, disk, store, vpn, fetchSeq, fetchGen, runtimeSeq,
                 locks, bounds>>

\* Mutant: the source URL of the record is not compared.
CachedOfId(i, u) == cache[i]

\* load_subscription_cache answers only for the URL the record was saved under.
Cached(i, u) == IF cache[i] # NoList /\ cache[i].url = u THEN cache[i] ELSE NoList

\* choosePersistedById: the persisted primary, or the first of the array.
PrimaryChoices(ids) ==
  IF storedPrimary \in ids THEN {storedPrimary} ELSE IF ids = {} THEN {NoId} ELSE ids

Hydrated(ids) == [i \in Ids |-> IF i \in ids THEN Cached(i, creds[i]) ELSE NoList]

\* The subscriptions that could be read are published, with one of them as the
\* primary; its list is then pushed to the backend.
Hydrate(t, ids, p) ==
  /\ url' = [i \in Ids |-> IF i \in ids THEN creds[i] ELSE NoUrl]
  /\ list' = Hydrated(ids)
  /\ primary' = p
  /\ shown' = IF p = NoId THEN NoList ELSE Hydrated(ids)[p]
  /\ pings' = NoList
  /\ IF p # NoId /\ Hydrated(ids)[p] # NoList
       THEN /\ Goto(t, [task[t] EXCEPT !.pc = "lockR", !.id = p, !.url = creds[p],
                                       !.list = Hydrated(ids)[p]])
            /\ runtime' = Append(runtime, t)
            /\ UNCHANGED mutation
       ELSE Finish(t)

LoadSecureCreds(t) ==
  /\ task[t].op = "load" /\ task[t].pc = "read"
  /\ \E unread \in IF faults < MaxFaults THEN SUBSET (index \ {storedPrimary}) ELSE {{}} :
       LET ids == {i \in index \ unread : creds[i] # NoUrl} IN
       /\ faults' = IF unread = {} THEN faults ELSE faults + 1
       /\ \E p \in PrimaryChoices(ids) : Hydrate(t, ids, p)
  /\ UNCHANGED <<backend, wire, disk, vpn, seqs, ops, starts, late>>

-----------------------------------------------------------------------------
(* pushPrimaryToRust, the tail of a fetch, of an edited URL and of a start. *)

Push(t) ==
  LET me == task[t] IN
  /\ me.pc = "lockR" /\ me.op \in {"load", "fetch", "push", "add", "remove"}
  /\ Holds(t, runtime)
  /\ IF primary = me.id /\ url[me.id] = me.url
       THEN Write(t, [me EXCEPT !.pc = "set"], me.id, me.list) /\ UNCHANGED locks
       ELSE Finish(t) /\ UNCHANGED <<wire, runtimeSeq>>
  /\ UNCHANGED <<backend, disk, store, vpn, epoch, fetchSeq, fetchGen, bounds>>

Pushed(t) ==
  /\ task[t].pc = "set" /\ task[t].op # "connect" /\ task[t].reply # "none"
  /\ Finish(t)
  /\ UNCHANGED <<backend, wire, disk, store, vpn, seqs, bounds>>

-----------------------------------------------------------------------------
(* fetchSubscriptionById.                                                  *)

\* beginFetch; rec is the calling task.
BeginFetch(t, rec, i, u) ==
  /\ fetchSeq' = fetchSeq + 1
  /\ fetchGen' = [fetchGen EXCEPT ![i] = fetchSeq + 1]
  /\ Goto(t, [rec EXCEPT !.pc = "net", !.id = i, !.url = u, !.gen = fetchSeq + 1])

\* fetchSubscription: the button, the timer and the start refresh the primary.
StartFetch(t, i) ==
  /\ NewOp(t, "fetch")
  /\ i \in Subs /\ i = primary
  /\ BeginFetch(t, [Idle EXCEPT !.op = "fetch"], i, url[i])
  /\ UNCHANGED <<backend, wire, disk, store, vpn, epoch, runtimeSeq, locks>>

\* The reply of fetch_subscription is an error, or nobody waits for it any more.
FetchDropped(t) ==
  /\ task[t].pc = "net"
  /\ Finish(t)
  /\ UNCHANGED <<backend, wire, disk, store, vpn, seqs, bounds>>

\* The answer that a fetch may get; one that does not fit counts as a fault.
Answers(me) ==
  {[url |-> me.url, ver |-> me.gen, epoch |-> epoch, fits |-> f] :
     f \in IF faults < MaxFaults THEN BOOLEAN ELSE {TRUE}}

FetchApplied(t) ==
  LET me == task[t] IN
  /\ me.pc = "net"
  /\ Current(me.id, me.url, me.gen)
  /\ \E fetched \in Answers(me) :
       /\ faults' = IF fetched.fits THEN faults ELSE faults + 1
       /\ list' = [list EXCEPT ![me.id] = fetched]
       /\ wire' = wire \cup {[type |-> "save", to |-> NoTask, epoch |-> epoch, id |-> me.id,
                              gen |-> me.gen, list |-> fetched]}
       /\ IF primary = me.id
            THEN /\ shown' = fetched
                 /\ pings' = NoList
                 /\ Goto(t, [me EXCEPT !.pc = "lockR", !.list = fetched])
                 /\ runtime' = Append(runtime, t)
                 /\ UNCHANGED mutation
            ELSE Finish(t) /\ UNCHANGED <<shown, pings>>
  /\ UNCHANGED <<backend, disk, url, primary, vpn, seqs, ops, starts, late>>

-----------------------------------------------------------------------------
(* setUrl of the primary, and the queued credential write.                 *)

SetUrl(t, u) ==
  /\ NewOp(t, "url")
  /\ ~SourceFenced
  /\ primary # NoId /\ url[primary] # u
  /\ url' = [url EXCEPT ![primary] = u]
  /\ list' = [list EXCEPT ![primary] = NoList]
  /\ shown' = NoList
  /\ pings' = NoList
  /\ DeleteCaches(NoTask, {primary})
  /\ credQ' = Append(credQ, [id |-> primary, url |-> u])
  /\ runtime' = Append(runtime, t)
  /\ Goto(t, [Idle EXCEPT !.op = "push", !.pc = "lockR", !.id = primary, !.url = u])
  /\ UNCHANGED <<backend, index, storedPrimary, creds, used, primary, vpn, epoch,
                 runtimeSeq, mutation>>

\* Mutant: the newest write overtakes the older ones.
WriteNewestFirst ==
  /\ credQ # <<>>
  /\ LET last == credQ[Len(credQ)] IN creds' = [creds EXCEPT ![last.id] = last.url]
  /\ credQ' = SubSeq(credQ, 1, Len(credQ) - 1)
  /\ UNCHANGED <<backend, wire, index, storedPrimary, used, store, vpn, seqs, locks, task,
                 bounds>>

WriteCredential ==
  /\ credQ # <<>>
  /\ creds' = [creds EXCEPT ![Head(credQ).id] = Head(credQ).url]
  /\ credQ' = Tail(credQ)
  /\ UNCHANGED <<backend, wire, index, storedPrimary, used, store, vpn, seqs, locks, task,
                 bounds>>

\* The Credential Manager refuses the write: the user sees a toast, the store
\* keeps the new URL and the disk the old one.
WriteRefused ==
  /\ credQ # <<>>
  /\ Fails
  /\ credQ' = Tail(credQ)
  /\ UNCHANGED <<backend, wire, index, storedPrimary, creds, used, store, vpn, seqs, locks,
                 task>>

-----------------------------------------------------------------------------
(* addSubscription: credentials, then the index, then a fetch under the    *)
(* mutation mutex.                                                         *)

StartMutation(t, command, rec) ==
  /\ NewOp(t, command)
  /\ mutation' = Append(mutation, t)
  /\ Goto(t, [rec EXCEPT !.op = command, !.pc = "lockM"])
  /\ UNCHANGED <<backend, wire, disk, store, vpn, seqs, runtime>>

\* Fresh uuids never run out: no more calls than there are Ids left.
StartAdd(t, u) ==
  /\ Cardinality(Ids \ used) > Cardinality({s \in Tasks : task[s].op = "add" /\ task[s].id = NoId})
  /\ StartMutation(t, "add", [Idle EXCEPT !.url = u])

MayAdd(u) == vpn \notin {"starting", "stopping"} /\ \A i \in Subs : url[i] # u

AddCredential(t) ==
  LET me == task[t] IN
  /\ me.op = "add" /\ me.pc = "lockM" /\ Holds(t, mutation)
  /\ IF MayAdd(me.url)
       THEN /\ credQ = <<>>
            /\ \E i \in Ids \ used :
                 /\ i = FirstOf(Ids \ used)
                 /\ used' = used \cup {i}
                 /\ creds' = [creds EXCEPT ![i] = me.url]
                 /\ Goto(t, [me EXCEPT !.pc = "index", !.id = i])
            /\ UNCHANGED locks
       ELSE Finish(t) /\ UNCHANGED <<creds, used>>
  /\ UNCHANGED <<backend, wire, index, storedPrimary, credQ, store, vpn, seqs, bounds>>

\* replaceCredentialsTransactional fails and rolls back, or fails at that too.
AddCredentialFails(t) ==
  LET me == task[t] IN
  /\ me.op = "add" /\ me.pc = "lockM" /\ Holds(t, mutation)
  /\ MayAdd(me.url) /\ credQ = <<>>
  /\ Fails
  /\ \E i \in Ids \ used :
       /\ i = FirstOf(Ids \ used)
       /\ used' = used \cup {i}
       /\ creds' \in {creds, [creds EXCEPT ![i] = me.url]}
  /\ Finish(t)
  /\ UNCHANGED <<backend, wire, index, storedPrimary, credQ, store, vpn, seqs>>

AddIndex(t) ==
  LET me == task[t]
      first == Subs = {}
  IN
  /\ me.op = "add" /\ me.pc = "index"
  /\ index' = Subs \cup {me.id}
  /\ storedPrimary' = IF primary = NoId THEN me.id ELSE primary
  /\ url' = [url EXCEPT ![me.id] = me.url]
  /\ primary' = IF first THEN me.id ELSE primary
  /\ BeginFetch(t, me, me.id, me.url)
  /\ UNCHANGED <<backend, wire, creds, credQ, used, list, shown, pings, vpn, epoch,
                 runtimeSeq, locks, bounds>>

\* The index cannot be saved: the credentials are restored, if that works.
AddIndexFails(t) ==
  /\ task[t].op = "add" /\ task[t].pc = "index"
  /\ Fails
  /\ creds' \in {creds, [creds EXCEPT ![task[t].id] = NoUrl]}
  /\ Finish(t)
  /\ UNCHANGED <<backend, wire, index, storedPrimary, credQ, used, store, vpn, seqs>>

-----------------------------------------------------------------------------
(* setPrimaryIdUnlocked, called by setPrimaryId and by removeSubscription.  *)

\* The list of subscriptions offers another one to activate.
StartPrimary(t, i) ==
  i \in Subs \ {primary} /\ StartMutation(t, "primary", [Idle EXCEPT !.id = i])

BeginPrimary(t) ==
  LET me == task[t] IN
  /\ \/ me.op = "primary" /\ me.pc = "lockM" /\ Holds(t, mutation)
     \/ me.pc = "select"
  /\ IF vpn = "stopped" /\ me.id \in Subs
       THEN /\ Goto(t, [me EXCEPT !.pc = "lockP", !.url = url[me.id]])
            /\ runtime' = Append(runtime, t)
            /\ UNCHANGED mutation
       ELSE Finish(t)
  /\ UNCHANGED <<backend, wire, disk, store, vpn, seqs, bounds>>

\* Commit the target; what the primary was and showed is kept for a rollback.
CommitPrimary(t) ==
  LET me == task[t] IN
  /\ me.pc = "lockP" /\ Holds(t, runtime)
  /\ IF vpn = "stopped" /\ url[me.id] = me.url
       THEN /\ Write(t, [me EXCEPT !.pc = "setP", !.list = list[me.id], !.back = primary,
                          !.backList = IF primary = NoId THEN NoList ELSE list[primary]],
                     me.id, list[me.id])
            /\ UNCHANGED locks
       ELSE Finish(t) /\ UNCHANGED <<wire, runtimeSeq>>
  /\ UNCHANGED <<backend, disk, store, vpn, epoch, fetchSeq, fetchGen, bounds>>

\* latestTarget must still be the committed object; the store also replaces the
\* object for a loading flag or an error text, which the model does not carry, so a
\* rollback is always possible.
TargetUnchanged(me) == url[me.id] = me.url /\ list[me.id] = me.list /\ vpn = "stopped"

\* The snapshot goes back to what the primary was and showed.
RollBackPrimary(t) ==
  LET me == task[t] IN
  Write(t, [me EXCEPT !.pc = "undoP"], IF me.back = NoId THEN me.id ELSE me.back, me.backList)

CheckPrimary(t) ==
  LET me == task[t] IN
  /\ me.pc = "setP" /\ me.reply # "none"
  /\ \/ /\ me.reply = "no"
        /\ Finish(t)
        /\ UNCHANGED <<wire, runtimeSeq>>
     \/ /\ me.reply = "yes" /\ TargetUnchanged(me)
        /\ Goto(t, [me EXCEPT !.pc = "storeP"])
        /\ UNCHANGED <<wire, runtimeSeq, locks>>
     \/ /\ me.reply \in {"yes", "failed"}
        /\ RollBackPrimary(t)
        /\ UNCHANGED locks
  /\ UNCHANGED <<backend, disk, store, vpn, epoch, fetchSeq, fetchGen, bounds>>

\* The legacy credentials and the persisted primary are written, an await after
\* the check, and the captured object is published.
PublishPrimary(t) ==
  LET me == task[t] IN
  /\ me.pc = "storeP"
  /\ storedPrimary' = me.id
  /\ primary' = me.id
  /\ shown' = me.list
  /\ pings' = NoList
  /\ IF me.op = "remove" /\ me.id # me.victim
       THEN /\ DeleteCaches(t, {me.victim})
            /\ Goto(t, [me EXCEPT !.pc = "del", !.left = {me.victim}, !.reply = "none"])
            /\ runtime' = Released(t, runtime)
            /\ UNCHANGED mutation
       ELSE Finish(t) /\ UNCHANGED <<wire, fetchSeq, fetchGen>>
  /\ UNCHANGED <<backend, index, creds, credQ, used, url, list, vpn, epoch, runtimeSeq,
                 bounds>>

\* The legacy credentials or the primary id cannot be written: both are put back.
PrimaryNotSaved(t) ==
  /\ task[t].pc = "storeP"
  /\ Fails
  /\ RollBackPrimary(t)
  /\ UNCHANGED <<backend, disk, store, vpn, epoch, fetchSeq, fetchGen, locks>>

PrimaryUndone(t) ==
  /\ task[t].pc = "undoP" /\ task[t].reply # "none"
  /\ Finish(t)
  /\ UNCHANGED <<backend, wire, disk, store, vpn, seqs, bounds>>

-----------------------------------------------------------------------------
(* removeSubscription.                                                     *)

StartRemove(t, i) ==
  i \in Subs /\ StartMutation(t, "remove", [Idle EXCEPT !.victim = i])

\* The primary is removed only after the connection has been stopped.
BeginRemove(t) ==
  LET me == task[t] IN
  /\ me.op = "remove" /\ me.pc = "lockM" /\ Holds(t, mutation)
  /\ IF me.victim \notin Subs \/ (primary # me.victim /\ vpn \in {"starting", "stopping"})
       THEN Finish(t) /\ UNCHANGED <<vpn, session>>
     ELSE IF primary = me.victim /\ vpn # "stopped"
       THEN StopVpn /\ Goto(t, [me EXCEPT !.pc = "stopVpn"]) /\ UNCHANGED locks
       ELSE Goto(t, [me EXCEPT !.pc = "go"]) /\ UNCHANGED <<vpn, session, locks>>
  /\ UNCHANGED <<rust, cache, wire, disk, store, seqs, bounds>>

\* disconnect() has waited for the cancelled connect; requireVpnStopped.
VpnStopped(t) ==
  LET me == task[t] IN
  /\ me.pc = "stopVpn" /\ vpn # "stopping"
  /\ IF vpn = "stopped"
       THEN Goto(t, [me EXCEPT !.pc = IF me.op = "remove" /\ me.back = me.victim
                                        THEN "select" ELSE "go"])
            /\ UNCHANGED locks
       ELSE Finish(t)
  /\ UNCHANGED <<backend, wire, disk, store, vpn, seqs, bounds>>

RemoveGo(t) ==
  LET me == task[t]
      remaining == Subs \ {me.victim}
  IN
  /\ me.op = "remove" /\ me.pc = "go"
  /\ \/ /\ primary = me.victim /\ remaining = {}
        /\ Goto(t, [me EXCEPT !.op = "wipe"])
        /\ UNCHANGED <<wire, fetchSeq, fetchGen>>
     \/ /\ primary = me.victim
        /\ \E i \in remaining : Goto(t, [me EXCEPT !.pc = "select", !.id = i])
        /\ UNCHANGED <<wire, fetchSeq, fetchGen>>
     \/ /\ primary # me.victim
        /\ DeleteCaches(t, {me.victim})
        /\ Goto(t, [me EXCEPT !.pc = "del", !.left = {me.victim}, !.reply = "none"])
  /\ UNCHANGED <<backend, disk, store, vpn, epoch, runtimeSeq, locks, bounds>>

\* The rest of a removal failed: a primary that was switched away from returns.
GiveUpRemoval(t) ==
  IF task[t].back = NoId
    THEN Finish(t) /\ UNCHANGED <<vpn, session>>
    ELSE /\ StopVpn
         /\ Goto(t, [task[t] EXCEPT !.pc = "stopVpn", !.id = task[t].victim,
                                    !.reply = "none"])
         /\ UNCHANGED locks

RemoveDeleted(t) ==
  LET me == task[t] IN
  /\ me.op = "remove" /\ me.pc = "del" /\ me.reply # "none"
  /\ IF me.reply = "yes"
       THEN Goto(t, [me EXCEPT !.pc = "creds"]) /\ UNCHANGED <<vpn, session, locks>>
       ELSE GiveUpRemoval(t)
  /\ UNCHANGED <<rust, cache, wire, disk, store, seqs, bounds>>

\* deleteCredentialKeysTransactional waits its turn at the credential mutex; what
\* it deleted is kept for a rollback.
RemoveCredential(t) ==
  LET me == task[t] IN
  /\ me.op = "remove" /\ me.pc = "creds"
  /\ credQ = <<>>
  /\ creds' = [creds EXCEPT ![me.victim] = NoUrl]
  /\ Goto(t, [me EXCEPT !.pc = "index", !.url = creds[me.victim]])
  /\ UNCHANGED <<backend, wire, index, storedPrimary, credQ, used, store, vpn, seqs, locks,
                 bounds>>

RemoveCredentialFails(t) ==
  LET me == task[t] IN
  /\ me.op = "remove" /\ me.pc = "creds"
  /\ credQ = <<>>
  /\ Fails
  /\ creds' \in {creds, [creds EXCEPT ![me.victim] = NoUrl]}
  /\ GiveUpRemoval(t)
  /\ UNCHANGED <<rust, cache, wire, index, storedPrimary, credQ, used, store, seqs>>

\* The index is rewritten from the store; a replacement primary without servers
\* is fetched before the mutation mutex is released.
RemoveIndex(t) ==
  LET me == task[t]
      remaining == Subs \ {me.victim}
  IN
  /\ me.op = "remove" /\ me.pc = "index"
  /\ index' = remaining
  /\ url' = [url EXCEPT ![me.victim] = NoUrl]
  /\ list' = [list EXCEPT ![me.victim] = NoList]
  /\ IF me.back # NoId /\ list[me.id] = NoList
       THEN BeginFetch(t, me, me.id, url[me.id]) /\ UNCHANGED locks
       ELSE Finish(t) /\ UNCHANGED <<fetchSeq, fetchGen>>
  /\ UNCHANGED <<backend, wire, storedPrimary, creds, credQ, used, primary, shown, pings,
                 vpn, epoch, runtimeSeq, bounds>>

\* The index cannot be saved: the credentials are restored, if that works.
RemoveIndexFails(t) ==
  LET me == task[t] IN
  /\ me.op = "remove" /\ me.pc = "index"
  /\ Fails
  /\ creds' \in {creds, [creds EXCEPT ![me.victim] = me.url]}
  /\ GiveUpRemoval(t)
  /\ UNCHANGED <<rust, cache, wire, index, storedPrimary, credQ, used, store, seqs>>

-----------------------------------------------------------------------------
(* deleteSubscription: everything goes.                                    *)

StartWipe(t) == StartMutation(t, "wipe", Idle)

BeginWipe(t) ==
  LET me == task[t] IN
  /\ me.op = "wipe" /\ me.pc = "lockM" /\ Holds(t, mutation)
  /\ IF vpn = "stopped"
       THEN Goto(t, [me EXCEPT !.pc = "go"]) /\ UNCHANGED <<vpn, session>>
       ELSE StopVpn /\ Goto(t, [me EXCEPT !.pc = "stopVpn"])
  /\ UNCHANGED <<rust, cache, wire, disk, store, seqs, locks, bounds>>

\* The credential fence goes up: queued URL writes are dropped.
WipeFence(t) ==
  /\ task[t].op = "wipe" /\ task[t].pc = "go"
  /\ credQ' = <<>>
  /\ Goto(t, [task[t] EXCEPT !.pc = "lockW"])
  /\ runtime' = Append(runtime, t)
  /\ UNCHANGED <<backend, wire, index, storedPrimary, creds, used, store, vpn, seqs,
                 mutation, bounds>>

\* Rechecked under the runtime mutex: a connect may have overtaken the wipe.
WipeTombstone(t) ==
  LET me == task[t] IN
  /\ me.pc = "lockW" /\ Holds(t, runtime)
  /\ \/ /\ vpn # "stopped"
        /\ Finish(t)
        /\ UNCHANGED <<wire, runtimeSeq>>
     \/ /\ vpn = "stopped" /\ primary # NoId
        /\ Write(t, [me EXCEPT !.pc = "setW"], primary, NoList)
        /\ UNCHANGED locks
     \/ /\ vpn = "stopped" /\ primary = NoId
        /\ Goto(t, [me EXCEPT !.pc = "setW", !.reply = "yes"])
        /\ UNCHANGED <<wire, runtimeSeq, locks>>
  /\ UNCHANGED <<backend, disk, store, vpn, epoch, fetchSeq, fetchGen, bounds>>

WipeCaches(t) ==
  LET me == task[t] IN
  /\ me.pc = "setW" /\ me.reply # "none"
  /\ IF me.reply = "yes"
       THEN /\ DeleteCaches(t, Subs)
            /\ Goto(t, [me EXCEPT !.pc = "delW", !.left = Subs,
                                  !.reply = IF Subs = {} THEN "yes" ELSE "none"])
            /\ UNCHANGED locks
       ELSE Finish(t) /\ UNCHANGED <<wire, fetchSeq, fetchGen>>
  /\ UNCHANGED <<backend, disk, store, vpn, epoch, runtimeSeq, bounds>>

\* Promise.all rejects at the first failure; the other deletes stay on the wire.
WipeFailed(t) ==
  /\ task[t].pc = "delW" /\ task[t].reply = "no"
  /\ Finish(t)
  /\ wire' = {IF m.to = t THEN [m EXCEPT !.to = NoTask] ELSE m : m \in wire}
  /\ UNCHANGED <<backend, disk, store, vpn, seqs, bounds>>

WipeCredentials(t) ==
  /\ task[t].pc = "delW" /\ task[t].reply = "yes"
  /\ creds' = [i \in Ids |-> IF i \in Subs THEN NoUrl ELSE creds[i]]
  /\ Goto(t, [task[t] EXCEPT !.pc = "credsW"])
  /\ UNCHANGED <<backend, wire, index, storedPrimary, credQ, used, store, vpn, seqs, locks,
                 bounds>>

\* One of them could not be deleted; those whose rollback failed are lost.
WipeCredentialsFail(t) ==
  /\ task[t].pc = "delW" /\ task[t].reply = "yes"
  /\ Fails
  /\ \E lost \in SUBSET Subs : creds' = [i \in Ids |-> IF i \in lost THEN NoUrl ELSE creds[i]]
  /\ Finish(t)
  /\ UNCHANGED <<backend, wire, index, storedPrimary, credQ, used, store, vpn, seqs>>

WipePublish(t) ==
  /\ task[t].pc = "credsW"
  /\ index' = {}
  /\ storedPrimary' = NoId
  /\ url' = [i \in Ids |-> NoUrl]
  /\ list' = [i \in Ids |-> NoList]
  /\ primary' = NoId
  /\ shown' = NoList
  /\ pings' = NoList
  /\ Finish(t)
  /\ UNCHANGED <<backend, wire, creds, credQ, used, vpn, seqs, bounds>>

-----------------------------------------------------------------------------
(* connect through withPrimaryRuntimeReady: the runtime mutex is held from *)
(* the commit to the reply of the backend.                                 *)

StartConnect(t) ==
  /\ NewOp(t, "connect")
  /\ vpn \in {"stopped", "error"} /\ shown # NoList
  /\ vpn' = "starting"
  /\ runtime' = Append(runtime, t)
  /\ Goto(t, [Idle EXCEPT !.op = "connect", !.pc = "lockR", !.back = primary,
                          !.backList = shown])
  /\ UNCHANGED <<backend, wire, disk, store, seqs, mutation>>

\* Mutant: the reply is shown as the status.
EndConnectWithReply(t, status) == vpn' = task[t].reply /\ Finish(t)

\* The connect call ends; a disconnect that cancelled it shows "stopped".
EndConnect(t, status) ==
  /\ vpn' = IF vpn = "stopping" THEN "stopped" ELSE status
  /\ Finish(t)

CommitForConnect(t) ==
  LET me == task[t] IN
  /\ me.op = "connect" /\ me.pc = "lockR" /\ Holds(t, runtime)
  /\ IF primary # NoId
       THEN /\ Write(t, [me EXCEPT !.pc = "set", !.id = primary, !.url = url[primary]],
                     primary, list[primary])
            /\ UNCHANGED <<vpn, locks>>
       ELSE EndConnect(t, "error") /\ UNCHANGED <<wire, runtimeSeq>>
  /\ UNCHANGED <<backend, disk, store, epoch, fetchSeq, fetchGen, bounds>>

\* Mutant: only the primary is compared.
SamePrimary(me) == primary = me.back

\* isSameConnectionSelection: the primary and the very object on screen.
SameSelection(me) == primary = me.back /\ shown = me.backList

ConsumeReceipt(t) ==
  LET me == task[t] IN
  /\ me.op = "connect" /\ me.pc = "set" /\ me.reply # "none"
  /\ IF /\ me.reply = "yes" /\ primary = me.id /\ url[me.id] = me.url
        /\ SameSelection(me) /\ vpn = "starting"
       THEN /\ wire' = wire \cup {[type |-> "connect", to |-> t, epoch |-> epoch,
                                   id |-> me.id, gen |-> me.gen, list |-> NoList]}
            /\ Goto(t, [me EXCEPT !.pc = "connect", !.reply = "none"])
            /\ UNCHANGED <<vpn, locks>>
       ELSE EndConnect(t, "error") /\ UNCHANGED wire
  /\ UNCHANGED <<backend, disk, store, seqs, bounds>>

\* A late reply is cleaned up when the attempt or the selection has changed.
ConnectReturns(t) ==
  LET me == task[t]
      keep == me.reply = "yes" /\ vpn = "starting" /\ SameSelection(me)
  IN
  /\ me.pc = "connect" /\ me.reply # "none"
  /\ EndConnect(t, IF keep THEN "running" ELSE "error")
  /\ session' = IF keep THEN session ELSE NoList
  /\ UNCHANGED <<rust, cache, wire, disk, store, seqs, bounds>>

Disconnect ==
  /\ "disconnect" \in Commands /\ vpn \in {"starting", "running", "error"}
  /\ StopVpn
  /\ UNCHANGED <<rust, cache, wire, disk, store, seqs, locks, task, bounds>>

-----------------------------------------------------------------------------
(* pingAll / pingAllOf.                                                    *)

StartPing(t) ==
  /\ NewOp(t, "ping")
  /\ primary # NoId /\ shown # NoList
  /\ wire' = wire \cup {[type |-> "ping", to |-> t, epoch |-> epoch, id |-> primary,
                         gen |-> 0, list |-> NoList]}
  /\ Goto(t, [Idle EXCEPT !.op = "ping", !.pc = "ping", !.id = primary])
  /\ UNCHANGED <<backend, disk, store, vpn, seqs, locks>>

ApplyPings(t) ==
  /\ task[t].pc = "ping" /\ task[t].reply = "yes"
  /\ pings' = task[t].list
  /\ Finish(t)
  /\ UNCHANGED <<backend, wire, disk, url, list, primary, shown, vpn, seqs, bounds>>

-----------------------------------------------------------------------------
(* Reload of the renderer, and restart of the whole application.           *)

\* Module state and async calls are gone; the new renderer queues its load.
FreshRenderer(t) ==
  /\ t = FirstOf(Tasks)
  /\ starts < MaxStarts /\ starts' = starts + 1
  /\ url' = [i \in Ids |-> NoUrl]
  /\ list' = [i \in Ids |-> NoList]
  /\ primary' = NoId
  /\ shown' = NoList
  /\ pings' = NoList
  /\ epoch' = 0
  /\ fetchSeq' = 0
  /\ fetchGen' = [i \in Ids |-> 0]
  /\ runtimeSeq' = 0
  /\ credQ' = <<>>
  /\ runtime' = <<>>
  /\ mutation' = <<t>>
  /\ task' = [s \in Tasks |-> IF s = t THEN [Idle EXCEPT !.op = "load", !.pc = "lockM"]
                              ELSE Idle]
  /\ UNCHANGED <<cache, index, storedPrimary, creds, used, ops, faults, late>>

\* refresh() asks the backend whether the engine runs.
Reload(t) ==
  /\ FreshRenderer(t)
  /\ wire' = {[m EXCEPT !.to = NoTask] : m \in wire}
  /\ vpn' = IF session = NoList THEN "stopped" ELSE "running"
  /\ UNCHANGED <<rust, session>>

Restart(t) ==
  /\ FreshRenderer(t)
  /\ wire' = {}
  /\ rust' = EmptySnapshot(0)
  /\ session' = NoList
  /\ vpn' = "stopped"

-----------------------------------------------------------------------------
(* The specification.                                                      *)

Init ==
  /\ rust = EmptySnapshot(0)
  /\ cache = [i \in Ids |-> NoList]
  /\ session = NoList
  /\ wire = {}
  /\ index = {} /\ storedPrimary = NoId
  /\ creds = [i \in Ids |-> NoUrl]
  /\ credQ = <<>>
  /\ used = {}
  /\ url = [i \in Ids |-> NoUrl]
  /\ list = [i \in Ids |-> NoList]
  /\ primary = NoId /\ shown = NoList /\ pings = NoList
  /\ vpn = "stopped"
  /\ epoch = 0 /\ fetchSeq = 0 /\ runtimeSeq = 0
  /\ fetchGen = [i \in Ids |-> 0]
  /\ runtime = <<>>
  /\ ops = 0 /\ starts = 1 /\ faults = 0 /\ late = {}
  /\ LET t == FirstOf(Tasks) IN
       /\ mutation = <<t>>
       /\ task = [s \in Tasks |-> IF s = t THEN [Idle EXCEPT !.op = "load", !.pc = "lockM"]
                                  ELSE Idle]

User ==
  \/ \E t \in Tasks :
       \/ \E i \in Ids : StartFetch(t, i) \/ StartPrimary(t, i) \/ StartRemove(t, i)
       \/ \E u \in Urls : SetUrl(t, u) \/ StartAdd(t, u)
       \/ StartWipe(t) \/ StartConnect(t) \/ StartPing(t)
       \/ Reload(t) \/ Restart(t)
  \/ Disconnect

\* The next step of an async call once what it awaits has settled.
Resume(t) ==
  \/ BeginEpoch(t) \/ LoadSecureCreds(t) \/ Push(t) \/ Pushed(t)
  \/ FetchDropped(t) \/ FetchApplied(t) \/ AddCredential(t) \/ AddCredentialFails(t)
  \/ AddIndex(t) \/ AddIndexFails(t)
  \/ BeginPrimary(t) \/ CommitPrimary(t) \/ CheckPrimary(t) \/ PublishPrimary(t)
  \/ PrimaryNotSaved(t) \/ PrimaryUndone(t) \/ BeginRemove(t) \/ VpnStopped(t) \/ RemoveGo(t)
  \/ RemoveDeleted(t) \/ RemoveCredential(t) \/ RemoveCredentialFails(t)
  \/ RemoveIndex(t) \/ RemoveIndexFails(t) \/ BeginWipe(t)
  \/ WipeFence(t) \/ WipeTombstone(t) \/ WipeCaches(t) \/ WipeFailed(t)
  \/ WipeCredentials(t) \/ WipeCredentialsFail(t) \/ WipePublish(t)
  \/ CommitForConnect(t) \/ ConsumeReceipt(t) \/ ConnectReturns(t) \/ ApplyPings(t)

Deliver(m) ==
  \/ DeleteCache(m)
  \/ /\ SetServers(m) \/ SaveCache(m) \/ SaveFails(m) \/ Connect(m) \/ PingServers(m)
     /\ UNCHANGED faults

KeyringWrites == WriteCredential \/ WriteRefused

Next ==
  \/ User
  \/ \E t \in Tasks : Resume(t)
  \/ \E m \in wire : Deliver(m)
  \/ KeyringWrites

Spec == Init /\ [][Next]_vars

\* Invokes return, the event loop runs what is ready, requests time out
\* (45 s in fetch_and_parse); nothing is promised of the user.
Fairness ==
  /\ \A t \in Tasks : WF_vars(Resume(t))
  /\ WF_vars(\E m \in wire : Deliver(m))
  /\ WF_vars(KeyringWrites)

FairSpec == Spec /\ Fairness

-----------------------------------------------------------------------------
(* Properties.                                                             *)

\* Types; the queues of the two mutexes hold tasks.
TypeOK ==
  /\ rust \in Snapshot
  /\ cache \in [Ids -> List] /\ session \in List
  /\ wire \subseteq Message
  /\ index \subseteq Ids /\ used \subseteq Ids /\ storedPrimary \in IdOrNo
  /\ creds \in [Ids -> UrlOrNo]
  /\ credQ \in Seq([id : Ids, url : Urls])
  /\ url \in [Ids -> UrlOrNo] /\ list \in [Ids -> List]
  /\ primary \in IdOrNo /\ shown \in List /\ pings \in List
  /\ vpn \in {"stopped", "starting", "running", "stopping", "error"}
  /\ epoch \in Nat /\ fetchSeq \in Nat /\ runtimeSeq \in Nat
  /\ fetchGen \in [Ids -> Nat]
  /\ mutation \in Seq(Tasks) /\ runtime \in Seq(Tasks)
  /\ task \in [Tasks -> Task]
  /\ ops \in 0..MaxOps /\ starts \in 1..MaxStarts /\ faults \in 0..MaxFaults
  /\ late \subseteq Ids

\* A subscription that has left the index never gets a cache record again,
\* whatever saves were under way, whichever order the backend handles them in and
\* whatever the renderer was at when it was reloaded.  `late` is excepted: the
\* timer may refresh the primary while a wipe is past its deletes.
RemovalIsFinal ==
  [][\A i \in Ids \ (index \cup late) : cache'[i] \in {cache[i], NoList}]_vars

\* "a delayed fetch could [not] resurrect credentials after the UI removed a sub":
\* no record of an id that is no longer in the index (subscription.rs:260-262).
NoResurrection == \A i \in Ids \ index : cache[i] = NoList

\* The servers in the store were answered for the URL the subscription has now,
\* whatever was edited, removed, reloaded or cached meanwhile.
ListOfUrl == \A i \in Subs : list[i] # NoList => list[i].url = url[i]

Quiet == epoch # 0 /\ wire = {} /\ \A t \in Tasks : task[t] = Idle

\* Once nothing is in flight, the snapshot that connect and ping use by index is
\* the list on screen or the primary's newer one.  Two cases are excepted: a wipe
\* that failed half-way may leave it empty, and a list that does not fit was
\* refused (pushPrimaryToRust only logs it); connect refuses in both.
ScreenMatchesRuntime ==
  Quiet => \/ rust.list = shown
           \/ primary # NoId /\ rust.list = list[primary]
           \/ faults > 0 /\ rust.list = NoList
           \/ ~Fits(shown)

\* The URL of i that the next start reads once the queue has been written.
PendingUrl(i) ==
  LET writes == {k \in DOMAIN credQ : credQ[k].id = i}
  IN  IF writes = {} THEN creds[i] ELSE credQ[CHOOSE k \in writes : \A j \in writes : j <= k].url

Deletes(t, i) == task[t].op = "wipe" \/ (task[t].op = "remove" /\ task[t].victim = i)

\* The URL of a subscription is on disk or on its way there as soon as the store
\* shows it, and stays so until a removal or a wipe takes it: a wipe that a
\* connect has overtaken has dropped the writes it fenced off.  The Credential
\* Manager may refuse the write, and the user is told.
UrlPersisted ==
  [][\A i \in Subs' : PendingUrl(i)' # url'[i]
       => \/ i \in Subs /\ PendingUrl(i) # url[i]
          \/ \E t \in Tasks : Deletes(t, i)
          \/ WriteRefused /\ Head(credQ).id = i]_vars

\* Renderer, backend and disk agree: the lists are those of their URLs, the
\* snapshot is what the screen shows, the URLs are kept.
StoresAgree == []ListOfUrl /\ []ScreenMatchesRuntime /\ UrlPersisted

\* A connection is announced only when the engine was started from the list
\* that the primary has at that moment (the receipt, and the selection check on
\* the late reply).
RunningIsPrimary ==
  [][vpn = "starting" /\ vpn' = "running" /\ starts' = starts
       => session' = list'[primary]]_vars

\* "Legacy-поля ... sync'ятся с primary подпиской" (subscriptionStore.ts): the list
\* on screen is the primary's.
LegacyMirrorsPrimary == primary # NoId => shown = list[primary]

\* "Пинги по индексам servers (parallel array)" (subscriptionStore.ts): pings shown
\* beside a list were measured on that list.
PingsParallel == pings # NoList => pings = shown

\* "Permanent purge - это решение юзера через removeSubscription, не наше"
\* (loadSecureCreds): an id leaves the index only when it is removed.
OnlyUserPurges ==
  [][\A i \in index \ index' : \E t \in Tasks : task[t].op = "wipe" \/ task[t].victim = i]_vars

\* Every call of the user returns: the two FIFO mutexes, the awaited replies and
\* the wait for a cancelled connect never block each other.
CallsReturn == \A t \in Tasks : task[t].op # "idle" ~> task[t].op = "idle"

=============================================================================
