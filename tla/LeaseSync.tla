----------------------------- MODULE LeaseSync ------------------------------
(***************************************************************************)
(* The whole path of a peer's lease, from the Kubernetes API server to the *)
(* leases the backend works with: node objects and their watch log         *)
(* (external), the informer (subnet/kube/informer.rs), the lease-event     *)
(* handlers and the events channel with its retry tasks (events.rs), the   *)
(* hub (mod.rs; here one watcher, by the broadcast that EventHub is shown  *)
(* to implement) and LeaseWatcher (lease/mod.rs). IPv4 only.               *)
(***************************************************************************)
EXTENDS Leases, FiniteSets

CONSTANTS
  Nodes,        (* peer nodes                                              *)
  Cidrs,        (* pod CIDRs                                               *)
  CidrsOf(_),   (* the CIDRs a node may be assigned when it is created     *)
  Versions,     (* versions of a node's flannel annotations                *)
  Malformed,    (* the CIDRs that are no IPv4 ones and the versions whose
                   public IP is none                                       *)
  Depth,        (* EVENT_QUEUE_DEPTH: events channel and hub backlog       *)
  Slots,        (* ASYNC_SEND_SLOTS                                        *)
  MaxChanges,   (* bound: changes to node objects                          *)
  MaxBreaks     (* bound: watch sessions that end                          *)

ASSUME CidrsAssumption == \A n \in Nodes : CidrsOf(n) \subseteq Cidrs
\* The API server has finitely many nodes; none of the peers has the local
\* node's CIDR; annotations that were written are not none.
ASSUME NodesAssumption == IsFiniteSet(Nodes)
ASSUME OwnCidrAssumption == "own" \notin Cidrs
ASSUME VersionsAssumption == 0 \notin Versions
ASSUME DepthAssumption == Depth \in Nat \ {0} /\ Slots \in Nat \ {0}

VARIABLES
  nodes,        (* API server: node objects                                *)
  log,          (* API server: every change, as watch events               *)
  breaks,       (* watch sessions ended so far                             *)
  informer,     (* "list", "reconcile" or "watch"                          *)
  rv,           (* resourceVersion the informer has reached                *)
  store,        (* NodeStore.nodes                                         *)
  synced,       (* NodeStore.synced                                        *)
  todo,         (* lease events of the handlers still to be enqueued       *)
  queue,        (* events channel                                          *)
  retrying,     (* events with a retry task: <<number, event>>             *)
  spawned,      (* retry tasks spawned so far (numbers them)               *)
  feedCap,      (* capacity of the watcher's channel; 0: not subscribed    *)
  feed,         (* hub backlog, then the watcher's channel                 *)
  leases,       (* LeaseWatcher.leases                                     *)
  lost          (* history: the hub's backlog has dropped an event         *)

apiVars == <<nodes, log, breaks>>
informerVars == <<informer, rv, store, synced, todo>>
queueVars == <<queue, retrying, spawned>>
watchVars == <<feedCap, feed, leases, lost>>
syncVars == <<apiVars, informerVars, queueVars, watchVars>>

\* A node object: its CIDR and the version of its flannel annotations, 0
\* before its flanneld has written any. "kube-subnet-manager" is one of
\* them, so a node is managed when it has any.
NoNode == [cidr |-> "none", attrs |-> 0]
Managed(o) == o.attrs # 0

\* node_to_lease fails when the public IP does not parse and when there is no
\* IPv4 CIDR; the handlers log that and announce nothing.
Converts(o) == o.cidr \notin Malformed /\ o.attrs \notin Malformed
Leasable(o) == Managed(o) /\ Converts(o)

\* node_to_lease of an object it converts. The attributes include the node's
\* public IP.
NodeToLease(n, o) ==
  [v4 |-> TRUE, v6 |-> FALSE, subnet |-> o.cidr, subnet6 |-> "unset",
   attrs |-> <<n, o.attrs>>]

OwnLease ==
  [v4 |-> TRUE, v6 |-> FALSE, subnet |-> "own", subnet6 |-> "unset", attrs |-> <<>>]

SyncInit ==
  /\ nodes = [n \in Nodes |-> NoNode]
  /\ log = <<>>
  /\ breaks = 0
  /\ informer = "list"
  /\ rv = 0
  /\ store = [n \in Nodes |-> NoNode]
  /\ synced = FALSE
  /\ todo = <<>>
  /\ queue = <<>>
  /\ retrying = {}
  /\ spawned = 0
  /\ feedCap = 0
  /\ feed = <<>>
  /\ leases = <<>>
  /\ lost = FALSE

-----------------------------------------------------------------------------
(* API server, kubelets and the flanneld of the peers (external) *)

\* A change and its watch event, which carries the object (of a deletion, the
\* last one).
Change(n, type, o) ==
  /\ Len(log) < MaxChanges
  /\ log' = Append(log, [type |-> type, node |-> n, object |-> o])
  /\ nodes' = [nodes EXCEPT ![n] = IF type = "Deleted" THEN NoNode ELSE o]
  /\ UNCHANGED <<breaks, informerVars, queueVars, watchVars>>

\* A node joins with a CIDR that no other node has.
CreateNode(n) ==
  /\ nodes[n] = NoNode
  /\ \E c \in CidrsOf(n) :
       /\ \A m \in Nodes : nodes[m] # NoNode => nodes[m].cidr # c
       /\ Change(n, "Added", [cidr |-> c, attrs |-> 0])

\* The flanneld of a peer patches its annotations.
AnnotateNode(n) ==
  /\ nodes[n] # NoNode
  /\ \E v \in Versions :
       /\ nodes[n].attrs # v
       /\ Change(n, "Modified", [nodes[n] EXCEPT !.attrs = v])

DeleteNode(n) ==
  /\ nodes[n] # NoNode
  /\ Change(n, "Deleted", nodes[n])

-----------------------------------------------------------------------------
(* Informer *)

\* handle_add_lease_event: the events it enqueues.
AddEvents(type, n, o) ==
  IF Leasable(o) THEN <<[type |-> type, lease |-> NodeToLease(n, o)]>> ELSE <<>>

\* Mutant: changes are looked for where there are none.
UpdateEventsInverted(n, old, new) ==
  IF Leasable(new) /\ old.attrs = new.attrs THEN <<Added(NodeToLease(n, new))>> ELSE <<>>

\* handle_update_lease_event: nothing unless the annotations changed.
UpdateEvents(n, old, new) ==
  IF Leasable(new) /\ old.attrs # new.attrs THEN <<Added(NodeToLease(n, new))>> ELSE <<>>

AddOrUpdateEvents(n, old, new) ==
  IF old = NoNode THEN AddEvents("Added", n, new) ELSE UpdateEvents(n, old, new)

\* reconcile_relist: the listed nodes in turn, then the ones that are gone.
RelistEvents(old, new, present, gone) ==
  FlattenSeq([i \in 1..Len(present) |-> AddOrUpdateEvents(present[i], old[present[i]], new[present[i]])]
             \o [i \in 1..Len(gone) |-> AddEvents("Removed", gone[i], old[gone[i]])])

\* Mutant: the list is merged into the store.
ListNodesMerge ==
  /\ informer = "list"
  /\ \E present \in SetToSeqs({n \in Nodes : nodes[n] # NoNode}) :
       todo' = RelistEvents(store, nodes, present, <<>>)
  /\ store' = [n \in Nodes |-> IF nodes[n] = NoNode THEN store[n] ELSE nodes[n]]
  /\ rv' = Len(log)
  /\ informer' = "reconcile"
  /\ UNCHANGED <<synced, apiVars, queueVars, watchVars>>

\* LIST succeeds: replace_all, and the deltas against the previous store.
\* The list is in the API server's order, the previous store in HashMap
\* order; both are any order here.
ListNodes ==
  /\ informer = "list"
  /\ \E present \in SetToSeqs({n \in Nodes : nodes[n] # NoNode}),
        gone \in SetToSeqs({n \in Nodes : nodes[n] = NoNode /\ store[n] # NoNode}) :
       todo' = RelistEvents(store, nodes, present, gone)
  /\ store' = nodes
  /\ rv' = Len(log)
  /\ informer' = "reconcile"
  /\ UNCHANGED <<synced, apiVars, queueVars, watchVars>>

\* All deltas enqueued: mark_synced, and the watch starts.
StartWatch ==
  /\ informer = "reconcile"
  /\ todo = <<>>
  /\ synced' = TRUE
  /\ informer' = "watch"
  /\ UNCHANGED <<rv, store, todo, apiVars, queueVars, watchVars>>

\* The object to compare an update with: the stored one if there is one.
Known(n, o) == IF store[n] = NoNode THEN o ELSE store[n]

\* One frame of the watch: dispatch. The loop reads the next one only when
\* the handler is done (todo is empty). (Bookmarks change nothing the model
\* keeps; a resync compares every stored node with itself, which announces
\* nothing: UpdateEvents(n, o, o) is empty.)
Dispatch ==
  /\ informer = "watch"
  /\ todo = <<>>
  /\ rv < Len(log)
  /\ LET e == log[rv + 1]
     IN  \/ /\ e.type = "Deleted"
            /\ store' = [store EXCEPT ![e.node] = NoNode]
            /\ todo' = AddEvents("Removed", e.node, e.object)
         \/ /\ e.type \in {"Added", "Modified"}
            /\ store' = [store EXCEPT ![e.node] = e.object]
            /\ todo' = IF e.type = "Added"
                       THEN AddOrUpdateEvents(e.node, store[e.node], e.object)
                       ELSE UpdateEvents(e.node, Known(e.node, e.object), e.object)
  /\ rv' = rv + 1
  /\ UNCHANGED <<informer, synced, apiVars, queueVars, watchVars>>

\* The session ends, fails or is told 410 Gone: relist.
BreakWatch ==
  /\ informer = "watch"
  /\ todo = <<>>
  /\ breaks < MaxBreaks
  /\ breaks' = breaks + 1
  /\ informer' = "list"
  /\ UNCHANGED <<nodes, log, rv, store, synced, todo, queueVars, watchVars>>

-----------------------------------------------------------------------------
(* enqueue_lease_event, as in EventQueue *)

Full == Len(queue) >= Depth

EnqueueSend ==
  /\ todo # <<>>
  /\ ~Full
  /\ queue' = Append(queue, Head(todo))
  /\ todo' = Tail(todo)
  /\ UNCHANGED <<informer, rv, store, synced, retrying, spawned, apiVars, watchVars>>

EnqueueRetry ==
  /\ todo # <<>>
  /\ Full
  /\ Cardinality(retrying) < Slots
  /\ retrying' = retrying \cup {<<spawned, Head(todo)>>}
  /\ spawned' = spawned + 1
  /\ todo' = Tail(todo)
  /\ UNCHANGED <<informer, rv, store, synced, queue, apiVars, watchVars>>

\* Mutant: the slot is not given back.
RetrySendLeak ==
  \E r \in retrying :
    /\ ~Full /\ DOMAIN r[2] # {}
    /\ queue' = Append(queue, r[2])
    /\ retrying' = (retrying \ {r}) \cup {<<r[1], <<>>>>}
    /\ UNCHANGED <<spawned, apiVars, informerVars, watchVars>>

RetrySend ==
  \E r \in retrying :
    /\ ~Full
    /\ queue' = Append(queue, r[2])
    /\ retrying' = retrying \ {r}
    /\ UNCHANGED <<spawned, apiVars, informerVars, watchVars>>

-----------------------------------------------------------------------------
(* Hub and watcher *)

\* The backend's watch has subscribed.
Watching == feedCap > 0

\* fan_out publishes: kept in the backlog while nobody watches (the oldest
\* is dropped beyond Depth), else sent to the watcher, whose channel may
\* make the hub wait.
Publish ==
  /\ queue # <<>>
  /\ Watching => Len(feed) < feedCap
  /\ queue' = Tail(queue)
  /\ LET f == Append(feed, Head(queue))
         drop == ~Watching /\ Len(f) > Depth
     IN  /\ feed' = IF drop THEN Tail(f) ELSE f
         /\ lost' = (lost \/ drop)
  /\ UNCHANGED <<retrying, spawned, feedCap, leases, apiVars, informerVars>>

\* The daemon waits for the initial sync before it builds a backend.
HubSubscribe ==
  /\ synced
  /\ ~Watching
  /\ feedCap' = Depth + Len(feed)
  /\ UNCHANGED <<feed, leases, lost, apiVars, informerVars, queueVars>>

\* watch_ops::watch_leases forwards one event, reduce applies it.
Consume ==
  /\ Watching
  /\ feed # <<>>
  /\ leases' = LWUpdate(OwnLease, leases, <<Head(feed)>>).leases
  /\ feed' = Tail(feed)
  /\ UNCHANGED <<feedCap, lost, apiVars, informerVars, queueVars>>

-----------------------------------------------------------------------------
SyncNext ==
  \/ \E n \in Nodes : CreateNode(n) \/ AnnotateNode(n) \/ DeleteNode(n)
  \/ ListNodes
  \/ StartWatch
  \/ Dispatch
  \/ BreakWatch
  \/ EnqueueSend
  \/ EnqueueRetry
  \/ RetrySend
  \/ Publish
  \/ HubSubscribe
  \/ Consume

SyncSpec == SyncInit /\ [][SyncNext]_syncVars

\* Every task of the daemon keeps running; the API server answers lists and
\* delivers watch frames; the backend subscribes once synced. Nothing
\* forces changes to nodes or broken watches, which are finitely many.
SyncFairness ==
  /\ WF_syncVars(ListNodes) /\ WF_syncVars(StartWatch) /\ WF_syncVars(Dispatch)
  /\ WF_syncVars(EnqueueSend \/ EnqueueRetry) /\ WF_syncVars(RetrySend)
  /\ WF_syncVars(Publish) /\ WF_syncVars(HubSubscribe) /\ WF_syncVars(Consume)

FairSyncSpec == SyncSpec /\ SyncFairness

-----------------------------------------------------------------------------
(* Properties *)

\* Every change has been seen and every event applied.
Settled ==
  /\ informer = "watch" /\ rv = Len(log) /\ todo = <<>>
  /\ queue = <<>> /\ retrying = {}
  /\ Watching /\ feed = <<>>

\* The informer's cache is the API server's state at the revision it has
\* reached: what the last change of each node up to rv leaves, through lists
\* and watches.
AtRevision(n, o, r) ==
  \/ o = NoNode /\ \A i \in 1..r : log[i].node # n
  \/ \E i \in 1..r :
       /\ log[i].node = n /\ \A j \in (i + 1)..r : log[j].node # n
       /\ o = IF log[i].type = "Deleted" THEN NoNode ELSE log[i].object
StoreIsRevision == \A n \in Nodes : AtRevision(n, store[n], rv)

\* Every event arrived in the order it was produced: none went through a
\* retry task, and the hub dropped none before the backend subscribed.
InOrder == spawned = 0 /\ ~lost

HasLease(n) == \E i \in 1..Len(leases) : leases[i] = NodeToLease(n, nodes[n])

\* No CIDR has had two nodes, and no node two CIDRs.
CidrsStay ==
  \A i, j \in 1..Len(log) :
    (log[i].object.cidr = log[j].object.cidr) = (log[i].node = log[j].node)

\* LeaseWatcher "Tracks the local lease plus all other nodes' leases": in a
\* settled state the lease of every managed node that converts, with its
\* current annotations, is among the watcher's leases. Refuted: when a CIDR moves to another
\* node while the watch is down, the relist announces the new owner, then
\* removes the old one's lease, which is the same subnet, and nothing
\* announces the new owner again.
NoMissingPeer ==
  Settled /\ InOrder => \A n \in Nodes : Leasable(nodes[n]) => HasLease(n)

\* It holds through any interleaving of lists, broken watches and changes
\* while CIDRs and nodes stay together and events in order. (A node that
\* comes back with another CIDR and the same annotations while the watch is
\* down is not announced: the update handler compares annotations only.)
NoStablePeerMissing == CidrsStay => NoMissingPeer

\* The watch has not been interrupted, and no node's annotations have become
\* ones that do not convert.
NoGap ==
  /\ breaks = 0
  /\ \A i \in 1..Len(log) : Managed(log[i].object) => Converts(log[i].object)

\* The other half: without such a gap, in a settled state every lease belongs
\* to a node that exists and has that subnet. (After an interruption it may
\* not: a managed node deleted and re-created meanwhile is listed without
\* annotations; the relist announces neither the old object's removal nor the
\* new one, and the deletion of the new object, unmanaged, announces nothing
\* either. Nor is the deletion of a node announced whose last object does not
\* convert: handle_add_lease_event returns before it enqueues Removed.)
NoGhostLease ==
  Settled /\ InOrder /\ NoGap =>
    \A i \in 1..Len(leases) :
      \E n \in Nodes : nodes[n] # NoNode /\ nodes[n].cidr = leases[i].subnet

\* Both halves: what the watcher holds follows the nodes, none missing and
\* none too many, through every interleaving of lists, watches, a full
\* channel and retries, within the limits the halves name.
LeasesFollowNodes == NoStablePeerMissing /\ NoGhostLease

\* Whatever the depth and the slots, the path never wedges: once the changes
\* stop, every event of theirs has been applied.
Settles == <>[]Settled
=============================================================================
