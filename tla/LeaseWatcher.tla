---------------------------- MODULE LeaseWatcher ----------------------------
(***************************************************************************)
(* LeaseWatcher at work (subnet/watch.rs: reduce, handle_batch_results) in *)
(* front of a backend: watch results come in, incremental updates or       *)
(* snapshots, each non-empty batch of events the watcher derives is handed *)
(* to the backend's handle_subnet_events, and the handler takes the events *)
(* of a batch in turn. The handlers are in the modules that extend this    *)
(* one; a handler is at "idle" between events and at the request it makes  *)
(* next otherwise.                                                         *)
(*                                                                         *)
(* Attributes are [kind, id, ip]: id is the node's backend data (the VTEP  *)
(* MACs, the WireGuard key), ip its public addresses, one value standing   *)
(* for both families; kind says how they decode:                           *)
(*   "good"     they do                                                    *)
(*   "noport"   the same, without the ports older versions did not have    *)
(*   "foreign"  the lease belongs to another backend type                  *)
(*   "half"     the data of the second family is unreadable                *)
(***************************************************************************)
EXTENDS Leases

CONSTANTS
  Backends,      (* backend types to look at; a node runs one of them      *)
  ModesOf(_),    (* enabled families: subset of {"v4", "v6", "dual", "none"} *)
  Subnets,       (* subnets of the cluster's nodes ...                     *)
  OwnSubnet,     (* ... among them the local node's                        *)
  AttrsOf(_),    (* the attributes the owner of a subnet may have          *)
  Ids, Ips,      (* backend data and public addresses of the nodes         *)
  None,          (* no lease, no entry                                     *)
  MaxBatch,      (* bound: events in a watch result                        *)
  MaxSnapshot(_), (* bound: leases of a snapshot, for each backend         *)
  MaxResults,    (* bound: watch results                                   *)
  MaxFaults      (* bound: requests that fail                              *)

AttrKinds == {"good", "noport", "foreign", "half"}

ASSUME OwnAssumption == OwnSubnet \in Subnets
ASSUME ModesAssumption == \A b \in Backends : ModesOf(b) \subseteq {"v4", "v6", "dual", "none"}
ASSUME AttrsAssumption ==
  \A d \in Subnets : AttrsOf(d) \subseteq [kind : AttrKinds, id : Ids, ip : Ips]
ASSUME NoneAssumption == None \notin Ips /\ \A d \in Subnets : None \notin AttrsOf(d)
\* A node's key or MAC is its own.
ASSUME IdsAssumption ==
  \A d, e \in Subnets : d # e => \A a \in AttrsOf(d), b \in AttrsOf(e) : a.id # b.id
ASSUME BatchAssumption == MaxBatch \in Nat /\ \A b \in Backends : MaxSnapshot(b) \in Nat

VARIABLES
  backend,       (* the backend type of this node                          *)
  mode,          (* the daemon's families; every lease carries them        *)
  leases,        (* LeaseWatcher.leases                                    *)
  queue,         (* the events of the batch still to be handled            *)
  ev,            (* the event in hand, or the last one                     *)
  step,          (* the request the handler is at                          *)
  told,          (* history: attributes last announced for each subnet     *)
  snapshots,     (* history: a snapshot has been taken                     *)
  results,       (* watch results so far                                   *)
  cancelled,     (* the token                                              *)
  faults         (* requests that have failed                              *)

watcherVars == <<backend, mode, leases, snapshots, results, cancelled>>
eventVars == <<queue, ev, told>>

\* node_to_lease: only the enabled families carry a subnet; in dual stack a
\* node's two subnets go together.
Unset == "unset"
LeaseOf(m, s, a) ==
  [v4 |-> m \in {"v4", "dual"}, v6 |-> m \in {"v6", "dual"},
   subnet |-> IF m = "v6" THEN Unset ELSE s,
   subnet6 |-> IF m \in {"v6", "dual"} THEN s ELSE Unset,
   attrs |-> a]

Key(l) == IF l.subnet = Unset THEN l.subnet6 ELSE l.subnet
Own == LeaseOf(mode, OwnSubnet, CHOOSE a \in AttrsOf(OwnSubnet) : TRUE)
LeaseSet == UNION {{LeaseOf(mode, s, a) : a \in AttrsOf(s)} : s \in Subnets}
Events == {Added(l) : l \in LeaseSet} \cup {Removed(l) : l \in LeaseSet}

Batches == UNION {[1..n -> Events] : n \in 1..MaxBatch}
\* A manager lists a subnet once.
Snapshots ==
  {q \in UNION {[1..n -> LeaseSet] : n \in 0..MaxSnapshot(backend)} :
     \A i, j \in 1..Len(q) : Key(q[i]) = Key(q[j]) => i = j}

Fault == faults < MaxFaults /\ faults' = faults + 1

WatcherInit ==
  /\ backend \in Backends
  /\ mode \in ModesOf(backend)
  /\ leases = <<>> /\ queue = <<>>
  /\ ev = Removed(Own)
  /\ step = "idle"
  /\ told = [s \in Subnets |-> None]
  /\ snapshots = FALSE
  /\ results = 0
  /\ cancelled = FALSE
  /\ faults = 0

\* The channel to the backend holds the next batch only once the handler is
\* done with this one (its interleaving with the loop is RunLoop's matter).
Send(r) ==
  /\ ~cancelled /\ step = "idle" /\ queue = <<>>
  /\ results < MaxResults
  /\ results' = results + 1
  /\ leases' = r.leases
  /\ queue' = r.batch
  /\ UNCHANGED <<backend, mode, cancelled, ev, step, told, faults>>

\* reduce of a result with events, and the send of the batch if not empty.
Update ==
  \E events \in Batches :
    /\ Send(LWUpdate(Own, leases, events))
    /\ UNCHANGED snapshots

\* reduce of a result without events: the snapshot.
Reset ==
  \E snapshot \in Snapshots :
    /\ Send(LWReset(Own, leases, snapshot))
    /\ snapshots' = TRUE

\* The handler goes on to the next event of its batch.
Take ==
  /\ step = "idle" /\ queue # <<>>
  /\ ev' = Head(queue)
  /\ queue' = Tail(queue)
  /\ told' = [told EXCEPT ![Key(ev'.lease)] =
                IF ev'.type = "Added" THEN ev'.lease.attrs ELSE None]
  /\ UNCHANGED watcherVars

Cancel ==
  /\ ~cancelled /\ cancelled' = TRUE
  /\ UNCHANGED <<backend, mode, leases, snapshots, results, eventVars, step, faults>>

-----------------------------------------------------------------------------
(* Properties *)

Settled == step = "idle" /\ queue = <<>>

\* The owner of the subnet keeps its attributes.
Stable(d) == \E a \in AttrsOf(d) : AttrsOf(d) = {a}

\* The backend and the watcher agree: between batches the subnets announced
\* to the backend are the stored ones without the own one, each stored
\* once, whatever mixture of updates, repeated adds, removals of unknown
\* subnets and snapshots came in. Under incremental updates, all that the
\* Kubernetes manager sends, also the attributes are the latest (a snapshot
\* keeps a known subnet silently), and LeaseWatcher "filters out every event
\* whose subnet matches `own_lease` (including `EventRemoved` of the own
\* lease)" (after a snapshot it may announce the own lease as removed).
BackendKnows ==
  /\ Settled =>
       /\ {s \in Subnets : told[s] # None}
             = {Key(leases[i]) : i \in 1..Len(leases)} \ {OwnSubnet}
       /\ \A i, j \in 1..Len(leases) : Key(leases[i]) = Key(leases[j]) => i = j
  /\ ~snapshots =>
       /\ Settled => \A i \in 1..Len(leases) : told[Key(leases[i])] = leases[i].attrs
       /\ \A i \in 1..Len(queue) : Key(queue[i].lease) # OwnSubnet
=============================================================================
