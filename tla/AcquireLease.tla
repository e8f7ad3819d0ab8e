---------------------------- MODULE AcquireLease ----------------------------
(***************************************************************************)
(* AcquireLease of the kube subnet manager (subnet/kube/acquire.rs): poll  *)
(* for the own node until it has pod CIDRs, patch flannel's annotations    *)
(* onto it, and take the CIDRs as the lease.                               *)
(*                                                                         *)
(* The node is read from the informer's cache (or by GET, for alloc); the  *)
(* patch is the difference between that copy and what is wanted, and goes  *)
(* to the API server, where controllers and operators write to the same    *)
(* node. A request fails, or it succeeds and its answer is lost.           *)
(***************************************************************************)
EXTENDS Naturals

CONSTANTS
  AttrsSet,     (* configurations: the enabled families fams and what the  *)
                (*   backend registers, [type, data, data6, v6]            *)
  OverwriteIps, (* what operators write into the overwrite annotations     *)
  Cidrs,        (* assignments of pod CIDRs the controller may make        *)
  None,
  MaxWrites,    (* bound: writes of operators and the controller           *)
  MaxFaults     (* bound: requests and steps that fail                     *)

Keys == {"type", "managed", "data", "ip", "ow", "data6", "ip6", "ow6"}

\* Assignments of pod CIDRs to the node. "malformed" covers an address that
\* does not parse and more than two entries; "outside" CIDRs of which one is
\* not inside its configured network.
AllCidrs == {"unassigned", "v4", "v6", "dual", "malformed", "outside"}

ASSUME CidrsAssumption == Cidrs \subseteq AllCidrs
ASSUME AcquireBounds == MaxWrites \in Nat /\ MaxFaults \in Nat

VARIABLES
  api,          (* the node object on the API server                       *)
  cache,        (* the informer's copy; None while it is not known         *)
  node,         (* the copy acquire_lease works with                       *)
  attrs,        (* the attributes being registered                         *)
  patch,        (* the annotations to patch                                *)
  phase,        (* of acquire_lease                                        *)
  lease,        (* families of the lease                                   *)
  writes, faults

acquireVars == <<node, attrs, patch, phase, lease>>

Fault == faults < MaxFaults /\ faults' = faults + 1

-----------------------------------------------------------------------------
(* Pure parts *)

FreshNode == [ann |-> [k \in Keys |-> "none"], cidrs |-> "unassigned"]

Enabled == attrs.fams

\* acquire_pod_cidrs: the families for which the node has a CIDR.
PodCidrs(n) ==
  CASE n.cidrs = "v4" -> {4}
    [] n.cidrs = "v6" -> {6}
    [] n.cidrs = "dual" -> {4, 6}
    [] n.cidrs = "outside" -> Enabled
    [] OTHER -> {}

\* cidrs_ready
CidrsReady(n) == Enabled \subseteq PodCidrs(n)

\* annotation, and the two groups of conditions of maybe_patch_annotations.
Changed(ann, data, ip, ow, wanted, type) ==
  \/ ann[data] # wanted
  \/ ann["type"] # type
  \/ ann[ip] # "own"
  \/ ann["managed"] # "true"
  \/ ann[ow] \notin {"none", "own"}

NeedsPatch(ann, a) ==
  \/ Changed(ann, "data", "ip", "ow", a.data, a.type)
  \/ a.v6 /\ Changed(ann, "data6", "ip6", "ow6", a.data6, a.type)

\* Whether the annotations of a family are written at all.
Writes(a) ==
  {f \in {4, 6} :
     \/ f = 4 /\ (a.type = "vxlan" => a.data # "null")
     \/ f = 6 /\ a.v6 /\ a.type \in {"vxlan", "wireguard", "host-gw", "extension"}
              /\ (a.type \in {"vxlan", "wireguard"} => a.data6 # "null")}

\* An overwrite annotation takes precedence over the own address.
PublicIp(ann, ow) == IF ann[ow] # "none" THEN ann[ow] ELSE "own"

\* The annotations as they should be.
Wanted(ann, a) ==
  [k \in Keys |->
     CASE k = "type" -> a.type
       [] k = "managed" -> "true"
       [] k = "data" /\ 4 \in Writes(a) -> a.data
       [] k = "ip" /\ 4 \in Writes(a) -> PublicIp(ann, "ow")
       [] k = "data6" /\ 6 \in Writes(a) -> a.data6
       [] k = "ip6" /\ 6 \in Writes(a) -> PublicIp(ann, "ow6")
       [] OTHER -> ann[k]]

\* The patch: the keys whose wanted value differs from the copy's.
Diff(ann, a) ==
  [k \in {x \in Keys : Wanted(ann, a)[x] # ann[x]} |-> Wanted(ann, a)[k]]

\* Strategic merge patch, on the API server.
Merge(ann, p) == [k \in Keys |-> IF k \in DOMAIN p THEN p[k] ELSE ann[k]]

-----------------------------------------------------------------------------
(* acquire_lease *)

AcquireInit ==
  /\ api = FreshNode
  /\ cache = None
  /\ node = FreshNode
  /\ attrs \in AttrsSet
  /\ patch = <<>>
  /\ phase = "idle"
  /\ lease = {}
  /\ writes = 0
  /\ faults = 0

Informer == attrs.type # ""

Begin ==
  /\ phase = "idle"
  /\ phase' = "wait"
  /\ UNCHANGED <<api, cache, node, attrs, patch, lease, writes, faults>>

\* The end of acquire_lease: CIDRs outside the network are an error, after
\* the annotations have been patched.
Finish(n) ==
  IF n.cidrs = "outside"
  THEN phase' = "failed" /\ UNCHANGED lease
  ELSE phase' = "held" /\ lease' = Enabled \cap PodCidrs(n)

\* fetch_node: the cached node, or the answer to a GET.
Fetched == IF Informer THEN cache ELSE api

\* One round of wait_for_node_with_cidrs that ends the loop.
Poll ==
  /\ phase = "wait"
  /\ Fetched # None
  /\ \/ /\ Fetched.cidrs = "malformed"
        /\ phase' = "failed"
        /\ UNCHANGED <<node, patch, lease>>
     \/ /\ Fetched.cidrs # "malformed" /\ CidrsReady(Fetched)
        /\ node' = Fetched
        /\ IF NeedsPatch(Fetched.ann, attrs)
           THEN phase' = "patch" /\ patch' = Diff(Fetched.ann, attrs) /\ UNCHANGED lease
           ELSE Finish(Fetched) /\ UNCHANGED patch
  /\ UNCHANGED <<api, cache, attrs, writes, faults>>

\* Thirty seconds pass without such a round, or the token fires.
PollTimeout ==
  /\ phase = "wait"
  /\ ~(Fetched # None /\ CidrsReady(Fetched))
  /\ phase' = "failed"
  /\ UNCHANGED <<api, cache, node, attrs, patch, lease, writes, faults>>

\* Mutant: the answer to the PATCH is not waited for.
PatchOkUnsent ==
  /\ phase \in {"patch", "retry"}
  /\ Finish(node)
  /\ UNCHANGED <<api, cache, node, attrs, patch, writes, faults>>

PatchOk ==
  /\ phase \in {"patch", "retry"}
  /\ api' = [api EXCEPT !.ann = Merge(@, patch)]
  /\ Finish(node)
  /\ UNCHANGED <<cache, node, attrs, patch, writes, faults>>

\* An attempt fails: before it reached the API server, or on the way back.
\* The same patch is sent again after three seconds.
PatchError ==
  /\ phase \in {"patch", "retry"}
  /\ Fault
  /\ \/ UNCHANGED api
     \/ api' = [api EXCEPT !.ann = Merge(@, patch)]
  /\ phase' = "retry"
  /\ UNCHANGED <<cache, node, attrs, patch, lease, writes>>

\* Thirty seconds of failed attempts, or the token fires after one.
PatchTimeout ==
  /\ phase = "retry"
  /\ phase' = "failed"
  /\ UNCHANGED <<api, cache, node, attrs, patch, lease, writes, faults>>

-----------------------------------------------------------------------------
(* The rest of the cluster *)

\* The node controller assigns the pod CIDRs; an operator sets or removes an
\* overwrite annotation. Nobody else writes flannel's annotations.
Write ==
  /\ writes < MaxWrites
  /\ writes' = writes + 1
  /\ \/ /\ api.cidrs = "unassigned"
        /\ \E c \in Cidrs \ {"unassigned"} : api' = [api EXCEPT !.cidrs = c]
     \/ \E k \in {"ow", "ow6"}, v \in OverwriteIps \cup {"none"} :
          v # api.ann[k] /\ api' = [api EXCEPT !.ann[k] = v]
  /\ UNCHANGED <<cache, faults, acquireVars>>

\* The informer brings its copy up to date.
Sync ==
  /\ cache # api
  /\ cache' = api
  /\ UNCHANGED <<api, writes, faults, acquireVars>>

-----------------------------------------------------------------------------
(* Properties *)

\* The values an annotation may have, and the nodes there may be.
Values ==
  {"none", "own", "true"} \cup OverwriteIps
    \cup UNION {{a.type, a.data, a.data6} : a \in AttrsSet}
Nodes == [ann : [Keys -> Values], cidrs : AllCidrs]

AcquireTypeOK ==
  /\ api \in Nodes /\ cache \in Nodes \cup {None} /\ node \in Nodes
  /\ attrs \in AttrsSet
  /\ DOMAIN patch \subseteq Keys /\ \A k \in DOMAIN patch : patch[k] \in Values
  /\ phase \in {"idle", "wait", "patch", "retry", "held", "failed"}
  /\ lease \subseteq attrs.fams
  /\ writes \in 0..MaxWrites /\ faults \in 0..MaxFaults

\* Once the lease is held, the API server shows this daemon's own backend
\* type and data, although the patch holds only what differed from a copy
\* that may be old, attempts are repeated, and earlier incarnations
\* announced other values (acquire.rs:293, "the patch is the annotation
\* diff").
AnnouncedIsOwn ==
  phase = "held" =>
    /\ api.ann["type"] = attrs.type
    /\ api.ann["managed"] = "true"
    /\ 4 \in Writes(attrs) => api.ann["data"] = attrs.data
    /\ 6 \in Writes(attrs) => api.ann["data6"] = attrs.data6

\* The public IP that is announced is the operator's overwrite, or the own
\* address if there is none, as long as the annotation is the one that the
\* node's copy had; whatever an earlier incarnation left there.
OverwriteWins ==
  phase = "held" =>
    /\ 4 \in Writes(attrs) /\ api.ann["ow"] = node.ann["ow"] =>
         api.ann["ip"] = PublicIp(api.ann, "ow")
    /\ 6 \in Writes(attrs) /\ api.ann["ow6"] = node.ann["ow6"] =>
         api.ann["ip6"] = PublicIp(api.ann, "ow6")

\* Both: what the cluster reads in the annotations of a node that holds a
\* lease is what this daemon would write now.
AnnotationsFollow == AnnouncedIsOwn /\ OverwriteWins
=============================================================================
