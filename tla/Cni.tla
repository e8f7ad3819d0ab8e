-------------------------------- MODULE Cni --------------------------------
(***************************************************************************)
(* The flannel CNI plugin (flannel-cni): one process per command, several  *)
(* of them at a time, for the pods of a node. ADD and CHECK read           *)
(* subnet.env, which flanneld replaces whenever it likes, build the        *)
(* delegate's configuration and run the delegate (bridge with host-local); *)
(* ADD then ensures the masquerade rules one iptables call at a time. DEL  *)
(* does without the file. The delegate gets its configuration on one pipe  *)
(* and writes its output to another.                                       *)
(***************************************************************************)
EXTENDS Naturals, FiniteSets

CONSTANTS
  Pods,
  Envs,       (* contents of subnet.env: [sub, nets, masq]; sub maps a
                 family to its subnet, none at all standing for a damaged
                 file; nets: the families with a network                   *)
  LegacyCni,  (* the netconf's cniVersion is below 0.3.0                   *)
  UserIpam,   (* the netconf brings an ipam section of its own             *)
  MaxFaults,  (* bound: calls that fail, and kills                         *)
  MaxChanges, (* bound: new subnet.env files, and flushes of the tables    *)
  None

Families == {4, 6}

Processes ==
  [cmd : {"ADD", "CHECK", "DEL"},
   pc : {"load", "spawn", "exec", "chain", "jump?", "jump", "out?", "out", "in?", "in", "next"},
   env : Envs \cup {None}, todo : SUBSET Families, flushed : BOOLEAN]
Children ==
  [kind : {"reader", "writer", "quitter"}, conf : BOOLEAN, out : BOOLEAN,
   exit : {"no", "ok", "failed"}]
Orphans == [pod : Pods, cmd : {"ADD", "DEL"}, told : BOOLEAN, n : 0..MaxFaults]
Tables ==
  [chain : BOOLEAN, jump : BOOLEAN,
   rules : SUBSET [sub : UNION {{e.sub[f] : f \in DOMAIN e.sub} : e \in Envs}, dir : {"out", "in"}]]

ASSUME CniAssumption == LegacyCni \in BOOLEAN /\ UserIpam \in BOOLEAN
ASSUME EnvsAssumption == \A e \in Envs : DOMAIN e.sub \subseteq Families
ASSUME NoneAssumption == None \notin Processes \cup Children \cup Envs
ASSUME CniBounds == MaxFaults \in Nat /\ MaxChanges \in Nat

VARIABLES
  file,       (* subnet.env: None or one of Envs                           *)
  status,     (* of a pod, as the runtime sees it: none, up, failed, gone  *)
  proc,       (* the plugin process of a pod, or None                      *)
  child,      (* the delegate it runs, or None                             *)
  held,       (* host-local: pods with an address                          *)
  nat,        (* per family: chain, jump, and the rules of the chain       *)
  served,     (* history: the subnet.env a pod was added with, while nobody
                 has flushed the tables                                    *)
  orphans,    (* delegates still running whose plugin was killed           *)
  leaked,     (* history: pods whose address a delegate could not, or was
                 not asked to, give back, or reserved after its plugin was
                 killed, with no DEL having given it back since            *)
  faults, changes

vars == <<file, status, proc, child, held, nat, served, orphans, leaked, faults, changes>>

NoTable == [chain |-> FALSE, jump |-> FALSE, rules |-> {}]

Init ==
  /\ file \in Envs \cup {None}
  /\ status = [p \in Pods |-> "none"]
  /\ proc = [p \in Pods |-> None]
  /\ child = [p \in Pods |-> None]
  /\ held = {}
  /\ nat = [f \in Families |-> NoTable]
  /\ served = [p \in Pods |-> None]
  /\ orphans = {} /\ leaked = {}
  /\ faults = 0 /\ changes = 0

Fault == faults < MaxFaults /\ faults' = faults + 1

-----------------------------------------------------------------------------
(* The command *)

\* The process of a pod: the command, its step, the environment it read, the
\* families still to masquerade, and whether the tables were flushed since
\* it started.
Process(cmd) == [cmd |-> cmd, pc |-> "load", env |-> None, todo |-> {}, flushed |-> FALSE]

\* The runtime: ADD a new pod; CHECK one that is up; DEL it, or one whose ADD
\* failed, until it succeeds.
Dispatch(p) ==
  /\ proc[p] = None
  /\ \E cmd \in {"ADD", "CHECK", "DEL"} :
       /\ cmd = "ADD" => status[p] = "none"
       /\ cmd = "CHECK" => status[p] = "up"
       /\ cmd = "DEL" => status[p] \in {"up", "failed"}
       /\ proc' = [proc EXCEPT ![p] = Process(cmd)]
  /\ UNCHANGED <<file, status, child, held, nat, served, orphans, leaked, faults, changes>>

At(p, pc) == proc[p] # None /\ proc[p].pc = pc
Step(p, pc) == proc' = [proc EXCEPT ![p].pc = pc]

\* The exit of the process, and what the runtime makes of it.
Exit(p, ok) ==
  /\ proc' = [proc EXCEPT ![p] = None]
  /\ status' = [status EXCEPT ![p] =
       CASE proc[p].cmd = "ADD" -> IF ok THEN "up" ELSE "failed"
         [] proc[p].cmd = "DEL" -> IF ok THEN "gone" ELSE @
         [] OTHER -> @]

-----------------------------------------------------------------------------
(* The delegate's configuration *)

\* parse_subnet_env and build_delegate_conf: the families the delegate gets a
\* range for, or none at all.
Usable(e) ==
  /\ e # None
  /\ DOMAIN e.sub # {}
  /\ LegacyCni => 4 \in DOMAIN e.sub

\* ADD and CHECK need the file.
LoadSubnetEnv(p) ==
  /\ At(p, "load") /\ proc[p].cmd # "DEL"
  /\ \/ /\ Usable(file)
        /\ proc' = [proc EXCEPT ![p].env = file, ![p].pc = "spawn"]
        /\ UNCHANGED status
     \/ ~Usable(file) /\ Exit(p, FALSE)
  /\ UNCHANGED <<file, child, held, nat, served, orphans, leaked, faults, changes>>

\* Mutant: DEL does not look for the file.
LoadForDelMinimal(p) ==
  /\ At(p, "load") /\ proc[p].cmd = "DEL"
  /\ proc' = [proc EXCEPT ![p].pc = "spawn"]
  /\ leaked' = IF Usable(file) \/ UserIpam THEN leaked ELSE leaked \cup {p}
  /\ UNCHANGED <<file, status, child, held, nat, served, orphans, faults, changes>>

\* DEL falls back to minimal_delegate_conf: without an ipam section of the
\* user's the delegate is not told to give the address back.
LoadForDel(p) ==
  /\ At(p, "load") /\ proc[p].cmd = "DEL"
  /\ proc' = [proc EXCEPT ![p].env = IF Usable(file) THEN file ELSE None, ![p].pc = "spawn"]
  /\ leaked' = IF Usable(file) \/ UserIpam THEN leaked ELSE leaked \cup {p}
  /\ UNCHANGED <<file, status, child, held, nat, served, orphans, faults, changes>>

-----------------------------------------------------------------------------
(* exec_delegate. Configuration and output are larger than a pipe: each is    *)
(* transferred only while one side writes and the other reads. The delegate   *)
(* reads its configuration before it writes, or writes first, or gives up     *)
(* without reading.                                                           *)

Child(kind) == [kind |-> kind, conf |-> FALSE, out |-> FALSE, exit |-> "no"]

\* find_plugin, and the start of the delegate: it may not be on CNI_PATH.
Spawn(p) ==
  /\ At(p, "spawn")
  /\ \/ /\ Step(p, "exec")
        /\ \/ \E kind \in {"reader", "writer"} :
                child' = [child EXCEPT ![p] = Child(kind)] /\ UNCHANGED faults
           \/ Fault /\ child' = [child EXCEPT ![p] = Child("quitter")]
        /\ UNCHANGED status
     \/ Fault /\ Exit(p, FALSE) /\ UNCHANGED child
  /\ UNCHANGED <<file, held, nat, served, orphans, leaked, changes>>

Same == UNCHANGED <<file, status, proc, held, nat, served, orphans, leaked, faults, changes>>

\* The writer thread's configuration, as far as the delegate reads it.
WriteStdin(p) ==
  /\ child[p] # None /\ ~child[p].conf
  /\ child[p].kind = "reader" \/ (child[p].kind = "writer" /\ child[p].out)
  /\ child' = [child EXCEPT ![p].conf = TRUE]
  /\ Same

\* Mutant: the output is read once the configuration is written.
WaitWithOutputLate(p) ==
  /\ child[p] # None /\ ~child[p].out /\ child[p].conf
  /\ child[p].kind = "writer" \/ (child[p].kind = "reader" /\ child[p].conf)
  /\ child' = [child EXCEPT ![p].out = TRUE]
  /\ Same

\* wait_with_output reads the output all the while.
WaitWithOutput(p) ==
  /\ child[p] # None /\ ~child[p].out
  /\ child[p].kind = "writer" \/ (child[p].kind = "reader" /\ child[p].conf)
  /\ child' = [child EXCEPT ![p].out = TRUE]
  /\ Same

\* Whether the delegate of a DEL has an ipam section to give the address back.
Told(p) == proc[p].env # None \/ UserIpam

\* The delegate has done its work: host-local reserves an address at ADD and
\* gives it back at DEL, if it is told to.
Delegated(p) ==
  /\ child[p].conf /\ child[p].out
  /\ CASE proc[p].cmd = "ADD" -> held' = held \cup {p} /\ UNCHANGED leaked
       [] proc[p].cmd = "DEL" -> IF Told(p)
                                   THEN held' = held \ {p} /\ leaked' = leaked \ {p}
                                   ELSE UNCHANGED <<held, leaked>>
       [] OTHER -> UNCHANGED <<held, leaked>>

\* It fails: without having read its configuration, or later, at ADD before
\* or after it has an address. A failing DEL leaves the address reserved.
DelegateFails(p) ==
  /\ \/ child[p].kind = "quitter" /\ UNCHANGED <<held, faults>>
     \/ /\ child[p].conf /\ child[p].out /\ Fault
        /\ held' \in {held, IF proc[p].cmd = "ADD" THEN held \cup {p} ELSE held}
  /\ leaked' = IF proc[p].cmd = "DEL" THEN leaked \cup {p} ELSE leaked

ChildExits(p) ==
  /\ child[p] # None /\ child[p].exit = "no"
  /\ \/ Delegated(p) /\ child' = [child EXCEPT ![p].exit = "ok"] /\ UNCHANGED faults
     \/ DelegateFails(p) /\ child' = [child EXCEPT ![p].exit = "failed"]
  /\ UNCHANGED <<file, status, proc, nat, served, orphans, changes>>

\* ip_masq_config passes over a family without subnet or without network.
MasqFamilies(e) == DOMAIN e.sub \cap e.nets

\* delegate_add, delegate_del and delegate_check, and what cmd_add, cmd_del
\* and cmd_check do with the result: DEL succeeds in any case.
Wait(p) ==
  /\ child[p] # None /\ child[p].exit # "no"
  /\ child' = [child EXCEPT ![p] = None]
  /\ LET ok == child[p].exit = "ok"
         todo == IF proc[p].env # None /\ proc[p].env.masq THEN MasqFamilies(proc[p].env) ELSE {} IN
     CASE proc[p].cmd = "ADD" /\ ok /\ todo # {} ->
            /\ proc' = [proc EXCEPT ![p].pc = "chain", ![p].todo = todo]
            /\ UNCHANGED status
       [] proc[p].cmd = "DEL" -> Exit(p, TRUE)
       [] OTHER -> Exit(p, ok)
  /\ UNCHANGED <<file, held, nat, served, orphans, leaked, faults, changes>>

-----------------------------------------------------------------------------
(* ip_masq_config, one iptables call at a time, IPv4 first *)

Fam(p) == IF 4 \in proc[p].todo THEN 4 ELSE 6
Rule(p, dir) == [sub |-> proc[p].env.sub[Fam(p)], dir |-> dir]

\* A call that changes the table, or fails and with it the ADD.
Call(p, t, next) ==
  \/ nat' = [nat EXCEPT ![Fam(p)] = t] /\ Step(p, next) /\ UNCHANGED <<status, faults>>
  \/ Fault /\ Exit(p, FALSE) /\ UNCHANGED nat

EnsureChain(p) ==
  /\ At(p, "chain")
  /\ Call(p, [nat[Fam(p)] EXCEPT !.chain = TRUE], "jump?")
  /\ UNCHANGED <<file, child, held, served, orphans, leaked, changes>>

\* A check (-C): any error means that the rule is absent.
Check(p, present, yes, no) ==
  /\ \/ present /\ Step(p, yes) /\ UNCHANGED faults
     \/ ~present /\ Step(p, no) /\ UNCHANGED faults
     \/ present /\ Fault /\ Step(p, no)
  /\ UNCHANGED <<file, status, child, held, nat, served, orphans, leaked, changes>>

CheckJump(p) == At(p, "jump?") /\ Check(p, nat[Fam(p)].jump, "out?", "jump")
CheckOut(p) == At(p, "out?") /\ Check(p, Rule(p, "out") \in nat[Fam(p)].rules, "in?", "out")
CheckIn(p) == At(p, "in?") /\ Check(p, Rule(p, "in") \in nat[Fam(p)].rules, "next", "in")

\* Insertion and appending need the chain.
InChain(p, t, next) ==
  /\ \/ nat[Fam(p)].chain /\ Call(p, t, next)
     \/ ~nat[Fam(p)].chain /\ Exit(p, FALSE) /\ UNCHANGED <<nat, faults>>
  /\ UNCHANGED <<file, child, held, served, orphans, leaked, changes>>

InsertJump(p) == At(p, "jump") /\ InChain(p, [nat[Fam(p)] EXCEPT !.jump = TRUE], "out?")

\* Mutant: one rule is taken for both.
AppendOutOnly(p) ==
  At(p, "out") /\ InChain(p, [nat[Fam(p)] EXCEPT !.rules = @ \cup {Rule(p, "out")}], "next")

AppendOut(p) ==
  At(p, "out") /\ InChain(p, [nat[Fam(p)] EXCEPT !.rules = @ \cup {Rule(p, "out")}], "in?")

AppendIn(p) ==
  At(p, "in") /\ InChain(p, [nat[Fam(p)] EXCEPT !.rules = @ \cup {Rule(p, "in")}], "next")

NextFamily(p) ==
  /\ At(p, "next")
  /\ IF proc[p].todo = {Fam(p)}
       THEN /\ Exit(p, TRUE)
            /\ served' = [served EXCEPT ![p] = IF proc[p].flushed THEN None ELSE proc[p].env]
       ELSE /\ proc' = [proc EXCEPT ![p].pc = "chain", ![p].todo = @ \ {Fam(p)}]
            /\ UNCHANGED <<status, served>>
  /\ UNCHANGED <<file, child, held, nat, orphans, leaked, faults, changes>>

-----------------------------------------------------------------------------
(* The others *)

\* The runtime gives up on a command and kills the plugin. Nothing tells the
\* delegate, which runs on.
Kill(p) ==
  /\ proc[p] # None
  /\ Fault
  /\ Exit(p, FALSE)
  /\ child' = [child EXCEPT ![p] = None]
  /\ orphans' = IF child[p] # None /\ child[p].exit = "no" /\ proc[p].cmd # "CHECK"
                  THEN orphans \cup {[pod |-> p, cmd |-> proc[p].cmd, told |-> Told(p), n |-> faults]}
                  ELSE orphans
  /\ UNCHANGED <<file, held, nat, served, leaked, changes>>

\* It does its work, whatever has happened to the pod since, or ends at a
\* pipe that nobody serves any more.
OrphanEnds ==
  /\ \E o \in orphans :
       /\ orphans' = orphans \ {o}
       /\ \/ UNCHANGED <<held, leaked>>
          \/ /\ o.cmd = "ADD"
             /\ held' = held \cup {o.pod} /\ leaked' = leaked \cup {o.pod}
          \/ o.cmd = "DEL" /\ o.told /\ held' = held \ {o.pod} /\ UNCHANGED leaked
  /\ UNCHANGED <<file, status, proc, child, nat, served, faults, changes>>

Change == changes < MaxChanges /\ changes' = changes + 1

\* flanneld replaces, an operator damages or removes the file.
WriteFile ==
  /\ Change
  /\ file' \in (Envs \cup {None}) \ {file}
  /\ UNCHANGED <<status, proc, child, held, nat, served, orphans, leaked, faults>>

\* A firewall restarts.
Flush ==
  /\ Change
  /\ nat' = [f \in Families |-> NoTable]
  /\ proc' = [p \in Pods |-> IF proc[p] = None THEN None ELSE [proc[p] EXCEPT !.flushed = TRUE]]
  /\ served' = [p \in Pods |-> None]
  /\ UNCHANGED <<file, status, child, held, orphans, leaked, faults>>

-----------------------------------------------------------------------------

Plugin(p) ==
  \/ LoadSubnetEnv(p) \/ LoadForDel(p) \/ Spawn(p)
  \/ WriteStdin(p) \/ WaitWithOutput(p) \/ ChildExits(p) \/ Wait(p)
  \/ EnsureChain(p) \/ CheckJump(p) \/ InsertJump(p) \/ CheckOut(p)
  \/ AppendOut(p) \/ CheckIn(p) \/ AppendIn(p) \/ NextFamily(p)

Next ==
  \/ \E p \in Pods : Dispatch(p) \/ Plugin(p) \/ Kill(p)
  \/ OrphanEnds \/ WriteFile \/ Flush

Spec == Init /\ [][Next]_vars

\* The plugin and the delegate keep running once started.
FairSpec == Spec /\ \A p \in Pods : WF_vars(Plugin(p))

-----------------------------------------------------------------------------
(* Properties *)

TypeOK ==
  /\ file \in Envs \cup {None}
  /\ status \in [Pods -> {"none", "up", "failed", "gone"}]
  /\ proc \in [Pods -> Processes \cup {None}]
  /\ child \in [Pods -> Children \cup {None}]
  /\ held \subseteq Pods /\ leaked \subseteq Pods
  /\ orphans \subseteq Orphans
  /\ nat \in [Families -> Tables]
  /\ served \in [Pods -> Envs \cup {None}]
  /\ faults \in 0..MaxFaults /\ changes \in 0..MaxChanges

\* Every command ends: neither the pipes between plugin and delegate nor
\* another pod's command can keep it (delegate.rs exec_delegate: writing the
\* configuration before reading "deadlocks against a delegate that fills its
\* output pipes first").
CommandsEnd == \A p \in Pods : proc[p] # None ~> proc[p] = None

\* A pod that was deleted holds no address, whatever became of its ADD and
\* of subnet.env in between, with three exceptions the code leaves open: its
\* last DEL found no usable file, or the delegate failed, both of which cmd_del
\* takes for success, or the delegate of a killed ADD, which nobody stops, got
\* its address when the DEL had already asked for it.
Released ==
  \A p \in Pods : (status[p] = "gone" /\ proc[p] = None /\ p \in held) => p \in leaked

\* The jump and both rules for the subnet of family f in e, in tables t.
Masqueraded(t, e, f) ==
  /\ t[f].jump
  /\ {[sub |-> e.sub[f], dir |-> d] : d \in {"out", "in"}} \subseteq t[f].rules

\* The rules a pod was added with, for each family with a network, are there,
\* both of them and the jump, while other pods are added with other subnets
\* at the same time (masq.rs checks and appends in separate calls).
AddedIsMasqueraded ==
  \A p \in Pods : served[p] # None =>
    \A f \in MasqFamilies(served[p]) : Masqueraded(nat, served[p], f)
=============================================================================
