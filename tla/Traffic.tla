------------------------------ MODULE Traffic -------------------------------
(***************************************************************************)
(* The traffic managers (trafficmngr/): flannel's iptables chain of one    *)
(* table and the jump to it, or flannel's nftables table; their set-up at  *)
(* start, with the recycling of the rules of an earlier subnet and the     *)
(* clean-up of the manager that is not in use; and the iptables resync     *)
(* loop, one iptables command at a time, while others change the table.    *)
(*                                                                         *)
(* One address family. "nat" is the masquerading, "filter" the forwarding. *)
(***************************************************************************)
EXTENDS Naturals, Sequences, SequencesExt

CONSTANTS
  Subnets,      (* subnets this node may be given                          *)
  NoSubnet,     (* nothing in the subnet file                              *)
  TableNames,   (* the table modelled: "nat" or "filter"                   *)
  Missing,      (* a chain or an nftables table that does not exist        *)
  MaxEdits,     (* bound: changes made by others                           *)
  MaxFailures,  (* bound: commands that fail                               *)
  MaxRestarts   (* bound: restarts                                         *)

ASSUME SubnetsAssumption ==
  NoSubnet \notin Subnets /\ "outside" \notin Subnets /\ "multicast" \notin Subnets

VARIABLES
  table,
  hook,         (* rules of POSTROUTING or FORWARD                         *)
  chain,        (* rules of flannel's chain, or Missing                    *)
  nft,          (* rules of flannel's nftables chain, or Missing           *)
  mode,         (* the manager in use: "iptables" or "nftables"            *)
  subnet, prev, (* the lease's subnet, and the subnet file's               *)
  pc,           (* the command the manager is at                           *)
  idx, ask,     (* the rule being looked at, and the command asked for it:
                   does its chain exist, create that, does the rule exist  *)
  seen,         (* the rules found                                         *)
  edits, failures, restarts

kernel == <<hook, chain, nft>>
config == <<table, mode, subnet, prev>>
look == <<idx, ask, seen>>
trafficVars == <<kernel, config, pc, look, edits, failures, restarts>>

\* Where a packet comes from and goes to. The network holds the subnets.
Src == Subnets \cup {"outside"}
Dst == Subnets \cup {"outside", "multicast"}

TableRule(src, dst, act) == [src |-> src, dst |-> dst, act |-> act]

\* masq_rules_with: the first matching rule decides. (The rule for packets
\* that kube-proxy has marked comes first and is left out.) The network is
\* not known either when the subnet file is missing.
MasqRules(s) ==
  LET network == IF s = NoSubnet THEN {} ELSE Subnets
  IN  << TableRule({s}, network, "return"),
         TableRule(network, {s}, "return"),
         TableRule(Src \ network, {s}, "return"),
         TableRule(network, Dst \ {"multicast"}, "masquerade"),
         TableRule(Src \ network, network, "masquerade") >>

\* forward_rules
ForwardRules == << TableRule(Subnets, Dst, "accept"), TableRule(Src, Subnets, "accept") >>

ChainRules(s) == IF table = "nat" THEN MasqRules(s) ELSE ForwardRules

\* masq_rule_texts: the list for nftables differs in its third rule.
NftRules(s) ==
  IF table = "nat"
  THEN [MasqRules(s) EXCEPT ![3] = TableRule(Src \ {s}, Subnets, "return")]
  ELSE ForwardRules

\* What a chain does with a packet.
Verdict(rules, src, dst) ==
  LET hits == {i \in DOMAIN rules : src \in rules[i].src /\ dst \in rules[i].dst}
  IN  IF hits = {} THEN "return" ELSE rules[CHOOSE i \in hits : \A j \in hits : i <= j].act

Jump == TableRule(Src, Dst, "jump")
Foreign == TableRule(Src, Dst, "foreign")

\* All rules: the jump in the hook comes first.
Rules(s) == <<Jump>> \o ChainRules(s)

Exists(r) == IF r = Jump THEN Contains(hook, r) ELSE chain # Missing /\ Contains(chain, r)

-----------------------------------------------------------------------------
(* iptables-restore --noflush: one transaction. -D of a rule that is not   *)
(* there and any use of a chain that is not there make it fail as a whole. *)

DeleteRule(k, r) ==
  IF r = Jump THEN [k EXCEPT !.hook = RemoveFirst(@, r)]
              ELSE [k EXCEPT !.chain = RemoveFirst(@, r)]

AppendRule(k, r) ==
  IF r = Jump THEN [k EXCEPT !.hook = Append(@, r)]
              ELSE [k EXCEPT !.chain = Append(@, r)]

Applies(del) == chain # Missing /\ \A r \in del : Exists(r)

\* Mutant: rules that are there are left where they are.
RestoreKeep(add, del) ==
  FoldLeft(LAMBDA k, r : IF r \in del THEN k ELSE AppendRule(k, r),
           [hook |-> hook, chain |-> chain], add)

\* The tables after the transaction: each rule of add, deleted first if it
\* is in del.
RestoreRule(k, r, del) == AppendRule(IF r \in del THEN DeleteRule(k, r) ELSE k, r)

Restore(add, del) ==
  LET run[i \in 0..Len(add)] ==
        IF i = 0 THEN [hook |-> hook, chain |-> chain]
        ELSE RestoreRule(run[i - 1], add[i], del)
  IN  run[Len(add)]

Teardown(rules, del) ==
  FoldLeft(LAMBDA k, r : IF r \in del THEN DeleteRule(k, r) ELSE k,
           [hook |-> hook, chain |-> chain], rules)

-----------------------------------------------------------------------------

TrafficInit ==
  /\ table \in TableNames
  /\ hook = <<Foreign>>
  /\ chain = Missing
  /\ nft = Missing
  /\ mode \in {"iptables", "nftables"}
  /\ subnet \in Subnets
  /\ prev = NoSubnet
  /\ pc = "clean"
  /\ idx = 1 /\ ask = "chain" /\ seen = {}
  /\ edits = 0 /\ failures = 0 /\ restarts = 0

Failure == failures < MaxFailures /\ failures' = failures + 1

Goto(from, to) == pc = from /\ pc' = to

-----------------------------------------------------------------------------
(* Start *)

\* clean_up of the manager that is not in use. clear_and_delete_chain looks
\* for both chains in the nat table: flushed first, then deleted, which
\* fails while the hook jumps to it. Failures are only logged, but without
\* the iptables binary the daemon ends.
CleanUp ==
  /\ pc = "clean"
  /\ \/ /\ mode = "iptables"
        /\ pc' = "recycle"
        /\ \/ nft' = Missing /\ UNCHANGED failures
           \/ UNCHANGED nft /\ Failure
        /\ UNCHANGED <<hook, chain>>
     \/ /\ mode = "nftables"
        /\ \/ /\ table = "nat" /\ chain # Missing
              /\ chain' = <<>> /\ pc' = "cleanDelete" /\ UNCHANGED failures
           \/ table = "filter" /\ pc' = "nft" /\ UNCHANGED <<chain, failures>>
           \/ chain = Missing /\ pc' = "nft" /\ UNCHANGED <<chain, failures>>
           \/ Failure /\ pc' \in {"nft", "dead"} /\ UNCHANGED chain
        /\ UNCHANGED <<hook, nft>>
  /\ UNCHANGED <<config, look, edits, restarts>>

CleanDelete ==
  /\ Goto("cleanDelete", "nft")
  /\ \/ chain' = (IF Contains(hook, Jump) THEN chain ELSE Missing) /\ UNCHANGED failures
     \/ Failure /\ UNCHANGED chain
  /\ UNCHANGED <<hook, nft, config, look, edits, restarts>>

\* Mutant: the chain is added to, not flushed.
NftSetupNoFlush ==
  /\ pc = "nft"
  /\ nft' = (IF nft = Missing THEN <<>> ELSE nft) \o NftRules(subnet)
  /\ pc' = "written"
  /\ UNCHANGED <<hook, chain, config, look, edits, failures, restarts>>

\* nftables: add the table and the chain, flush it, add the rules, all in
\* one transaction. A failure ends the daemon for masquerading and is only
\* logged for forwarding.
NftSetup ==
  /\ pc = "nft"
  /\ \/ nft' = NftRules(subnet) /\ pc' = "written" /\ UNCHANGED failures
     \/ UNCHANGED nft /\ Failure /\ pc' = (IF table = "nat" THEN "dead" ELSE "written")
  /\ UNCHANGED <<hook, chain, config, look, edits, restarts>>

\* "recycle rules only when the configured network or the leased subnet is
\* not equal to the current one": masquerading only.
Recycle ==
  /\ pc = "recycle"
  /\ pc' = IF table = "nat" /\ prev # subnet THEN "tearCheck" ELSE "create"
  /\ UNCHANGED <<kernel, config, look, edits, failures, restarts>>

Reset(to) == pc' = to /\ idx' = 1 /\ ask' = "chain" /\ seen' = {}

\* chain_exists, for the chain of the rule at hand; a missing one is created
\* next (create) or the rule is passed over.
AskChain(create) ==
  /\ ask = "chain"
  /\ \/ chain # Missing /\ ask' = "rule" /\ UNCHANGED idx
     \/ chain = Missing /\ create /\ ask' = "clear" /\ UNCHANGED idx
     \/ chain = Missing /\ ~create /\ idx' = idx + 1 /\ UNCHANGED ask
  /\ UNCHANGED <<chain, seen>>

\* clear_chain
AskClear == ask = "clear" /\ ask' = "rule" /\ chain' = <<>> /\ UNCHANGED <<idx, seen>>

\* exists
AskRule(rule) ==
  /\ ask = "rule" /\ ask' = "chain" /\ idx' = idx + 1
  /\ seen' = IF Exists(rule) THEN seen \cup {rule} ELSE seen
  /\ UNCHANGED chain

\* A command of the look at one rule. One that fails aborts the whole pass.
LookAt(rules, create, failed) ==
  /\ idx <= Len(rules)
  /\ \/ (AskChain(create) \/ AskClear \/ AskRule(rules[idx])) /\ UNCHANGED <<pc, failures>>
     \/ Failure /\ Reset(failed) /\ UNCHANGED chain
  /\ UNCHANGED <<hook, nft, config, edits, restarts>>

\* teardown_ip_tables: look for the rules of the earlier subnet, then delete
\* those found. An error ends the daemon.
TearCheck == pc = "tearCheck" /\ LookAt(Rules(prev), FALSE, "dead")

TearApply ==
  /\ pc = "tearCheck" /\ idx > Len(Rules(prev))
  /\ \/ /\ seen # {} => Applies(seen)
        /\ LET k == Teardown(Rules(prev), seen)
           IN  hook' = k.hook /\ chain' = k.chain
        /\ Reset("create") /\ UNCHANGED failures
     \/ seen # {} /\ ~Applies(seen) /\ Reset("dead") /\ UNCHANGED <<hook, chain, failures>>
     \/ Failure /\ Reset("dead") /\ UNCHANGED <<hook, chain>>
  /\ UNCHANGED <<nft, config, edits, restarts>>

\* create_chain: created, or flushed if it exists; a failure is logged.
\* Without a binary setup_and_ensure gives up, which is logged as well.
CreateChain ==
  /\ pc = "create"
  /\ \/ chain' = <<>> /\ pc' = "build" /\ UNCHANGED failures
     \/ UNCHANGED chain /\ pc' = "build" /\ Failure
     \/ chain' \in {chain, <<>>} /\ pc' = "gaveUp" /\ Failure
  /\ UNCHANGED <<hook, nft, config, look, edits, restarts>>

-----------------------------------------------------------------------------
(* ip_tables_bootstrap, at start and from the resync loop *)

Build == pc = "build" /\ LookAt(Rules(subnet), TRUE, "written")

\* After a failure the resync loop (or, at start, its first round) tries
\* again.
Apply ==
  /\ pc = "build" /\ idx > Len(Rules(subnet))
  /\ \/ /\ Applies(seen)
        /\ LET k == Restore(Rules(subnet), seen)
           IN  hook' = k.hook /\ chain' = k.chain
        /\ UNCHANGED failures
     \/ ~Applies(seen) /\ UNCHANGED <<hook, chain, failures>>
     \/ Failure /\ UNCHANGED <<hook, chain>>
  /\ Reset("written")
  /\ UNCHANGED <<nft, config, edits, restarts>>

\* The daemon goes on and writes the subnet file; the resync loop of the
\* iptables manager, if it was spawned, starts its first period.
WriteSubnetFile ==
  /\ \/ Goto("written", IF mode = "iptables" THEN "resync" ELSE "idle")
     \/ Goto("gaveUp", "unattended")
  /\ prev' = subnet
  /\ UNCHANGED <<kernel, table, mode, subnet, look, edits, failures, restarts>>

\* Mutant: only the jump is looked for.
ResyncJumpOnly ==
  /\ pc = "resync"
  /\ UNCHANGED <<kernel, config, seen, ask, edits, failures, restarts>>
  /\ \/ idx <= Len(Rules(subnet)) /\ Exists(Jump) /\ idx' = idx + 1 /\ UNCHANGED pc
     \/ idx <= Len(Rules(subnet)) /\ ~Exists(Jump) /\ idx' = 1 /\ pc' = "build"
     \/ idx > Len(Rules(subnet)) /\ idx' = 1 /\ UNCHANGED pc

\* ensure_iptables: chain_exists and exists, rule by rule; the first "no"
\* starts a bootstrap, no such, or a command that fails, ends the round.
Resync ==
  /\ pc = "resync"
  /\ LET n == Len(Rules(subnet))
         chainThere == ask = "chain" /\ chain # Missing
         ruleThere == ask = "rule" /\ Exists(Rules(subnet)[idx])
     IN  \/ idx <= n /\ chainThere /\ ask' = "rule" /\ UNCHANGED <<pc, idx, seen, failures>>
         \/ /\ idx <= n /\ ruleThere /\ ask' = "chain" /\ idx' = idx + 1
            /\ UNCHANGED <<pc, seen, failures>>
         \/ idx <= n /\ ~chainThere /\ ~ruleThere /\ Reset("build") /\ UNCHANGED failures
         \/ idx > n /\ Reset("resync") /\ UNCHANGED failures
         \/ idx <= n /\ Failure /\ Reset("resync")
  /\ UNCHANGED <<kernel, config, edits, restarts>>

-----------------------------------------------------------------------------
(* Others *)

\* Another program deletes a rule, flushes the hook (and installs its own
\* rules anew), flushes or deletes flannel's chain.
Edit ==
  /\ edits < MaxEdits
  /\ edits' = edits + 1
  /\ \/ \E r \in ToSet(hook) : hook' = RemoveFirst(hook, r) /\ UNCHANGED chain
     \/ hook' = <<Foreign>> /\ UNCHANGED chain
     \/ chain # Missing /\ UNCHANGED hook
        /\ \E r \in ToSet(chain) : chain' = RemoveFirst(chain, r)
     \/ chain # Missing /\ ~Contains(hook, Jump) /\ chain' = Missing /\ UNCHANGED hook
  /\ <<hook, chain>>' # <<hook, chain>>
  /\ UNCHANGED <<nft, config, pc, look, failures, restarts>>

\* The daemon is restarted, at any point, perhaps with the other manager or
\* another subnet; the kernel's tables and the file stay.
Restart ==
  /\ restarts < MaxRestarts
  /\ restarts' = restarts + 1
  /\ mode' \in {"iptables", "nftables"}
  /\ subnet' \in Subnets
  /\ Reset("clean")
  /\ UNCHANGED <<kernel, table, prev, edits, failures>>

Manager ==
  \/ CleanUp \/ CleanDelete \/ NftSetup
  \/ Recycle \/ TearCheck \/ TearApply \/ CreateChain
  \/ Build \/ Apply \/ WriteSubnetFile \/ Resync

TrafficNext == Manager \/ Edit \/ Restart

TrafficSpec == TrafficInit /\ [][TrafficNext]_trafficVars

\* Resync periods pass and commands return.
FairTrafficSpec == TrafficSpec /\ WF_trafficVars(Manager)

-----------------------------------------------------------------------------
(* Properties *)

SetUp == pc \in {"written", "resync", "idle", "build"}

Complete == \A i \in 1..Len(Rules(subnet)) : Exists(Rules(subnet)[i])

\* The rules in force.
Masq == IF mode = "iptables" THEN chain ELSE nft

\* "The order of the rules is important": whatever others have deleted
\* between two commands of a pass, and whatever earlier incarnations with
\* another subnet left, once all rules are there no packet inside the
\* overlay, none to the own pods and no multicast is masqueraded, and the
\* pods' packets to the outside are; unless a command failed.
MasqDecisions ==
  SetUp /\ table = "nat" /\ failures = 0 /\ Masq # Missing /\ (mode = "iptables" => Complete) =>
    /\ \A d \in Subnets : Verdict(Masq, subnet, d) = "return"
    /\ \A s \in Src : Verdict(Masq, s, subnet) = "return"
    /\ Verdict(Masq, subnet, "multicast") = "return"
    /\ Verdict(Masq, subnet, "outside") = "masquerade"

\* "Masquerade anything headed towards flannel from the host"
\* (nftables_masq.rs:69, iptables_rules.rs:81): packets from outside the
\* network to the subnet of another node.
HostMasqueraded ==
  SetUp /\ table = "nat" /\ failures = 0 /\ Masq # Missing /\ (mode = "iptables" => Complete) =>
    \A d \in Subnets \ {subnet} : Verdict(Masq, "outside", d) = "masquerade"

\* What a switch of the manager leaves decides no packet otherwise than the
\* manager in use. After a switch to iptables nothing is left. After one to
\* nftables the nftables chain has this subnet's rules only, however often
\* flannel was restarted, and the masquerade chain is empty or gone; but
\* FLANNEL-FWD and the jump to it stay, as clean_up_chains looks for it in
\* the nat table, against the "clean state" of daemon.rs:232. What it accepts
\* the nftables rules accept as well: the network is the same.
ManagersAgree ==
  SetUp /\ failures = 0 =>
    /\ mode = "iptables" => nft = Missing
    /\ mode = "nftables" =>
         /\ nft = NftRules(subnet)
         /\ table = "nat" => chain \in {Missing, <<>>}
         /\ chain # Missing =>
              \A s \in Src, d \in Dst : Verdict(chain, s, d) \in {"return", Verdict(nft, s, d)}

\* Whatever others delete, the resync loop brings all rules back.
Resynced == (pc = "resync") ~> (Complete \/ pc = "clean")
=============================================================================
