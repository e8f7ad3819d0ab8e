------------------------------ MODULE PodProofs ------------------------------
(***************************************************************************)
(* Proofs about what a pod's traffic rests on: the CNI plugin (Cni) and    *)
(* the traffic managers (Traffic).                                         *)
(*                                                                         *)
(* Cni comes first, for every set of pods, every set of subnet files and   *)
(* any number of faults and changes. The invariant is kept pod by pod:     *)
(* a step of one pod leaves the others alone and only adds to the tables   *)
(* (Kept, NatGrows), so it is enough to look at the pod's own part; only   *)
(* a flush touches every pod, and it withdraws what it makes untrue.       *)
(***************************************************************************)
EXTENDS Cni, Traffic, SequenceTheorems, WellFoundedInduction, TLAPS

MasqSteps == {"chain", "jump?", "jump", "out?", "out", "in?", "in", "next"}

\* A pod's process and delegate: the delegate runs in one step of the
\* process, the masquerade steps belong to an ADD that has an environment.
ProcInv(p) ==
  /\ child[p] # None => proc[p] # None /\ proc[p].pc = "exec"
  /\ proc[p] # None => status[p] # "gone"
  /\ proc[p] # None /\ proc[p].pc \in MasqSteps =>
       /\ proc[p].cmd = "ADD" /\ proc[p].env \in Envs
       /\ proc[p].todo # {} /\ proc[p].todo \subseteq MasqFamilies(proc[p].env)

\* A DEL that cannot give the address back, or did not, has been noted.
AddressInv(p) ==
  /\ proc[p] # None /\ proc[p].cmd = "DEL" /\ proc[p].pc # "load"
       /\ ~Told(p) /\ p \in held => p \in leaked
  /\ child[p] # None /\ child[p].exit # "no" /\ proc[p].cmd = "DEL" /\ p \in held => p \in leaked
  /\ status[p] = "gone" /\ p \in held => p \in leaked

\* How far the masquerade of a pod has come, unless the tables were flushed:
\* the families done, and the part of the current one that is done.
MasqInv(p) ==
  /\ proc[p] # None /\ proc[p].pc \in MasqSteps /\ ~proc[p].flushed =>
       /\ \A f \in MasqFamilies(proc[p].env) \ proc[p].todo : Masqueraded(nat, proc[p].env, f)
       /\ proc[p].pc \in {"out?", "out", "in?", "in", "next"} => nat[Fam(p)].jump
       /\ proc[p].pc \in {"in?", "in", "next"} => Rule(p, "out") \in nat[Fam(p)].rules
       /\ proc[p].pc = "next" => Rule(p, "in") \in nat[Fam(p)].rules
  /\ served[p] # None => \A f \in MasqFamilies(served[p]) : Masqueraded(nat, served[p], f)

PodInv(p) == ProcInv(p) /\ AddressInv(p) /\ MasqInv(p)

IInv == TypeOK /\ \A p \in Pods : PodInv(p)
-----------------------------------------------------------------------------
\* What a step of pod p may do to the others: tables only grow, and nothing
\* else of theirs changes.
NatGrows ==
  \A f \in Families : (nat[f].jump => nat'[f].jump) /\ nat[f].rules \subseteq nat'[f].rules

Kept(q) ==
  /\ proc'[q] = proc[q] /\ child'[q] = child[q]
  /\ status'[q] = status[q] /\ served'[q] = served[q]
  /\ (q \in held') = (q \in held) /\ (q \in leaked') = (q \in leaked)

\* The current family is one of those the environment has a subnet for.
LEMMA FamLemma ==
  ASSUME TypeOK, NEW p \in Pods, ProcInv(p), proc[p] # None, proc[p].pc \in MasqSteps
  PROVE  /\ Fam(p) \in Families /\ Fam(p) \in proc[p].todo /\ Fam(p) \in DOMAIN proc[p].env.sub
         /\ \A d \in {"out", "in"} : \A t \in Tables :
              [t EXCEPT !.rules = @ \cup {Rule(p, d)}] \in Tables
<1>1. /\ proc[p] \in Processes /\ proc[p].todo \subseteq Families
      /\ proc[p].todo # {} /\ proc[p].env \in Envs
      /\ proc[p].todo \subseteq DOMAIN proc[p].env.sub
  BY DEF TypeOK, ProcInv, Processes, MasqFamilies
<1>2. Fam(p) \in proc[p].todo
  BY <1>1 DEF Fam, Families
<1>3. Fam(p) \in Families /\ Fam(p) \in DOMAIN proc[p].env.sub
  BY <1>1, <1>2
<1> DEFINE S == UNION {{e.sub[f] : f \in DOMAIN e.sub} : e \in Envs}
<1>4. proc[p].env.sub[Fam(p)] \in S
  BY <1>1, <1>3
<1>5. ASSUME NEW d \in {"out", "in"}, NEW t \in Tables
      PROVE  [t EXCEPT !.rules = @ \cup {Rule(p, d)}] \in Tables
  <2>1. Rule(p, d) \in [sub : S, dir : {"out", "in"}]
    BY <1>4 DEF Rule
  <2> HIDE DEF S
  <2> QED
    BY <2>1 DEF Tables, S
<1> QED
  BY <1>2, <1>3, <1>5

LEMMA OthersKeep ==
  ASSUME IInv, NEW q \in Pods, NatGrows, Kept(q)
  PROVE  PodInv(q)'
<1> USE DEF IInv, PodInv
<1>1. ProcInv(q)'
  BY DEF ProcInv, Kept
<1>2. AddressInv(q)'
  BY DEF AddressInv, Told, Kept
<1>3. MasqInv(q)'
  <2>1. ASSUME NEW e \in Envs, NEW f \in MasqFamilies(e), Masqueraded(nat, e, f)
        PROVE  Masqueraded(nat', e, f)
    BY <2>1, EnvsAssumption DEF Masqueraded, MasqFamilies, NatGrows
  <2>2. served'[q] # None => \A f \in MasqFamilies(served'[q]) : Masqueraded(nat', served[q], f)
    BY <2>1 DEF Kept, MasqInv, TypeOK
  <2>3. ASSUME proc[q] # None, proc[q].pc \in MasqSteps, ~proc[q].flushed
        PROVE  /\ \A f \in MasqFamilies(proc[q].env) \ proc[q].todo : Masqueraded(nat', proc[q].env, f)
               /\ proc[q].pc \in {"out?", "out", "in?", "in", "next"} => nat'[Fam(q)].jump
               /\ proc[q].pc \in {"in?", "in", "next"} => Rule(q, "out") \in nat'[Fam(q)].rules
               /\ proc[q].pc = "next" => Rule(q, "in") \in nat'[Fam(q)].rules
    <3>1. Fam(q) \in Families /\ proc[q].env \in Envs
      BY <2>3, FamLemma DEF ProcInv
    <3>2. \A f \in MasqFamilies(proc[q].env) \ proc[q].todo : Masqueraded(nat', proc[q].env, f)
      BY <2>1, <2>3, <3>1 DEF MasqInv
    <3> QED
      BY <2>3, <3>1, <3>2 DEF MasqInv, NatGrows
  <2>4. Fam(q)' = Fam(q) /\ \A d : Rule(q, d)' = Rule(q, d)
    BY DEF Kept, Fam, Rule
  <2> QED
    BY <2>2, <2>3, <2>4 DEF MasqInv, Kept, Masqueraded
<1> QED
  BY <1>1, <1>2, <1>3

\* A step of one pod keeps the invariant when it keeps the pod's own part.
LEMMA PodStep ==
  ASSUME IInv, NEW p \in Pods, TypeOK', PodInv(p)', NatGrows, \A q \in Pods \ {p} : Kept(q)
  PROVE  IInv'
<1>1. ASSUME NEW q \in Pods PROVE PodInv(q)'
  BY OthersKeep
<1> QED
  BY <1>1 DEF IInv

LEMMA InitInv == Init => IInv
<1> SUFFICES ASSUME Init PROVE IInv
  OBVIOUS
<1> USE DEF Init
<1>1. TypeOK
  BY CniBounds DEF TypeOK, NoTable, Tables
<1>2. ASSUME NEW p \in Pods PROVE PodInv(p)
  BY DEF PodInv, ProcInv, AddressInv, MasqInv
<1> QED
  BY <1>1, <1>2 DEF IInv

\* A process moves on: to another step, with the rest of it as it was.
LEMMA StepLemma ==
  ASSUME TypeOK, NEW p \in Pods, proc[p] # None,
         NEW to \in {"exec"} \cup MasqSteps, Step(p, to)
  PROVE  /\ proc' \in [Pods -> Processes \cup {None}]
         /\ proc'[p] = [proc[p] EXCEPT !.pc = to]
         /\ proc'[p] # None
         /\ proc'[p].pc = to /\ proc'[p].cmd = proc[p].cmd /\ proc'[p].env = proc[p].env
         /\ proc'[p].todo = proc[p].todo /\ proc'[p].flushed = proc[p].flushed
         /\ Fam(p)' = Fam(p) /\ \A d : Rule(p, d)' = Rule(p, d)
         /\ \A q \in Pods \ {p} : proc'[q] = proc[q]
<1>1. proc[p] \in Processes
  BY DEF TypeOK
<1>2. [proc[p] EXCEPT !.pc = to] \in Processes
  BY <1>1 DEF Processes, MasqSteps
<1>3. /\ proc'[p] = [proc[p] EXCEPT !.pc = to]
      /\ proc' \in [Pods -> Processes \cup {None}]
      /\ \A q \in Pods \ {p} : proc'[q] = proc[q]
  BY <1>2 DEF Step, TypeOK
<1>4. /\ proc'[p].pc = to /\ proc'[p].cmd = proc[p].cmd /\ proc'[p].env = proc[p].env
      /\ proc'[p].todo = proc[p].todo /\ proc'[p].flushed = proc[p].flushed
  BY <1>1, <1>3 DEF Processes
<1> QED
  BY <1>2, <1>3, <1>4, NoneAssumption DEF Fam, Rule

\* A process ends; only a DEL that succeeds makes its pod gone.
LEMMA ExitLemma ==
  ASSUME TypeOK, NEW p \in Pods, proc[p] # None, NEW ok, Exit(p, ok), status[p] # "gone"
  PROVE  /\ proc' \in [Pods -> Processes \cup {None}] /\ proc'[p] = None
         /\ status' \in [Pods -> {"none", "up", "failed", "gone"}]
         /\ status'[p] = "gone" => ok /\ proc[p].cmd = "DEL"
         /\ \A q \in Pods \ {p} : proc'[q] = proc[q] /\ status'[q] = status[q]
<1>1. proc[p].cmd \in {"ADD", "CHECK", "DEL"}
  BY DEF TypeOK, Processes
<1> QED
  BY <1>1 DEF TypeOK, Exit

\* An exit keeps the invariant when it takes the delegate along and leaves
\* addresses and history alone.
LEMMA ExitKeeps ==
  ASSUME IInv, NEW p \in Pods, proc[p] # None, NEW ok, Exit(p, ok),
         child' = [child EXCEPT ![p] = None],
         ok /\ proc[p].cmd = "DEL" /\ p \in held => p \in leaked,
         faults' \in 0..MaxFaults, orphans' \subseteq Orphans,
         UNCHANGED <<file, held, nat, served, leaked, changes>>
  PROVE  IInv'
<1> USE DEF IInv, PodInv
<1>1. status[p] # "gone"
  BY DEF ProcInv
<1>2. TypeOK'
  BY <1>1, ExitLemma DEF TypeOK
<1>3. NatGrows /\ \A q \in Pods \ {p} : Kept(q)
  BY <1>1, ExitLemma DEF NatGrows, Kept, TypeOK
<1>4. proc'[p] = None /\ child'[p] = None
  BY <1>1, ExitLemma DEF TypeOK
<1>5. ProcInv(p)'
  BY <1>4 DEF ProcInv
<1>6. AddressInv(p)'
  BY <1>1, <1>4, ExitLemma DEF AddressInv
<1>7. MasqInv(p)'
  BY <1>4 DEF MasqInv
<1> QED
  BY <1>2, <1>3, <1>5, <1>6, <1>7, PodStep

\* A fault is counted.
LEMMA FaultLemma == TypeOK /\ Fault => faults' \in 0..MaxFaults
  BY CniBounds DEF TypeOK, Fault

LEMMA DispatchInv == ASSUME IInv, NEW p \in Pods, Dispatch(p) PROVE IInv'
<1> USE DEF IInv, PodInv
<1> PICK cmd \in {"ADD", "CHECK", "DEL"} :
      /\ cmd = "ADD" => status[p] = "none"
      /\ cmd = "CHECK" => status[p] = "up"
      /\ cmd = "DEL" => status[p] \in {"up", "failed"}
      /\ proc' = [proc EXCEPT ![p] = Process(cmd)]
  BY DEF Dispatch
<1>1. Process(cmd) \in Processes
  BY DEF Process, Processes
<1>2. proc'[p] = Process(cmd) /\ proc'[p] # None /\ proc'[p].pc = "load"
  BY <1>1, NoneAssumption DEF TypeOK, Process
<1>3. TypeOK'
  BY <1>1 DEF Dispatch, TypeOK
<1>4. NatGrows /\ \A q \in Pods \ {p} : Kept(q)
  BY DEF Dispatch, NatGrows, Kept, TypeOK
<1>5. child[p] = None /\ status[p] # "gone"
  BY DEF Dispatch, ProcInv
<1>6. ProcInv(p)' /\ AddressInv(p)' /\ MasqInv(p)'
  BY <1>2, <1>5 DEF Dispatch, ProcInv, AddressInv, MasqInv, MasqSteps
<1> QED
  BY <1>3, <1>4, <1>6, PodStep

LEMMA LoadSubnetEnvInv == ASSUME IInv, NEW p \in Pods, LoadSubnetEnv(p) PROVE IInv'
<1> USE DEF IInv, PodInv
<1>1. /\ proc[p] # None /\ proc[p].pc = "load" /\ proc[p] \in Processes
      /\ child[p] = None /\ status[p] # "gone"
      /\ child' = [child EXCEPT ![p] = None]
  BY DEF LoadSubnetEnv, At, TypeOK, ProcInv
<1>2. CASE ~Usable(file) /\ Exit(p, FALSE)
  BY <1>1, <1>2, ExitKeeps DEF LoadSubnetEnv, TypeOK
<1>3. CASE Usable(file) /\ proc' = [proc EXCEPT ![p].env = file, ![p].pc = "spawn"] /\ UNCHANGED status
  <2> DEFINE r == [proc[p] EXCEPT !.env = file, !.pc = "spawn"]
  <2>1. /\ r \in Processes /\ r.pc = "spawn" /\ r.env # None /\ r.cmd = proc[p].cmd
    BY <1>1, <1>3 DEF Processes, TypeOK, Usable
  <2>2. proc'[p] = r /\ r # None
    BY <1>1, <1>3, <2>1, NoneAssumption DEF TypeOK
  <2>3. TypeOK'
    BY <1>1, <1>3, <2>1 DEF LoadSubnetEnv, TypeOK
  <2>4. NatGrows /\ \A q \in Pods \ {p} : Kept(q)
    BY <1>3 DEF LoadSubnetEnv, NatGrows, Kept, TypeOK
  <2> HIDE DEF r
  <2>5. ProcInv(p)' /\ AddressInv(p)' /\ MasqInv(p)'
    BY <1>1, <1>3, <2>1, <2>2 DEF LoadSubnetEnv, ProcInv, AddressInv, MasqInv, MasqSteps
  <2> QED
    BY <2>3, <2>4, <2>5, PodStep
<1> QED
  BY <1>2, <1>3 DEF LoadSubnetEnv

LEMMA LoadForDelInv == ASSUME IInv, NEW p \in Pods, LoadForDel(p) PROVE IInv'
<1> USE DEF IInv, PodInv
<1>1. /\ proc[p] # None /\ proc[p].pc = "load" /\ proc[p] \in Processes
      /\ child[p] = None /\ status[p] # "gone" /\ proc[p].cmd = "DEL"
  BY DEF LoadForDel, At, TypeOK, ProcInv
<1> DEFINE e == IF Usable(file) THEN file ELSE None
           r == [proc[p] EXCEPT !.env = e, !.pc = "spawn"]
<1>2. r \in Processes /\ r.pc = "spawn" /\ r.env = e /\ r.cmd = "DEL"
  BY <1>1 DEF Processes, TypeOK
<1>3. proc'[p] = r /\ r # None
  BY <1>1, <1>2, NoneAssumption DEF LoadForDel, TypeOK
<1>4. e = None /\ ~UserIpam => p \in leaked'
  BY DEF LoadForDel, Usable
<1>5. TypeOK'
  BY <1>1, <1>2 DEF LoadForDel, TypeOK
<1>6. NatGrows /\ \A q \in Pods \ {p} : Kept(q)
  BY DEF LoadForDel, NatGrows, Kept, TypeOK
<1> HIDE DEF r, e
<1>7. ProcInv(p)' /\ AddressInv(p)' /\ MasqInv(p)'
  BY <1>1, <1>2, <1>3, <1>4 DEF LoadForDel, ProcInv, AddressInv, Told, MasqInv, MasqSteps
<1> QED
  BY <1>5, <1>6, <1>7, PodStep

LEMMA SpawnInv == ASSUME IInv, NEW p \in Pods, Spawn(p) PROVE IInv'
<1> USE DEF IInv, PodInv
<1>1. /\ proc[p] # None /\ proc[p].pc = "spawn" /\ child[p] = None /\ status[p] # "gone"
  BY DEF Spawn, At, ProcInv
<1>2. faults' \in 0..MaxFaults
  BY FaultLemma DEF Spawn, TypeOK
<1>3. CASE Exit(p, FALSE) /\ UNCHANGED child
  BY <1>1, <1>2, <1>3, ExitKeeps DEF Spawn, TypeOK
<1>4. CASE /\ Step(p, "exec") /\ UNCHANGED status
           /\ \E kind \in {"reader", "writer", "quitter"} : child' = [child EXCEPT ![p] = Child(kind)]
  <2> PICK kind \in {"reader", "writer", "quitter"} : child' = [child EXCEPT ![p] = Child(kind)]
    BY <1>4
  <2>1. Child(kind) \in Children /\ Child(kind).exit = "no"
    BY DEF Child, Children
  <2>2. /\ proc' \in [Pods -> Processes \cup {None}] /\ proc'[p] # None
        /\ proc'[p].pc = "exec" /\ proc'[p].cmd = proc[p].cmd /\ proc'[p].env = proc[p].env
        /\ \A q \in Pods \ {p} : proc'[q] = proc[q]
    BY <1>1, <1>4, StepLemma
  <2>3. TypeOK'
    BY <1>2, <1>4, <2>1, <2>2 DEF Spawn, TypeOK
  <2>4. NatGrows /\ \A q \in Pods \ {p} : Kept(q)
    BY <1>4, <2>2 DEF Spawn, NatGrows, Kept, TypeOK
  <2>5. child'[p] = Child(kind)
    BY DEF TypeOK
  <2>6. ProcInv(p)' /\ AddressInv(p)' /\ MasqInv(p)'
    BY <1>1, <1>4, <2>1, <2>2, <2>5 DEF Spawn, ProcInv, AddressInv, Told, MasqInv, MasqSteps
  <2> QED
    BY <2>3, <2>4, <2>6, PodStep
<1> QED
  BY <1>3, <1>4 DEF Spawn

\* What the pipes transfer is of no concern to the invariant.
LEMMA PipeInv == ASSUME IInv, NEW p \in Pods, WriteStdin(p) \/ WaitWithOutput(p) PROVE IInv'
<1> USE DEF IInv, PodInv
<1>1. child[p] \in Children /\ child[p] # None
  BY DEF TypeOK, WriteStdin, WaitWithOutput
<1>2. PICK c \in Children : child' = [child EXCEPT ![p] = c] /\ c.exit = child[p].exit
  <2>1. CASE WriteStdin(p)
    <3>1. [child[p] EXCEPT !.conf = TRUE] \in Children
          /\ [child[p] EXCEPT !.conf = TRUE].exit = child[p].exit
      BY <1>1 DEF Children
    <3> QED
      BY <2>1, <3>1 DEF WriteStdin
  <2>2. CASE WaitWithOutput(p)
    <3>1. [child[p] EXCEPT !.out = TRUE] \in Children
          /\ [child[p] EXCEPT !.out = TRUE].exit = child[p].exit
      BY <1>1 DEF Children
    <3> QED
      BY <2>2, <3>1 DEF WaitWithOutput
  <2> QED
    BY <2>1, <2>2
<1>3. Same
  BY DEF WriteStdin, WaitWithOutput
<1>4. TypeOK'
  BY <1>2, <1>3 DEF Same, TypeOK
<1>5. NatGrows /\ \A q \in Pods \ {p} : Kept(q)
  BY <1>2, <1>3 DEF Same, NatGrows, Kept, TypeOK
<1>6. child'[p] = c
  BY <1>2 DEF TypeOK
<1>7. ProcInv(p)'
  BY <1>1, <1>3 DEF Same, ProcInv
<1>8. AddressInv(p)'
  BY <1>1, <1>2, <1>3, <1>6 DEF Same, AddressInv, Told
<1>9. MasqInv(p)'
  BY <1>3 DEF Same, MasqInv, Fam, Rule
<1> QED
  BY <1>4, <1>5, <1>7, <1>8, <1>9, PodStep

LEMMA ChildExitsInv == ASSUME IInv, NEW p \in Pods, ChildExits(p) PROVE IInv'
<1> USE DEF IInv, PodInv
<1>1. /\ child[p] \in Children /\ child[p] # None /\ proc[p] # None /\ proc[p].pc = "exec"
      /\ proc[p].cmd \in {"ADD", "CHECK", "DEL"} /\ status[p] # "gone"
  BY DEF TypeOK, ChildExits, ProcInv, Processes
<1>2. child' \in [Pods -> Children \cup {None}] /\ \A q \in Pods \ {p} : child'[q] = child[q]
  <2>1. \A x \in {"ok", "failed"} : [child[p] EXCEPT !.exit = x] \in Children
    BY <1>1 DEF Children
  <2> QED
    BY <2>1 DEF ChildExits, TypeOK
<1>9. faults' \in 0..MaxFaults
  BY FaultLemma DEF ChildExits, DelegateFails, TypeOK
<1>3. /\ held' \subseteq Pods /\ leaked' \subseteq Pods
      /\ \A q \in Pods \ {p} : (q \in held') = (q \in held) /\ (q \in leaked') = (q \in leaked)
      /\ proc[p].cmd = "DEL" /\ p \in held' => p \in leaked'
      /\ proc[p].cmd = "ADD" \/ proc[p].cmd = "CHECK" => leaked' = leaked
  <2>1. CASE Delegated(p)
    <3>1. CASE proc[p].cmd = "ADD"
      BY <2>1, <3>1 DEF Delegated, TypeOK
    <3>2. CASE proc[p].cmd = "CHECK"
      BY <2>1, <3>2 DEF Delegated, TypeOK
    <3>3. CASE proc[p].cmd = "DEL"
      BY <1>1, <2>1, <3>3 DEF Delegated, TypeOK, AddressInv
    <3> QED
      BY <1>1, <3>1, <3>2, <3>3
  <2>2. CASE DelegateFails(p)
    BY <2>2, <1>1 DEF DelegateFails, TypeOK
  <2> QED
    BY <2>1, <2>2 DEF ChildExits
<1>4. TypeOK'
  BY <1>2, <1>3, <1>9 DEF ChildExits, TypeOK
<1>5. NatGrows /\ \A q \in Pods \ {p} : Kept(q)
  BY <1>2, <1>3 DEF ChildExits, NatGrows, Kept, TypeOK
<1>6. ProcInv(p)'
  BY <1>1 DEF ChildExits, ProcInv, MasqSteps
<1>7. AddressInv(p)'
  BY <1>1, <1>3 DEF ChildExits, AddressInv, Told
<1>8. MasqInv(p)'
  BY DEF ChildExits, MasqInv, Fam, Rule
<1> QED
  BY <1>4, <1>5, <1>6, <1>7, <1>8, PodStep

LEMMA WaitInv == ASSUME IInv, NEW p \in Pods, Wait(p) PROVE IInv'
<1> USE DEF IInv, PodInv
<1> DEFINE env == proc[p].env
           todo == IF env # None /\ env.masq THEN MasqFamilies(env) ELSE {}
<1>1. /\ child[p] # None /\ child[p].exit # "no" /\ proc[p] # None /\ proc[p].pc = "exec"
      /\ proc[p] \in Processes /\ status[p] # "gone" /\ faults' \in 0..MaxFaults
      /\ child' = [child EXCEPT ![p] = None]
      /\ UNCHANGED <<file, held, nat, served, orphans, leaked, changes>>
  BY DEF TypeOK, Wait, ProcInv
<1>2. CASE proc[p].cmd = "ADD" /\ child[p].exit = "ok" /\ todo # {}
  <2> DEFINE r == [proc[p] EXCEPT !.pc = "chain", !.todo = todo]
  <2>1. proc' = [proc EXCEPT ![p] = r] /\ UNCHANGED status
    BY <1>2 DEF Wait
  <2>2. /\ env \in Envs /\ todo = MasqFamilies(env) /\ todo \subseteq Families
    BY <1>1, <1>2, EnvsAssumption DEF Processes, MasqFamilies
  <2>3. /\ r \in Processes /\ r.pc = "chain" /\ r.cmd = "ADD" /\ r.env = env /\ r.todo = todo
    BY <1>1, <1>2, <2>2 DEF Processes
  <2>4. proc'[p] = r /\ child'[p] = None
    BY <1>1, <2>1 DEF TypeOK
  <2>5. TypeOK'
    BY <1>1, <2>1, <2>3 DEF Wait, TypeOK
  <2>6. NatGrows /\ \A q \in Pods \ {p} : Kept(q)
    BY <1>1, <2>1 DEF NatGrows, Kept, TypeOK
  <2> HIDE DEF r
  <2>7. ProcInv(p)'
    BY <1>1, <1>2, <2>1, <2>2, <2>3, <2>4 DEF ProcInv, MasqSteps
  <2>8. AddressInv(p)'
    BY <1>1, <2>1, <2>3, <2>4 DEF AddressInv
  <2>9. MasqInv(p)'
    BY <1>1, <2>2, <2>3, <2>4 DEF MasqInv, MasqSteps
  <2> QED
    BY <2>5, <2>6, <2>7, <2>8, <2>9, PodStep
<1>3. CASE ~(proc[p].cmd = "ADD" /\ child[p].exit = "ok" /\ todo # {})
  <2>1. \E ok \in {TRUE, child[p].exit = "ok"} :
          Exit(p, ok) /\ (ok /\ proc[p].cmd = "DEL" /\ p \in held => p \in leaked)
    <3>1. CASE proc[p].cmd = "DEL"
      <4>1. Exit(p, TRUE)
        BY <3>1 DEF Wait
      <4> QED
        BY <1>1, <3>1, <4>1 DEF AddressInv
    <3>2. CASE proc[p].cmd # "DEL"
      <4>1. Exit(p, child[p].exit = "ok")
        BY <1>3, <3>2 DEF Wait
      <4> QED
        BY <3>2, <4>1
    <3> QED
      BY <3>1, <3>2
  <2> QED
    BY <1>1, <2>1, ExitKeeps DEF TypeOK
<1> QED
  BY <1>2, <1>3

\* A masquerade step keeps the invariant when it has done what the next step
\* takes for granted.
LEMMA MasqStep ==
  ASSUME IInv, NEW p \in Pods, proc[p] # None, proc[p].pc \in MasqSteps,
         NEW next \in MasqSteps, Step(p, next),
         nat' \in [Families -> Tables], NatGrows, faults' \in 0..MaxFaults,
         UNCHANGED <<file, status, child, held, served, orphans, leaked, changes>>,
         ~proc[p].flushed =>
           /\ next \in {"out?", "out", "in?", "in", "next"} => nat'[Fam(p)].jump
           /\ next \in {"in?", "in", "next"} => Rule(p, "out") \in nat'[Fam(p)].rules
           /\ next = "next" => Rule(p, "in") \in nat'[Fam(p)].rules
  PROVE  IInv'
<1> USE DEF IInv, PodInv
<1>1. /\ proc' \in [Pods -> Processes \cup {None}] /\ proc'[p] # None
      /\ proc'[p].pc = next /\ proc'[p].cmd = proc[p].cmd /\ proc'[p].env = proc[p].env
      /\ proc'[p].todo = proc[p].todo /\ proc'[p].flushed = proc[p].flushed
      /\ Fam(p)' = Fam(p) /\ \A d : Rule(p, d)' = Rule(p, d)
      /\ \A q \in Pods \ {p} : proc'[q] = proc[q]
  BY StepLemma
<1>2. TypeOK'
  BY <1>1 DEF TypeOK
<1>3. \A q \in Pods \ {p} : Kept(q)
  BY <1>1 DEF Kept
<1>4. ProcInv(p)'
  BY <1>1 DEF ProcInv, MasqSteps
<1>5. AddressInv(p)'
  BY <1>1 DEF AddressInv, ProcInv, MasqSteps
<1>6. ASSUME NEW e \in Envs, NEW f \in MasqFamilies(e), Masqueraded(nat, e, f)
      PROVE  Masqueraded(nat', e, f)
  BY <1>6, EnvsAssumption DEF Masqueraded, MasqFamilies, NatGrows
<1>7. served'[p] # None => \A f \in MasqFamilies(served'[p]) : Masqueraded(nat', served'[p], f)
  BY <1>6 DEF MasqInv, TypeOK
<1>8. ~proc[p].flushed =>
        \A f \in MasqFamilies(proc[p].env) \ proc[p].todo : Masqueraded(nat', proc[p].env, f)
  BY <1>6 DEF MasqInv, ProcInv
<1>9. MasqInv(p)'
  BY <1>1, <1>7, <1>8 DEF MasqInv
<1> QED
  BY <1>2, <1>3, <1>4, <1>5, <1>9, PodStep

\* What an iptables call leaves in the tables: one of them has grown.
LEMMA TableLemma ==
  ASSUME TypeOK, NEW f \in Families, NEW t \in Tables, nat' = [nat EXCEPT ![f] = t],
         nat[f].jump => t.jump, nat[f].rules \subseteq t.rules
  PROVE  nat' \in [Families -> Tables] /\ nat'[f] = t /\ NatGrows
  BY DEF TypeOK, NatGrows

\* An iptables call of a pod, in the form both kinds of it share: it adds to
\* the pod's table and goes on, or fails.
LEMMA CallKeeps ==
  ASSUME IInv, NEW p \in Pods, proc[p] # None, proc[p].pc \in MasqSteps,
         NEW t \in Tables, NEW next \in MasqSteps, Call(p, t, next),
         nat[Fam(p)].jump => t.jump, nat[Fam(p)].rules \subseteq t.rules,
         ~proc[p].flushed =>
           /\ next \in {"out?", "out", "in?", "in", "next"} => t.jump
           /\ next \in {"in?", "in", "next"} => Rule(p, "out") \in t.rules
           /\ next = "next" => Rule(p, "in") \in t.rules,
         UNCHANGED <<file, child, held, served, orphans, leaked, changes>>
  PROVE  IInv'
<1> USE DEF IInv, PodInv
<1>1. CASE nat' = [nat EXCEPT ![Fam(p)] = t] /\ Step(p, next) /\ UNCHANGED <<status, faults>>
  <2>1. Fam(p) \in Families
    BY FamLemma
  <2>2. nat' \in [Families -> Tables] /\ nat'[Fam(p)] = t /\ NatGrows
    BY <1>1, <2>1, TableLemma
  <2>3. faults' \in 0..MaxFaults
    BY <1>1 DEF TypeOK
  <2> QED
    BY <1>1, <2>2, <2>3, MasqStep
<1>2. CASE Fault /\ Exit(p, FALSE) /\ UNCHANGED nat
  <2>1. faults' \in 0..MaxFaults
    BY <1>2, FaultLemma
  <2>2. child' = [child EXCEPT ![p] = None]
    BY DEF ProcInv, TypeOK, MasqSteps
  <2> QED
    BY <1>2, <2>1, <2>2, ExitKeeps DEF TypeOK
<1> QED
  BY <1>1, <1>2 DEF Call

LEMMA InChainKeeps ==
  ASSUME IInv, NEW p \in Pods, proc[p] # None, proc[p].pc \in MasqSteps,
         NEW t \in Tables, NEW next \in MasqSteps, InChain(p, t, next),
         nat[Fam(p)].jump => t.jump, nat[Fam(p)].rules \subseteq t.rules,
         ~proc[p].flushed =>
           /\ next \in {"out?", "out", "in?", "in", "next"} => t.jump
           /\ next \in {"in?", "in", "next"} => Rule(p, "out") \in t.rules
           /\ next = "next" => Rule(p, "in") \in t.rules
  PROVE  IInv'
<1>1. CASE Call(p, t, next)
  BY <1>1, CallKeeps DEF InChain
<1>2. CASE Exit(p, FALSE) /\ UNCHANGED <<nat, faults>>
  <2>1. faults' \in 0..MaxFaults
    BY <1>2 DEF IInv, TypeOK
  <2>2. child' = [child EXCEPT ![p] = None]
    BY DEF IInv, PodInv, ProcInv, TypeOK, MasqSteps, InChain
  <2> QED
    BY <1>2, <2>1, <2>2, ExitKeeps DEF InChain, IInv, TypeOK
<1> QED
  BY <1>1, <1>2 DEF InChain

\* A check goes on with what it found, or as if it had found nothing.
LEMMA CheckKeeps ==
  ASSUME IInv, NEW p \in Pods, proc[p] # None, proc[p].pc \in MasqSteps,
         NEW present, NEW yes \in MasqSteps, NEW no \in MasqSteps, Check(p, present, yes, no),
         ~proc[p].flushed => \A next \in {yes, no} : (next = yes /\ present) \/ next = no =>
           /\ next \in {"out?", "out", "in?", "in", "next"} => nat[Fam(p)].jump
           /\ next \in {"in?", "in", "next"} => Rule(p, "out") \in nat[Fam(p)].rules
           /\ next = "next" => Rule(p, "in") \in nat[Fam(p)].rules
  PROVE  IInv'
<1>1. PICK next \in {yes, no} : Step(p, next) /\ ((next = yes /\ present) \/ next = no)
  BY DEF Check
<1>2. faults' \in 0..MaxFaults
  BY FaultLemma DEF Check, IInv, TypeOK
<1>3. nat' \in [Families -> Tables] /\ NatGrows
  BY DEF Check, IInv, TypeOK, NatGrows
<1>4. UNCHANGED <<file, status, child, held, nat, served, orphans, leaked, changes>>
  BY DEF Check
<1> QED
  BY <1>1, <1>2, <1>3, <1>4, MasqStep

LEMMA EnsureChainInv == ASSUME IInv, NEW p \in Pods, EnsureChain(p) PROVE IInv'
<1> DEFINE t == [nat[Fam(p)] EXCEPT !.chain = TRUE]
<1>1. proc[p] # None /\ proc[p].pc = "chain" /\ proc[p].pc \in MasqSteps
  BY DEF EnsureChain, At, MasqSteps
<1>2. nat[Fam(p)] \in Tables
  BY <1>1, FamLemma DEF IInv, PodInv, TypeOK
<1>3. t \in Tables /\ t.jump = nat[Fam(p)].jump /\ t.rules = nat[Fam(p)].rules
  BY <1>2 DEF Tables
<1>4. /\ Call(p, t, "jump?") /\ "jump?" \in MasqSteps
      /\ UNCHANGED <<file, child, held, served, orphans, leaked, changes>>
  BY DEF EnsureChain, MasqSteps
<1> HIDE DEF t
<1> QED
  BY <1>1, <1>3, <1>4, CallKeeps

LEMMA ChecksInv ==
  ASSUME IInv, NEW p \in Pods, CheckJump(p) \/ CheckOut(p) \/ CheckIn(p) PROVE IInv'
<1> USE DEF IInv, PodInv
<1>1. CASE CheckJump(p)
  <2>1. proc[p] # None /\ proc[p].pc \in MasqSteps /\ Check(p, nat[Fam(p)].jump, "out?", "jump")
    BY <1>1 DEF CheckJump, At, MasqSteps
  <2>2. "out?" \in MasqSteps /\ "jump" \in MasqSteps
    BY DEF MasqSteps
  <2> QED
    BY <2>1, <2>2, CheckKeeps
<1>2. CASE CheckOut(p)
  <2>1. /\ proc[p] # None /\ proc[p].pc = "out?" /\ proc[p].pc \in MasqSteps
        /\ Check(p, Rule(p, "out") \in nat[Fam(p)].rules, "in?", "out")
    BY <1>2 DEF CheckOut, At, MasqSteps
  <2>2. "in?" \in MasqSteps /\ "out" \in MasqSteps
    BY DEF MasqSteps
  <2>3. ~proc[p].flushed => nat[Fam(p)].jump
    BY <2>1 DEF MasqInv
  <2> QED
    BY <2>1, <2>2, <2>3, CheckKeeps
<1>3. CASE CheckIn(p)
  <2>1. /\ proc[p] # None /\ proc[p].pc = "in?" /\ proc[p].pc \in MasqSteps
        /\ Check(p, Rule(p, "in") \in nat[Fam(p)].rules, "next", "in")
    BY <1>3 DEF CheckIn, At, MasqSteps
  <2>2. "next" \in MasqSteps /\ "in" \in MasqSteps
    BY DEF MasqSteps
  <2>3. ~proc[p].flushed => nat[Fam(p)].jump /\ Rule(p, "out") \in nat[Fam(p)].rules
    BY <2>1 DEF MasqInv
  <2> QED
    BY <2>1, <2>2, <2>3, CheckKeeps
<1> QED
  BY <1>1, <1>2, <1>3

LEMMA InsertJumpInv == ASSUME IInv, NEW p \in Pods, InsertJump(p) PROVE IInv'
<1> DEFINE t == [nat[Fam(p)] EXCEPT !.jump = TRUE]
<1>1. proc[p] # None /\ proc[p].pc \in MasqSteps
  BY DEF InsertJump, At, MasqSteps
<1>2. nat[Fam(p)] \in Tables
  BY <1>1, FamLemma DEF IInv, PodInv, TypeOK
<1>3. t \in Tables /\ t.jump /\ t.rules = nat[Fam(p)].rules
  BY <1>2 DEF Tables
<1>4. InChain(p, t, "out?") /\ "out?" \in MasqSteps
  BY DEF InsertJump, MasqSteps
<1> HIDE DEF t
<1> QED
  BY <1>1, <1>3, <1>4, InChainKeeps

\* Both rules go the same way.
LEMMA AppendInv ==
  ASSUME IInv, NEW p \in Pods, AppendOut(p) \/ AppendIn(p) PROVE IInv'
<1> USE DEF IInv, PodInv
<1>1. ASSUME NEW d \in {"out", "in"}, proc[p] # None, proc[p].pc \in MasqSteps
      PROVE  LET t == [nat[Fam(p)] EXCEPT !.rules = @ \cup {Rule(p, d)}] IN
             /\ t \in Tables /\ t.jump = nat[Fam(p)].jump
             /\ t.rules = nat[Fam(p)].rules \cup {Rule(p, d)}
  <2>1. nat[Fam(p)] \in Tables
    BY <1>1, FamLemma DEF TypeOK
  <2>2. [nat[Fam(p)] EXCEPT !.rules = @ \cup {Rule(p, d)}] \in Tables
    BY <1>1, <2>1, FamLemma
  <2> QED
    BY <2>1, <2>2 DEF Tables
<1>2. CASE AppendOut(p)
  <2> DEFINE t == [nat[Fam(p)] EXCEPT !.rules = @ \cup {Rule(p, "out")}]
  <2>1. /\ proc[p] # None /\ proc[p].pc = "out" /\ proc[p].pc \in MasqSteps
        /\ InChain(p, t, "in?") /\ "in?" \in MasqSteps
    BY <1>2 DEF AppendOut, At, MasqSteps
  <2>2. /\ t \in Tables /\ t.jump = nat[Fam(p)].jump
        /\ t.rules = nat[Fam(p)].rules \cup {Rule(p, "out")}
    BY <1>1, <2>1
  <2>3. ~proc[p].flushed => nat[Fam(p)].jump
    BY <2>1 DEF MasqInv
  <2> HIDE DEF t
  <2> QED
    BY <2>1, <2>2, <2>3, InChainKeeps
<1>3. CASE AppendIn(p)
  <2> DEFINE t == [nat[Fam(p)] EXCEPT !.rules = @ \cup {Rule(p, "in")}]
  <2>1. /\ proc[p] # None /\ proc[p].pc = "in" /\ proc[p].pc \in MasqSteps
        /\ InChain(p, t, "next") /\ "next" \in MasqSteps
    BY <1>3 DEF AppendIn, At, MasqSteps
  <2>2. /\ t \in Tables /\ t.jump = nat[Fam(p)].jump
        /\ t.rules = nat[Fam(p)].rules \cup {Rule(p, "in")}
    BY <1>1, <2>1
  <2>3. ~proc[p].flushed => nat[Fam(p)].jump /\ Rule(p, "out") \in nat[Fam(p)].rules
    BY <2>1 DEF MasqInv
  <2> HIDE DEF t
  <2> QED
    BY <2>1, <2>2, <2>3, InChainKeeps
<1> QED
  BY <1>2, <1>3

LEMMA NextFamilyInv == ASSUME IInv, NEW p \in Pods, NextFamily(p) PROVE IInv'
<1> USE DEF IInv, PodInv
<1>1. /\ proc[p] # None /\ proc[p].pc = "next" /\ proc[p].pc \in MasqSteps
      /\ proc[p] \in Processes /\ child[p] = None /\ status[p] # "gone"
      /\ UNCHANGED <<file, child, held, nat, orphans, leaked, faults, changes>>
  BY DEF NextFamily, At, MasqSteps, TypeOK, ProcInv
<1>2. /\ proc[p].cmd = "ADD" /\ proc[p].env \in Envs
      /\ proc[p].todo # {} /\ proc[p].todo \subseteq MasqFamilies(proc[p].env)
      /\ Fam(p) \in proc[p].todo
  BY <1>1, FamLemma DEF ProcInv
<1>3. ~proc[p].flushed => Masqueraded(nat, proc[p].env, Fam(p))
  BY <1>1 DEF MasqInv, Masqueraded, Rule
<1>4. ~proc[p].flushed =>
        \A f \in MasqFamilies(proc[p].env) \ (proc[p].todo \ {Fam(p)}) : Masqueraded(nat, proc[p].env, f)
  BY <1>1, <1>3 DEF MasqInv
<1>5. NatGrows
  BY <1>1 DEF NatGrows
<1>6. CASE proc[p].todo = {Fam(p)}
  <2>1. /\ Exit(p, TRUE)
        /\ served' = [served EXCEPT ![p] = IF proc[p].flushed THEN None ELSE proc[p].env]
    BY <1>6 DEF NextFamily
  <2>2. /\ proc' \in [Pods -> Processes \cup {None}] /\ proc'[p] = None
        /\ status' \in [Pods -> {"none", "up", "failed", "gone"}] /\ status'[p] # "gone"
        /\ \A q \in Pods \ {p} : proc'[q] = proc[q] /\ status'[q] = status[q]
    BY <1>1, <1>2, <2>1, ExitLemma
  <2>3. TypeOK'
    BY <1>1, <1>2, <2>1, <2>2 DEF TypeOK
  <2>4. \A q \in Pods \ {p} : Kept(q)
    BY <1>1, <2>1, <2>2 DEF Kept, TypeOK
  <2>5. ProcInv(p)' /\ AddressInv(p)'
    BY <1>1, <2>2 DEF ProcInv, AddressInv
  <2>6. MasqInv(p)'
    <3>1. served'[p] = IF proc[p].flushed THEN None ELSE proc[p].env
      BY <2>1 DEF TypeOK
    <3> QED
      BY <1>1, <1>2, <1>4, <1>6, <2>2, <3>1 DEF MasqInv
  <2> QED
    BY <1>5, <2>3, <2>4, <2>5, <2>6, PodStep
<1>7. CASE proc[p].todo # {Fam(p)}
  <2> DEFINE r == [proc[p] EXCEPT !.pc = "chain", !.todo = @ \ {Fam(p)}]
  <2>1. proc' = [proc EXCEPT ![p] = r] /\ UNCHANGED <<status, served>>
    BY <1>7 DEF NextFamily
  <2>2. /\ r \in Processes /\ r.pc = "chain" /\ r.cmd = "ADD" /\ r.env = proc[p].env
        /\ r.todo = proc[p].todo \ {Fam(p)} /\ r.flushed = proc[p].flushed
    BY <1>1, <1>2 DEF Processes
  <2>3. proc'[p] = r
    BY <2>1 DEF TypeOK
  <2>4. TypeOK'
    BY <1>1, <2>1, <2>2 DEF TypeOK
  <2>5. \A q \in Pods \ {p} : Kept(q)
    BY <1>1, <2>1 DEF Kept, TypeOK
  <2> HIDE DEF r
  <2>6. ProcInv(p)'
    BY <1>1, <1>2, <1>7, <2>1, <2>2, <2>3 DEF ProcInv
  <2>7. AddressInv(p)'
    BY <1>1, <2>1, <2>2, <2>3 DEF AddressInv
  <2>8. MasqInv(p)'
    BY <1>1, <1>4, <2>1, <2>2, <2>3 DEF MasqInv
  <2> QED
    BY <1>5, <2>4, <2>5, <2>6, <2>7, <2>8, PodStep
<1> QED
  BY <1>6, <1>7

LEMMA KillInv == ASSUME IInv, NEW p \in Pods, Kill(p) PROVE IInv'
<1>1. faults' \in 0..MaxFaults /\ faults \in 0..MaxFaults
  BY FaultLemma DEF Kill, IInv, TypeOK
<1>2. orphans' \subseteq Orphans
  <2>1. CASE child[p] # None /\ child[p].exit = "no" /\ proc[p].cmd # "CHECK"
    <3>1. proc[p] \in Processes /\ proc[p].cmd \in {"ADD", "DEL"}
      BY <2>1 DEF Kill, IInv, TypeOK, Processes
    <3>2. Told(p) \in BOOLEAN
      BY CniAssumption DEF Told
    <3>3. [pod |-> p, cmd |-> proc[p].cmd, told |-> Told(p), n |-> faults] \in Orphans
      BY <1>1, <3>1, <3>2 DEF Orphans
    <3> QED
      BY <2>1, <3>3 DEF Kill, IInv, TypeOK
  <2>2. CASE ~(child[p] # None /\ child[p].exit = "no" /\ proc[p].cmd # "CHECK")
    BY <2>2 DEF Kill, IInv, TypeOK
  <2> QED
    BY <2>1, <2>2
<1> QED
  BY <1>1, <1>2, ExitKeeps DEF Kill

\* A delegate without a plugin reserves an address that counts as leaked, or
\* gives one back.
LEMMA OrphanEndsInv == ASSUME IInv, OrphanEnds PROVE IInv'
<1> USE DEF IInv, PodInv
<1> PICK o \in orphans :
      /\ orphans' = orphans \ {o}
      /\ \/ UNCHANGED <<held, leaked>>
         \/ /\ o.cmd = "ADD"
            /\ held' = held \cup {o.pod} /\ leaked' = leaked \cup {o.pod}
         \/ o.cmd = "DEL" /\ o.told /\ held' = held \ {o.pod} /\ UNCHANGED leaked
  BY DEF OrphanEnds
<1>1. o.pod \in Pods
  BY DEF TypeOK, Orphans
<1>2. TypeOK'
  BY <1>1 DEF OrphanEnds, TypeOK
<1>3. \A p \in Pods : (p \in held => p \in leaked) => (p \in held' => p \in leaked')
  OBVIOUS
<1>4. ASSUME NEW p \in Pods PROVE ProcInv(p)' /\ AddressInv(p)' /\ MasqInv(p)'
  <2>1. ProcInv(p)'
    BY DEF OrphanEnds, ProcInv
  <2>2. AddressInv(p)'
    BY <1>3 DEF OrphanEnds, AddressInv, Told
  <2>3. MasqInv(p)'
    BY DEF OrphanEnds, MasqInv, Fam, Rule
  <2> QED
    BY <2>1, <2>2, <2>3
<1> QED
  BY <1>2, <1>4

LEMMA WriteFileInv == ASSUME IInv, WriteFile PROVE IInv'
<1>1. TypeOK'
  BY CniBounds DEF IInv, TypeOK, WriteFile, Change
<1>2. NatGrows /\ \A q \in Pods : Kept(q)
  BY DEF WriteFile, NatGrows, Kept
<1> QED
  BY <1>1, <1>2, OthersKeep DEF IInv

\* A flush takes the rules away and with them the claim that they are there.
LEMMA FlushInv == ASSUME IInv, Flush PROVE IInv'
<1> USE DEF IInv, PodInv
<1>1. ASSUME NEW p \in Pods, proc[p] # None
      PROVE  /\ proc'[p] \in Processes /\ proc'[p].flushed
             /\ proc'[p].pc = proc[p].pc /\ proc'[p].cmd = proc[p].cmd
             /\ proc'[p].env = proc[p].env /\ proc'[p].todo = proc[p].todo
  <2>1. proc[p] \in Processes /\ proc'[p] = [proc[p] EXCEPT !.flushed = TRUE]
    BY <1>1 DEF Flush, TypeOK
  <2> QED
    BY <2>1 DEF Processes
<1>2. ASSUME NEW p \in Pods PROVE (proc'[p] = None) <=> (proc[p] = None)
  <2>1. CASE proc[p] = None
    BY <2>1 DEF Flush
  <2>2. CASE proc[p] # None
    BY <2>2, <1>1, NoneAssumption
  <2> QED
    BY <2>1, <2>2
<1>3. proc' \in [Pods -> Processes \cup {None}]
  <2>1. \A p \in Pods : proc'[p] \in Processes \cup {None}
    BY <1>1, <1>2
  <2> QED
    BY <2>1 DEF Flush
<1>4. TypeOK'
  BY <1>3, CniBounds DEF Flush, Change, TypeOK, NoTable, Tables
<1>5. ASSUME NEW p \in Pods PROVE ProcInv(p)' /\ AddressInv(p)' /\ MasqInv(p)'
  <2>1. ProcInv(p)'
    BY <1>1, <1>2 DEF ProcInv, Flush
  <2>2. AddressInv(p)'
    BY <1>1, <1>2 DEF AddressInv, Told, ProcInv, Flush
  <2>3. MasqInv(p)'
    BY <1>1, <1>2 DEF MasqInv, Flush
  <2> QED
    BY <2>1, <2>2, <2>3
<1> QED
  BY <1>4, <1>5

LEMMA NextInv == IInv /\ [Next]_vars => IInv'
<1> SUFFICES ASSUME IInv, [Next]_vars PROVE IInv'
  OBVIOUS
<1>1. ASSUME NEW p \in Pods, Dispatch(p) \/ Plugin(p) \/ Kill(p) PROVE IInv'
  BY <1>1, DispatchInv, LoadSubnetEnvInv, LoadForDelInv, SpawnInv, PipeInv, ChildExitsInv,
     WaitInv, EnsureChainInv, ChecksInv, InsertJumpInv, AppendInv, NextFamilyInv, KillInv
  DEF Plugin
<1>2. CASE UNCHANGED vars
  <2>1. TypeOK' /\ NatGrows /\ \A q \in Pods : Kept(q)
    BY <1>2 DEF vars, IInv, TypeOK, NatGrows, Kept
  <2> QED
    BY <2>1, OthersKeep DEF IInv
<1> QED
  BY <1>1, <1>2, OrphanEndsInv, WriteFileInv, FlushInv DEF Next

LEMMA Inductive == Spec => []IInv
  BY InitInv, NextInv, PTL DEF Spec

\* The state of the plugin's processes and of what they share is well-typed
\* whatever commands run at the same time (cmd_add, cmd_del, cmd_check).
THEOREM TypeCorrect == Spec => []TypeOK
<1>1. IInv => TypeOK
  BY DEF IInv
<1> QED
  BY <1>1, Inductive, PTL

\* For every set of pods, every choice of subnet files and any number of
\* faults: a pod whose DEL succeeded holds no address unless the plugin could
\* not ask for it, the delegate did not do it (cmd_del), or a delegate that
\* outlived its killed ADD reserved one afterwards (exec_delegate).
THEOREM AddressesReleased == Spec => []Released
<1>1. IInv => Released
  BY DEF IInv, PodInv, AddressInv, Released
<1> QED
  BY <1>1, Inductive, PTL

\* The check-then-append calls of any number of concurrent ADDs with different
\* subnets never leave a pod they added without its rules (ip_masq_config).
THEOREM MasqueradeComplete == Spec => []AddedIsMasqueraded
<1>1. IInv => AddedIsMasqueraded
  BY DEF IInv, PodInv, MasqInv, AddedIsMasqueraded
<1> QED
  BY <1>1, Inductive, PTL
-----------------------------------------------------------------------------
(* Traffic: what a switch of the traffic manager leaves, and what the      *)
(* masquerade rules decide, for every set of subnets and any number of     *)
(* changes, failures and restarts                                          *)

IptablesSteps == {"recycle", "tearCheck", "create", "build", "resync", "gaveUp", "unattended"}
NftSteps == {"cleanDelete", "nft", "idle"}

\* Each manager has its own steps; the others are shared.
ModeInv ==
  /\ failures \in Nat
  /\ mode \in {"iptables", "nftables"} /\ subnet \in Subnets
  /\ pc \in IptablesSteps \cup NftSteps \cup {"clean", "written", "dead"}
  /\ pc \in IptablesSteps => mode = "iptables"
  /\ pc \in NftSteps => mode = "nftables"
  /\ pc = "tearCheck" => table = "nat"

\* What the clean-up did stays done: past it, no command of this manager and
\* nobody else writes what belongs to the other manager.
CleanInv ==
  failures = 0 /\ pc # "clean" =>
    /\ mode = "iptables" => nft = Missing
    /\ mode = "nftables" /\ table = "nat" => chain \in {Missing, <<>>}
    /\ mode = "nftables" /\ pc \in {"written", "idle"} => nft = NftRules(subnet)

TrafficInv == ModeInv /\ CleanInv

\* Nothing can be deleted from a chain without rules.
LEMMA NothingToDelete == ToSet(<<>>) = {}
BY DEF ToSet

\* What a command of a look leaves alone, and what a failing one does.
LEMMA LookLemma ==
  ASSUME NEW rules, NEW create, NEW failed, LookAt(rules, create, failed)
  PROVE  /\ UNCHANGED <<hook, nft, table, mode, subnet, prev>>
         /\ \/ UNCHANGED <<pc, failures>>
            \/ Failure /\ pc' = failed /\ UNCHANGED chain
BY DEF LookAt, Reset, config

LEMMA TrafficStep ==
  ASSUME TrafficInv, [TrafficNext]_trafficVars
  PROVE  TrafficInv'
<1> USE DEF TrafficInv, ModeInv, IptablesSteps, NftSteps
<1>1. CASE CleanUp
  BY <1>1 DEF CleanUp, CleanInv, Failure, config, NftRules, MasqRules, ForwardRules
<1>2. CASE CleanDelete
  BY <1>2 DEF CleanDelete, Goto, Failure, CleanInv, config
<1>3. CASE NftSetup
  BY <1>3 DEF NftSetup, Failure, CleanInv, config, NftRules, MasqRules, ForwardRules
<1>4. CASE Recycle
  BY <1>4 DEF Recycle, CleanInv, config, kernel
<1>5. CASE TearCheck
  <2>1. /\ pc = "tearCheck" /\ UNCHANGED <<nft, table, mode, subnet>>
        /\ UNCHANGED <<pc, failures>> \/ (Failure /\ pc' = "dead")
    BY <1>5, LookLemma DEF TearCheck
  <2> QED
    BY <2>1 DEF Failure, CleanInv
<1>6. CASE TearApply
  BY <1>6 DEF TearApply, Reset, Failure, CleanInv, config
<1>7. CASE CreateChain
  BY <1>7 DEF CreateChain, Failure, CleanInv, config
<1>8. CASE Build
  <2>1. /\ pc = "build" /\ UNCHANGED <<nft, table, mode, subnet>>
        /\ UNCHANGED <<pc, failures>> \/ (Failure /\ pc' = "written")
    BY <1>8, LookLemma DEF Build
  <2> QED
    BY <2>1 DEF Failure, CleanInv
<1>9. CASE Apply
  BY <1>9 DEF Apply, Reset, Failure, CleanInv, config
<1>10. CASE WriteSubnetFile
  BY <1>10 DEF WriteSubnetFile, Goto, CleanInv, kernel, NftRules
<1>11. CASE Resync
  BY <1>11 DEF Resync, Reset, Failure, CleanInv, config, kernel
<1>12. CASE Edit
  BY <1>12, NothingToDelete DEF Edit, CleanInv, config, NftRules
<1>13. CASE Restart
  BY <1>13 DEF Restart, Reset, CleanInv
<1>14. CASE UNCHANGED trafficVars
  BY <1>14 DEF trafficVars, kernel, config, CleanInv, NftRules
<1> QED
  BY <1>1, <1>2, <1>3, <1>4, <1>5, <1>6, <1>7, <1>8, <1>9, <1>10, <1>11, <1>12, <1>13, <1>14
     DEF TrafficNext, Manager

LEMMA TrafficInvariance == TrafficSpec => []TrafficInv
<1>1. TrafficInit => TrafficInv
  BY DEF TrafficInit, TrafficInv, ModeInv, CleanInv, IptablesSteps, NftSteps
<1> QED
  BY <1>1, TrafficStep, PTL DEF TrafficSpec

-----------------------------------------------------------------------------
(* What the rules decide *)

\* The first rule that matches a packet decides.
LEMMA FirstMatch ==
  ASSUME NEW rules, NEW src, NEW dst, NEW i \in Nat, DOMAIN rules \subseteq Nat, i \in DOMAIN rules,
         src \in rules[i].src, dst \in rules[i].dst,
         \A j \in DOMAIN rules : j < i => ~(src \in rules[j].src /\ dst \in rules[j].dst)
  PROVE  Verdict(rules, src, dst) = rules[i].act
<1> DEFINE hits == {j \in DOMAIN rules : src \in rules[j].src /\ dst \in rules[j].dst}
<1>1. i \in hits /\ \A j \in hits : i <= j /\ j \in Nat
  OBVIOUS
<1>2. (CHOOSE k \in hits : \A j \in hits : k <= j) = i
  <2> HIDE DEF hits
  <2> QED
    BY <1>1
<1> QED
  BY <1>1, <1>2 DEF Verdict

\* A packet that no rule matches is left alone.
LEMMA NoMatch ==
  ASSUME NEW rules, NEW src, NEW dst,
         \A j \in DOMAIN rules : ~(src \in rules[j].src /\ dst \in rules[j].dst)
  PROVE  Verdict(rules, src, dst) = "return"
BY DEF Verdict

\* masq_rules_with and masq_rule_texts: the five rules of a node with subnet
\* s, in iptables and in nftables, decide as they should for every packet.
LEMMA RulesDecide ==
  ASSUME table = "nat", NEW s \in Subnets, NEW rules \in {MasqRules(s), NftRules(s)}
  PROVE  /\ \A d \in Subnets : Verdict(rules, s, d) = "return"
         /\ \A p \in Src : Verdict(rules, p, s) = "return"
         /\ Verdict(rules, s, "multicast") = "return"
         /\ Verdict(rules, s, "outside") = "masquerade"
<1>1. /\ DOMAIN rules = 1..5
      /\ rules[1] = TableRule({s}, Subnets, "return")
      /\ rules[2] = TableRule(Subnets, {s}, "return")
      /\ rules[3] \in {TableRule(Src \ Subnets, {s}, "return"), TableRule(Src \ {s}, Subnets, "return")}
      /\ rules[4] = TableRule(Subnets, Dst \ {"multicast"}, "masquerade")
      /\ rules[5] = TableRule(Src \ Subnets, Subnets, "masquerade")
  <2>1. CASE rules = MasqRules(s)
    BY <2>1, SubnetsAssumption DEF MasqRules
  <2>2. CASE rules = NftRules(s)
    BY <2>2, SubnetsAssumption DEF NftRules, MasqRules
  <2> QED
    BY <2>1, <2>2
<1> HIDE DEF Verdict
<1>2. ASSUME NEW d \in Subnets PROVE Verdict(rules, s, d) = "return"
  <2>1. s \in rules[1].src /\ d \in rules[1].dst /\ rules[1].act = "return"
    BY <1>1 DEF TableRule
  <2>2. \A j \in DOMAIN rules : ~(j < 1)
    BY <1>1
  <2> QED
    BY <1>1, <2>1, <2>2, FirstMatch
<1>3. ASSUME NEW p \in Src PROVE Verdict(rules, p, s) = "return"
  <2>1. CASE p = s
    BY <2>1, <1>2
  <2>2. CASE p \in Subnets /\ p # s
    <3>1. p \in rules[2].src /\ s \in rules[2].dst /\ rules[2].act = "return"
      BY <2>2, <1>1 DEF TableRule
    <3>2. \A j \in DOMAIN rules : j < 2 => p \notin rules[j].src
      <4>1. p \notin rules[1].src
        BY <2>2, <1>1 DEF TableRule
      <4> QED
        BY <4>1, <1>1
    <3> QED
      BY <1>1, <3>1, <3>2, FirstMatch
  <2>3. CASE p \notin Subnets
    <3>1. p \in rules[3].src /\ s \in rules[3].dst /\ rules[3].act = "return"
      BY <2>3, <1>1 DEF TableRule
    <3>2. \A j \in DOMAIN rules : j < 3 => p \notin rules[j].src
      <4>1. p \notin rules[1].src /\ p \notin rules[2].src
        BY <2>3, <1>1 DEF TableRule
      <4> QED
        BY <4>1, <1>1
    <3> QED
      BY <1>1, <3>1, <3>2, FirstMatch
  <2> QED
    BY <2>1, <2>2, <2>3
<1>4. Verdict(rules, s, "multicast") = "return"
  <2>1. \A j \in 1..5 : ~(s \in rules[j].src /\ "multicast" \in rules[j].dst)
    <3>1. "multicast" \notin rules[1].dst /\ "multicast" \notin rules[2].dst
      BY <1>1, SubnetsAssumption DEF TableRule
    <3>2. "multicast" \notin rules[3].dst
      BY <1>1, SubnetsAssumption DEF TableRule
    <3>3. "multicast" \notin rules[4].dst /\ s \notin rules[5].src
      BY <1>1, SubnetsAssumption DEF TableRule
    <3> QED
      BY <3>1, <3>2, <3>3
  <2> QED
    BY <1>1, <2>1, NoMatch
<1>5. Verdict(rules, s, "outside") = "masquerade"
  <2>1. s \in rules[4].src /\ "outside" \in rules[4].dst /\ rules[4].act = "masquerade"
    BY <1>1 DEF TableRule, Dst
  <2>2. \A j \in DOMAIN rules : j < 4 => "outside" \notin rules[j].dst
    <3>1. "outside" \notin rules[1].dst /\ "outside" \notin rules[2].dst
      BY <1>1, SubnetsAssumption DEF TableRule
    <3>2. "outside" \notin rules[3].dst
      BY <1>1, SubnetsAssumption DEF TableRule
    <3> QED
      BY <3>1, <3>2, <1>1
  <2> QED
    BY <1>1, <2>1, <2>2, FirstMatch
<1> QED
  BY <1>2, <1>3, <1>4, <1>5

\* The half of MasqDecisions that needs no iptables-restore: with nftables
\* the verdicts are right whenever the manager has set up the table, through
\* restarts with other subnets and switches of the manager.
LEMMA NftDecides == TrafficSpec => [](mode = "nftables" => MasqDecisions)
<1>1. TrafficInv => (mode = "nftables" => MasqDecisions)
  <2> SUFFICES ASSUME TrafficInv, mode = "nftables", SetUp, table = "nat", failures = 0
               PROVE  /\ \A d \in Subnets : Verdict(Masq, subnet, d) = "return"
                      /\ \A s \in Src : Verdict(Masq, s, subnet) = "return"
                      /\ Verdict(Masq, subnet, "multicast") = "return"
                      /\ Verdict(Masq, subnet, "outside") = "masquerade"
    BY DEF MasqDecisions
  <2>1. Masq = NftRules(subnet) /\ subnet \in Subnets
    BY DEF TrafficInv, ModeInv, CleanInv, SetUp, IptablesSteps, NftSteps, Masq
  <2> QED
    BY <2>1, RulesDecide
<1> QED
  BY <1>1, TrafficInvariance, PTL
-----------------------------------------------------------------------------
(* iptables: the rules of the chain stay in order *)

LEMMA Least ==
  ASSUME NEW N \in SUBSET Nat, N # {}
  PROVE  \E x \in N : \A y \in N : x <= y
<1> DEFINE R == {ss \in Nat \X Nat : ss[1] < ss[2]}
<1>1. IsWellFoundedOn(R, Nat)
  BY NatLessThanWellFounded DEF OpToRel
<1>2. \A x, y \in Nat : y < x => <<y, x>> \in R
  OBVIOUS
<1> HIDE DEF R
<1>3. PICK x \in N : \A y \in N : ~(<<y, x>> \in R)
  BY <1>1, WFMin, Zenon
<1>4. ASSUME NEW y \in N PROVE x <= y
  <2>1. x \in Nat /\ y \in Nat /\ ~(<<y, x>> \in R)
    BY <1>3
  <2>2. ~(y < x)
    BY <2>1, <1>2
  <2> QED
    BY <2>1, <2>2
<1> QED
  BY <1>4

Has(c, r) == \E i \in 1..Len(c) : c[i] = r

\* Rule m is in c at most once, and behind every rule that returns.
OnceIn(c, m) == \A i, j \in 1..Len(c) : c[i] = m /\ c[j] = m => i = j
Behind(c, m) == \A i, j \in 1..Len(c) : i < j /\ c[j].act = "return" => c[i] # m

\* c without its element i.
Short(c, i, d) ==
  /\ Len(d) = Len(c) - 1
  /\ \A j \in 1..(Len(c) - 1) : d[j] = IF j < i THEN c[j] ELSE c[j + 1]

LEMMA RemoveFirstLemma ==
  ASSUME NEW S, NEW c \in Seq(S), NEW r
  PROVE  \/ ~Has(c, r) /\ RemoveFirst(c, r) = c
         \/ /\ RemoveFirst(c, r) \in Seq(S)
            /\ \E i \in 1..Len(c) : c[i] = r /\ Short(c, i, RemoveFirst(c, r))
<1>1. CASE ~Has(c, r)
  BY <1>1 DEF Has, RemoveFirst
<1>2. CASE Has(c, r)
  <2> DEFINE I == {i \in 1..Len(c) : c[i] = r}
             n == Len(c)
  <2>1. n \in Nat /\ \A j \in 1..n : c[j] \in S
    BY LenProperties, ElementOfSeq
  <2>2. I # {} /\ I \in SUBSET Nat
    BY <1>2, <2>1 DEF Has
  <2>3. PICK i : i = Min(I)
    OBVIOUS
  <2>4. i \in I
    <3> HIDE DEF I
    <3>1. \E x \in I : \A y \in I : x <= y
      BY <2>2, Least
    <3> QED
      BY <2>3, <3>1 DEF Min
  <2>5. RemoveFirst(c, r) = SubSeq(c, 1, i - 1) \o SubSeq(c, i + 1, n)
    <3>1. SelectInSeq(c, LAMBDA v : v = r) = i
      BY <2>2, <2>3 DEF SelectInSeq
    <3> QED
      BY <1>2, <3>1 DEF Has, RemoveFirst, RemoveAt
  <2> DEFINE a == SubSeq(c, 1, i - 1)
             b == SubSeq(c, i + 1, n)
             d == a \o b
  <2>6. i \in 1..n /\ i \in Nat /\ c[i] = r
    BY <2>1, <2>4
  <2> HIDE DEF I
  <2>7. /\ a \in Seq(S) /\ Len(a) = i - 1
        /\ \A j \in 1..(i - 1) : a[j] = c[j]
    <3>1. \A j \in 1..(i - 1) : c[j] \in S
      BY <2>1, <2>6
    <3> QED
      BY <2>1, <2>6, <3>1, SubSeqProperties
  <2>8. /\ b \in Seq(S) /\ Len(b) = n - i
        /\ \A j \in 1..(n - i) : b[j] = c[i + j]
    <3>1. \A j \in (i + 1)..n : c[j] \in S
      BY <2>1, <2>6
    <3> QED
      BY <2>1, <2>6, <3>1, SubSeqProperties
  <2> HIDE DEF n, a, b
  <2>9. /\ d \in Seq(S) /\ Len(d) = Len(a) + Len(b)
        /\ \A j \in 1..Len(a) + Len(b) : d[j] = IF j <= Len(a) THEN a[j] ELSE b[j - Len(a)]
    BY <2>7, <2>8, ConcatProperties
  <2> HIDE DEF d
  <2>10. /\ Len(d) = n - 1
         /\ \A j \in 1..(n - 1) : d[j] = IF j < i THEN c[j] ELSE c[j + 1]
    BY <2>1, <2>6, <2>7, <2>8, <2>9
  <2>11. Short(c, i, d)
    BY <2>10 DEF Short, n
  <2>12. RemoveFirst(c, r) = d
    BY <2>5 DEF d, a, b
  <2> QED
    BY <2>6, <2>9, <2>11, <2>12 DEF n
<1> QED
  BY <1>1, <1>2

\* What deleting a rule r leaves of another one, and of itself.
LEMMA DeleteLemma ==
  ASSUME NEW S, NEW c \in Seq(S), NEW r, NEW m
  PROVE  LET d == RemoveFirst(c, r)
         IN  /\ d \in Seq(S)
             /\ OnceIn(c, m) => OnceIn(d, m)
             /\ Behind(c, m) => Behind(d, m)
             /\ Has(d, m) => Has(c, m)
             /\ m # r /\ Has(c, m) => Has(d, m)
             /\ OnceIn(c, r) => ~Has(d, r)
<1>1. PICK d : d = RemoveFirst(c, r)
  OBVIOUS
<1>2. CASE ~Has(c, r) /\ d = c
  BY <1>1, <1>2
<1>3. CASE d \in Seq(S) /\ \E i \in 1..Len(c) : c[i] = r /\ Short(c, i, d)
  <2>1. PICK i \in 1..Len(c) : c[i] = r /\ Short(c, i, d)
    BY <1>3
  <2>2. PICK n \in Nat : n = Len(c)
    BY LenProperties
  <2>3. /\ Len(d) = n - 1 /\ i \in 1..n
        /\ \A j \in 1..(n - 1) : d[j] = IF j < i THEN c[j] ELSE c[j + 1]
    BY <2>1, <2>2 DEF Short
  <2>4. OnceIn(c, m) => OnceIn(d, m)
    BY <2>2, <2>3 DEF OnceIn
  <2>5. Behind(c, m) => Behind(d, m)
    BY <2>2, <2>3 DEF Behind
  <2>6. ASSUME Has(d, m) PROVE Has(c, m)
    BY <2>2, <2>3, <2>6 DEF Has
  <2>7. ASSUME m # r, Has(c, m) PROVE Has(d, m)
    <3>1. PICK k \in 1..n : c[k] = m
      BY <2>2, <2>7 DEF Has
    <3>2. k # i
      BY <2>1, <2>7, <3>1
    <3>3. CASE k < i
      <4>1. k \in 1..(n - 1) /\ d[k] = m
        BY <2>3, <3>1, <3>3
      <4> QED
        BY <2>3, <4>1 DEF Has
    <3>4. CASE k > i
      <4>1. k - 1 \in 1..(n - 1) /\ d[k - 1] = m
        BY <2>3, <3>1, <3>4
      <4> QED
        BY <2>3, <4>1 DEF Has
    <3> QED
      BY <2>3, <3>1, <3>2, <3>3, <3>4
  <2>8. ASSUME OnceIn(c, r) PROVE ~Has(d, r)
    <3> SUFFICES ASSUME NEW j \in 1..(n - 1), d[j] = r PROVE FALSE
      BY <2>3 DEF Has
    <3>1. PICK k \in 1..n : k # i /\ c[k] = r
      BY <2>2, <2>3
    <3> QED
      BY <2>1, <2>2, <2>8, <3>1 DEF OnceIn
  <2> QED
    BY <1>1, <1>3, <2>4, <2>5, <2>6, <2>7, <2>8
<1> QED
  BY <1>1, <1>2, <1>3, RemoveFirstLemma

\* What appending r does.
LEMMA AddLemma ==
  ASSUME NEW S, NEW c \in Seq(S), NEW r \in S, NEW m
  PROVE  LET d == Append(c, r)
         IN  /\ d \in Seq(S)
             /\ Has(d, m) <=> Has(c, m) \/ m = r
             /\ OnceIn(c, m) /\ (m = r => ~Has(c, m)) => OnceIn(d, m)
             /\ Behind(c, m) /\ r.act # "return" => Behind(d, m)
             /\ ~Has(c, r) /\ r.act # "return" => Behind(d, r)
<1> DEFINE d == Append(c, r)
<1>1. PICK n \in Nat : n = Len(c)
  BY LenProperties
<1>2. /\ d \in Seq(S) /\ Len(d) = n + 1
      /\ \A j \in 1..(n + 1) : d[j] = IF j = n + 1 THEN r ELSE c[j]
  BY <1>1, AppendProperties
<1> HIDE DEF d
<1>3. Has(d, m) <=> Has(c, m) \/ m = r
  <2>1. ASSUME Has(d, m) PROVE Has(c, m) \/ m = r
    BY <1>1, <1>2, <2>1 DEF Has
  <2>2. ASSUME m = r PROVE Has(d, m)
    BY <1>1, <1>2, <2>2 DEF Has
  <2>3. ASSUME Has(c, m) PROVE Has(d, m)
    <3>1. PICK j \in 1..n : c[j] = m
      BY <1>1, <2>3 DEF Has
    <3>2. j \in 1..(n + 1) /\ d[j] = m
      BY <1>2, <3>1
    <3> QED
      BY <1>2, <3>2 DEF Has
  <2> QED
    BY <2>1, <2>2, <2>3
<1>4. ASSUME OnceIn(c, m), m = r => ~Has(c, m) PROVE OnceIn(d, m)
  BY <1>1, <1>2, <1>4 DEF OnceIn, Has
<1>5. ASSUME Behind(c, m), r.act # "return" PROVE Behind(d, m)
  BY <1>1, <1>2, <1>5 DEF Behind
<1>6. ASSUME ~Has(c, r), r.act # "return" PROVE Behind(d, r)
  BY <1>1, <1>2, <1>6 DEF Behind, Has
<1> QED
  BY <1>2, <1>3, <1>4, <1>5, <1>6 DEF d

\* The rules of subnet s that masquerade, and all of them.
MasqOf(s) == {MasqRules(s)[4], MasqRules(s)[5]}
RulesOf(s) == {MasqRules(s)[i] : i \in 1..5}

\* Only rules of subnet s, each that masquerades once and behind those that
\* return.
Ordered(c, s) ==
  /\ c \in Seq(RulesOf(s))
  /\ \A m \in MasqOf(s) : OnceIn(c, m) /\ Behind(c, m)

LEMMA RulesLemma ==
  ASSUME NEW s \in Subnets
  PROVE  /\ MasqRules(s)[1] = TableRule({s}, Subnets, "return")
         /\ MasqRules(s)[2] = TableRule(Subnets, {s}, "return")
         /\ MasqRules(s)[3] = TableRule(Src \ Subnets, {s}, "return")
         /\ MasqRules(s)[4] = TableRule(Subnets, Dst \ {"multicast"}, "masquerade")
         /\ MasqRules(s)[5] = TableRule(Src \ Subnets, Subnets, "masquerade")
         /\ MasqRules(s)[4] # MasqRules(s)[5]
         /\ \A i \in 1..3 : MasqRules(s)[i] \notin MasqOf(s) /\ MasqRules(s)[i].act = "return"
         /\ \A m \in MasqOf(s) : m.act = "masquerade"
         /\ \A r \in RulesOf(s) : r # Jump
<1>1. /\ MasqRules(s)[1] = TableRule({s}, Subnets, "return")
      /\ MasqRules(s)[2] = TableRule(Subnets, {s}, "return")
      /\ MasqRules(s)[3] = TableRule(Src \ Subnets, {s}, "return")
      /\ MasqRules(s)[4] = TableRule(Subnets, Dst \ {"multicast"}, "masquerade")
      /\ MasqRules(s)[5] = TableRule(Src \ Subnets, Subnets, "masquerade")
  BY SubnetsAssumption DEF MasqRules
<1>2. MasqRules(s)[4].src # MasqRules(s)[5].src
  BY <1>1 DEF TableRule
<1>3. /\ \A i \in 1..3 : MasqRules(s)[i].act = "return"
      /\ MasqRules(s)[4].act = "masquerade" /\ MasqRules(s)[5].act = "masquerade"
  BY <1>1 DEF TableRule
<1>4. Jump.act = "jump"
  BY DEF Jump, TableRule
<1>5. \A r \in RulesOf(s) : r.act \in {"return", "masquerade"}
  BY <1>3 DEF RulesOf
<1> QED
  BY <1>1, <1>2, <1>3, <1>4, <1>5 DEF MasqOf

\* Deleting a rule leaves the rules in order.
LEMMA DeleteOrdered ==
  ASSUME NEW s, NEW c, Ordered(c, s), NEW r
  PROVE  Ordered(RemoveFirst(c, r), s)
BY DeleteLemma DEF Ordered

LEMMA EmptyOrdered == ASSUME NEW s PROVE Ordered(<<>>, s)
BY DEF Ordered, OnceIn, Behind

\* A chain in order that has all the rules decides as it should: the first
\* rule to match a packet that some returning rule matches returns.
LEMMA OrderedDecides ==
  ASSUME NEW s \in Subnets, NEW c, Ordered(c, s), \A i \in 1..5 : Has(c, MasqRules(s)[i])
  PROVE  /\ \A d \in Subnets : Verdict(c, s, d) = "return"
         /\ \A p \in Src : Verdict(c, p, s) = "return"
         /\ Verdict(c, s, "multicast") = "return"
         /\ Verdict(c, s, "outside") = "masquerade"
<1>1. c \in Seq(RulesOf(s)) /\ Len(c) \in Nat /\ DOMAIN c = 1..Len(c)
      /\ \A i \in 1..Len(c) : c[i] \in RulesOf(s)
  BY LenProperties, ElementOfSeq DEF Ordered
<1>2. /\ MasqRules(s)[1] = TableRule({s}, Subnets, "return")
      /\ MasqRules(s)[2] = TableRule(Subnets, {s}, "return")
      /\ MasqRules(s)[3] = TableRule(Src \ Subnets, {s}, "return")
      /\ MasqRules(s)[4] = TableRule(Subnets, Dst \ {"multicast"}, "masquerade")
      /\ MasqRules(s)[5] = TableRule(Src \ Subnets, Subnets, "masquerade")
  BY RulesLemma
<1>3. \A r \in RulesOf(s) : r \in MasqOf(s) \/ \E i \in 1..3 : r = MasqRules(s)[i]
  BY DEF RulesOf, MasqOf
<1>4. /\ \A i \in 1..3 : MasqRules(s)[i].act = "return"
      /\ \A m \in MasqOf(s) : m.act = "masquerade"
  BY RulesLemma
<1>5. \A r \in RulesOf(s) : r \notin MasqOf(s) => r.act = "return"
  BY <1>3, <1>4
<1>6. ASSUME NEW src, NEW dst, NEW i \in 1..Len(c), src \in c[i].src, dst \in c[i].dst
      PROVE  \E k \in 1..Len(c) : /\ src \in c[k].src /\ dst \in c[k].dst /\ k <= i
                                  /\ Verdict(c, src, dst) = c[k].act
  <2> DEFINE hits == {j \in 1..Len(c) : src \in c[j].src /\ dst \in c[j].dst}
  <2>1. hits \in SUBSET Nat /\ hits # {} /\ i \in hits
    BY <1>1, <1>6
  <2>2. PICK k \in hits : \A j \in hits : k <= j
    <3> HIDE DEF hits
    <3> QED
      BY <2>1, Least
  <2>3. /\ k \in Nat /\ k \in DOMAIN c /\ DOMAIN c \subseteq Nat /\ src \in c[k].src /\ dst \in c[k].dst
        /\ \A j \in DOMAIN c : j < k => ~(src \in c[j].src /\ dst \in c[j].dst)
    BY <1>1, <2>2
  <2>4. Verdict(c, src, dst) = c[k].act
    BY <2>3, FirstMatch
  <2> QED
    BY <1>1, <2>1, <2>2, <2>3, <2>4
<1>7. ASSUME NEW src, NEW dst, NEW r, NEW x \in 1..3, r = MasqRules(s)[x], src \in r.src, dst \in r.dst
      PROVE  Verdict(c, src, dst) = "return"
  <2>1. PICK i \in 1..Len(c) : c[i] = r
    BY <1>7 DEF Has
  <2>2. PICK k \in 1..Len(c) : k <= i /\ Verdict(c, src, dst) = c[k].act
    BY <1>6, <1>7, <2>1
  <2>3. c[i].act = "return"
    BY <1>4, <1>7, <2>1
  <2>4. CASE k = i
    BY <2>2, <2>3, <2>4
  <2>5. CASE k < i
    <3>1. c[k] \notin MasqOf(s)
      BY <2>3, <2>5 DEF Ordered, Behind
    <3> QED
      BY <1>1, <1>5, <2>2, <3>1
  <2> QED
    BY <1>1, <2>2, <2>4, <2>5
<1>8. ASSUME NEW d \in Subnets PROVE Verdict(c, s, d) = "return"
  <2>1. s \in MasqRules(s)[1].src /\ d \in MasqRules(s)[1].dst
    BY <1>2 DEF TableRule
  <2> QED
    BY <1>7, <2>1
<1>9. ASSUME NEW p \in Src PROVE Verdict(c, p, s) = "return"
  <2>1. CASE p \in Subnets
    <3>1. p \in MasqRules(s)[2].src /\ s \in MasqRules(s)[2].dst
      BY <1>2, <2>1 DEF TableRule
    <3> QED
      BY <1>7, <3>1
  <2>2. CASE p \notin Subnets
    <3>1. p \in MasqRules(s)[3].src /\ s \in MasqRules(s)[3].dst
      BY <1>2, <2>2 DEF TableRule
    <3> QED
      BY <1>7, <3>1
  <2> QED
    BY <2>1, <2>2
<1>10. Verdict(c, s, "multicast") = "return"
  <2>1. \A j \in 1..5 : ~(s \in MasqRules(s)[j].src /\ "multicast" \in MasqRules(s)[j].dst)
    <3>1. /\ "multicast" \notin MasqRules(s)[1].dst /\ "multicast" \notin MasqRules(s)[2].dst
          /\ "multicast" \notin MasqRules(s)[3].dst
      BY <1>2, SubnetsAssumption DEF TableRule
    <3>2. "multicast" \notin MasqRules(s)[4].dst /\ s \notin MasqRules(s)[5].src
      BY <1>2, SubnetsAssumption DEF TableRule
    <3> QED
      BY <3>1, <3>2
  <2>2. \A j \in DOMAIN c : ~(s \in c[j].src /\ "multicast" \in c[j].dst)
    BY <1>1, <2>1 DEF RulesOf
  <2> QED
    BY <2>2, NoMatch
<1>11. Verdict(c, s, "outside") = "masquerade"
  <2>1. s \in MasqRules(s)[4].src /\ "outside" \in MasqRules(s)[4].dst
    BY <1>2 DEF TableRule, Dst
  <2>2. PICK i \in 1..Len(c) : c[i] = MasqRules(s)[4]
    BY DEF Has
  <2>3. PICK k \in 1..Len(c) : "outside" \in c[k].dst /\ Verdict(c, s, "outside") = c[k].act
    BY <1>6, <2>1, <2>2
  <2>4. \A x \in 1..3 : "outside" \notin MasqRules(s)[x].dst
    <3>1. /\ "outside" \notin MasqRules(s)[1].dst /\ "outside" \notin MasqRules(s)[2].dst
          /\ "outside" \notin MasqRules(s)[3].dst
      BY <1>2, SubnetsAssumption DEF TableRule
    <3> QED
      BY <3>1
  <2>5. c[k] \in MasqOf(s)
    BY <1>1, <1>3, <2>3, <2>4
  <2> QED
    BY <1>4, <2>3, <2>5
<1> QED
  BY <1>8, <1>9, <1>10, <1>11

\* What iptables-restore does to flannel's chain for one rule of it.
Moved(c, r, del) == Append(IF r \in del THEN RemoveFirst(c, r) ELSE c, r)

\* Tables whose chain is c.
Tabled(k, c) == \E h : k = [hook |-> h, chain |-> c]

LEMMA RestoreRuleLemma ==
  ASSUME NEW k, NEW c, Tabled(k, c), NEW r, NEW del
  PROVE  /\ r = Jump => Tabled(RestoreRule(k, r, del), c)
         /\ r # Jump => Tabled(RestoreRule(k, r, del), Moved(c, r, del))
<1>1. PICK h : k = [hook |-> h, chain |-> c]
  BY DEF Tabled
<1>2. ASSUME r = Jump PROVE Tabled(RestoreRule(k, r, del), c)
  BY <1>1, <1>2 DEF Tabled, RestoreRule, AppendRule, DeleteRule
<1>3. ASSUME r # Jump PROVE Tabled(RestoreRule(k, r, del), Moved(c, r, del))
  BY <1>1, <1>3 DEF Tabled, RestoreRule, AppendRule, DeleteRule, Moved
<1> QED
  BY <1>2, <1>3

\* A rule that returns is moved to the end: the others keep what they have.
LEMMA MovedReturn ==
  ASSUME NEW S, NEW c \in Seq(S), NEW r \in S, NEW del, NEW m, m # r
  PROVE  LET d == Moved(c, r, del)
         IN  /\ d \in Seq(S)
             /\ Has(d, m) <=> Has(c, m)
             /\ OnceIn(c, m) => OnceIn(d, m)
             /\ Behind(c, m) /\ r.act # "return" => Behind(d, m)
<1>1. PICK e : e = IF r \in del THEN RemoveFirst(c, r) ELSE c
  OBVIOUS
<1>2. /\ e \in Seq(S)
      /\ Has(e, m) <=> Has(c, m)
      /\ OnceIn(c, m) => OnceIn(e, m)
      /\ Behind(c, m) => Behind(e, m)
  BY <1>1, DeleteLemma
<1> QED
  BY <1>1, <1>2, AddLemma DEF Moved

\* A rule that masquerades ends up once, at the end.
LEMMA MovedMasq ==
  ASSUME NEW S, NEW c \in Seq(S), NEW r \in S, NEW del, r.act # "return",
         OnceIn(c, r), r \notin del => ~Has(c, r)
  PROVE  OnceIn(Moved(c, r, del), r) /\ Behind(Moved(c, r, del), r)
<1>1. PICK e : e = IF r \in del THEN RemoveFirst(c, r) ELSE c
  OBVIOUS
<1>2. e \in Seq(S) /\ ~Has(e, r) /\ OnceIn(e, r)
  BY <1>1, DeleteLemma
<1> QED
  BY <1>1, <1>2, AddLemma DEF Moved

\* The list that is looked through and restored.
LEMMA RuleListLemma ==
  ASSUME table = "nat", NEW s
  PROVE  /\ Len(Rules(s)) = 6 /\ Rules(s)[1] = Jump
         /\ Rules(s)[2] = MasqRules(s)[1] /\ Rules(s)[3] = MasqRules(s)[2]
         /\ Rules(s)[4] = MasqRules(s)[3] /\ Rules(s)[5] = MasqRules(s)[4]
         /\ Rules(s)[6] = MasqRules(s)[5]
<1>1. PICK r1, r2, r3, r4, r5 :
        /\ r1 = MasqRules(s)[1] /\ r2 = MasqRules(s)[2] /\ r3 = MasqRules(s)[3]
        /\ r4 = MasqRules(s)[4] /\ r5 = MasqRules(s)[5]
  OBVIOUS
<1>2. PICK q, j : q = MasqRules(s) /\ j = Jump
  OBVIOUS
<1>3. q = <<r1, r2, r3, r4, r5>>
  BY <1>1, <1>2 DEF MasqRules
<1>4. Rules(s) = <<j>> \o q
  BY <1>2 DEF Rules, ChainRules
<1> DEFINE A == {j, r1, r2, r3, r4, r5}
<1>5. <<j>> \in Seq(A) /\ q \in Seq(A) /\ Len(<<j>>) = 1 /\ Len(q) = 5
  BY <1>3
<1> HIDE DEF A
<1>6. PICK p : p = <<j>>
  OBVIOUS
<1>7. p \in Seq(A) /\ Len(p) = 1 /\ p[1] = j
  BY <1>5, <1>6
<1>8. /\ Len(p \o q) = 6
      /\ \A i \in 1..6 : (p \o q)[i] = IF i <= 1 THEN p[i] ELSE q[i - 1]
  <2>1. q \in Seq(A) /\ Len(q) = 5
    BY <1>5
  <2>2. /\ Len(p \o q) = Len(p) + Len(q)
        /\ \A i \in 1..Len(p) + Len(q) : (p \o q)[i] = IF i <= Len(p) THEN p[i] ELSE q[i - Len(p)]
    BY <1>7, <2>1, ConcatProperties
  <2>3. Len(p) + Len(q) = 6
    BY <1>7, <2>1
  <2> QED
    BY <1>7, <2>2, <2>3
<1>9. Rules(s) = p \o q
  BY <1>4, <1>6
<1> QED
  BY <1>2, <1>7, <1>8, <1>9

\* The transaction as a whole, from rules in order whose masquerading ones
\* are all deleted first, to rules in order.
LEMMA RestoreOrdered ==
  ASSUME table = "nat", subnet \in Subnets, Ordered(chain, subnet), NEW del,
         \A m \in MasqOf(subnet) : m \notin del => ~Has(chain, m)
  PROVE  Ordered(Restore(Rules(subnet), del).chain, subnet)
<1>1. PICK s, c0, h0 : s = subnet /\ c0 = chain /\ h0 = hook
  OBVIOUS
<1>2. PICK add : add = Rules(s)
  OBVIOUS
<1>3. PICK r1, r2, r3, r4, r5 :
        /\ r1 = MasqRules(s)[1] /\ r2 = MasqRules(s)[2] /\ r3 = MasqRules(s)[3]
        /\ r4 = MasqRules(s)[4] /\ r5 = MasqRules(s)[5]
  OBVIOUS
<1>4. r1 \in RulesOf(s) /\ r2 \in RulesOf(s) /\ r3 \in RulesOf(s) /\ r4 \in RulesOf(s)
      /\ r5 \in RulesOf(s)
  BY <1>3 DEF RulesOf
<1>5. Len(add) = 6 /\ add[1] = Jump /\ add[2] = r1 /\ add[3] = r2 /\ add[4] = r3 /\ add[5] = r4
      /\ add[6] = r5
  BY <1>1, <1>2, <1>3, RuleListLemma
<1>6. r1 # Jump /\ r2 # Jump /\ r3 # Jump /\ r4 # Jump /\ r5 # Jump
  BY <1>1, <1>4, RulesLemma
<1> DEFINE R(k, r) == RestoreRule(k, r, del)
           k0 == [hook |-> h0, chain |-> c0]
<1>7. PICK k1 : k1 = R(k0, Jump)
  OBVIOUS
<1>8. PICK k2 : k2 = R(k1, r1)
  OBVIOUS
<1>9. PICK k3 : k3 = R(k2, r2)
  OBVIOUS
<1>10. PICK k4 : k4 = R(k3, r3)
  OBVIOUS
<1>11. PICK k5 : k5 = R(k4, r4)
  OBVIOUS
<1>12. PICK k6 : k6 = R(k5, r5)
  OBVIOUS
<1>13. Restore(add, del) = k6
  <2> HIDE DEF R, k0
  <2> DEFINE F(f, i) == IF i = 0 THEN k0 ELSE R(f[i - 1], add[i])
             g == [i \in 0..6 |-> IF i = 0 THEN k0 ELSE IF i = 1 THEN k1 ELSE IF i = 2 THEN k2
                                  ELSE IF i = 3 THEN k3 ELSE IF i = 4 THEN k4 ELSE IF i = 5 THEN k5
                                  ELSE k6]
             run == CHOOSE f : f = [i \in 0..6 |-> F(f, i)]
  <2>1. /\ g[0] = k0 /\ g[1] = k1 /\ g[2] = k2 /\ g[3] = k3 /\ g[4] = k4 /\ g[5] = k5 /\ g[6] = k6
    OBVIOUS
  <2>2. g = [i \in 0..6 |-> g[i]]
    OBVIOUS
  <2> HIDE DEF g
  <2>3. ASSUME NEW i \in 0..6 PROVE g[i] = F(g, i)
    <3>1. i \in {0, 1, 2, 3, 4, 5, 6}
      OBVIOUS
    <3> QED
      BY <1>5, <1>7, <1>8, <1>9, <1>10, <1>11, <1>12, <2>1, <3>1
  <2>4. g = [i \in 0..6 |-> F(g, i)]
    BY <2>2, <2>3
  <2>5. run = [i \in 0..6 |-> F(run, i)]
    <3> HIDE DEF F
    <3> QED
      BY <2>4
  <2> HIDE DEF run
  <2>6. run[0] = k0
    BY <2>5
  <2>7. \A i \in 1..6 : run[i] = R(run[i - 1], add[i])
    BY <2>5
  <2>8. run[1] = k1 /\ run[2] = R(run[1], r1) /\ run[3] = R(run[2], r2)
        /\ run[4] = R(run[3], r3) /\ run[5] = R(run[4], r4) /\ run[6] = R(run[5], r5)
    BY <1>5, <1>7, <2>6, <2>7
  <2>9. run[6] = k6
    BY <1>8, <1>9, <1>10, <1>11, <1>12, <2>8
  <2>10. Restore(add, del) = run[6]
    BY <1>1, <1>5 DEF Restore, run, F, R, k0
  <2> QED
    BY <2>9, <2>10
<1>14. Tabled(k1, c0)
  <2>1. Tabled(k0, c0)
    BY DEF Tabled
  <2> HIDE DEF k0
  <2> QED
    BY <1>7, <2>1, RestoreRuleLemma
<1> HIDE DEF k0
<1>15. PICK c1 : c1 = Moved(c0, r1, del) /\ Tabled(k2, c1)
  BY <1>6, <1>8, <1>14, RestoreRuleLemma
<1>16. PICK c2 : c2 = Moved(c1, r2, del) /\ Tabled(k3, c2)
  BY <1>6, <1>9, <1>15, RestoreRuleLemma
<1>17. PICK c3 : c3 = Moved(c2, r3, del) /\ Tabled(k4, c3)
  BY <1>6, <1>10, <1>16, RestoreRuleLemma
<1>18. PICK c4 : c4 = Moved(c3, r4, del) /\ Tabled(k5, c4)
  BY <1>6, <1>11, <1>17, RestoreRuleLemma
<1>19. PICK c5 : c5 = Moved(c4, r5, del) /\ Tabled(k6, c5)
  BY <1>6, <1>12, <1>18, RestoreRuleLemma
<1>20. PICK S : S = RulesOf(s)
  OBVIOUS
<1>21. r1 \in S /\ r2 \in S /\ r3 \in S /\ r4 \in S /\ r5 \in S
  BY <1>4, <1>20
<1>22. /\ MasqOf(s) = {r4, r5} /\ r4 # r5 /\ r4.act # "return" /\ r5.act # "return"
       /\ \A m \in {r4, r5} : m # r1 /\ m # r2 /\ m # r3
  <2>1. \A i \in 1..3 : MasqRules(s)[i] \notin MasqOf(s)
    BY <1>1, RulesLemma
  <2>2. MasqOf(s) = {r4, r5}
    BY <1>3 DEF MasqOf
  <2>3. r1 \notin MasqOf(s) /\ r2 \notin MasqOf(s) /\ r3 \notin MasqOf(s)
    BY <1>3, <2>1
  <2>4. r4 # r5 /\ \A m \in MasqOf(s) : m.act # "return"
    BY <1>1, <1>3, RulesLemma
  <2> QED
    BY <2>2, <2>3, <2>4
<1>23. c0 \in Seq(S) /\ \A m \in {r4, r5} : OnceIn(c0, m) /\ (m \notin del => ~Has(c0, m))
  BY <1>1, <1>20, <1>22 DEF Ordered
<1>24. c1 \in Seq(S) /\ \A m \in {r4, r5} : OnceIn(c1, m) /\ (m \notin del => ~Has(c1, m))
  BY <1>15, <1>21, <1>22, <1>23, MovedReturn
<1>25. c2 \in Seq(S) /\ \A m \in {r4, r5} : OnceIn(c2, m) /\ (m \notin del => ~Has(c2, m))
  BY <1>16, <1>21, <1>22, <1>24, MovedReturn
<1>26. c3 \in Seq(S) /\ \A m \in {r4, r5} : OnceIn(c3, m) /\ (m \notin del => ~Has(c3, m))
  BY <1>17, <1>21, <1>22, <1>25, MovedReturn
<1>27. /\ c4 \in Seq(S) /\ OnceIn(c4, r4) /\ Behind(c4, r4)
       /\ OnceIn(c4, r5) /\ (r5 \notin del => ~Has(c4, r5))
  <2>1. OnceIn(c4, r4) /\ Behind(c4, r4)
    BY <1>18, <1>21, <1>22, <1>26, MovedMasq
  <2>2. c4 \in Seq(S) /\ OnceIn(c4, r5) /\ (r5 \notin del => ~Has(c4, r5))
    BY <1>18, <1>21, <1>22, <1>26, MovedReturn
  <2> QED
    BY <2>1, <2>2
<1>28. c5 \in Seq(S) /\ \A m \in {r4, r5} : OnceIn(c5, m) /\ Behind(c5, m)
  <2>1. OnceIn(c5, r5) /\ Behind(c5, r5)
    BY <1>19, <1>21, <1>22, <1>27, MovedMasq
  <2>2. c5 \in Seq(S) /\ OnceIn(c5, r4) /\ Behind(c5, r4)
    BY <1>19, <1>21, <1>22, <1>27, MovedReturn
  <2> QED
    BY <2>1, <2>2
<1>29. Ordered(c5, s)
  BY <1>20, <1>22, <1>28 DEF Ordered
<1>30. Restore(Rules(subnet), del).chain = c5
  BY <1>1, <1>2, <1>13, <1>19 DEF Tabled
<1> QED
  BY <1>1, <1>29, <1>30

-----------------------------------------------------------------------------
(* The steps of the iptables manager *)

ChainSteps == {"build", "written", "resync"}

\* A rule that has been looked for in this pass and not found is not there:
\* nobody else adds it.
Unseen(i, m) == idx > i /\ m \notin seen => chain = Missing \/ ~Has(chain, m)

\* From the moment create_chain has made or flushed it, the chain is in
\* order.
ChainInv ==
  /\ pc \in {"clean", "recycle", "create"} => idx = 1
  /\ failures = 0 /\ table = "nat" /\ mode = "iptables" /\ pc \in ChainSteps =>
       /\ chain = Missing \/ Ordered(chain, subnet)
       /\ pc = "build" => /\ idx \in Nat
                          /\ Unseen(5, MasqRules(subnet)[4])
                          /\ Unseen(6, MasqRules(subnet)[5])

\* A look at rule i adds it to those seen if the chain has it.
LEMMA LookSees ==
  ASSUME table = "nat", subnet \in Subnets, AskRule(Rules(subnet)[idx]), idx \in Nat,
         NEW i \in {5, 6}, NEW m, m = Rules(subnet)[i], m # Jump, Unseen(i, m)
  PROVE  Unseen(i, m)'
<1>1. /\ idx' = idx + 1 /\ chain' = chain
      /\ seen' = IF Exists(Rules(subnet)[idx]) THEN seen \cup {Rules(subnet)[idx]} ELSE seen
  BY DEF AskRule
<1> SUFFICES ASSUME idx' > i, m \notin seen', Has(chain', m), chain' # Missing PROVE FALSE
  BY DEF Unseen
<1>3. chain # Missing /\ chain' = chain
  BY <1>1
<1>4. m \notin seen
  BY <1>1
<1>5. CASE idx > i
  BY <1>3, <1>4, <1>5 DEF Unseen
<1>6. CASE idx = i
  <2>1. Exists(m)
    BY <1>3 DEF Exists, Contains, Has
  <2> QED
    BY <1>1, <1>6, <2>1
<1> QED
  BY <1>1, <1>5, <1>6

LEMMA ChainStep ==
  ASSUME TrafficInv, ChainInv, [TrafficNext]_trafficVars
  PROVE  ChainInv'
<1> USE DEF ChainSteps
<1>0. /\ failures \in Nat /\ subnet \in Subnets /\ mode \in {"iptables", "nftables"}
      /\ pc \in {"nft", "cleanDelete", "idle"} => mode = "nftables"
      /\ pc \in {"recycle", "tearCheck", "create", "build", "resync"} => mode = "iptables"
  BY DEF TrafficInv, ModeInv, IptablesSteps, NftSteps
<1>1. CASE CleanUp
  BY <1>1 DEF CleanUp, ChainInv, config, look
<1>2. CASE CleanDelete \/ NftSetup
  BY <1>0, <1>2 DEF CleanDelete, NftSetup, Goto, ChainInv, config
<1>3. CASE Recycle
  BY <1>3 DEF Recycle, ChainInv, config, look
<1>4. CASE TearCheck
  <2>1. pc = "tearCheck" /\ pc' \in {"tearCheck", "dead"}
    BY <1>4, LookLemma DEF TearCheck
  <2> QED
    BY <2>1 DEF ChainInv
<1>5. CASE TearApply
  BY <1>5 DEF TearApply, Reset, ChainInv
<1>6. CASE CreateChain
  <2>1. pc = "create" /\ pc' \in {"build", "gaveUp"} /\ idx = 1 /\ idx' = 1 /\ UNCHANGED subnet
    BY <1>6 DEF CreateChain, ChainInv, config, look
  <2>2. failures' = 0 => chain' = <<>>
    BY <1>0, <1>6 DEF CreateChain, Failure
  <2>3. failures' = 0 => Ordered(chain', subnet')
    BY <2>1, <2>2, EmptyOrdered
  <2>4. \A i \in {5, 6} : ~(idx' > i)
    BY <2>1
  <2> QED
    BY <2>1, <2>3, <2>4 DEF ChainInv, Unseen
<1>7. CASE Build
  <2>1. pc = "build" /\ UNCHANGED <<table, mode, subnet>>
    BY <1>7, LookLemma DEF Build
  <2>2. CASE Failure
    <3>1. failures' # 0 /\ pc' \notin {"clean", "recycle", "create"}
      <4>1. pc' \in {"build", "written"}
        BY <1>7, <2>1, LookLemma DEF Build
      <4> QED
        BY <1>0, <2>2, <4>1 DEF Failure
    <3> QED
      BY <3>1 DEF ChainInv
  <2>3. CASE /\ AskChain(TRUE) \/ AskClear \/ AskRule(Rules(subnet)[idx])
             /\ UNCHANGED <<pc, failures>>
    <3> SUFFICES ASSUME failures = 0, table = "nat", mode = "iptables"
                 PROVE  /\ chain' = Missing \/ Ordered(chain', subnet)
                        /\ idx' \in Nat
                        /\ Unseen(5, MasqRules(subnet)[4])'
                        /\ Unseen(6, MasqRules(subnet)[5])'
      BY <2>1, <2>3 DEF ChainInv
    <3>1. /\ chain = Missing \/ Ordered(chain, subnet)
          /\ idx \in Nat /\ Unseen(5, MasqRules(subnet)[4]) /\ Unseen(6, MasqRules(subnet)[5])
      BY <2>1 DEF ChainInv
    <3>2. PICK r4, r5 : r4 = MasqRules(subnet)[4] /\ r5 = MasqRules(subnet)[5]
      OBVIOUS
    <3>3. MasqRules(subnet)' = MasqRules(subnet)
      BY <2>1 DEF MasqRules
    <3>4. chain' = Missing \/ Ordered(chain', subnet)
      BY <2>3, <3>1, EmptyOrdered DEF AskChain, AskClear, AskRule
    <3>5. idx' \in Nat
      BY <2>3, <3>1 DEF AskChain, AskClear, AskRule
    <3>6. Unseen(5, r4)' /\ Unseen(6, r5)'
      <4>1. CASE AskChain(TRUE)
        BY <3>1, <3>2, <4>1 DEF AskChain, Unseen
      <4>2. CASE AskClear
        <5>1. \A m : ~Has(<<>>, m)
          BY DEF Has
        <5> QED
          BY <4>2, <5>1 DEF AskClear, Unseen
      <4>3. CASE AskRule(Rules(subnet)[idx])
        <5>1. r4 # Jump /\ r5 # Jump
          <6>1. r4 \in RulesOf(subnet) /\ r5 \in RulesOf(subnet)
            BY <3>2 DEF RulesOf
          <6> QED
            BY <1>0, <6>1, RulesLemma
        <5>2. r4 = Rules(subnet)[5] /\ r5 = Rules(subnet)[6]
          BY <3>2, RuleListLemma
        <5> QED
          BY <1>0, <3>1, <3>2, <4>3, <5>1, <5>2, LookSees
      <4> QED
        BY <2>3, <4>1, <4>2, <4>3
    <3> QED
      BY <3>2, <3>3, <3>4, <3>5, <3>6
  <2> QED
    BY <1>7, <2>2, <2>3 DEF Build, LookAt
<1>8. CASE Apply
  <2>1. pc = "build" /\ pc' = "written" /\ UNCHANGED <<table, mode, subnet>>
        /\ idx > Len(Rules(subnet))
    BY <1>8 DEF Apply, Reset, config
  <2> SUFFICES ASSUME failures' = 0, table = "nat", mode = "iptables"
               PROVE  chain' = Missing \/ Ordered(chain', subnet)
    BY <2>1 DEF ChainInv
  <2>2. /\ failures = 0
        /\ \/ Applies(seen) /\ chain' = Restore(Rules(subnet), seen).chain
           \/ UNCHANGED chain
    BY <1>0, <1>8 DEF Apply, Failure
  <2>3. /\ chain = Missing \/ Ordered(chain, subnet)
        /\ idx \in Nat /\ Unseen(5, MasqRules(subnet)[4]) /\ Unseen(6, MasqRules(subnet)[5])
    BY <2>1, <2>2 DEF ChainInv
  <2>4. CASE Applies(seen) /\ chain' = Restore(Rules(subnet), seen).chain
    <3>1. chain # Missing /\ Ordered(chain, subnet)
      BY <2>3, <2>4 DEF Applies
    <3>2. idx > 6 /\ idx > 5
      BY <2>1, <2>3, RuleListLemma
    <3>3. \A m \in MasqOf(subnet) : m \notin seen => ~Has(chain, m)
      BY <2>3, <3>1, <3>2 DEF Unseen, MasqOf
    <3> QED
      BY <1>0, <2>4, <3>1, <3>3, RestoreOrdered
  <2> QED
    BY <2>2, <2>3, <2>4
<1>9. CASE WriteSubnetFile
  <2>1. /\ \/ pc = "written" /\ pc' \in {"resync", "idle"}
           \/ pc' = "unattended"
        /\ UNCHANGED <<table, mode, subnet, chain, failures>>
    BY <1>9 DEF WriteSubnetFile, Goto, kernel
  <2> QED
    BY <2>1 DEF ChainInv
<1>10. CASE Resync
  <2>1. /\ pc = "resync" /\ pc' \in {"resync", "build"} /\ (pc' = "build" => idx' = 1)
        /\ UNCHANGED <<table, mode, subnet, chain>>
        /\ failures' = 0 => failures = 0
    BY <1>0, <1>10 DEF Resync, Reset, Failure, kernel, config
  <2>2. \A i \in {5, 6} : ~(1 > i)
    OBVIOUS
  <2> QED
    BY <2>1, <2>2 DEF ChainInv, Unseen
<1>11. CASE Edit
  <2>1. /\ UNCHANGED <<table, mode, subnet, pc, idx, seen, failures>>
        /\ \/ UNCHANGED chain
           \/ chain # Missing /\ \E r : chain' = RemoveFirst(chain, r)
           \/ chain' = Missing
    BY <1>11 DEF Edit, config, look
  <2>2. CASE UNCHANGED chain
    BY <2>1, <2>2 DEF ChainInv, Unseen, MasqRules
  <2>3. CASE chain' = Missing
    BY <2>1, <2>3 DEF ChainInv, Unseen
  <2>4. CASE chain # Missing /\ \E r : chain' = RemoveFirst(chain, r)
    <3> SUFFICES ASSUME failures = 0, table = "nat", mode = "iptables", pc \in ChainSteps
                 PROVE  /\ Ordered(chain', subnet)
                        /\ pc = "build" => /\ Unseen(5, MasqRules(subnet)[4])'
                                           /\ Unseen(6, MasqRules(subnet)[5])'
      BY <2>1 DEF ChainInv
    <3>1. PICK r : chain' = RemoveFirst(chain, r)
      BY <2>4
    <3>2. Ordered(chain, subnet)
      BY <2>4 DEF ChainInv
    <3>3. Ordered(chain', subnet)
      BY <3>1, <3>2, DeleteOrdered
    <3>4. ASSUME NEW m, Has(chain', m) PROVE Has(chain, m)
      BY <3>1, <3>2, <3>4, DeleteLemma DEF Ordered
    <3>5. ASSUME pc = "build", NEW i, NEW m, Unseen(i, m) PROVE Unseen(i, m)'
      BY <2>1, <2>4, <3>4, <3>5 DEF Unseen
    <3>6. MasqRules(subnet)' = MasqRules(subnet)
      BY <2>1 DEF MasqRules
    <3>7. PICK r4, r5 : r4 = MasqRules(subnet)[4] /\ r5 = MasqRules(subnet)[5]
      OBVIOUS
    <3>8. ASSUME pc = "build" PROVE Unseen(5, r4)' /\ Unseen(6, r5)'
      BY <3>5, <3>7, <3>8 DEF ChainInv
    <3> QED
      BY <3>3, <3>6, <3>7, <3>8
  <2> QED
    BY <2>1, <2>2, <2>3, <2>4
<1>12. CASE Restart
  BY <1>12 DEF Restart, Reset, ChainInv
<1>13. CASE UNCHANGED trafficVars
  <2>1. UNCHANGED <<table, mode, subnet, pc, idx, seen, failures, chain>>
    BY <1>13 DEF trafficVars, kernel, config, look
  <2> QED
    BY <2>1 DEF ChainInv, Unseen, MasqRules
<1> QED
  BY <1>1, <1>2, <1>3, <1>4, <1>5, <1>6, <1>7, <1>8, <1>9, <1>10, <1>11, <1>12, <1>13
     DEF TrafficNext, Manager

\* MasqDecisions of Traffic: once all rules are there, the chain or the
\* nftables table decides every packet as documented, whatever others have
\* deleted between two commands of a pass and whatever incarnations with
\* other subnets or the other manager left; for every set of subnets and
\* any number of changes and restarts.
THEOREM MasqueradeDecides == TrafficSpec => []MasqDecisions
<1>1. TrafficInit => ChainInv
  BY DEF TrafficInit, ChainInv, ChainSteps
<1>2. TrafficInv /\ ChainInv => (mode # "nftables" => MasqDecisions)
  <2> SUFFICES ASSUME TrafficInv, ChainInv, mode # "nftables", SetUp, table = "nat", failures = 0,
                      Masq # Missing, Complete
               PROVE  /\ \A d \in Subnets : Verdict(Masq, subnet, d) = "return"
                      /\ \A s \in Src : Verdict(Masq, s, subnet) = "return"
                      /\ Verdict(Masq, subnet, "multicast") = "return"
                      /\ Verdict(Masq, subnet, "outside") = "masquerade"
    BY DEF MasqDecisions, TrafficInv, ModeInv
  <2>1. mode = "iptables" /\ subnet \in Subnets /\ pc \in ChainSteps
    BY DEF TrafficInv, ModeInv, SetUp, NftSteps, ChainSteps
  <2>2. Masq = chain /\ chain # Missing
    BY <2>1 DEF Masq
  <2>3. Ordered(chain, subnet)
    BY <2>1, <2>2 DEF ChainInv
  <2>4. PICK s : s = subnet
    OBVIOUS
  <2>5. ASSUME NEW i \in 1..5 PROVE Has(chain, MasqRules(s)[i])
    <3>1. i \in {1, 2, 3, 4, 5} /\ i + 1 \in 1..6
      OBVIOUS
    <3>2. Len(Rules(s)) = 6 /\ Rules(s)[i + 1] = MasqRules(s)[i]
      BY <2>1, <3>1, RuleListLemma
    <3>3. Exists(Rules(s)[i + 1])
      BY <2>4, <3>1, <3>2 DEF Complete
    <3>4. MasqRules(s)[i] # Jump
      BY <2>1, <2>4, RulesLemma DEF RulesOf
    <3> QED
      BY <3>2, <3>3, <3>4 DEF Exists, Contains, Has
  <2> QED
    BY <2>1, <2>2, <2>3, <2>4, <2>5, OrderedDecides
<1>3. (mode = "nftables" => MasqDecisions) /\ (mode # "nftables" => MasqDecisions) => MasqDecisions
  OBVIOUS
<1>4. TrafficInv /\ ChainInv /\ [TrafficNext]_trafficVars => ChainInv'
  BY ChainStep
<1>5. TrafficSpec => [](mode = "nftables" => MasqDecisions)
  BY NftDecides
<1> QED
  BY <1>1, <1>2, <1>3, <1>4, <1>5, TrafficInvariance, PTL DEF TrafficSpec
-----------------------------------------------------------------------------
(* Forwarding: what an earlier iptables manager left *)

FwdOf == {ForwardRules[1], ForwardRules[2]}

\* In the filter table flannel's chain never holds anything but rules of
\* forward_rules, which do not depend on the subnet.
ForwardInv == table # "nat" /\ chain # Missing => chain \in Seq(FwdOf)

\* Some rule that matches a packet decides it, if there is one.
LEMMA HitLemma ==
  ASSUME NEW c, DOMAIN c \subseteq Nat, NEW src, NEW dst,
         NEW i \in DOMAIN c, src \in c[i].src, dst \in c[i].dst
  PROVE  \E k \in DOMAIN c : /\ src \in c[k].src /\ dst \in c[k].dst
                             /\ Verdict(c, src, dst) = c[k].act
<1> DEFINE hits == {j \in DOMAIN c : src \in c[j].src /\ dst \in c[j].dst}
<1>1. hits \in SUBSET Nat /\ hits # {}
  OBVIOUS
<1>2. PICK k \in hits : \A j \in hits : k <= j
  <2> HIDE DEF hits
  <2> QED
    BY <1>1, Least
<1>3. /\ k \in Nat /\ k \in DOMAIN c /\ src \in c[k].src /\ dst \in c[k].dst
      /\ \A j \in DOMAIN c : j < k => ~(src \in c[j].src /\ dst \in c[j].dst)
  BY <1>2
<1>4. Verdict(c, src, dst) = c[k].act
  BY <1>3, FirstMatch
<1> QED
  BY <1>3, <1>4

\* Whatever is left of the rules, in any order, accepts no packet that the
\* complete list does not.
LEMMA ForwardDecides ==
  ASSUME NEW c \in Seq(FwdOf), NEW src, NEW dst
  PROVE  Verdict(c, src, dst) \in {"return", Verdict(ForwardRules, src, dst)}
<1>1. DOMAIN c \subseteq Nat /\ \A i \in DOMAIN c : c[i] \in FwdOf
  BY LenProperties, ElementOfSeq
<1>2. /\ DOMAIN ForwardRules = {1, 2} /\ {1, 2} \subseteq Nat
      /\ \A j \in {1, 2} : ForwardRules[j].act = "accept"
  BY DEF ForwardRules, TableRule
<1> HIDE DEF Verdict
<1>3. CASE \A i \in DOMAIN c : ~(src \in c[i].src /\ dst \in c[i].dst)
  BY <1>3, NoMatch
<1>4. CASE \E i \in DOMAIN c : src \in c[i].src /\ dst \in c[i].dst
  <2>1. PICK k \in DOMAIN c : /\ src \in c[k].src /\ dst \in c[k].dst
                             /\ Verdict(c, src, dst) = c[k].act
    BY <1>1, <1>4, HitLemma
  <2>2. PICK j \in {1, 2} : c[k] = ForwardRules[j]
    BY <1>1, <2>1 DEF FwdOf
  <2>3. \E n \in DOMAIN ForwardRules : Verdict(ForwardRules, src, dst) = ForwardRules[n].act
    BY <1>2, <2>1, <2>2, HitLemma
  <2> QED
    BY <1>2, <2>1, <2>2, <2>3
<1> QED
  BY <1>3, <1>4

\* iptables-restore with the forward rules.
LEMMA RestoreForward ==
  ASSUME table # "nat", chain \in Seq(FwdOf), NEW del
  PROVE  Restore(Rules(subnet), del).chain \in Seq(FwdOf)
<1>1. PICK c0, h0, add : c0 = chain /\ h0 = hook /\ add = Rules(subnet)
  OBVIOUS
<1>2. PICK r1, r2 : r1 = ForwardRules[1] /\ r2 = ForwardRules[2]
  OBVIOUS
<1>3. r1 # Jump /\ r2 # Jump
  <2>1. r1.act = "accept" /\ r2.act = "accept" /\ Jump.act = "jump"
    BY <1>2 DEF ForwardRules, Jump, TableRule
  <2> QED
    BY <2>1
<1>4. Len(add) = 3 /\ add[1] = Jump /\ add[2] = r1 /\ add[3] = r2
  <2>1. PICK j : j = Jump
    OBVIOUS
  <2>2. ForwardRules = <<r1, r2>>
    BY <1>2 DEF ForwardRules
  <2>3. add = <<j>> \o <<r1, r2>>
    BY <1>1, <2>1, <2>2 DEF Rules, ChainRules
  <2> QED
    BY <2>1, <2>3
<1> DEFINE R(k, r) == RestoreRule(k, r, del)
           k0 == [hook |-> h0, chain |-> c0]
<1>5. PICK k1, k2, k3 : k1 = R(k0, Jump) /\ k2 = R(k1, r1) /\ k3 = R(k2, r2)
  OBVIOUS
<1>6. Restore(add, del) = k3
  <2> HIDE DEF R, k0
  <2> DEFINE F(f, i) == IF i = 0 THEN k0 ELSE R(f[i - 1], add[i])
             g == [i \in 0..3 |-> IF i = 0 THEN k0 ELSE IF i = 1 THEN k1 ELSE IF i = 2 THEN k2 ELSE k3]
             run == CHOOSE f : f = [i \in 0..3 |-> F(f, i)]
  <2>1. g[0] = k0 /\ g[1] = k1 /\ g[2] = k2 /\ g[3] = k3 /\ g = [i \in 0..3 |-> g[i]]
    OBVIOUS
  <2> HIDE DEF g
  <2>2. ASSUME NEW i \in 0..3 PROVE g[i] = F(g, i)
    <3>1. i \in {0, 1, 2, 3}
      OBVIOUS
    <3> QED
      BY <1>4, <1>5, <2>1, <3>1
  <2>3. g = [i \in 0..3 |-> F(g, i)]
    BY <2>1, <2>2
  <2>4. run = [i \in 0..3 |-> F(run, i)]
    <3> HIDE DEF F
    <3> QED
      BY <2>3
  <2> HIDE DEF run
  <2>5. run[0] = k0 /\ \A i \in 1..3 : run[i] = R(run[i - 1], add[i])
    BY <2>4
  <2>6. run[1] = R(run[0], Jump) /\ run[2] = R(run[1], r1) /\ run[3] = R(run[2], r2)
    BY <1>4, <2>5
  <2>7. run[3] = k3
    BY <1>5, <2>5, <2>6
  <2>8. Restore(add, del) = run[3]
    BY <1>1, <1>4 DEF Restore, run, F, R, k0
  <2> QED
    BY <2>7, <2>8
<1>7. Tabled(k1, c0)
  <2>1. Tabled(k0, c0)
    BY DEF Tabled
  <2> HIDE DEF k0
  <2> QED
    BY <1>5, <2>1, RestoreRuleLemma
<1> HIDE DEF k0
<1>8. Tabled(k2, Moved(c0, r1, del))
  BY <1>3, <1>5, <1>7, RestoreRuleLemma
<1>9. PICK c1 : c1 = Moved(c0, r1, del)
  OBVIOUS
<1>10. Tabled(k3, Moved(c1, r2, del))
  BY <1>3, <1>5, <1>8, <1>9, RestoreRuleLemma
<1>11. ASSUME NEW c \in Seq(FwdOf), NEW q \in FwdOf PROVE Moved(c, q, del) \in Seq(FwdOf)
  <2>1. PICK S : S = FwdOf
    OBVIOUS
  <2>2. RemoveFirst(c, q) \in Seq(S)
    BY <1>11, <2>1, DeleteLemma
  <2> QED
    BY <1>11, <2>1, <2>2, AddLemma DEF Moved
<1>12. c1 \in Seq(FwdOf) /\ Moved(c1, r2, del) \in Seq(FwdOf)
  <2>1. r1 \in FwdOf /\ r2 \in FwdOf
    BY <1>2 DEF FwdOf
  <2> QED
    BY <1>1, <1>9, <1>11, <2>1
<1> QED
  BY <1>1, <1>6, <1>10, <1>12 DEF Tabled

LEMMA ForwardStep ==
  ASSUME TrafficInv, ForwardInv, [TrafficNext]_trafficVars
  PROVE  ForwardInv'
<1>1. <<>> \in Seq(FwdOf)
  OBVIOUS
<1>2. CASE UNCHANGED <<table, chain>>
  BY <1>2 DEF ForwardInv
<1>3. CASE UNCHANGED table /\ chain' \in {chain, <<>>, Missing}
  BY <1>1, <1>3 DEF ForwardInv
<1>4. CASE CleanUp \/ CleanDelete \/ NftSetup \/ Recycle \/ CreateChain \/ WriteSubnetFile
           \/ Resync \/ Restart \/ UNCHANGED trafficVars
  <2>1. UNCHANGED table /\ chain' \in {chain, <<>>, Missing}
    BY <1>4 DEF CleanUp, CleanDelete, NftSetup, Recycle, CreateChain, WriteSubnetFile, Resync,
                Restart, trafficVars, kernel, config
  <2> QED
    BY <1>3, <2>1
<1>5. CASE TearCheck \/ Build
  <2>1. UNCHANGED table /\ chain' \in {chain, <<>>}
    BY <1>5 DEF TearCheck, Build, LookAt, AskChain, AskClear, AskRule, config
  <2> QED
    BY <1>3, <2>1
<1>6. CASE TearApply
  BY <1>6 DEF TearApply, TrafficInv, ModeInv, ForwardInv, config
<1>7. CASE Apply
  <2>1. /\ UNCHANGED table
        /\ \/ chain # Missing /\ chain' = Restore(Rules(subnet), seen).chain
           \/ UNCHANGED chain
    BY <1>7 DEF Apply, Applies, config
  <2> QED
    BY <1>2, <2>1, RestoreForward DEF ForwardInv
<1>8. CASE Edit
  <2>1. /\ UNCHANGED table
        /\ \/ chain' \in {chain, Missing}
           \/ chain # Missing /\ \E q : chain' = RemoveFirst(chain, q)
    BY <1>8 DEF Edit, config
  <2>2. CASE chain # Missing /\ \E q : chain' = RemoveFirst(chain, q)
    BY <2>1, <2>2, DeleteLemma DEF ForwardInv
  <2> QED
    BY <1>3, <2>1, <2>2
<1> QED
  BY <1>4, <1>5, <1>6, <1>7, <1>8 DEF TrafficNext, Manager

\* ManagersAgree of Traffic, for every set of subnets and any number of
\* restarts, changes and failures: clean_up of the manager that is not in
\* use is final for the masquerading, and what it overlooks of the
\* forwarding accepts nothing that the manager in use does not accept.
THEOREM SwitchIsHarmless == TrafficSpec => []ManagersAgree
<1>1. TrafficInit => ForwardInv
  BY DEF TrafficInit, ForwardInv
<1>2. TrafficInv /\ ForwardInv => ManagersAgree
  <2> SUFFICES ASSUME TrafficInv, ForwardInv, SetUp, failures = 0
               PROVE  /\ mode = "iptables" => nft = Missing
                      /\ mode = "nftables" =>
                           /\ nft = NftRules(subnet)
                           /\ table = "nat" => chain \in {Missing, <<>>}
                           /\ chain # Missing =>
                                \A s \in Src, d \in Dst :
                                  Verdict(chain, s, d) \in {"return", Verdict(nft, s, d)}
    BY DEF ManagersAgree
  <2>1. /\ mode = "iptables" => nft = Missing
        /\ mode = "nftables" => nft = NftRules(subnet)
        /\ mode = "nftables" /\ table = "nat" => chain \in {Missing, <<>>}
    BY DEF TrafficInv, ModeInv, CleanInv, SetUp, IptablesSteps, NftSteps
  <2>2. ASSUME mode = "nftables", chain # Missing, NEW s \in Src, NEW d \in Dst
        PROVE  Verdict(chain, s, d) \in {"return", Verdict(nft, s, d)}
    <3>1. CASE table = "nat"
      <4>1. \A j \in DOMAIN chain : ~(s \in chain[j].src /\ d \in chain[j].dst)
        BY <2>1, <2>2, <3>1
      <4> QED
        BY <4>1, NoMatch
    <3>2. CASE table # "nat"
      <4>1. nft = ForwardRules /\ chain \in Seq(FwdOf)
        BY <2>1, <2>2, <3>2 DEF NftRules, ForwardInv
      <4> QED
        BY <4>1, ForwardDecides
    <3> QED
      BY <3>1, <3>2
  <2> QED
    BY <2>1, <2>2
<1>3. TrafficInv /\ ForwardInv /\ [TrafficNext]_trafficVars => ForwardInv'
  BY ForwardStep
<1> QED
  BY <1>1, <1>2, <1>3, TrafficInvariance, PTL DEF TrafficSpec
=============================================================================
