------------------------------ MODULE UdpProxy ------------------------------
(***************************************************************************)
(* The udp backend (udp/network.rs, udp/proxy.rs): process_subnet_events   *)
(* writes commands to a control socket, and the packet proxy, on a thread  *)
(* of its own, reads them one at a time between bursts of packets. The     *)
(* route table is a sequence that find_route reorders.                     *)
(***************************************************************************)
EXTENDS LeaseWatcher

CONSTANTS
  CtlCapacity,  (* commands the control socket holds before a write blocks *)
  MaxPackets    (* bound: packets the proxy routes                         *)

VARIABLES
  ctl,          (* the control socket: commands not yet read               *)
  proxy,        (* the thread: "poll", "burst" (moving packets) or "done"  *)
  table,        (* RouteTable.entries, [dst, hop] each                     *)
  udpStopped,   (* run has returned                                        *)
  packets

udpVars == <<ctl, proxy, table, udpStopped, packets>>

UdpInit ==
  /\ ctl = <<>>
  /\ proxy = "poll"
  /\ table = <<>>
  /\ udpStopped = FALSE
  /\ packets = 0

\* write_command: a SEQPACKET write; it blocks while the socket is full and
\* fails once the proxy has closed its end.
WriteCommand(cmd) ==
  \/ proxy # "done" /\ Len(ctl) < CtlCapacity /\ ctl' = Append(ctl, cmd)
  \/ proxy = "done" /\ UNCHANGED ctl

\* set_route or remove_route; the backend type is not looked at.
UdpEvent ==
  /\ ~udpStopped
  /\ Take
  /\ WriteCommand([cmd |-> IF ev'.type = "Added" THEN "SET" ELSE "DEL",
                   dst |-> Key(ev'.lease), hop |-> ev'.lease.attrs.ip])
  /\ UNCHANGED <<step, faults, proxy, table, udpStopped, packets>>

\* The watch has ended with the token: stop_proxy, and run returns. What it
\* owns is dropped then, the other end of the control socket with it.
StopProxy ==
  /\ cancelled /\ ~udpStopped /\ queue = <<>>
  /\ WriteCommand([cmd |-> "STOP", dst |-> None, hop |-> None])
  /\ udpStopped' = TRUE
  /\ UNCHANGED <<watcherVars, eventVars, step, faults, proxy, table, packets>>

-----------------------------------------------------------------------------
(* The proxy *)

DstAt(t, d) == SelectInSeq(t, LAMBDA e : e.dst = d)

\* RouteTable::set_route
TableSet(t, c) ==
  LET e == [dst |-> c.dst, hop |-> c.hop]
      i == DstAt(t, c.dst)
  IN  IF i = 0 THEN Append(t, e) ELSE ReplaceAt(t, i, e)

\* RouteTable::del_route: swap_remove puts the last entry in the gap.
TableDel(t, c) ==
  LET i == DstAt(t, c.dst)
  IN  IF i = 0 THEN t ELSE Front(ReplaceAt(t, i, Last(t)))

\* Mutant: the entry found is copied to the front.
TableFindCopy(t, d) ==
  LET i == DstAt(t, d)
  IN  IF i = 0 THEN t ELSE [t EXCEPT ![1] = t[i]]

\* RouteTable::find_route: a hit is swapped to the front.
TableFind(t, d) ==
  LET i == DstAt(t, d)
  IN  IF i = 0 THEN t ELSE [t EXCEPT ![1] = t[i], ![i] = t[1]]

\* What a command does to the route table.
RouteCmd(t, c) ==
  IF c.cmd = "SET" THEN TableSet(t, c) ELSE IF c.cmd = "DEL" THEN TableDel(t, c) ELSE t

\* process_cmd: one command per poll(), read before packets are looked at.
\* A socket whose other end is gone is a STOP.
ProcessCmd ==
  /\ proxy = "poll"
  /\ \/ /\ ctl # <<>>
        /\ LET c == Head(ctl)
           IN  /\ table' = RouteCmd(table, c)
               /\ proxy' \in (IF c.cmd = "STOP" THEN {"done"} ELSE {"poll", "burst"})
        /\ ctl' = Tail(ctl)
     \/ ctl = <<>> /\ udpStopped /\ proxy' = "done" /\ UNCHANGED <<ctl, table>>
  /\ UNCHANGED <<watcherVars, eventVars, step, faults, udpStopped, packets>>

\* Packets arrive; until both sockets are empty the control socket waits.
BurstBegins ==
  /\ proxy = "poll" /\ ctl = <<>> /\ ~udpStopped
  /\ proxy' = "burst"
  /\ UNCHANGED <<watcherVars, eventVars, step, faults, ctl, table, udpStopped, packets>>

\* tun_to_udp: a packet for subnet d.
RoutePacket(d) ==
  /\ proxy = "burst"
  /\ packets < MaxPackets
  /\ packets' = packets + 1
  /\ table' = TableFind(table, d)
  /\ UNCHANGED <<watcherVars, eventVars, step, faults, ctl, proxy, udpStopped>>

\* Neither socket has a packet: nothing but the traffic says when.
BurstEnds ==
  /\ proxy = "burst"
  /\ proxy' = "poll"
  /\ UNCHANGED <<watcherVars, eventVars, step, faults, ctl, table, udpStopped, packets>>

UdpHandler == UdpEvent \/ StopProxy

-----------------------------------------------------------------------------
(* Properties *)

\* The route table the commands in flight will lead to.
Applied ==
  LET run[k \in 0..Len(ctl)] ==
        IF k = 0 THEN table ELSE RouteCmd(run[k - 1], ctl[k])
  IN  run[Len(ctl)]

\* The proxy follows the leases: the commands still in the socket lead from
\* its table, however find_route has reordered it, to exactly one entry per
\* announced subnet, with the address announced last.
UdpInSync ==
  backend = "udp" /\ proxy # "done" =>
    LET t == Applied
    IN  /\ \A i, j \in 1..Len(t) : t[i].dst = t[j].dst => i = j
        /\ {<<t[i].dst, t[i].hop>> : i \in 1..Len(t)}
             = {<<d, told[d].ip>> : d \in {s \in Subnets : told[s] # None}}
=============================================================================
