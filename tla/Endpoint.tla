------------------------------ MODULE Endpoint ------------------------------
(***************************************************************************)
(* endpoint.sh of the relay: a loop that reads the address of the peer     *)
(* from WireGuard and sets it on a server of HAProxy, one call after the   *)
(* other, while the peer roams, HAProxy is recreated and calls fail.       *)
(* Time is left out, and with it the choice of the poll interval.          *)
(***************************************************************************)
EXTENDS Naturals

CONSTANTS
  Addrs,     \* addresses the peer may have
  Foreign,   \* those of another family than the placeholder's
  NoAddr,    \* no address, or no answer
  Placeholder,
  MaxEvents  \* bound: how often the peer roams, something stops or a call fails

ASSUME EndpointAssumption ==
  Foreign \subseteq Addrs /\ {NoAddr, Placeholder} \cap Addrs = {}
  /\ NoAddr # Placeholder /\ MaxEvents \in Nat

VARIABLES
  peer,    \* the endpoint WireGuard has for the peer
  proxy,   \* HAProxy: its admin socket, and the server's address and state
  loop,    \* the sidecar: program counter and ip
  events,  \* bounded events so far
  halfway  \* history: the address was set and the server not made ready

endpointVars == <<peer, proxy, loop, events, halfway>>

EndpointTypeOK ==
  /\ peer \in Addrs \cup {NoAddr}
  /\ proxy \in [socket : {"absent", "live", "stale"},
                addr : (Addrs \ Foreign) \cup {Placeholder}, ready : BOOLEAN]
  /\ loop \in [pc : {"check", "peer", "state", "addr", "ready"},
               ip : Addrs \cup {NoAddr}]
  /\ events \in 0..MaxEvents /\ halfway \in BOOLEAN

EndpointInit ==
  /\ peer = NoAddr
  /\ proxy = [socket |-> "absent", addr |-> Placeholder, ready |-> FALSE]
  /\ loop = [pc |-> "check", ip |-> NoAddr]
  /\ events = 0 /\ halfway = FALSE

Event == events < MaxEvents /\ events' = events + 1

\* A new peer address; none after the interface was set up again.
Roam ==
  /\ Event
  /\ \E a \in Addrs \cup {NoAddr} : a # peer /\ peer' = a
  /\ UNCHANGED <<proxy, loop, halfway>>

\* A container of HAProxy comes up with the configuration of its image.
ProxyStarts ==
  /\ proxy.socket # "live"
  /\ proxy' = [socket |-> "live", addr |-> Placeholder, ready |-> FALSE]
  /\ halfway' = FALSE
  /\ UNCHANGED <<peer, loop, events>>

\* The volume keeps its socket.
ProxyStops ==
  /\ Event /\ proxy.socket = "live"
  /\ proxy' = [proxy EXCEPT !.socket = "stale"]
  /\ UNCHANGED <<peer, loop, halfway>>

\* The sidecar is killed and started again, perhaps between its two calls.
SidecarRestarts ==
  /\ Event /\ loop.pc # "check"
  /\ loop' = [pc |-> "check", ip |-> NoAddr]
  /\ halfway' = (halfway \/ loop.pc = "ready")
  /\ UNCHANGED <<peer, proxy>>

-----------------------------------------------------------------------------
LoopAt(label) == loop.pc = label

\* hap: socat reaches HAProxy, or not.
Answered == proxy.socket = "live" /\ UNCHANGED events
Unanswered == IF proxy.socket = "live" THEN Event ELSE UNCHANGED events

\* [ -S "$SOCK" ], after the sleep of the last round.
CheckSocket ==
  /\ LoopAt("check") /\ proxy.socket # "absent"
  /\ loop' = [loop EXCEPT !.pc = "peer"]
  /\ UNCHANGED <<peer, proxy, events, halfway>>

\* wg_endpoint, which may fail.
ReadPeer ==
  /\ LoopAt("peer")
  /\ \/ loop' = [pc |-> "state", ip |-> peer] /\ UNCHANGED events
     \/ loop' = [pc |-> "state", ip |-> NoAddr] /\ Event
  /\ UNCHANGED <<peer, proxy, halfway>>

\* As if only the placeholder were ever replaced.
Differs_Once(ip, cur) == ip # NoAddr /\ cur \in {NoAddr, Placeholder}

Differs(ip, cur) == ip # NoAddr /\ ip # cur

\* haproxy_addr, and whether there is anything to set.
ReadState ==
  /\ LoopAt("state")
  /\ \E cur \in {proxy.addr, NoAddr} :
       /\ IF cur = NoAddr THEN Unanswered ELSE Answered
       /\ loop' = [loop EXCEPT !.pc = IF Differs(loop.ip, cur) THEN "addr" ELSE "check"]
  /\ UNCHANGED <<peer, proxy, halfway>>

\* set server addr: socat reports success even if HAProxy refuses the family.
SetAddr ==
  /\ LoopAt("addr")
  /\ \/ /\ Answered
        /\ proxy' = [proxy EXCEPT !.addr = IF loop.ip \in Foreign THEN @ ELSE loop.ip]
        /\ loop' = [loop EXCEPT !.pc = "ready"]
     \/ /\ Unanswered
        /\ loop' = [loop EXCEPT !.pc = "check"]
        /\ UNCHANGED proxy
  /\ UNCHANGED <<peer, halfway>>

\* set server state ready.
SetReady ==
  /\ LoopAt("ready")
  /\ loop' = [loop EXCEPT !.pc = "check"]
  /\ \/ /\ Answered
        /\ proxy' = [proxy EXCEPT !.ready = TRUE]
        /\ halfway' = FALSE
     \/ /\ Unanswered
        /\ halfway' = TRUE
        /\ UNCHANGED proxy
  /\ UNCHANGED peer

LoopStep == CheckSocket \/ ReadPeer \/ ReadState \/ SetAddr \/ SetReady

EndpointNext == LoopStep \/ Roam \/ ProxyStarts \/ ProxyStops \/ SidecarRestarts

\* The loop never stops for long; nothing else is promised to happen.
EndpointFairness == WF_endpointVars(LoopStep)

EndpointSpec == EndpointInit /\ [][EndpointNext]_endpointVars /\ EndpointFairness

-----------------------------------------------------------------------------
\* Once the peer stays at an address HAProxy can take, and HAProxy stays up, the
\* server carries that address for good and is enabled, whatever roamed, stopped
\* or failed before (header of endpoint.sh), except when the second call of a
\* round was lost after the first: no later round makes the server ready.
DirectPathComesUp ==
  \A a \in Addrs \ Foreign :
    <>[](peer = a /\ proxy.socket = "live") =>
      <>[](proxy.addr = a /\ (proxy.ready \/ halfway))
=============================================================================
