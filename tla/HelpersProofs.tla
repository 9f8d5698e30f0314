--------------------------- MODULE HelpersProofs ----------------------------
(***************************************************************************)
(* A behaviour of Helpers is a behaviour of each of its four programs, so  *)
(* what is proved of each of them holds where they are checked together.   *)
(***************************************************************************)
EXTENDS Helpers, ExporterProofs, RulesProofs, ValidateProofs, TLAPS

-----------------------------------------------------------------------------
(* The endpoint sidecar, whose liveness TLC checks.                        *)

(* An address that is about to be set is an address. *)
EndpointInv == EndpointTypeOK /\ (LoopAt("addr") => loop.ip # NoAddr)

LEMMA EndpointInitInv == EndpointInit => EndpointInv
<1> SUFFICES ASSUME EndpointInit PROVE EndpointInv
  OBVIOUS
<1>1. loop = [pc |-> "check", ip |-> NoAddr] /\ loop.pc = "check"
  BY DEF EndpointInit
<1>2. events \in 0..MaxEvents /\ halfway \in BOOLEAN
  <2>1. MaxEvents \in Nat
    BY EndpointAssumption
  <2>2. events \in 0..MaxEvents
    BY <2>1 DEF EndpointInit
  <2>3. halfway \in BOOLEAN
    BY DEF EndpointInit
  <2> QED BY <2>2, <2>3
<1>3. proxy \in [socket : {"absent"}, addr : {Placeholder}, ready : BOOLEAN]
  BY DEF EndpointInit
<1> QED BY <1>1, <1>2, <1>3 DEF EndpointInit, EndpointInv, EndpointTypeOK, LoopAt

LEMMA EndpointStepInv == EndpointInv /\ [EndpointNext]_endpointVars => EndpointInv'
<1> SUFFICES ASSUME EndpointInv, [EndpointNext]_endpointVars PROVE EndpointInv'
  OBVIOUS
<1>0. /\ EndpointTypeOK /\ (LoopAt("addr") => loop.ip # NoAddr)
      /\ MaxEvents \in Nat /\ Foreign \subseteq Addrs
  BY EndpointAssumption DEF EndpointInv
<1>1. Event \/ UNCHANGED events => events' \in 0..MaxEvents
  BY <1>0 DEF Event, EndpointTypeOK
<1>2. CASE CheckSocket
  BY <1>0, <1>2 DEF CheckSocket, EndpointInv, EndpointTypeOK, LoopAt
<1>3. CASE ReadPeer
  <2>1. events' \in 0..MaxEvents
    BY <1>1, <1>3 DEF ReadPeer
  <2>2. loop' \in [pc : {"state"}, ip : Addrs \cup {NoAddr}]
    BY <1>0, <1>3 DEF ReadPeer, EndpointTypeOK
  <2> QED BY <1>0, <1>3, <2>1, <2>2 DEF ReadPeer, EndpointInv, EndpointTypeOK, LoopAt
<1>4. CASE ReadState
  <2>1. events' \in 0..MaxEvents
    BY <1>1, <1>4 DEF ReadState, Answered, Unanswered
  <2>2. PICK cur : loop' = [loop EXCEPT !.pc = IF Differs(loop.ip, cur) THEN "addr" ELSE "check"]
    BY <1>4 DEF ReadState
  <2>3. LoopAt("addr")' => loop'.ip # NoAddr
    BY <1>0, <2>2 DEF LoopAt, Differs, EndpointTypeOK
  <2>4. loop' \in [pc : {"addr", "check"}, ip : Addrs \cup {NoAddr}]
    BY <1>0, <2>2 DEF EndpointTypeOK
  <2> QED BY <1>0, <1>4, <2>1, <2>3, <2>4 DEF ReadState, EndpointInv, EndpointTypeOK
<1>5. CASE SetAddr
  <2>1. events' \in 0..MaxEvents
    BY <1>1, <1>5 DEF SetAddr, Answered, Unanswered
  <2>2. loop.ip \in Addrs
    BY <1>0, <1>5 DEF SetAddr, EndpointTypeOK
  <2>3. proxy' \in [socket : {"absent", "live", "stale"},
                    addr : (Addrs \ Foreign) \cup {Placeholder}, ready : BOOLEAN]
    BY <1>0, <1>5, <2>2 DEF SetAddr, EndpointTypeOK
  <2>4. loop' \in [pc : {"ready", "check"}, ip : Addrs \cup {NoAddr}]
    BY <1>0, <1>5 DEF SetAddr, EndpointTypeOK
  <2> QED BY <1>0, <1>5, <2>1, <2>3, <2>4 DEF SetAddr, EndpointInv, EndpointTypeOK, LoopAt
<1>6. CASE SetReady
  <2>1. events' \in 0..MaxEvents
    BY <1>1, <1>6 DEF SetReady, Answered, Unanswered
  <2>2. /\ proxy' \in [socket : {"absent", "live", "stale"},
                       addr : (Addrs \ Foreign) \cup {Placeholder}, ready : BOOLEAN]
        /\ halfway' \in BOOLEAN
    BY <1>0, <1>6 DEF SetReady, EndpointTypeOK
  <2>3. loop' \in [pc : {"check"}, ip : Addrs \cup {NoAddr}]
    BY <1>0, <1>6 DEF SetReady, EndpointTypeOK
  <2> QED BY <1>0, <1>6, <2>1, <2>2, <2>3 DEF SetReady, EndpointInv, EndpointTypeOK, LoopAt
<1>7. CASE Roam
  BY <1>0, <1>1, <1>7 DEF Roam, EndpointInv, EndpointTypeOK, LoopAt
<1>8. CASE ProxyStarts
  BY <1>0, <1>8 DEF ProxyStarts, EndpointInv, EndpointTypeOK, LoopAt
<1>9. CASE ProxyStops
  <2>1. proxy' \in [socket : {"absent", "live", "stale"},
                    addr : (Addrs \ Foreign) \cup {Placeholder}, ready : BOOLEAN]
    BY <1>0, <1>9 DEF ProxyStops, EndpointTypeOK
  <2> QED BY <1>0, <1>1, <1>9, <2>1 DEF ProxyStops, EndpointInv, EndpointTypeOK, LoopAt
<1>10. CASE SidecarRestarts
  BY <1>0, <1>1, <1>10 DEF SidecarRestarts, EndpointInv, EndpointTypeOK, LoopAt
<1>11. CASE UNCHANGED endpointVars
  BY <1>0, <1>11 DEF endpointVars, EndpointInv, EndpointTypeOK, LoopAt
<1> QED BY <1>2, <1>3, <1>4, <1>5, <1>6, <1>7, <1>8, <1>9, <1>10, <1>11
        DEF EndpointNext, LoopStep

\* The sidecar never sets anything but an address on the server: not an empty answer of
\* WireGuard, whatever fails between reading and setting it (endpoint.sh:43-64).
LEMMA EndpointTypeCorrect == EndpointInit /\ [][EndpointNext]_endpointVars => []EndpointTypeOK
<1>1. EndpointInv => EndpointTypeOK
  BY DEF EndpointInv
<1> QED BY <1>1, EndpointInitInv, EndpointStepInv, PTL

-----------------------------------------------------------------------------
(* The four together.                                                      *)

LEMMA HelpersStepOfEach ==
  [HelpersNext]_helpersVars => /\ [ExporterNext]_exporterVars
                               /\ [EndpointNext]_endpointVars
                               /\ [RulesNext]_rulesVars
                               /\ [ValidateNext]_validateVars
                               /\ UNCHANGED running
<1> SUFFICES ASSUME [HelpersNext]_helpersVars
             PROVE  /\ [ExporterNext]_exporterVars
                    /\ [EndpointNext]_endpointVars
                    /\ [RulesNext]_rulesVars
                    /\ [ValidateNext]_validateVars
                    /\ UNCHANGED running
  OBVIOUS
<1>1. CASE HelpersNext
  BY <1>1 DEF HelpersNext
<1>2. CASE UNCHANGED helpersVars
  BY <1>2 DEF helpersVars
<1> QED BY <1>1, <1>2

\* The programs do not disturb each other: each behaviour of Helpers is one of each
\* program, and what is proved of a program holds in Helpers.
THEOREM HelpersAreTheirPrograms ==
  HelpersSpec => ExporterSpec /\ EndpointSpec /\ RulesSpec /\ ValidateSpec
<1>1. HelpersInit => ExporterInit /\ EndpointInit /\ RulesInit /\ ValidateInit
  BY DEF HelpersInit
<1> QED BY <1>1, HelpersStepOfEach, PTL
        DEF HelpersSpec, ExporterSpec, EndpointSpec, RulesSpec, ValidateSpec

\* All four programs keep their types, also a sidecar that is killed between reading an
\* address and setting it (endpoint.sh:43-64).
THEOREM HelpersTypeCorrect == HelpersSpec => []HelpersTypeOK
<1>1. HelpersInit => running \in Programs
  BY DEF HelpersInit
<1>2. running \in Programs /\ [HelpersNext]_helpersVars => (running \in Programs)'
  BY HelpersStepOfEach
<1>3. HelpersSpec => [](running \in Programs)
  BY <1>1, <1>2, PTL DEF HelpersSpec
<1>4. EndpointSpec => []EndpointTypeOK
  BY EndpointTypeCorrect, PTL DEF EndpointSpec
<1>5. (running \in Programs /\ ExporterTypeOK /\ EndpointTypeOK /\ RulesTypeOK /\ ValidateTypeOK)
        => HelpersTypeOK
  BY DEF HelpersTypeOK
<1> QED BY <1>3, <1>4, <1>5, HelpersAreTheirPrograms, ExporterTypeCorrect, RulesTypeCorrect,
           ValidateTypeCorrect, PTL
=============================================================================
