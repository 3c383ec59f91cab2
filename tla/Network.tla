------------------------------- MODULE Network ------------------------------
(***************************************************************************)
(* Routers, servers and clients on a network of wired network cards        *)
(* (kernel/network/router.c, server.c, network.c, packet.c), and the       *)
(* clients' net command (command/net/net.c).                               *)
(*                                                                         *)
(* A router polls its cards in turn.  It learns what is behind each card   *)
(* from the first packets: another router, which becomes a gateway, or an  *)
(* end point with an address.  Routers and servers take the packet at the  *)
(* front of the buffer of their card and clear the whole buffer, so their  *)
(* cards are modelled by the packet at the front: what arrives behind it   *)
(* is never read.  A client clears its card only now and then, so its card *)
(* is the set of the packets that can be found in it.  A packet whose      *)
(* bytes are cut by a clear, or are not taken in time by the card, is a    *)
(* lost packet.                                                            *)
(***************************************************************************)
EXTENDS Naturals, FiniteSets

CONSTANTS
  Routers, Servers, Clients,
  NumberOfPeripherals,  (* NUMBER_OF_PERIPHERALS, the cards of a router   *)
  Wire,           (* the card at the other end of the wire of each card   *)
  Late,           (* router cards that may be plugged in after the boot   *)
  Resettable,     (* routers that may restart                             *)
  ZeroAddress,    (* 0.0                                                  *)
  RouterAddress,  (* 255.255, the address of every router                 *)
  Stranger,       (* an address no host has                               *)
  Nothing,        (* an empty card buffer                                 *)
  HandshakeRetries,  (* 3 rounds of handshakes at boot                    *)
  RateMin, RateMax,  (* reconnRequestMin, reconnRequestMax: 1000, 2700    *)
  LengthenAfter,     (* 2 time-outs, then the longer interval             *)
  ReinsertAfter,     (* 10 time-outs, then new cards are looked for       *)
  ConnectEvery,      (* 800 loops of a server between requests            *)
  SendTries,      (* 3 times a client sends a text                        *)
  MaxEvents  (* bound on what clients send and faults together          *)

Hosts == Servers \cup Clients
Peripherals == 0 .. NumberOfPeripherals - 1
Nic(h) == <<h, 0>>
HostNics == {Nic(h) : h \in Hosts}
RouterNics == Routers \X Peripherals
Nics == HostNics \cup RouterNics

(* The cards of the boards that poll them in a loop.                       *)
PolledNics == RouterNics \cup {Nic(h) : h \in Servers}

ASSUME NetworkAssumption ==
  /\ Routers \cap Hosts = {} /\ Servers \cap Clients = {}
  /\ {ZeroAddress, RouterAddress, Stranger} \cap Hosts = {}
  /\ ZeroAddress # RouterAddress /\ Stranger \notin {ZeroAddress, RouterAddress}
  /\ NumberOfPeripherals \in Nat \ {0, 1}
  (* A wire has two ends.                                                 *)
  /\ DOMAIN Wire \subseteq Nics
  /\ \A n \in DOMAIN Wire : Wire[n] \in DOMAIN Wire /\ Wire[n] # n /\ Wire[Wire[n]] = n
  (* Every host is wired to a router.                                     *)
  /\ HostNics \subseteq DOMAIN Wire
  /\ \A n \in HostNics : Wire[n] \in RouterNics
  /\ Late \subseteq RouterNics /\ Resettable \subseteq Routers
  /\ {HandshakeRetries, SendTries} \subseteq Nat \ {0} /\ RateMin <= RateMax
  /\ LengthenAfter <= ReinsertAfter
  /\ {RateMin, RateMax, LengthenAfter, ReinsertAfter, ConnectEvery, MaxEvents} \subseteq Nat

VARIABLES
  doing,          (* the send each client is in: its destination, its try *)
  buffer,         (* the packet at the front of each polled card          *)
  card,           (* the packets in the card of each client               *)
  inserted,       (* the cards that are plugged in                        *)
  device_state, device_type, address,  (* the routing table of each router *)
  reconnRequestCounter, reconnRequestTimeOut, reconnRequestRate,
  at,             (* where each router is: its stage, and a round or port *)
  connectionStatus, connectionAttemptCounter,  (* of each server          *)
  events          (* how many commands and faults there have been        *)

tableVars == <<device_state, device_type, address>>
reconnVars == <<reconnRequestCounter, reconnRequestTimeOut, reconnRequestRate>>
serverVars == <<connectionStatus, connectionAttemptCounter>>
vars == <<buffer, card, inserted, tableVars, reconnVars, at, serverVars, doing, events>>

-----------------------------------------------------------------------------
(* Packets.  What the receivers look at in the data is its first two       *)
(* bytes: 55 00, 55 55, AA AA or text.                                     *)
Packet(d, s, x) == [dst |-> d, src |-> s, data |-> x]

packetClientHandshake == Packet(ZeroAddress, RouterAddress, "55 00")
packetRouterHandshakeOutgoing == Packet(RouterAddress, RouterAddress, "55 55")
packetRouterHandshakeReturn == Packet(RouterAddress, RouterAddress, "AA AA")
packetRouterConnectionRequest(h) == Packet(RouterAddress, h, "55 00")
packetClientReturn(h, d) == Packet(d, h, "text")
Ping == Packet(RouterAddress, ZeroAddress, "55 00")

Address == Hosts \cup {ZeroAddress, RouterAddress, Stranger}
Packets == [dst : Address, src : Address, data : {"55 00", "55 55", "AA AA", "text"}]

ASSUME PacketAssumption == Nothing \notin Packets

(* Card n takes the bytes sent on the cards S.  A byte nobody takes is     *)
(* given up after a while, and the next one is sent.                       *)
ntSend(S, n) == n \in inserted /\ n \in DOMAIN Wire /\ Wire[n] \in S

(* ntPacketSend on the cards S: the packet gets to the front of the cards  *)
(* at the other ends that are empty, and into those of clients.            *)
Sent(b, S, p) == [n \in PolledNics |-> IF b[n] = Nothing /\ ntSend(S, n) THEN p ELSE b[n]]

Taken(S, p) == [c \in Clients |-> card[c] \cup {x \in {p} : ntSend(S, Nic(c))}]

ntPacketClearAll(b, S) == [n \in PolledNics |-> IF n \in S THEN Nothing ELSE b[n]]

On(r, P) == {<<r, p>> : p \in P}

-----------------------------------------------------------------------------
(* InitiateRouter builds the table from the cards that answer.             *)
ntCheckDevice(r, p) == <<r, p>> \in inserted

Booted(r) == [p \in Peripherals |-> IF ntCheckDevice(r, p) THEN 1 ELSE 0]

(* A client that is not sending.                                           *)
NoCommand == <<Nothing, 0>>

Sends == (Address \X (1 .. SendTries)) \cup {NoCommand}

(* Every server is not connected yet, and its first request is due.        *)
InitiateServer ==
  /\ connectionStatus = [h \in Servers |-> 0]
  /\ connectionAttemptCounter = [h \in Servers |-> ConnectEvery]

Init ==
  /\ inserted \in {Nics \ L : L \in SUBSET Late}
  /\ buffer = [n \in PolledNics |-> Nothing]
  /\ card = [c \in Clients |-> {}]
  /\ device_state = [r \in Routers |-> Booted(r)]
  /\ device_type = [r \in Routers |-> [p \in Peripherals |-> "UNKNOWN"]]
  /\ address = [r \in Routers |-> [p \in Peripherals |-> ZeroAddress]]
  /\ reconnRequestCounter = [r \in Routers |-> [p \in Peripherals |-> 0]]
  /\ reconnRequestTimeOut = [r \in Routers |-> 0]
  /\ reconnRequestRate = [r \in Routers |-> RateMin]
  /\ at = [r \in Routers |-> <<"boot", 1>>]
  /\ InitiateServer
  /\ doing = [c \in Clients |-> NoCommand]
  /\ events = 0

Active(r) == {p \in Peripherals : device_state[r][p] = 1}

(* A round of handshakes on all active cards, before the main loop.        *)
BootHandshake(r) ==
  /\ at[r][1] = "boot"
  /\ buffer' = Sent(buffer, On(r, Active(r)), packetRouterHandshakeOutgoing)
  /\ card' = Taken(On(r, Active(r)), packetRouterHandshakeOutgoing)
  /\ at' = [at EXCEPT ![r] = IF @[2] < HandshakeRetries THEN <<"boot", @[2] + 1>>
                             ELSE <<"turn", 0>>]
  /\ UNCHANGED <<inserted, tableVars, reconnVars, serverVars, doing, events>>

(* The ports no handshake has been seen on, those of them a search for new *)
(* cards invites, and the port that renews its link.                       *)
Unknown(r) == {p \in Peripherals : device_type[r][p] = "UNKNOWN"}

(* Slip: only ports that are already in use are searched.                  *)
FoundActive(r, search) == {p \in Unknown(r) \cap {q \in Peripherals : device_state[r][q] = 1} : search}

Found(r, search) == {p \in Unknown(r) : search /\ ntCheckDevice(r, p)}

Invited(r, search) ==
  {p \in Unknown(r) : search /\ p \in Active(r) \cup Found(r, search)}

Renewed(r, s, due) == {p \in {s} : due /\ device_type[r][p] = "ROUTER"}

(* Slip: the count of time-outs is not set back by a search.               *)
TimeOutKept(timeOut, search) == timeOut

TimeOutAfter(timeOut, search) == IF search THEN 0 ELSE timeOut

RateAfter(rate, lengthen, search) ==
  IF search THEN RateMin ELSE IF lengthen THEN RateMax ELSE rate

(* The counters run on port by port; only port 0 counts time-outs, and     *)
(* the rate is common to all ports.                                        *)
Due(r) == reconnRequestCounter[r][at[r][2]] + 1 > reconnRequestRate[r]

TimeOut(r) == reconnRequestTimeOut[r] + (IF Due(r) /\ at[r][2] = 0 THEN 1 ELSE 0)

Lengthen(r) == Due(r) /\ TimeOut(r) > LengthenAfter
Search(r) == Due(r) /\ TimeOut(r) > ReinsertAfter

Greeted(r) == On(r, Invited(r, Search(r)) \cup Renewed(r, at[r][2], Due(r)))

Count(r) ==
  /\ reconnRequestCounter' = [reconnRequestCounter EXCEPT ![r][at[r][2]] = IF Due(r) THEN 0 ELSE @ + 1]
  /\ reconnRequestTimeOut' = [reconnRequestTimeOut EXCEPT ![r] = TimeOutAfter(TimeOut(r), Search(r))]
  /\ reconnRequestRate' = [reconnRequestRate EXCEPT ![r] = RateAfter(@, Lengthen(r), Search(r))]

(* The head of the loop body for a port, when it greets any.               *)
Reconnect(r) ==
  /\ at[r][1] = "turn" /\ Greeted(r) # {}
  /\ Count(r)
  /\ device_state' = [device_state EXCEPT ![r] =
                        [p \in Peripherals |-> IF p \in Found(r, Search(r)) THEN 1 ELSE @[p]]]
  /\ buffer' = Sent(ntPacketClearAll(buffer, Greeted(r)), Greeted(r), packetRouterHandshakeOutgoing)
  /\ card' = Taken(Greeted(r), packetRouterHandshakeOutgoing)
  /\ at' = [at EXCEPT ![r] = <<"receive", @[2]>>]
  /\ UNCHANGED <<inserted, device_type, address, serverVars, doing, events>>

(* A head that greets no port touches nothing but the router's counters,   *)
(* so it is one step with the reading of the card that follows.            *)
Polls(r) ==
  \/ at[r][1] = "receive" /\ UNCHANGED reconnVars
  \/ at[r][1] = "turn" /\ Greeted(r) = {} /\ Count(r)

NextPort(r) == at' = [at EXCEPT ![r] = <<"turn", (@[2] + 1) % NumberOfPeripherals>>]

(* The card whose turn it is, and the packet ntPacketReceive finds there.  *)
Here(r) == <<r, at[r][2]>>
Arrived(r) == buffer[Here(r)]

NoPacket(r) ==
  /\ Polls(r)
  /\ at[r][2] \notin Active(r) \/ Arrived(r) = Nothing
  /\ NextPort(r)
  /\ UNCHANGED <<buffer, card, inserted, tableVars, serverVars, doing, events>>

Receive(r) ==
  /\ Polls(r)
  /\ at[r][2] \in Active(r) /\ Arrived(r) # Nothing
  /\ NextPort(r)
  /\ UNCHANGED <<inserted, device_state, serverVars, doing, events>>

(* Once the packet is read the card is cleared; then p is sent on cards S. *)
Pass(r, S, p) ==
  /\ buffer' = Sent(ntPacketClearAll(buffer, {Here(r)}), S, p)
  /\ card' = Taken(S, p)

(* Slip: only the first byte of a request is looked at.                    *)
RequestByFirstByte(p) == p.data \in {"55 00", "55 55"}

IsRequest(p) == p.data = "55 00"

FromRouter(p) == p.src = RouterAddress

(* A packet to the router.  55 00 is a connection request, whoever sends   *)
(* it: a ping too, which carries address 0.0.                              *)
ToRouter(r) ==
  LET s == at[r][2]
      p == Arrived(r)
      request == IsRequest(p)
      router == ~request /\ FromRouter(p)
  IN
  /\ Receive(r) /\ p.dst = RouterAddress
  /\ device_type' = [device_type EXCEPT ![r][s] =
                       IF request THEN "NODE"
                       ELSE IF router /\ p.data \in {"55 55", "AA AA"} THEN "ROUTER" ELSE @]
  /\ address' = [address EXCEPT ![r][s] = IF request THEN p.src ELSE @]
  /\ CASE request -> Pass(r, {Here(r)}, packetClientHandshake)
       [] router /\ p.data = "55 55" -> Pass(r, {Here(r)}, packetRouterHandshakeReturn)
       [] ~request /\ p.src = ZeroAddress -> Pass(r, {Here(r)}, p)
       [] OTHER -> Pass(r, {}, p)

(* Any other packet goes to the first port with its destination, if there  *)
(* is one.                                                                 *)
(* Slip: any end point is taken for the destination.                       *)
LocatedAny(r, d) == {p \in Peripherals : device_type[r][p] = "NODE"}

Located(r, d) == {p \in Peripherals : device_type[r][p] = "NODE" /\ address[r][p] = d}

ToNode(r) ==
  LET found == Located(r, Arrived(r).dst)
  IN
  /\ Receive(r) /\ Arrived(r).dst # RouterAddress /\ found # {}
  /\ LET d == CHOOSE p \in found : \A q \in found : p <= q
     IN Pass(r, {<<r, d>>}, Arrived(r))
  /\ UNCHANGED <<device_type, address>>

(* ... and otherwise to all gateways but the one it came from.             *)
Gateways(r) == {p \in Peripherals : device_type[r][p] = "ROUTER"}

(* Slip: the port the packet came from is not left out.                    *)
OnwardAll(r) == On(r, Gateways(r))

Onward(r) == On(r, Gateways(r) \ {at[r][2]})

ToGateways(r) ==
  /\ Receive(r) /\ Arrived(r).dst # RouterAddress /\ Located(r, Arrived(r).dst) = {}
  /\ Pass(r, Onward(r), Arrived(r))
  /\ UNCHANGED <<device_type, address>>

RouterNext(r) ==
  BootHandshake(r) \/ Reconnect(r) \/ NoPacket(r) \/ ToRouter(r) \/ ToNode(r) \/ ToGateways(r)

-----------------------------------------------------------------------------
(* Slip: any packet of a router is taken for the confirmation.             *)
ConfirmationByAddress(p) == FromRouter(p)

IsConfirmation(p) == FromRouter(p) /\ IsRequest(p)

(* Anything that is not from a router is answered, and displayed.          *)
Answered(h, b, p) ==
  IF p = Nothing \/ FromRouter(p) THEN b
  ELSE Sent(b, {Nic(h)}, packetClientReturn(h, p.src))

(* One loop of InitiateServer: a request for a connection when it is due,  *)
(* then the packet that arrived.                                           *)
ServerNext(h) ==
  LET due == connectionStatus[h] = 0 /\ connectionAttemptCounter[h] + 1 > ConnectEvery
      asked == IF due THEN Sent(buffer, {Nic(h)}, packetRouterConnectionRequest(h)) ELSE buffer
      p == asked[Nic(h)]
  IN
  /\ connectionAttemptCounter' = [connectionAttemptCounter EXCEPT ![h] =
                                    IF due THEN 0 ELSE IF connectionStatus[h] = 0 THEN @ + 1 ELSE @]
  /\ connectionStatus' = [connectionStatus EXCEPT ![h] =
       IF p # Nothing /\ IsConfirmation(p) THEN 1 ELSE @]
  /\ buffer' = Answered(h, ntPacketClearAll(asked, {Nic(h)}), p)
  /\ UNCHANGED <<card, inserted, tableVars, reconnVars, at, doing, events>>

-----------------------------------------------------------------------------
(* A person at a client types net commands, one at a time.  The ones that  *)
(* wait for an answer give up after a second, which may be too soon.  What *)
(* they print is left out, and so are baud, src and the endless rep.       *)

(* dst sets any two bytes, those of no host too, before a send.            *)
Targets == Address

ntPacketReceive(c) == card[c] # {}

(* A command that sends p, by way of the router the client is wired to.    *)
(* The first command also initiates the card, which every host has.        *)
functionNet(c, p) ==
  /\ events < MaxEvents /\ doing[c] = NoCommand
  /\ events' = events + 1
  /\ buffer' = Sent(buffer, {Nic(c)}, p)
  /\ UNCHANGED <<inserted, tableVars, reconnVars, at, serverVars>>

(* con and ping set the count of the card to 0 (ntReceiveClear), after     *)
(* which the packets in it can be found until others lie over them.  They  *)
(* wait for a packet or the time-out, print, and leave what has come: to   *)
(* the network they are over once they have sent.                          *)
Connect(c) ==
  /\ functionNet(c, packetRouterConnectionRequest(c))  (* as a server's    *)
  /\ UNCHANGED <<doing, card>>

PingRouter(c) == functionNet(c, Ping) /\ UNCHANGED <<doing, card>>

Message(c, d) == Packet(d, c, "text")

(* The packets in the card of client c are now P.                          *)
CardHas(c, P) == card' = [card EXCEPT ![c] = P]

(* A send clears the card, ...                                             *)
Send(c) ==
  \E d \in Targets :
    /\ functionNet(c, Message(c, d))
    /\ doing' = [doing EXCEPT ![c] = <<d, 1>>]
    /\ CardHas(c, {})

Return(c) ==
  /\ doing[c] # NoCommand
  /\ doing' = [doing EXCEPT ![c] = NoCommand]
  /\ UNCHANGED <<events, buffer, inserted, tableVars, reconnVars, at, serverVars>>

(* ... is ended by any packet, and then clears it again.                   *)
SendAnswered(c) == ntPacketReceive(c) /\ CardHas(c, {}) /\ Return(c)

(* A send nobody answers is repeated: the text may arrive several times.   *)
SendAgain(c) ==
  /\ events < MaxEvents /\ doing[c] # NoCommand
  /\ doing[c][2] < SendTries /\ ~ntPacketReceive(c)
  /\ events' = events + 1
  /\ doing' = [doing EXCEPT ![c] = <<@[1], @[2] + 1>>]
  /\ buffer' = Sent(buffer, {Nic(c)}, Message(c, doing[c][1]))
  /\ UNCHANGED <<card, inserted, tableVars, reconnVars, at, serverVars>>

SendTimedOut(c) ==
  /\ doing[c][2] = SendTries /\ ~ntPacketReceive(c)
  /\ Return(c) /\ UNCHANGED card

(* recv reads one packet and clears its bytes and the one after them, so   *)
(* that a packet right behind it is cut; others, or a copy, can be left    *)
(* (packet.c:66).                                                          *)
Recv(c) ==
  /\ events < MaxEvents /\ doing[c] = NoCommand /\ ntPacketReceive(c)
  /\ events' = events + 1
  /\ \E rest \in SUBSET card[c] : CardHas(c, rest)
  /\ UNCHANGED <<doing, buffer, inserted, tableVars, reconnVars, at, serverVars>>

ClientNext(c) ==
  \/ Connect(c) \/ PingRouter(c) \/ Recv(c)
  \/ Send(c) \/ SendAnswered(c) \/ SendAgain(c) \/ SendTimedOut(c)

-----------------------------------------------------------------------------
(* Faults: a packet is lost, a router restarts, a card is plugged in.      *)
Lose(n) ==
  /\ events < MaxEvents /\ buffer[n] # Nothing
  /\ events' = events + 1
  /\ buffer' = [buffer EXCEPT ![n] = Nothing]
  /\ UNCHANGED <<card, inserted, tableVars, reconnVars, at, serverVars, doing>>

LoseAnswer(c, p) ==
  /\ events < MaxEvents
  /\ events' = events + 1
  /\ CardHas(c, card[c] \ {p})
  /\ UNCHANGED <<buffer, inserted, tableVars, reconnVars, at, serverVars, doing>>

Reset(r) ==
  /\ events < MaxEvents /\ r \in Resettable
  /\ events' = events + 1
  /\ device_state' = [device_state EXCEPT ![r] = Booted(r)]
  /\ device_type' = [device_type EXCEPT ![r] = [p \in Peripherals |-> "UNKNOWN"]]
  /\ address' = [address EXCEPT ![r] = [p \in Peripherals |-> ZeroAddress]]
  /\ reconnRequestCounter' = [reconnRequestCounter EXCEPT ![r] = [p \in Peripherals |-> 0]]
  /\ reconnRequestTimeOut' = [reconnRequestTimeOut EXCEPT ![r] = 0]
  /\ reconnRequestRate' = [reconnRequestRate EXCEPT ![r] = RateMin]
  /\ at' = [at EXCEPT ![r] = <<"boot", 1>>]
  /\ UNCHANGED <<buffer, card, inserted, serverVars, doing>>

Insert(n) ==
  /\ events < MaxEvents /\ n \notin inserted
  /\ events' = events + 1
  /\ inserted' = inserted \cup {n}
  /\ UNCHANGED <<buffer, card, tableVars, reconnVars, at, serverVars, doing>>

Next ==
  \/ \E r \in Routers : RouterNext(r) \/ Reset(r)
  \/ \E h \in Servers : ServerNext(h)
  \/ \E c \in Clients : ClientNext(c) \/ \E p \in card[c] : LoseAnswer(c, p)
  \/ \E n \in PolledNics : Lose(n)
  \/ \E n \in Nics : Insert(n)

(* Every router comes to each of its ports again and again (router.c:154), *)
(* at a speed of its own: as much as weak fairness of RouterNext(r), which *)
(* can always take a step.  Nothing is promised of people and faults.      *)
Fairness == \A r \in Routers, p \in Peripherals : []<>(at[r] \in {"turn", "receive"} \X {p})

Spec == Init /\ [][Next]_vars /\ Fairness

-----------------------------------------------------------------------------
(* The state of the network is well formed (router.h, packet.h).           *)
NetworkTypeOK ==
  /\ buffer \in [PolledNics -> Packets \cup {Nothing}]
  /\ card \in [Clients -> SUBSET Packets]
  /\ inserted \in SUBSET Nics
  /\ device_state \in [Routers -> [Peripherals -> {0, 1}]]
  /\ device_type \in [Routers -> [Peripherals -> {"UNKNOWN", "NODE", "ROUTER"}]]
  /\ address \in [Routers -> [Peripherals -> Address]]
  /\ reconnRequestCounter \in [Routers -> [Peripherals -> Nat]]
  /\ reconnRequestTimeOut \in [Routers -> 0 .. ReinsertAfter]
  /\ reconnRequestRate \in [Routers -> {RateMin, RateMax}]
  /\ at \in [Routers -> ({"boot"} \X (1 .. HandshakeRetries))
                        \cup ({"turn", "receive"} \X Peripherals)]
  /\ connectionStatus \in [Servers -> {0, 1}]
  /\ connectionAttemptCounter \in [Servers -> 0 .. ConnectEvery]
  /\ doing \in [Clients -> Sends]
  /\ events \in 0 .. MaxEvents

(* The handshakes never mistake a host for a router or the reverse, and    *)
(* the address of a port is that of the host behind it, or 0.0 once that   *)
(* host, a client, has pinged (router.c:264-308), whatever is lost or      *)
(* restarted.                                                              *)
TableTrue ==
  \A r \in Routers, p \in Peripherals :
    /\ device_type[r][p] = "ROUTER" => <<r, p>> \in DOMAIN Wire /\ Wire[<<r, p>>] \in RouterNics
    /\ device_type[r][p] = "NODE" =>
         \E h \in Hosts :
           /\ Wire[<<r, p>>] = Nic(h)
           /\ address[r][p] \in {h} \cup {z \in {ZeroAddress} : h \in Clients}

(* What reaches a server is for it, or from its router.  A client can be   *)
(* reached by a text for 0.0 too, as a ping leaves that address in the     *)
(* table (router.c:273-278, 336-387); nobody gets the text of another.     *)
HostsGetTheirOwn ==
  /\ \A h \in Servers : buffer[Nic(h)] # Nothing =>
       buffer[Nic(h)].dst = h \/ FromRouter(buffer[Nic(h)])
  /\ \A c \in Clients : \A p \in card[c] : p.dst \in {c, ZeroAddress} \/ FromRouter(p)

(* A server that shows "Connected" (server.c:126-136) is in the table of   *)
(* its router, as long as that router does not restart.  The router sends  *)
(* the confirmation just before it writes the table (router.c:270-278):    *)
(* both are one step here, so this holds once it has done with a packet.   *)
ConnectedIsKnown ==
  \A h \in Servers : connectionStatus[h] = 1 =>
    LET n == Wire[Nic(h)]
    IN n[1] \notin Resettable => device_type[n[1]][n[2]] = "NODE" /\ address[n[1]][n[2]] = h

(* A card that is plugged in late is taken into the table in the end: the  *)
(* time-outs go on being counted, through the longer interval, up to the   *)
(* next search for new cards, whatever the other boards and the people do  *)
(* (router.c:164-200).                                                     *)
LateCardsFound ==
  \A n \in Late : n \in inserted ~> device_state[n[1]][n[2]] = 1

(* No text travels for ever: on a tree of routers a packet is not sent     *)
(* back, also when nobody has its address (router.c:367-387).  It only     *)
(* takes that each router goes on, at any speed.                           *)
TextLeaves == <>[](\A n \in RouterNics : buffer[n] = Nothing \/ buffer[n].data # "text")
=============================================================================
