---------------------------- MODULE NetworkProofs ---------------------------
(***************************************************************************)
(* What holds of every network of routers, servers and clients, at         *)
(* whatever speed each board runs, and whatever is lost, plugged in or     *)
(* restarted.                                                              *)
(***************************************************************************)
EXTENDS Network, TLAPS, WellFoundedInduction

Buffers == [PolledNics -> Packets \cup {Nothing}]

(* What may be on its way to a card, by what is at the two ends of its     *)
(* wire: greetings and text between routers, requests and text from a      *)
(* host, greetings and its own text to a host, or to a client one for 0.0. *)
IsText(p) == p.data = "text" /\ p.src \in Hosts /\ p.dst \in Address

Called(h) == {h} \cup {z \in {ZeroAddress} : h \in Clients}

Asks(h, p) == p = packetRouterConnectionRequest(h) \/ (h \in Clients /\ p = Ping)

Allowed(n, p) ==
  /\ n \in RouterNics /\ Wire[n] \in RouterNics =>
       \/ p \in {packetRouterHandshakeOutgoing, packetRouterHandshakeReturn}
       \/ IsText(p) /\ p.dst # RouterAddress
  /\ \A h \in Hosts : n \in RouterNics /\ Wire[n] = Nic(h) => Asks(h, p) \/ IsText(p)
  /\ \A h \in Hosts : n = Nic(h) =>
       p \in {packetClientHandshake, packetRouterHandshakeOutgoing} \/ (IsText(p) /\ p.dst \in Called(h))

Carried(b) == \A n \in PolledNics : b[n] # Nothing => n \in DOMAIN Wire /\ Allowed(n, b[n])

CardsCarried == \A c \in Clients : \A p \in card[c] : Allowed(Nic(c), p)

(* A server has been promised its place once the confirmation is on its    *)
(* way to it.                                                              *)
Known(h) ==
  LET n == Wire[Nic(h)]
  IN device_type[n[1]][n[2]] = "NODE" /\ address[n[1]][n[2]] = h

Promised ==
  \A h \in Servers :
    /\ Wire[Nic(h)][1] \notin Resettable
    /\ connectionStatus[h] = 1 \/ buffer[Nic(h)] = packetClientHandshake
    => Known(h)

NetworkInv == NetworkTypeOK /\ TableTrue /\ Carried(buffer) /\ CardsCarried /\ Promised

-----------------------------------------------------------------------------
LEMMA Cards ==
  /\ Nics = HostNics \cup RouterNics
  /\ RouterNics \cap HostNics = {}
  /\ \A h \in Hosts : Nic(h) \in HostNics
  /\ \A r \in Routers, p \in Peripherals : <<r, p>> \in RouterNics
  /\ RouterNics \subseteq PolledNics /\ PolledNics \subseteq Nics
  /\ \A h \in Servers : Nic(h) \in PolledNics
<1>1. RouterNics \cap HostNics = {}
  BY NetworkAssumption DEF NetworkAssumption, RouterNics, HostNics, Nic
<1> QED BY <1>1 DEF Nics, RouterNics, HostNics, PolledNics, Hosts

LEMMA Wires ==
  /\ \A n \in DOMAIN Wire : n \in Nics /\ Wire[n] \in DOMAIN Wire /\ Wire[Wire[n]] = n
  /\ \A h \in Hosts : Nic(h) \in DOMAIN Wire /\ Wire[Nic(h)] \in RouterNics
  /\ \A n \in DOMAIN Wire : n \in HostNics \/ n \in RouterNics
  /\ \A n \in HostNics : \E h \in Hosts : n = Nic(h)
<1>1. \A h \in Hosts : Nic(h) \in HostNics
  BY Cards
<1> QED BY <1>1, NetworkAssumption, Cards DEF NetworkAssumption, HostNics

LEMMA Addresses ==
  /\ ZeroAddress # RouterAddress
  /\ \A h \in Hosts : h \notin {ZeroAddress, RouterAddress, Stranger}
  /\ Stranger \notin {ZeroAddress, RouterAddress}
  /\ Servers \cap Clients = {}
BY NetworkAssumption DEF NetworkAssumption

LEMMA Greetings ==
  /\ {packetClientHandshake, packetRouterHandshakeOutgoing, packetRouterHandshakeReturn, Ping}
       \subseteq Packets
  /\ \A h \in Hosts : packetRouterConnectionRequest(h) \in Packets
  /\ \A h \in Hosts, a \in Address : packetClientReturn(h, a) \in Packets
BY DEF Packets, Address, Packet, packetClientHandshake, packetRouterHandshakeOutgoing,
       packetRouterHandshakeReturn, Ping, packetRouterConnectionRequest, packetClientReturn

(* Sending and clearing keep a buffer of packets.                          *)
LEMMA SentBuffers ==
  ASSUME NEW b \in Buffers, NEW S, NEW p \in Packets
  PROVE  Sent(b, S, p) \in Buffers
BY DEF Buffers, Sent

LEMMA ClearedBuffers ==
  ASSUME NEW b \in Buffers, NEW S
  PROVE  ntPacketClearAll(b, S) \in Buffers
BY DEF Buffers, ntPacketClearAll

(* A packet gets only to the other ends of the wires it is sent on.        *)
LEMMA SentWhere ==
  ASSUME NEW b, NEW S, NEW p, NEW n \in PolledNics, Sent(b, S, p)[n] # b[n]
  PROVE  Sent(b, S, p)[n] = p /\ \E m \in S \cap DOMAIN Wire : n = Wire[m]
<1>1. Sent(b, S, p)[n] = p /\ ntSend(S, n)
  BY DEF Sent
<1> QED BY <1>1, Wires DEF ntSend

LEMMA ClearedWhere ==
  ASSUME NEW b, NEW S, NEW n \in PolledNics
  PROVE  ntPacketClearAll(b, S)[n] \in {b[n], Nothing}
BY DEF ntPacketClearAll

LEMMA ClearedCarried ==
  ASSUME NEW b, NEW S, Carried(b)
  PROVE  Carried(ntPacketClearAll(b, S))
BY ClearedWhere DEF Carried

LEMMA SentCarried ==
  ASSUME NEW b, NEW S, NEW p, Carried(b),
         \A m \in S \cap DOMAIN Wire : Allowed(Wire[m], p)
  PROVE  Carried(Sent(b, S, p))
<1> SUFFICES ASSUME NEW n \in PolledNics, Sent(b, S, p)[n] # Nothing
             PROVE  n \in DOMAIN Wire /\ Allowed(n, Sent(b, S, p)[n])
  BY DEF Carried
<1>1. CASE Sent(b, S, p)[n] = b[n]
  BY <1>1 DEF Carried
<1>2. CASE Sent(b, S, p)[n] # b[n]
  BY <1>2, SentWhere, Wires
<1> QED BY <1>1, <1>2

(* What is taken by the cards of clients.                                  *)
LEMMA TakenCarried ==
  ASSUME CardsCarried, NEW S, NEW p, card' = Taken(S, p),
         \A m \in S \cap DOMAIN Wire : Allowed(Wire[m], p)
  PROVE  CardsCarried'
<1> SUFFICES ASSUME NEW c \in Clients, NEW x \in card'[c]
             PROVE  Allowed(Nic(c), x)
  BY DEF CardsCarried
<1>1. CASE x \in card[c]
  BY <1>1 DEF CardsCarried
<1>2. CASE x \notin card[c]
  <2>1. x = p /\ ntSend(S, Nic(c))
    BY <1>2 DEF Taken
  <2> QED BY <2>1, Wires DEF ntSend
<1> QED BY <1>1, <1>2

LEMMA TakenTypes ==
  ASSUME NetworkTypeOK, NEW S, NEW p \in Packets, card' = Taken(S, p)
  PROVE  card' \in [Clients -> SUBSET Packets]
BY DEF NetworkTypeOK, Taken

-----------------------------------------------------------------------------
(* Types.                                                                  *)
LEMMA InitTypes == Init => NetworkTypeOK
<1> SUFFICES ASSUME Init PROVE NetworkTypeOK
  OBVIOUS
<1>1. 0 \in Peripherals
  BY NetworkAssumption DEF NetworkAssumption, Peripherals
<1> QED
  BY <1>1, NetworkAssumption DEF Init, InitiateServer, NetworkTypeOK, Sends, NetworkAssumption, Address, Booted

(* The port whose turn it is.                                              *)
LEMMA Turns ==
  ASSUME NetworkTypeOK, NEW r \in Routers, at[r][1] # "boot"
  PROVE  at[r][2] \in Peripherals /\ Here(r) \in RouterNics
<1>1. at[r] \in ({"boot"} \X (1 .. HandshakeRetries)) \cup ({"turn", "receive"} \X Peripherals)
  BY DEF NetworkTypeOK
<1>2. at[r][2] \in Peripherals
  BY <1>1
<1> QED BY <1>2 DEF Here, RouterNics

LEMMA NextPortType ==
  ASSUME NetworkTypeOK, NEW r \in Routers, at[r][1] # "boot", NextPort(r)
  PROVE  at' \in [Routers -> ({"boot"} \X (1 .. HandshakeRetries))
                        \cup ({"turn", "receive"} \X Peripherals)]
<1>1. at[r][2] \in Peripherals
  BY Turns
<1>2. (at[r][2] + 1) % NumberOfPeripherals \in Peripherals
  BY <1>1, NetworkAssumption DEF NetworkAssumption, Peripherals
<1> QED BY <1>2 DEF NextPort, NetworkTypeOK

(* The counters of a turn.                                                 *)
LEMMA CountTypes ==
  ASSUME NetworkTypeOK, NEW r \in Routers, at[r][2] \in Peripherals, Count(r)
  PROVE  /\ reconnRequestCounter' \in [Routers -> [Peripherals -> Nat]]
         /\ reconnRequestTimeOut' \in [Routers -> 0 .. ReinsertAfter]
         /\ reconnRequestRate' \in [Routers -> {RateMin, RateMax}]
<1>1. reconnRequestCounter' \in [Routers -> [Peripherals -> Nat]]
  BY DEF Count, NetworkTypeOK
<1>2. TimeOutAfter(TimeOut(r), Search(r)) \in 0 .. ReinsertAfter
  <2>1. reconnRequestTimeOut[r] \in 0 .. ReinsertAfter /\ ReinsertAfter \in Nat
    BY NetworkAssumption DEF NetworkAssumption, NetworkTypeOK
  <2>2. TimeOut(r) \in Nat /\ (~Due(r) => TimeOut(r) = reconnRequestTimeOut[r])
    BY <2>1 DEF TimeOut
  <2>3. CASE Search(r)
    BY <2>1, <2>3 DEF TimeOutAfter
  <2>4. CASE ~Search(r)
    <3>1. TimeOut(r) <= ReinsertAfter
      BY <2>1, <2>2, <2>4 DEF Search
    <3> QED BY <2>1, <2>2, <2>4, <3>1 DEF TimeOutAfter
  <2> QED BY <2>3, <2>4
<1>3. reconnRequestTimeOut' \in [Routers -> 0 .. ReinsertAfter]
  BY <1>2 DEF Count, NetworkTypeOK
<1>4. reconnRequestRate' \in [Routers -> {RateMin, RateMax}]
  BY DEF Count, NetworkTypeOK, RateAfter
<1> QED BY <1>1, <1>3, <1>4

LEMMA PollTypes ==
  ASSUME NetworkTypeOK, NEW r \in Routers, Polls(r)
  PROVE  /\ at[r][1] # "boot" /\ at[r][2] \in Peripherals
         /\ reconnRequestCounter' \in [Routers -> [Peripherals -> Nat]]
         /\ reconnRequestTimeOut' \in [Routers -> 0 .. ReinsertAfter]
         /\ reconnRequestRate' \in [Routers -> {RateMin, RateMax}]
<1>1. at[r][1] # "boot" /\ at[r][2] \in Peripherals
  BY Turns DEF Polls
<1>2. CASE UNCHANGED reconnVars
  BY <1>1, <1>2 DEF reconnVars, NetworkTypeOK
<1>3. CASE Count(r)
  BY <1>1, <1>3, CountTypes
<1> QED BY <1>1, <1>2, <1>3 DEF Polls

(* The packet a router takes, and what it sends on in its place.           *)
LEMMA ArrivedPacket ==
  ASSUME NetworkTypeOK, NEW r \in Routers, Receive(r)
  PROVE  /\ at[r][2] \in Peripherals /\ Here(r) \in RouterNics
         /\ Arrived(r) \in Packets /\ Arrived(r) = buffer[Here(r)] /\ buffer[Here(r)] # Nothing
<1>1. at[r][2] \in Peripherals /\ Here(r) \in PolledNics /\ Here(r) \in RouterNics
  BY Turns, PollTypes, Cards DEF Receive
<1>2. buffer[Here(r)] \in Packets \cup {Nothing}
  BY <1>1 DEF NetworkTypeOK
<1> QED BY <1>1, <1>2 DEF Receive, Arrived

LEMMA PassTypes ==
  ASSUME NetworkTypeOK, NEW r, NEW S, NEW p \in Packets, Pass(r, S, p)
  PROVE  buffer' \in Buffers /\ card' \in [Clients -> SUBSET Packets]
BY SentBuffers, ClearedBuffers, TakenTypes DEF Pass, NetworkTypeOK, Buffers

LEMMA BootTypes ==
  ASSUME NetworkTypeOK, NEW r \in Routers, BootHandshake(r)
  PROVE  NetworkTypeOK'
<1>1. buffer' \in Buffers
  BY SentBuffers, Greetings DEF BootHandshake, NetworkTypeOK, Buffers
<1>2. at[r] \in ({"boot"} \X (1 .. HandshakeRetries)) \cup ({"turn", "receive"} \X Peripherals)
  BY DEF NetworkTypeOK
<1>3. at[r][1] = "boot" /\ at[r][2] \in 1 .. HandshakeRetries
  BY <1>2 DEF BootHandshake
<1>4. 0 \in Peripherals /\ HandshakeRetries \in Nat
  BY NetworkAssumption DEF NetworkAssumption, Peripherals
<1>5. at' \in [Routers -> ({"boot"} \X (1 .. HandshakeRetries))
                        \cup ({"turn", "receive"} \X Peripherals)]
  BY <1>3, <1>4 DEF BootHandshake, NetworkTypeOK
<1>6. card' \in [Clients -> SUBSET Packets]
  BY TakenTypes, Greetings DEF BootHandshake
<1> QED
  BY <1>1, <1>5, <1>6 DEF BootHandshake, NetworkTypeOK, Buffers, tableVars, reconnVars, serverVars

LEMMA ReconnectTypes ==
  ASSUME NetworkTypeOK, NEW r \in Routers, Reconnect(r)
  PROVE  NetworkTypeOK'
<1>1. at[r][2] \in Peripherals
  BY Turns DEF Reconnect
<1>2. buffer' \in Buffers
  BY SentBuffers, ClearedBuffers, Greetings DEF Reconnect, NetworkTypeOK, Buffers
<1>3. at' \in [Routers -> ({"boot"} \X (1 .. HandshakeRetries))
                        \cup ({"turn", "receive"} \X Peripherals)]
  BY <1>1 DEF Reconnect, NetworkTypeOK
<1>4. card' \in [Clients -> SUBSET Packets]
  BY TakenTypes, Greetings DEF Reconnect
<1>5. /\ reconnRequestCounter' \in [Routers -> [Peripherals -> Nat]]
      /\ reconnRequestTimeOut' \in [Routers -> 0 .. ReinsertAfter]
      /\ reconnRequestRate' \in [Routers -> {RateMin, RateMax}]
  BY <1>1, CountTypes DEF Reconnect
<1>7. device_state' \in [Routers -> [Peripherals -> {0, 1}]]
  BY DEF Reconnect, NetworkTypeOK
<1> QED
  BY <1>2, <1>3, <1>4, <1>5, <1>7 DEF Reconnect, NetworkTypeOK, Buffers, serverVars

LEMMA ReceiveTypes ==
  ASSUME NetworkTypeOK, NEW r \in Routers,
         ToRouter(r) \/ ToNode(r) \/ ToGateways(r)
  PROVE  NetworkTypeOK'
<1> USE DEF Receive
<1>1. Receive(r)
  BY DEF ToRouter, ToNode, ToGateways
<1>2. at' \in [Routers -> ({"boot"} \X (1 .. HandshakeRetries))
                        \cup ({"turn", "receive"} \X Peripherals)]
  BY <1>1, NextPortType, PollTypes
<1>3. Arrived(r) \in Packets /\ at[r][2] \in Peripherals
  BY <1>1, ArrivedPacket
<1>4. \E S : \E p \in Packets : Pass(r, S, p)
  BY <1>3, Greetings DEF ToRouter, ToNode, ToGateways
<1>5. buffer' \in Buffers /\ card' \in [Clients -> SUBSET Packets]
  BY <1>4, PassTypes
<1>6. Arrived(r).src \in Address
  BY <1>3 DEF Packets
<1>7. /\ device_type' \in [Routers -> [Peripherals -> {"UNKNOWN", "NODE", "ROUTER"}]]
      /\ address' \in [Routers -> [Peripherals -> Address]]
  <2>1. CASE ToRouter(r)
    <3>1. /\ device_type \in [Routers -> [Peripherals -> {"UNKNOWN", "NODE", "ROUTER"}]]
          /\ address \in [Routers -> [Peripherals -> Address]]
      BY DEF NetworkTypeOK
    <3>2. \E t \in {"UNKNOWN", "NODE", "ROUTER"}, a \in Address :
            /\ device_type' = [device_type EXCEPT ![r][at[r][2]] = t]
            /\ address' = [address EXCEPT ![r][at[r][2]] = a]
      <4>1. /\ device_type[r][at[r][2]] \in {"UNKNOWN", "NODE", "ROUTER"}
            /\ address[r][at[r][2]] \in Address
        BY <1>3, <3>1
      <4> QED BY <2>1, <1>6, <4>1 DEF ToRouter
    <3> QED BY <1>3, <3>1, <3>2
  <2>2. CASE ToNode(r) \/ ToGateways(r)
    BY <2>2 DEF ToNode, ToGateways, NetworkTypeOK
  <2> QED BY <2>1, <2>2
<1>8. UNCHANGED <<inserted, device_state, serverVars, doing, events>>
  BY <1>1
<1>9. /\ reconnRequestCounter' \in [Routers -> [Peripherals -> Nat]]
      /\ reconnRequestTimeOut' \in [Routers -> 0 .. ReinsertAfter]
      /\ reconnRequestRate' \in [Routers -> {RateMin, RateMax}]
  BY <1>1, PollTypes
<1> HIDE DEF Receive
<1> QED
  BY <1>2, <1>5, <1>7, <1>8, <1>9 DEF NetworkTypeOK, Buffers, serverVars

LEMMA ServerTypes ==
  ASSUME NetworkTypeOK, NEW h \in Servers, ServerNext(h)
  PROVE  NetworkTypeOK'
<1> DEFINE due == connectionStatus[h] = 0 /\ connectionAttemptCounter[h] + 1 > ConnectEvery
           asked == IF due THEN Sent(buffer, {Nic(h)}, packetRouterConnectionRequest(h)) ELSE buffer
           p == asked[Nic(h)]
           read == ntPacketClearAll(asked, {Nic(h)})
<1>1. h \in Hosts /\ Nic(h) \in PolledNics
  BY Cards DEF Hosts
<1>2. asked \in Buffers
  BY <1>1, SentBuffers, Greetings DEF NetworkTypeOK, Buffers
<1>3. read \in Buffers
  BY <1>2, ClearedBuffers
<1>4. p \in Packets \cup {Nothing}
  BY <1>1, <1>2 DEF Buffers
<1>5. buffer' = IF p = Nothing \/ FromRouter(p) THEN read
                ELSE Sent(read, {Nic(h)}, packetClientReturn(h, p.src))
  BY DEF ServerNext, Answered
<1>6. buffer' \in Buffers
  <2>1. CASE p = Nothing \/ FromRouter(p)
    BY <2>1, <1>3, <1>5
  <2>2. CASE ~(p = Nothing \/ FromRouter(p))
    <3>1. p.src \in Address
      BY <2>2, <1>4 DEF Packets
    <3> QED BY <2>2, <3>1, <1>1, <1>3, <1>5, SentBuffers, Greetings
  <2> QED BY <2>1, <2>2
<1>7. connectionStatus' \in [Servers -> {0, 1}]
  BY DEF ServerNext, NetworkTypeOK
<1>8. connectionAttemptCounter' \in [Servers -> 0 .. ConnectEvery]
  BY NetworkAssumption DEF NetworkAssumption, ServerNext, NetworkTypeOK
<1> QED
  BY <1>6, <1>7, <1>8 DEF ServerNext, NetworkTypeOK, Buffers, tableVars, reconnVars

(* Commands and faults are counted.                                        *)
LEMMA EventTypes ==
  ASSUME NetworkTypeOK, events < MaxEvents, events' = events + 1
  PROVE  events' \in 0 .. MaxEvents
BY NetworkAssumption DEF NetworkAssumption, NetworkTypeOK

(* What a client does to the wire: it may send a packet of its own.        *)
LEMMA ClientWire ==
  ASSUME NetworkTypeOK, NEW c \in Clients, ClientNext(c)
  PROVE  \/ buffer' = buffer
         \/ \E p \in Packets : (Asks(c, p) \/ IsText(p)) /\ buffer' = Sent(buffer, {Nic(c)}, p)
<1>1. c \in Hosts
  BY DEF Hosts
<1>2. \A d \in Address : IsText(Message(c, d)) /\ Message(c, d) \in Packets
  BY <1>1 DEF Message, IsText, Packet, Packets, Address
<1>3. CASE Send(c) \/ Connect(c) \/ PingRouter(c)
  <2>1. PICK p \in Packets : (Asks(c, p) \/ IsText(p)) /\ functionNet(c, p)
    BY <1>1, <1>2, <1>3, Greetings DEF Send, Connect, PingRouter, Asks, Targets
  <2> QED BY <2>1 DEF functionNet
<1>4. CASE SendAgain(c)
  <2>1. doing[c] \in Address \X (1 .. SendTries)
    BY <1>4 DEF SendAgain, NetworkTypeOK, Sends
  <2>2. buffer' = Sent(buffer, {Nic(c)}, Message(c, doing[c][1]))
    BY <1>4 DEF SendAgain
  <2> QED BY <2>1, <2>2, <1>2
<1>5. CASE SendAnswered(c) \/ Recv(c) \/ SendTimedOut(c)
  BY <1>5 DEF SendAnswered, SendTimedOut, Return, Recv
<1> QED BY <1>3, <1>4, <1>5 DEF ClientNext

(* ... and takes packets out of its card.                                  *)
LEMMA ClientCard ==
  ASSUME NetworkTypeOK, NEW c \in Clients, ClientNext(c) \/ \E p \in card[c] : LoseAnswer(c, p)
  PROVE  card' = card \/ \E P \in SUBSET card[c] : card' = [card EXCEPT ![c] = P]
BY DEF ClientNext, Connect, PingRouter, Send, SendAnswered, SendAgain, SendTimedOut, Recv,
       LoseAnswer, CardHas

LEMMA FewerTypes ==
  ASSUME NetworkTypeOK, NEW c \in Clients, NEW P \in SUBSET card[c], card' = [card EXCEPT ![c] = P]
  PROVE  card' \in [Clients -> SUBSET Packets]
BY DEF NetworkTypeOK

LEMMA FewerCarried ==
  ASSUME NetworkInv, NEW c \in Clients, NEW P \in SUBSET card[c], card' = [card EXCEPT ![c] = P]
  PROVE  CardsCarried'
BY DEF NetworkInv, NetworkTypeOK, CardsCarried

LEMMA ClientTypes ==
  ASSUME NetworkTypeOK, NEW c \in Clients, ClientNext(c)
  PROVE  NetworkTypeOK'
<1>1. buffer \in Buffers
  BY DEF NetworkTypeOK, Buffers
<1>2. buffer' \in Buffers
  BY <1>1, ClientWire, SentBuffers
<1>6. card' \in [Clients -> SUBSET Packets]
  BY ClientCard, FewerTypes DEF NetworkTypeOK
<1>3. doing' \in [Clients -> Sends]
  <2>1. doing \in [Clients -> Sends] /\ c \in Clients
    BY DEF NetworkTypeOK
  <2>2. 1 \in 1 .. SendTries /\ SendTries \in Nat
    BY NetworkAssumption DEF NetworkAssumption
  <2>3. CASE Send(c)
    BY <2>1, <2>2, <2>3 DEF Send, Targets, Sends
  <2>4. CASE SendAgain(c)
    <3>1. doing[c] \in Address \X (1 .. SendTries) /\ doing[c][2] < SendTries
      BY <2>1, <2>4 DEF SendAgain, Sends
    <3>2. doing' = [doing EXCEPT ![c] = <<doing[c][1], doing[c][2] + 1>>]
      BY <2>4 DEF SendAgain
    <3>3. <<doing[c][1], doing[c][2] + 1>> \in Sends
      BY <2>2, <3>1 DEF Sends
    <3> QED BY <2>1, <3>2, <3>3
  <2>5. CASE Recv(c) \/ Connect(c) \/ PingRouter(c)
    BY <2>1, <2>5 DEF Recv, Connect, PingRouter
  <2>6. CASE Return(c)
    BY <2>1, <2>6 DEF Return, Sends
  <2> QED BY <2>3, <2>4, <2>5, <2>6 DEF ClientNext, SendAnswered, SendTimedOut
<1>4. events' \in 0 .. MaxEvents
  <2>1. CASE events < MaxEvents /\ events' = events + 1
    BY <2>1, EventTypes
  <2>2. CASE events' = events
    BY <2>2 DEF NetworkTypeOK
  <2> QED BY <2>1, <2>2 DEF ClientNext, Send, Connect, PingRouter, functionNet, SendAgain, Return,
                          SendAnswered, SendTimedOut, Recv
<1>5. UNCHANGED <<inserted, tableVars, reconnVars, at, serverVars>>
  BY DEF ClientNext, Send, Connect, PingRouter, functionNet, SendAgain, Return,
         SendAnswered, SendTimedOut, Recv
<1> QED BY <1>2, <1>3, <1>4, <1>5, <1>6 DEF NetworkTypeOK, Buffers, tableVars, reconnVars, serverVars

LEMMA OtherTypes ==
  ASSUME NetworkTypeOK,
         \/ \E r \in Routers : NoPacket(r) \/ Reset(r)
         \/ \E n \in PolledNics : Lose(n)
         \/ \E c \in Clients : \E p \in card[c] : LoseAnswer(c, p)
         \/ \E n \in Nics : Insert(n)
         \/ UNCHANGED vars
  PROVE  NetworkTypeOK'
<1> USE DEF tableVars, reconnVars, serverVars
<1>1. CASE \E r \in Routers : NoPacket(r)
  <2>1. PICK r \in Routers : NoPacket(r)
    BY <1>1
  <2>2. Polls(r) /\ NextPort(r)
    BY <2>1 DEF NoPacket
  <2>3. UNCHANGED <<buffer, card, inserted, tableVars, serverVars, doing, events>>
    BY <2>1 DEF NoPacket
  <2> QED BY <2>2, <2>3, NextPortType, PollTypes DEF NetworkTypeOK
<1>2. CASE \E r \in Routers : Reset(r)
  BY <1>2, NetworkAssumption DEF NetworkAssumption, Reset, NetworkTypeOK, Booted, Address
<1>3. CASE \E n \in PolledNics : Lose(n)
  BY <1>3, NetworkAssumption DEF NetworkAssumption, Lose, NetworkTypeOK
<1>4. CASE \E n \in Nics : Insert(n)
  BY <1>4, NetworkAssumption DEF NetworkAssumption, Insert, NetworkTypeOK
<1>5. CASE UNCHANGED vars
  BY <1>5 DEF vars, NetworkTypeOK
<1>6. CASE \E c \in Clients : \E p \in card[c] : LoseAnswer(c, p)
  <2>1. PICK c \in Clients : \E p \in card[c] : LoseAnswer(c, p)
    BY <1>6
  <2>4. PICK p \in card[c] : LoseAnswer(c, p)
    BY <2>1
  <2>2. card' \in [Clients -> SUBSET Packets]
    BY <2>4, ClientCard, FewerTypes DEF NetworkTypeOK
  <2>3. events' \in 0 .. MaxEvents
    BY <2>4, EventTypes DEF LoseAnswer
  <2> QED BY <2>4, <2>2, <2>3 DEF LoseAnswer, NetworkTypeOK
<1> QED BY <1>1, <1>2, <1>3, <1>4, <1>5, <1>6

LEMMA StepTypes == NetworkTypeOK /\ [Next]_vars => NetworkTypeOK'
<1> SUFFICES ASSUME NetworkTypeOK, [Next]_vars PROVE NetworkTypeOK'
  OBVIOUS
<1>1. CASE \E r \in Routers : RouterNext(r)
  BY <1>1, BootTypes, ReconnectTypes, ReceiveTypes, OtherTypes DEF RouterNext
<1>2. CASE \E h \in Servers : ServerNext(h)
  BY <1>2, ServerTypes
<1>3. CASE \E c \in Clients : ClientNext(c)
  BY <1>3, ClientTypes
<1> QED BY <1>1, <1>2, <1>3, OtherTypes DEF Next

(* The state of the network stays well formed.                             *)
THEOREM NetworkTypeCorrect == Spec => []NetworkTypeOK
BY InitTypes, StepTypes, PTL DEF Spec
-----------------------------------------------------------------------------
(* What the packets are.                                                   *)
LEMMA Kinds ==
  /\ packetRouterHandshakeOutgoing # packetClientHandshake
  /\ packetRouterHandshakeReturn # packetClientHandshake
  /\ Ping # packetClientHandshake
  /\ \A h \in Hosts : packetRouterConnectionRequest(h) # packetClientHandshake
  /\ \A p : IsText(p) => p # packetClientHandshake /\ ~FromRouter(p) /\ ~IsRequest(p) /\ p.src # ZeroAddress
  /\ \A p : \A h \in Hosts : Asks(h, p) => p.dst = RouterAddress /\ IsRequest(p)
  /\ Nothing # packetClientHandshake
<1>1. Nothing # packetClientHandshake
  BY PacketAssumption, Greetings
<1>2. /\ packetClientHandshake.dst = ZeroAddress /\ packetClientHandshake.data = "55 00"
      /\ packetRouterHandshakeOutgoing.dst = RouterAddress
      /\ packetRouterHandshakeReturn.dst = RouterAddress
      /\ Ping.dst = RouterAddress /\ Ping.data = "55 00"
      /\ \A h \in Hosts : /\ packetRouterConnectionRequest(h).dst = RouterAddress
                          /\ packetRouterConnectionRequest(h).data = "55 00"
  BY DEF Packet, packetRouterHandshakeOutgoing, packetRouterHandshakeReturn, Ping,
     packetClientHandshake, packetRouterConnectionRequest
<1>3. \A p : IsText(p) => p # packetClientHandshake /\ ~FromRouter(p) /\ ~IsRequest(p) /\ p.src # ZeroAddress
  BY <1>2, Addresses DEF IsText, FromRouter, IsRequest
<1>4. \A p : \A h \in Hosts : Asks(h, p) => p.dst = RouterAddress /\ IsRequest(p)
  BY <1>2 DEF Asks, IsRequest
<1>5. ZeroAddress # RouterAddress
  BY Addresses
<1> QED BY <1>1, <1>2, <1>3, <1>4, <1>5

(* What they say of their sender.                                          *)
LEMMA Senders ==
  /\ packetRouterHandshakeOutgoing.src = RouterAddress
  /\ packetRouterHandshakeOutgoing.data = "55 55"
  /\ packetRouterHandshakeReturn.src = RouterAddress
  /\ packetRouterHandshakeReturn.data = "AA AA"
  /\ packetClientHandshake.src = RouterAddress
  /\ Ping.src = ZeroAddress
  /\ \A h \in Hosts : packetRouterConnectionRequest(h).src = h
BY DEF Packet, packetRouterHandshakeOutgoing, packetRouterHandshakeReturn, Ping,
   packetClientHandshake, packetRouterConnectionRequest

(* A router may greet whoever is at the end of its wires, and what a host  *)
(* asks or writes may go to its router.                                    *)
LEMMA RouterGreets ==
  ASSUME NEW m \in RouterNics, m \in DOMAIN Wire
  PROVE  /\ Allowed(Wire[m], packetRouterHandshakeOutgoing)
         /\ Wire[m] \in RouterNics => Allowed(Wire[m], packetRouterHandshakeReturn)
<1>1. Wire[Wire[m]] = m /\ Wire[m] \in Nics
  BY Wires
<1>2. \A h \in Hosts : m # Nic(h) /\ (Wire[m] \in RouterNics => Wire[m] # Nic(h))
  BY Cards
<1> QED BY <1>1, <1>2 DEF Allowed

LEMMA HostAsks ==
  ASSUME NEW h \in Hosts, NEW p, Asks(h, p) \/ IsText(p)
  PROVE  Allowed(Wire[Nic(h)], p)
<1>1. Wire[Nic(h)] \in RouterNics /\ Wire[Wire[Nic(h)]] = Nic(h)
  BY Wires
<1>2. \A g \in Hosts : Wire[Nic(h)] # Nic(g) /\ Nic(g) \notin RouterNics
  BY <1>1, Cards
<1>3. \A g \in Hosts : Nic(g) = Nic(h) => g = h
  BY DEF Nic
<1> QED BY <1>1, <1>2, <1>3 DEF Allowed

(* Promises last while no confirmation is sent and the table is unchanged. *)
LEMMA PromiseKept ==
  ASSUME Promised, UNCHANGED <<device_type, address, connectionStatus>>, NEW q,
         q # packetClientHandshake,
         \A n \in PolledNics : buffer'[n] \in {buffer[n], Nothing, q}
  PROVE  Promised'
<1>1. \A h \in Servers : Nic(h) \in PolledNics
  BY Cards DEF Hosts
<1> QED BY <1>1, Kinds DEF Promised, Known

LEMMA SentFrom ==
  ASSUME NEW b, NEW S, NEW p
  PROVE  \A n \in PolledNics : Sent(b, S, p)[n] \in {b[n], p}
BY DEF Sent

LEMMA InitInv == Init => NetworkInv
<1> SUFFICES ASSUME Init PROVE NetworkInv
  OBVIOUS
<1>1. TableTrue /\ Carried(buffer) /\ CardsCarried
  BY DEF Init, TableTrue, Carried, CardsCarried
<1>2. Promised
  <2>1. \A h \in Servers : Nic(h) \in PolledNics
    BY Cards DEF Hosts
  <2> QED BY <2>1, Kinds DEF Init, InitiateServer, Promised
<1> QED BY <1>1, <1>2, InitTypes DEF NetworkInv

(* A router greets on its cards, at boot and in its main loop.             *)
LEMMA GreetInv ==
  ASSUME NetworkInv, NEW r \in Routers, BootHandshake(r) \/ Reconnect(r)
  PROVE  TableTrue' /\ Carried(buffer)' /\ CardsCarried' /\ Promised'
<1> DEFINE q == packetRouterHandshakeOutgoing
<1>1. UNCHANGED <<device_type, address, connectionStatus>>
  BY DEF BootHandshake, Reconnect, tableVars, serverVars
<1>2. PICK P \in SUBSET Peripherals, Q \in SUBSET Peripherals :
        /\ buffer' = Sent(ntPacketClearAll(buffer, On(r, P)), On(r, Q), q)
        /\ card' = Taken(On(r, Q), q)
  <2>1. CASE BootHandshake(r)
    <3>1. ntPacketClearAll(buffer, On(r, {})) = buffer
      BY DEF NetworkInv, NetworkTypeOK, ntPacketClearAll, On
    <3>2. /\ buffer' = Sent(ntPacketClearAll(buffer, On(r, {})), On(r, Active(r)), q)
          /\ card' = Taken(On(r, Active(r)), q)
      BY <2>1, <3>1 DEF BootHandshake
    <3>3. Active(r) \in SUBSET Peripherals /\ {} \in SUBSET Peripherals
      BY DEF Active
    <3> QED BY <3>2, <3>3
  <2>2. CASE Reconnect(r)
    <3>1. at[r][2] \in Peripherals
      BY <2>2, Turns DEF Reconnect, NetworkInv
    <3> DEFINE G == Invited(r, Search(r)) \cup Renewed(r, at[r][2], Due(r))
    <3>2. G \in SUBSET Peripherals
      BY <3>1 DEF Invited, Renewed, Unknown
    <3>3. /\ buffer' = Sent(ntPacketClearAll(buffer, On(r, G)), On(r, G), q)
          /\ card' = Taken(On(r, G), q)
      BY <2>2 DEF Reconnect, Greeted
    <3> HIDE DEF G
    <3> QED BY <3>2, <3>3
  <2> QED BY <2>1, <2>2
<1>3. \A m \in On(r, Q) : m \in RouterNics
  BY DEF On, RouterNics
<1>4. Carried(buffer)' /\ CardsCarried'
  BY <1>2, <1>3, RouterGreets, ClearedCarried, SentCarried, TakenCarried DEF NetworkInv
<1>5. \A n \in PolledNics : buffer'[n] \in {buffer[n], Nothing, q}
  BY <1>2, SentFrom, ClearedWhere
<1>6. Promised'
  BY <1>1, <1>5, Kinds, PromiseKept DEF NetworkInv
<1> QED BY <1>1, <1>4, <1>6 DEF NetworkInv, TableTrue

(* What a router finds on a card came over the wire of the card.           *)
LEMMA Came ==
  ASSUME NetworkInv, NEW r \in Routers, Receive(r)
  PROVE  /\ Here(r) \in RouterNics /\ Here(r) \in DOMAIN Wire
         /\ Allowed(Here(r), Arrived(r))
         /\ \/ Wire[Here(r)] \in RouterNics
            \/ \E h \in Hosts : Wire[Here(r)] = Nic(h)
         /\ \A S, p : Pass(r, S, p) /\ (\A m \in S \cap DOMAIN Wire : Allowed(Wire[m], p))
              => Carried(buffer)' /\ CardsCarried'
<1>1. Here(r) \in RouterNics /\ Arrived(r) = buffer[Here(r)] /\ buffer[Here(r)] # Nothing
  BY ArrivedPacket DEF NetworkInv
<1>2. Here(r) \in DOMAIN Wire /\ Allowed(Here(r), Arrived(r))
  BY <1>1, Cards DEF NetworkInv, Carried
<1>3. Wire[Here(r)] \in RouterNics \/ \E h \in Hosts : Wire[Here(r)] = Nic(h)
  BY <1>2, Wires, Cards
<1>4. Carried(ntPacketClearAll(buffer, {Here(r)}))
  BY ClearedCarried DEF NetworkInv
<1>5. ASSUME NEW S, NEW p, Pass(r, S, p), \A m \in S \cap DOMAIN Wire : Allowed(Wire[m], p)
      PROVE  Carried(buffer)' /\ CardsCarried'
  BY <1>4, <1>5, SentCarried, TakenCarried DEF Pass, NetworkInv
<1> QED BY <1>1, <1>2, <1>3, <1>5

(* A greeting from another router.                                         *)
LEMMA GreetedInv ==
  ASSUME NetworkInv, NEW r \in Routers, ToRouter(r), Wire[Here(r)] \in RouterNics
  PROVE  TableTrue' /\ Carried(buffer)' /\ CardsCarried' /\ Promised'
<1> DEFINE n == Here(r)
           s == at[r][2]
           q == packetRouterHandshakeReturn
<1>1. Receive(r) /\ Arrived(r).dst = RouterAddress
  BY DEF ToRouter
<1>2. s \in Peripherals /\ n \in RouterNics /\ n \in DOMAIN Wire /\ n = <<r, s>>
  BY <1>1, Came, ArrivedPacket DEF NetworkInv, Here
<1>3. Arrived(r) \in {packetRouterHandshakeOutgoing, q}
  BY <1>1, <1>2, Came, Kinds DEF Allowed
<1>4. ~IsRequest(Arrived(r)) /\ FromRouter(Arrived(r))
      /\ Arrived(r).data \in {"55 55", "AA AA"} /\ Arrived(r).src # ZeroAddress
  BY <1>3, Addresses, Senders DEF IsRequest, FromRouter
<1>5. /\ device_type' = [device_type EXCEPT ![r][s] = "ROUTER"]
      /\ address' = address
      /\ Pass(r, {n}, q) \/ Pass(r, {}, Arrived(r))
  <2>1. address' = [address EXCEPT ![r][s] = @]
    BY <1>4 DEF ToRouter
  <2>2. address' = address
    BY <2>1, <1>2 DEF NetworkInv, NetworkTypeOK
  <2> QED BY <2>2, <1>4 DEF ToRouter
<1>6. TableTrue'
  <2> DEFINE Right(t, a, p) ==
               /\ t = "ROUTER" => p \in DOMAIN Wire /\ Wire[p] \in RouterNics
               /\ t = "NODE" => \E h \in Hosts : /\ Wire[p] = Nic(h)
                                               /\ a \in {h} \cup {z \in {ZeroAddress} : h \in Clients}
  <2>1. \A i \in Routers, j \in Peripherals : Right(device_type[i][j], address[i][j], <<i, j>>)
    BY DEF NetworkInv, TableTrue
  <2>2. \A i \in Routers, j \in Peripherals :
          device_type'[i][j] = IF i = r /\ j = s THEN "ROUTER" ELSE device_type[i][j]
    BY <1>2, <1>5 DEF NetworkInv, NetworkTypeOK
  <2>3. Right("ROUTER", address[r][s], <<r, s>>)
    BY <1>2
  <2> HIDE DEF Right
  <2>4. \A i \in Routers, j \in Peripherals : Right(device_type'[i][j], address[i][j], <<i, j>>)
    BY <2>1, <2>2, <2>3
  <2>5. \A i \in Routers, j \in Peripherals : Right(device_type'[i][j], address'[i][j], <<i, j>>)
    BY <2>4, <1>5
  <2> QED BY <2>5 DEF TableTrue, Right
<1>7. Carried(buffer)' /\ CardsCarried'
  <2>1. \A m \in {n} \cap DOMAIN Wire : Allowed(Wire[m], q)
    BY <1>2, RouterGreets
  <2> QED BY <2>1, <1>1, <1>5, Came
<1>8. Promised'
  <2> SUFFICES ASSUME NEW h \in Servers, Wire[Nic(h)][1] \notin Resettable,
                      connectionStatus'[h] = 1 \/ buffer'[Nic(h)] = packetClientHandshake
               PROVE  Known(h)'
    BY DEF Promised, Known
  <2>1. h \in Hosts /\ Nic(h) \in PolledNics /\ Wire[Nic(h)] \in RouterNics
    BY Cards, Wires DEF Hosts
  <2>2. buffer'[Nic(h)] \in {buffer[Nic(h)], Nothing, q, Arrived(r)}
    BY <2>1, <1>5, SentFrom, ClearedWhere DEF Pass
  <2>3. connectionStatus' = connectionStatus
    BY <1>1 DEF Receive, serverVars
  <2>4. Known(h)
    BY <2>2, <2>3, <1>3, Kinds DEF NetworkInv, Promised
  <2>5. Wire[Nic(h)] # n
    BY <2>1, Wires, Cards
  <2> QED BY <2>1, <2>4, <2>5, <1>2, <1>5 DEF Known, RouterNics, NetworkInv, NetworkTypeOK
<1> QED BY <1>6, <1>7, <1>8

(* A request of the host at the end of the wire.                           *)
LEMMA RequestedInv ==
  ASSUME NetworkInv, NEW r \in Routers, ToRouter(r),
         NEW h \in Hosts, Wire[Here(r)] = Nic(h), IsRequest(Arrived(r))
  PROVE  TableTrue' /\ Carried(buffer)' /\ CardsCarried' /\ Promised'
<1> DEFINE n == Here(r)
           s == at[r][2]
           q == packetClientHandshake
<1>1. Receive(r) /\ Arrived(r).dst = RouterAddress
  BY DEF ToRouter
<1>2. s \in Peripherals /\ n \in RouterNics /\ n \in DOMAIN Wire /\ n = <<r, s>>
  BY <1>1, Came, ArrivedPacket DEF NetworkInv, Here
<1>3. Asks(h, Arrived(r))
  BY <1>1, <1>2, Came, Kinds DEF Allowed
<1>5. Arrived(r).src = h \/ (Arrived(r).src = ZeroAddress /\ h \in Clients)
  BY <1>3, Senders DEF Asks
<1>6. /\ device_type' = [device_type EXCEPT ![r][s] = "NODE"]
      /\ address' = [address EXCEPT ![r][s] = Arrived(r).src]
      /\ Pass(r, {n}, q)
  BY DEF ToRouter
<1>7. TableTrue'
  <2> SUFFICES ASSUME NEW r1 \in Routers, NEW p1 \in Peripherals
               PROVE  (/\ device_type[r1][p1] = "ROUTER" =>
                            <<r1, p1>> \in DOMAIN Wire /\ Wire[<<r1, p1>>] \in RouterNics
                       /\ device_type[r1][p1] = "NODE" =>
                            \E g \in Hosts : Wire[<<r1, p1>>] = Nic(g)
                                             /\ address[r1][p1] \in Called(g))'
    BY DEF TableTrue, Called
  <2>1. CASE r1 = r /\ p1 = s
    BY <2>1, <1>2, <1>5, <1>6 DEF NetworkInv, NetworkTypeOK, Called
  <2>2. CASE ~(r1 = r /\ p1 = s)
    BY <2>2, <1>2, <1>6 DEF NetworkInv, NetworkTypeOK, TableTrue, Called
  <2> QED BY <2>1, <2>2
<1>8. Carried(buffer)' /\ CardsCarried'
  <2>1. Allowed(Nic(h), q)
    BY Cards DEF Allowed
  <2> QED BY <2>1, <1>1, <1>2, <1>6, Came
<1>9. Promised'
  <2> SUFFICES ASSUME NEW g \in Servers, Wire[Nic(g)][1] \notin Resettable,
                      connectionStatus'[g] = 1 \/ buffer'[Nic(g)] = q
               PROVE  Known(g)'
    BY DEF Promised, Known
  <2>1. g \in Hosts /\ Nic(g) \in PolledNics /\ Wire[Nic(g)] \in RouterNics /\ Wire[Wire[Nic(g)]] = Nic(g)
    BY Cards, Wires DEF Hosts
  <2>2. CASE g = h
    <3>1. Wire[Nic(g)] = n
      BY <2>2, <1>2, Wires
    <3>2. Arrived(r).src = g
      BY <2>2, <1>5, Addresses
    <3> QED BY <3>1, <3>2, <1>2, <1>6 DEF Known, NetworkInv, NetworkTypeOK
  <2>3. CASE g # h
    <3>1. Nic(g) # Nic(h) /\ Wire[Nic(g)] # n
      BY <2>3, <2>1 DEF Nic
    <3>2. buffer'[Nic(g)] \in {buffer[Nic(g)], Nothing}
      <4> DEFINE b == ntPacketClearAll(buffer, {Here(r)})
      <4>1. buffer' = Sent(b, {n}, q) /\ b[Nic(g)] \in {buffer[Nic(g)], Nothing}
        BY <1>6, <2>1, ClearedWhere DEF Pass
      <4> HIDE DEF b
      <4>2. Sent(b, {n}, q)[Nic(g)] = b[Nic(g)]
        BY <3>1, <2>1, SentWhere
      <4> QED BY <4>1, <4>2
    <3>3. connectionStatus' = connectionStatus
      BY <1>1 DEF Receive, serverVars
    <3>4. Known(g)
      BY <3>2, <3>3, Kinds DEF NetworkInv, Promised
    <3> QED BY <3>1, <3>4, <2>1, <1>2, <1>6 DEF Known, RouterNics, NetworkInv, NetworkTypeOK
  <2> QED BY <2>2, <2>3
<1> QED BY <1>7, <1>8, <1>9

(* A text for the router itself is dropped.                                *)
LEMMA DroppedInv ==
  ASSUME NetworkInv, NEW r \in Routers, ToRouter(r), IsText(Arrived(r))
  PROVE  TableTrue' /\ Carried(buffer)' /\ CardsCarried' /\ Promised'
<1>1. Receive(r) /\ at[r][2] \in Peripherals
  BY ArrivedPacket DEF ToRouter, NetworkInv
<1>2. ~IsRequest(Arrived(r)) /\ ~FromRouter(Arrived(r)) /\ Arrived(r).src # ZeroAddress
  BY Kinds
<1>3. /\ device_type' = [device_type EXCEPT ![r][at[r][2]] = @]
      /\ address' = [address EXCEPT ![r][at[r][2]] = @]
      /\ Pass(r, {}, Arrived(r))
  BY <1>2 DEF ToRouter
<1>4. UNCHANGED <<device_type, address, connectionStatus>>
  BY <1>1, <1>3 DEF NetworkInv, NetworkTypeOK, Receive, serverVars
<1>5. Carried(buffer)' /\ CardsCarried'
  BY <1>1, <1>3, Came
<1>6. \A n \in PolledNics : buffer'[n] \in {buffer[n], Nothing, Arrived(r)}
  BY <1>3, SentFrom, ClearedWhere DEF Pass
<1>7. Promised'
  BY <1>4, <1>6, Kinds, PromiseKept DEF NetworkInv
<1> QED BY <1>4, <1>5, <1>7 DEF NetworkInv, TableTrue

(* Of the ports that fit there is a first.                                 *)
LEMMA FirstPort ==
  ASSUME NEW P, P \subseteq Nat, P # {}
  PROVE  \E x \in P : \A y \in P : x <= y
<1> DEFINE Before == OpToRel(<, Nat)
<1>1. \A x, y \in Nat : <<y, x>> \in Before <=> y < x
  BY DEF OpToRel
<1>2. \E x \in P : \A y \in P : ~(<<y, x>> \in Before)
  BY NatLessThanWellFounded, WFMin
<1> HIDE DEF Before
<1>3. PICK x \in P : \A y \in P : <<y, x>> \notin Before
  BY <1>2
<1>4. \A y \in P : ~(y < x)
  BY <1>1, <1>3
<1> QED BY <1>3, <1>4

(* Text goes to the host it is for, or on to the other routers.            *)
LEMMA TextInv ==
  ASSUME NetworkInv, NEW r \in Routers, ToNode(r) \/ ToGateways(r)
  PROVE  TableTrue' /\ Carried(buffer)' /\ CardsCarried' /\ Promised'
<1> DEFINE p == Arrived(r)
<1>1. Receive(r) /\ p.dst # RouterAddress
  BY DEF ToNode, ToGateways
<1>2. UNCHANGED <<device_type, address, connectionStatus>>
  BY DEF ToNode, ToGateways, Receive, serverVars
<1>3. IsText(p) /\ p.dst # RouterAddress
  <2>1. packetRouterHandshakeOutgoing.dst = RouterAddress /\ packetRouterHandshakeReturn.dst = RouterAddress
    BY DEF Packet, packetRouterHandshakeOutgoing, packetRouterHandshakeReturn
  <2> QED BY <2>1, <1>1, Came, Kinds DEF Allowed
<1>4. PICK D \in SUBSET Peripherals :
        Pass(r, On(r, D), p) /\ \A m \in On(r, D) : Allowed(Wire[m], p)
  <2>1. CASE ToNode(r)
    <3> DEFINE found == Located(r, p.dst)
               d == CHOOSE x \in found : \A y \in found : x <= y
    <3>1. found \subseteq Nat /\ found # {}
      BY <2>1 DEF ToNode, Located, Peripherals
    <3>2. PICK x \in found : \A y \in found : x <= y
      BY <3>1, FirstPort
    <3>3. d \in found
      BY <3>2
    <3>4. d \in Peripherals /\ device_type[r][d] = "NODE" /\ address[r][d] = p.dst
      BY <3>3 DEF Located
    <3>5. PICK h \in Hosts : Wire[<<r, d>>] = Nic(h) /\ address[r][d] \in Called(h)
      BY <3>4 DEF NetworkInv, TableTrue, Called
    <3>6. p.dst \in Called(h)
      BY <3>4, <3>5
    <3>7. Allowed(Nic(h), p)
      BY <3>6, <1>3, Cards DEF Allowed, Nic
    <3>8. Pass(r, On(r, {d}), p)
      <4>1. On(r, {d}) = {<<r, d>>}
        BY DEF On
      <4> QED BY <2>1, <4>1 DEF ToNode
    <3>9. \A m \in On(r, {d}) : m = <<r, d>>
      BY DEF On
    <3> HIDE DEF d
    <3> QED BY <3>4, <3>5, <3>7, <3>8, <3>9
  <2>2. CASE ToGateways(r)
    <3> DEFINE D == Gateways(r) \ {at[r][2]}
    <3>1. Pass(r, On(r, D), p) /\ D \in SUBSET Peripherals
      BY <2>2 DEF ToGateways, Onward, Gateways
    <3>2. ASSUME NEW d \in D PROVE Allowed(Wire[<<r, d>>], p)
      <4>1. Wire[<<r, d>>] \in RouterNics
        BY <3>2 DEF NetworkInv, TableTrue, Gateways
      <4> QED BY <4>1, <1>3, Cards DEF Allowed
    <3>3. \A m \in On(r, D) : \E d \in D : m = <<r, d>>
      BY DEF On
    <3> HIDE DEF D
    <3> QED BY <3>1, <3>2, <3>3
  <2> QED BY <2>1, <2>2
<1>5. Carried(buffer)' /\ CardsCarried'
  BY <1>1, <1>4, Came
<1>6. \A n \in PolledNics : buffer'[n] \in {buffer[n], Nothing, p}
  BY <1>4, SentFrom, ClearedWhere DEF Pass
<1>7. Promised'
  BY <1>2, <1>3, <1>6, Kinds, PromiseKept DEF NetworkInv
<1> QED BY <1>2, <1>5, <1>7 DEF NetworkInv, TableTrue

(* What a server reads and answers.                                        *)
LEMMA ServerInv ==
  ASSUME NetworkInv, NEW h \in Servers, ServerNext(h)
  PROVE  TableTrue' /\ Carried(buffer)' /\ CardsCarried' /\ Promised'
<1> DEFINE due == connectionStatus[h] = 0 /\ connectionAttemptCounter[h] + 1 > ConnectEvery
           q == packetRouterConnectionRequest(h)
           asked == IF due THEN Sent(buffer, {Nic(h)}, q) ELSE buffer
           p == asked[Nic(h)]
           read == ntPacketClearAll(asked, {Nic(h)})
           answer == packetClientReturn(h, p.src)
<1>1. h \in Hosts /\ Nic(h) \in PolledNics /\ Nic(h) \in HostNics
  BY Cards DEF Hosts
<1>2. UNCHANGED <<device_type, address, card>>
  BY DEF ServerNext, tableVars
<1>3. Carried(asked)
  <2>1. Carried(buffer)
    BY DEF NetworkInv
  <2>2. \A m \in {Nic(h)} \cap DOMAIN Wire : Allowed(Wire[m], q)
    BY <1>1, HostAsks DEF Asks
  <2>3. Carried(Sent(buffer, {Nic(h)}, q))
    BY <2>1, <2>2, SentCarried
  <2> QED BY <2>1, <2>3
<1>4. \A n \in PolledNics : asked[n] \in {buffer[n], q}
  BY SentFrom
<1>5. p = Nothing \/ p \in {packetClientHandshake, packetRouterHandshakeOutgoing} \/ IsText(p)
  BY <1>1, <1>3 DEF Carried, Allowed
<1>6. /\ buffer' = IF p = Nothing \/ FromRouter(p) THEN read ELSE Sent(read, {Nic(h)}, answer)
      /\ connectionStatus' = [connectionStatus EXCEPT ![h] =
           IF p # Nothing /\ IsConfirmation(p) THEN 1 ELSE @]
  BY DEF ServerNext, Answered
<1>7. ~(p = Nothing \/ FromRouter(p)) => IsText(p) /\ IsText(answer)
  <2> SUFFICES ASSUME p # Nothing, ~FromRouter(p) PROVE IsText(p) /\ IsText(answer)
    OBVIOUS
  <2>1. IsText(p)
    BY <1>5, Senders DEF FromRouter
  <2>2. answer.dst = p.src /\ answer.src = h /\ answer.data = "text"
    BY DEF packetClientReturn, Packet
  <2> HIDE DEF answer, p
  <2> QED BY <2>1, <2>2, <1>1 DEF IsText, Address
<1> HIDE DEF asked
<1>8. Carried(read) /\ \A n \in PolledNics : read[n] \in {asked[n], Nothing}
  BY <1>3, ClearedCarried, ClearedWhere
<1> HIDE DEF read, answer
<1>9. Carried(buffer)'
  <2>1. CASE p = Nothing \/ FromRouter(p)
    BY <2>1, <1>6, <1>8
  <2>2. CASE ~(p = Nothing \/ FromRouter(p))
    <3>1. \A m \in {Nic(h)} \cap DOMAIN Wire : Allowed(Wire[m], answer)
      BY <2>2, <1>1, <1>7, HostAsks
    <3>2. buffer' = Sent(read, {Nic(h)}, answer)
      BY <2>2, <1>6
    <3> QED BY <3>1, <3>2, <1>8, SentCarried
  <2> QED BY <2>1, <2>2
<1>10. \A n \in PolledNics : buffer'[n] \in {buffer[n], Nothing, q}
                       \/ (IsText(answer) /\ buffer'[n] = answer)
  <2> SUFFICES ASSUME NEW n \in PolledNics
               PROVE  buffer'[n] \in {buffer[n], Nothing, q} \/ (IsText(answer) /\ buffer'[n] = answer)
    OBVIOUS
  <2>1. Sent(read, {Nic(h)}, answer)[n] \in {read[n], answer}
    BY SentFrom
  <2> QED BY <2>1, <1>4, <1>6, <1>7, <1>8
<1>11. p # Nothing /\ IsConfirmation(p) => buffer[Nic(h)] = packetClientHandshake
  <2> SUFFICES ASSUME p # Nothing, IsConfirmation(p) PROVE buffer[Nic(h)] = packetClientHandshake
    OBVIOUS
  <2>1. p = packetClientHandshake
    BY <1>5, Senders, Kinds DEF IsConfirmation, IsRequest
  <2> QED BY <2>1, <1>1, <1>4, Kinds
<1>12. Promised'
  <2> SUFFICES ASSUME NEW g \in Servers, Wire[Nic(g)][1] \notin Resettable,
                      connectionStatus'[g] = 1 \/ buffer'[Nic(g)] = packetClientHandshake
               PROVE  Known(g)
    BY <1>2 DEF Promised, Known
  <2>1. Nic(g) \in PolledNics
    BY Cards DEF Hosts
  <2>2. buffer'[Nic(g)] = packetClientHandshake => buffer[Nic(g)] = packetClientHandshake
    BY <2>1, <1>1, <1>10, Kinds
  <2>3. connectionStatus'[g] = 1 =>
          connectionStatus[g] = 1 \/ buffer[Nic(g)] = packetClientHandshake
    BY <1>6, <1>11 DEF NetworkInv, NetworkTypeOK
  <2> QED BY <2>2, <2>3 DEF NetworkInv, Promised
<1>13. CardsCarried'
  BY <1>2 DEF NetworkInv, CardsCarried
<1> QED BY <1>2, <1>9, <1>12, <1>13 DEF NetworkInv, TableTrue

(* What a client sends and reads.                                          *)
LEMMA ClientInv ==
  ASSUME NetworkInv, NEW c \in Clients, ClientNext(c)
  PROVE  TableTrue' /\ Carried(buffer)' /\ CardsCarried' /\ Promised'
<1>1. c \in Hosts
  BY DEF Hosts
<1>2. UNCHANGED <<device_type, address, connectionStatus>>
  BY DEF ClientNext, Send, Connect, PingRouter, functionNet, SendAgain, Return, SendAnswered,
         SendTimedOut, Recv, tableVars, serverVars
<1>3. CardsCarried'
  BY ClientCard, FewerCarried DEF NetworkInv, CardsCarried
<1>4. CASE buffer' = buffer
  BY <1>2, <1>3, <1>4, PromiseKept, Kinds DEF NetworkInv, TableTrue
<1>5. CASE \E p \in Packets : (Asks(c, p) \/ IsText(p)) /\ buffer' = Sent(buffer, {Nic(c)}, p)
  <2>1. PICK p \in Packets : (Asks(c, p) \/ IsText(p)) /\ buffer' = Sent(buffer, {Nic(c)}, p)
    BY <1>5
  <2>2. p # packetClientHandshake
    BY <2>1, <1>1, Kinds DEF Asks
  <2>3. Carried(buffer)'
    <3>1. \A m \in {Nic(c)} \cap DOMAIN Wire : Allowed(Wire[m], p)
      BY <2>1, <1>1, HostAsks
    <3> QED BY <3>1, <2>1, SentCarried DEF NetworkInv
  <2>4. \A n \in PolledNics : buffer'[n] \in {buffer[n], Nothing, p}
    BY <2>1, SentFrom
  <2>5. Promised'
    BY <2>2, <2>4, <1>2, PromiseKept DEF NetworkInv
  <2> QED BY <2>3, <2>5, <1>2, <1>3 DEF NetworkInv, TableTrue
<1> QED BY <1>4, <1>5, ClientWire DEF NetworkInv

(* Lost packets and new cards leave the tables alone, a restart empties    *)
(* one.                                                                    *)
LEMMA FaultInv ==
  ASSUME NetworkInv,
         \/ \E n \in PolledNics : Lose(n)
         \/ \E c \in Clients : \E p \in card[c] : LoseAnswer(c, p)
         \/ \E n \in Nics : Insert(n)
         \/ \E r \in Routers : Reset(r) \/ NoPacket(r)
         \/ UNCHANGED vars
  PROVE  TableTrue' /\ Carried(buffer)' /\ CardsCarried' /\ Promised'
<1>1. CASE \/ \E n \in PolledNics : Lose(n)
           \/ \E c \in Clients : \E p \in card[c] : LoseAnswer(c, p)
           \/ \E n \in Nics : Insert(n)
           \/ \E r \in Routers : NoPacket(r)
           \/ UNCHANGED vars
  <2>1. UNCHANGED <<device_type, address, connectionStatus>>
    BY <1>1 DEF Lose, LoseAnswer, Insert, NoPacket, vars, tableVars, serverVars
  <2>2. \A n \in PolledNics : buffer'[n] \in {buffer[n], Nothing}
    BY <1>1 DEF Lose, LoseAnswer, Insert, NoPacket, vars, NetworkInv, NetworkTypeOK
  <2>3. Carried(buffer)'
    BY <2>2 DEF NetworkInv, Carried
  <2>4. Promised'
    BY <2>1, <2>2, Kinds, PromiseKept DEF NetworkInv
  <2>5. CardsCarried'
    <3>1. CASE card' = card
      BY <3>1 DEF NetworkInv, CardsCarried
    <3>2. CASE \E c \in Clients : \E p \in card[c] : LoseAnswer(c, p)
      BY <3>1, <3>2, ClientCard, FewerCarried DEF NetworkInv
    <3> QED BY <1>1, <3>1, <3>2 DEF Lose, Insert, NoPacket, vars
  <2> QED BY <2>1, <2>3, <2>4, <2>5 DEF NetworkInv, TableTrue
<1>2. CASE \E r \in Routers : Reset(r)
  <2>1. PICK r \in Routers : Reset(r)
    BY <1>2
  <2>2. UNCHANGED <<buffer, card, connectionStatus>> /\ r \in Resettable
        /\ device_type' = [device_type EXCEPT ![r] = [p \in Peripherals |-> "UNKNOWN"]]
        /\ address' = [address EXCEPT ![r] = [p \in Peripherals |-> ZeroAddress]]
    BY <2>1 DEF Reset, serverVars
  <2>3. TableTrue'
    BY <2>2 DEF NetworkInv, NetworkTypeOK, TableTrue
  <2>4. Promised'
    BY <2>2 DEF NetworkInv, NetworkTypeOK, Promised, Known
  <2> QED BY <2>2, <2>3, <2>4 DEF NetworkInv, CardsCarried
<1> QED BY <1>1, <1>2

LEMMA StepInv == NetworkInv /\ [Next]_vars => NetworkInv'
<1> SUFFICES ASSUME NetworkInv, [Next]_vars PROVE NetworkInv'
  OBVIOUS
<1>1. NetworkTypeOK'
  BY StepTypes DEF NetworkInv
<1>2. TableTrue' /\ Carried(buffer)' /\ CardsCarried' /\ Promised'
  <2>1. CASE \E r \in Routers : RouterNext(r)
    <3>1. PICK r \in Routers : RouterNext(r)
      BY <2>1
    <3>2. CASE BootHandshake(r) \/ Reconnect(r)
      BY <3>2, GreetInv
    <3>3. CASE NoPacket(r)
      BY <3>3, FaultInv
    <3>4. CASE ToRouter(r)
      <4>1. Receive(r) /\ Arrived(r).dst = RouterAddress
        BY <3>4 DEF ToRouter
      <4>2. CASE Wire[Here(r)] \in RouterNics
        BY <3>4, <4>2, GreetedInv
      <4>3. ASSUME NEW h \in Hosts, Wire[Here(r)] = Nic(h)
            PROVE  TableTrue' /\ Carried(buffer)' /\ CardsCarried' /\ Promised'
        <5>1. Asks(h, Arrived(r)) \/ IsText(Arrived(r))
          BY <4>1, <4>3, Came DEF Allowed
        <5>2. CASE IsText(Arrived(r))
          BY <3>4, <5>2, DroppedInv
        <5>3. CASE Asks(h, Arrived(r))
          <6>1. IsRequest(Arrived(r))
            BY <5>3, Kinds
          <6> QED BY <3>4, <4>3, <6>1, RequestedInv
        <5> QED BY <5>1, <5>2, <5>3
      <4> QED BY <4>1, <4>2, <4>3, Came
    <3>5. CASE ToNode(r) \/ ToGateways(r)
      BY <3>5, TextInv
    <3> QED BY <3>1, <3>2, <3>3, <3>4, <3>5 DEF RouterNext
  <2>2. CASE \E h \in Servers : ServerNext(h)
    BY <2>2, ServerInv
  <2>3. CASE \E c \in Clients : ClientNext(c)
    BY <2>3, ClientInv
  <2>4. CASE \/ \E n \in PolledNics : Lose(n)
             \/ \E c \in Clients : \E p \in card[c] : LoseAnswer(c, p)
             \/ \E n \in Nics : Insert(n)
             \/ \E r \in Routers : Reset(r)
             \/ UNCHANGED vars
    BY <2>4, FaultInv
  <2> QED BY <2>1, <2>2, <2>3, <2>4 DEF Next
<1> QED BY <1>1, <1>2 DEF NetworkInv

(* The routing table never lies about what is at the other end of a wire.  *)
THEOREM TableCorrect == Spec => []TableTrue
<1>1. NetworkInv => TableTrue
  BY DEF NetworkInv
<1> QED BY <1>1, InitInv, StepInv, PTL DEF Spec

(* No packet is delivered to a host it is not for, but for those to 0.0.   *)
THEOREM DeliveryCorrect == Spec => []HostsGetTheirOwn
<1>1. NetworkInv => HostsGetTheirOwn
  <2> SUFFICES ASSUME NetworkInv PROVE HostsGetTheirOwn
    OBVIOUS
  <2>1. ASSUME NEW h \in Hosts, NEW p, Allowed(Nic(h), p)
        PROVE  p.dst \in Called(h) \/ FromRouter(p)
    BY <2>1, Senders DEF Allowed, FromRouter
  <2>2. ASSUME NEW h \in Servers, buffer[Nic(h)] # Nothing
        PROVE  buffer[Nic(h)].dst = h \/ FromRouter(buffer[Nic(h)])
    <3>1. h \in Hosts /\ Called(h) = {h}
      BY Addresses DEF Hosts, Called
    <3>2. Allowed(Nic(h), buffer[Nic(h)])
      BY <2>2, Cards DEF NetworkInv, Carried
    <3> QED BY <2>1, <3>1, <3>2
  <2>3. ASSUME NEW c \in Clients, NEW p \in card[c]
        PROVE  p.dst \in {c, ZeroAddress} \/ FromRouter(p)
    <3>1. c \in Hosts /\ Called(c) = {c, ZeroAddress}
      BY DEF Hosts, Called
    <3> QED BY <2>1, <3>1 DEF NetworkInv, CardsCarried
  <2> QED BY <2>2, <2>3 DEF HostsGetTheirOwn
<1> QED BY <1>1, InitInv, StepInv, PTL DEF Spec

(* A server is only told that it is connected once its router knows it.    *)
THEOREM ConnectionCorrect == Spec => []ConnectedIsKnown
<1>1. NetworkInv => ConnectedIsKnown
  BY DEF NetworkInv, Promised, Known, ConnectedIsKnown
<1> QED BY <1>1, InitInv, StepInv, PTL DEF Spec
=============================================================================
