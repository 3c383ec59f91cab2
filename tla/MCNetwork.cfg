SPECIFICATION Spec
CONSTANTS
  A = A
  B = B
  C = C
  S = S
  Routers = {A, B}
  Servers = {S}
  Clients = {C}
  NumberOfPeripherals = 2
  Wire <- MCWire
  Late <- MCLate
  Resettable = {A}
  ZeroAddress = ZeroAddress
  RouterAddress = RouterAddress
  Stranger = Stranger
  Nothing = Nothing
  HandshakeRetries = 1
  RateMin = 0
  RateMax = 1
  LengthenAfter = 0
  ReinsertAfter = 1
  ConnectEvery = 0
  SendTries = 2
  MaxEvents = 2
INVARIANTS
  NetworkTypeOK
  TableTrue
  HostsGetTheirOwn
  ConnectedIsKnown
PROPERTIES
  LateCardsFound
  TextLeaves
VIEW Observed
