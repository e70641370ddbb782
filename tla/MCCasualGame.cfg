CONSTANTS
  Serial = {1, 2, 3}
  Player = {p1, p2, p3}
  NoPlayer = NoPlayer
  Name = {alice, bob}
  NoName = NoName
  Room = {0, 1}
  MaxRoomMember = 2
  MaxRequests = 1
SPECIFICATION GameSpec
SYMMETRY GameSymmetry
VIEW GameView
INVARIANTS
  RoomPlayerAgree
  RoomsConsistent
  PlayersAccountedFor
  RegisteredIsLoggedIn
PROPERTIES
  RegistrationKept
  StallOnlyByLeave
  PeersKnownAtStart
