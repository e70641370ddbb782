CONSTANTS
  Serial = {1}
  Player = {p1}
  NoPlayer = NoPlayer
  Name = {alice}
  NoName = NoName
  Room = {0}
  MaxRoomMember = 1
  MaxRequests = 1
SPECIFICATION GameSpec
INVARIANT AnswerFindsPlayer
