-------------------------- MODULE CasualGameProofs ---------------------------
(***************************************************************************)
(* The casual game, for every number of clients, player objects, names and *)
(* rooms, and every size of a room.                                        *)
(***************************************************************************)
EXTENDS CasualGame, FiniteSetTheorems, WellFoundedInduction, TLAPS

(* Before a room loads it knows no peers; while it loads, the members that  *)
(* have loaded are known as peers.                                          *)
PeerInv ==
  \A r \in Room :
    /\ roomState[r] = "WAIT" => m_PeerMap[r] = {}
    /\ roomState[r] = "LOADING" =>
         \A p \in m_RoomMemberMap[r] : m_bLoadingComplete[p] => p \in m_PeerMap[r]

RoomInv == RoomPlayerAgree /\ RoomMapsAgree /\ RoomsAccountedFor /\ PeerInv

GameInv == GameTypeOK /\ PlayerPoolExact /\ RoomInv /\ LobbyExact /\ RegisteredIsLoggedIn

-----------------------------------------------------------------------------
(* A set of naturals has a least element.                                   *)
LEMMA LeastIsMember ==
  ASSUME NEW S, S \subseteq Nat, S # {}
  PROVE  Least(S) \in S
<1> DEFINE Below == {1..x : x \in S}
<1>1. Below \subseteq FiniteSubsetsOf(Nat) /\ Below # {}
  <2>1. ASSUME NEW x \in S PROVE 1..x \in SUBSET Nat /\ IsFiniteSet(1..x)
    <3>1. x \in Int /\ 1 \in Int
      OBVIOUS
    <3>2. IsFiniteSet(1..x)
      BY <3>1, FS_Interval
    <3> QED BY <3>2
  <2> QED BY <2>1 DEF FiniteSubsetsOf
<1>2. PICK B \in Below : \A A \in Below : ~ (<<A, B>> \in StrictSubsetOrdering(Nat))
  BY <1>1, FS_StrictSubsetOrderingWellFounded, WFMin
<1>3. PICK x \in S : B = 1..x
  BY <1>2
<1>4. ASSUME NEW y \in S, ~ (x <= y) PROVE FALSE
  <2>1. 1..y \subseteq 1..x /\ x \in 1..x /\ x \notin 1..y /\ 1..x \subseteq Nat
    BY <1>4
  <2>2. <<1..y, B>> \in StrictSubsetOrdering(Nat)
    BY <1>3, <2>1 DEF StrictSubsetOrdering
  <2> QED BY <1>2, <2>2
<1> QED BY <1>3, <1>4 DEF Least

(* What the state of a room tells of its members.                           *)
LEMMA StatesOfMembers ==
  /\ MemberStates("NONE") = {} /\ MemberStates("WAIT") = {"ROOM"}
  /\ MemberStates("LOADING") = {"LOADING"} /\ MemberStates("PLAY") = {"LOADING", "PLAY"}
BY DEF MemberStates

LEMMA MembersAreInRooms ==
  ASSUME GameTypeOK, RoomPlayerAgree, NEW r \in Room, NEW p \in m_RoomMemberMap[r]
  PROVE  p \in Player /\ state[p] \in {"ROOM", "LOADING", "PLAY"} /\ roomState[r] # "NONE"
<1>1. roomState[r] \in RoomState /\ p \in Player
  BY DEF GameTypeOK
<1>2. state[p] \in MemberStates(roomState[r])
  BY DEF RoomPlayerAgree
<1> QED BY <1>1, <1>2, StatesOfMembers DEF RoomState

(* The teams of a room have all its members.                                *)
LEMMA TeamsAreMembers ==
  ASSUME GameTypeOK, RoomMapsAgree, NEW r \in Room
  PROVE  TeamMembers(r) = m_RoomMemberMap[r]
BY DEF GameTypeOK, RoomMapsAgree, TeamMembers, TeamType

(* The player of a connected client.                                        *)
LEMMA PlayerOfClient ==
  ASSUME GameTypeOK, PlayerPoolExact, NEW s \in Serial, m_PlayerMap[s] # NoPlayer
  PROVE  m_PlayerMap[s] \in Player /\ state[m_PlayerMap[s]] # "NONE"
BY DEF GameTypeOK, PlayerPoolExact, Connected

(* A chief that is not the last to leave finds a successor.                 *)
LEMMA NextChiefIsMember ==
  ASSUME GameTypeOK, PlayerPoolExact, RoomPlayerAgree, NEW r \in Room, NEW p,
         m_RoomMemberMap[r] \ {p} # {}
  PROVE  NextChief(r, p) \in m_RoomMemberMap[r] \ {p}
<1>1. PICK q \in m_RoomMemberMap[r] \ {p} : TRUE
  OBVIOUS
<1>2. q \in Player /\ state[q] # "NONE"
  BY <1>1, MembersAreInRooms
<1>3. PICK s \in Serial : m_PlayerMap[s] = q
  BY <1>2 DEF PlayerPoolExact, Connected
<1> DEFINE S == {t \in Serial : m_PlayerMap[t] \in m_RoomMemberMap[r] \ {p}}
<1>4. Least(S) \in S
  BY <1>1, <1>3, LeastIsMember, GameAssumption
<1> QED BY <1>4 DEF NextChief

-----------------------------------------------------------------------------
(* A pool from which the first object is taken, or to which one returns.    *)
Objects(q)  == {q[i] : i \in DOMAIN q}
Distinct(q) == \A i, j \in DOMAIN q : q[i] = q[j] => i = j

LEMMA PoolTail ==
  ASSUME NEW q \in Seq(Player), q # <<>>, Distinct(q)
  PROVE  /\ Head(q) \in Player /\ Tail(q) \in Seq(Player) /\ Distinct(Tail(q))
         /\ Objects(Tail(q)) = Objects(q) \ {Head(q)} /\ Head(q) \in Objects(q)
<1> USE DEF Objects, Distinct
<1> DEFINE t == Tail(q)
<1>1. /\ Len(t) = Len(q) - 1 /\ Len(q) \in Nat /\ Len(q) > 0
      /\ \A i \in 1..Len(q) - 1 : t[i] = q[i + 1]
      /\ t \in Seq(Player) /\ Head(q) = q[1] /\ Head(q) \in Player
      /\ DOMAIN q = 1..Len(q) /\ DOMAIN t = 1..Len(q) - 1
  OBVIOUS
<1> HIDE DEF t
<1>2. ASSUME NEW i \in DOMAIN t, NEW j \in DOMAIN t, t[i] = t[j] PROVE i = j
  <2>1. /\ i + 1 \in DOMAIN q /\ j + 1 \in DOMAIN q /\ q[i + 1] = q[j + 1]
        /\ i \in Int /\ j \in Int
    BY <1>1, <1>2
  <2> QED BY <2>1
<1>3. ASSUME NEW i \in DOMAIN t PROVE t[i] \in {q[k] : k \in DOMAIN q} \ {Head(q)}
  <2>1. /\ i + 1 \in DOMAIN q /\ 1 \in DOMAIN q /\ i + 1 # 1
        /\ t[i] = q[i + 1] /\ Head(q) = q[1]
    BY <1>1, <1>3
  <2> QED BY <2>1
<1>4. ASSUME NEW k \in DOMAIN q, q[k] # Head(q) PROVE q[k] \in {t[i] : i \in DOMAIN t}
  <2>1. k \in Int /\ k # 1 /\ k - 1 \in DOMAIN t /\ (k - 1) + 1 = k
    BY <1>1, <1>4
  <2>2. t[k - 1] = q[k]
    BY <1>1, <2>1
  <2> QED BY <2>1, <2>2
<1>5. Head(q) \in {q[i] : i \in DOMAIN q}
  BY <1>1, 1 \in DOMAIN q
<1>6. {t[i] : i \in DOMAIN t} = {q[i] : i \in DOMAIN q} \ {Head(q)}
  BY <1>3, <1>4
<1> QED BY <1>1, <1>2, <1>5, <1>6 DEF t

LEMMA PoolAppend ==
  ASSUME NEW q \in Seq(Player), NEW p \in Player, p \notin Objects(q), Distinct(q)
  PROVE  /\ Append(q, p) \in Seq(Player) /\ Distinct(Append(q, p))
         /\ Objects(Append(q, p)) = Objects(q) \cup {p}
<1> USE DEF Objects, Distinct
<1> DEFINE a == Append(q, p)
<1>1. /\ a \in Seq(Player) /\ Len(a) = Len(q) + 1 /\ Len(q) \in Nat
      /\ DOMAIN q = 1..Len(q) /\ DOMAIN a = 1..Len(q) + 1
      /\ \A i \in 1..Len(q) : a[i] = q[i]
      /\ a[Len(q) + 1] = p
  OBVIOUS
<1> HIDE DEF a
<1>2. \A i, j \in DOMAIN a : a[i] = a[j] => i = j
  <2> SUFFICES ASSUME NEW i \in 1..Len(q) + 1, NEW j \in 1..Len(q) + 1, a[i] = a[j]
               PROVE  i = j
    BY <1>1
  <2>1. CASE i \in 1..Len(q) /\ j \in 1..Len(q)
    BY <1>1, <2>1
  <2>2. CASE i = Len(q) + 1 /\ j # i
    BY <1>1, <2>2, j \in 1..Len(q)
  <2>3. CASE j = Len(q) + 1 /\ j # i
    BY <1>1, <2>3, i \in 1..Len(q)
  <2> QED BY <1>1, <2>1, <2>2, <2>3
<1>3. {a[i] : i \in DOMAIN a} = {q[i] : i \in DOMAIN q} \cup {p}
  <2>1. \A i \in DOMAIN a : i \in 1..Len(q) \/ i = Len(q) + 1
    BY <1>1
  <2>2. 1..Len(q) \subseteq DOMAIN a /\ Len(q) + 1 \in DOMAIN a
    BY <1>1
  <2> QED BY <1>1, <2>1, <2>2
<1> QED BY <1>1, <1>2, <1>3 DEF a

-----------------------------------------------------------------------------
(* A step that leaves the rooms alone and changes only a player that is in  *)
(* none keeps what is known of rooms.                                       *)
LEMMA RoomsUntouched ==
  ASSUME GameTypeOK, RoomInv, UNCHANGED roomVars, NEW p,
         p \in Player => state[p] \notin InRoom /\ state'[p] \notin InRoom,
         \A q \in Player \ {p} :
           /\ state'[q] = state[q] /\ m_roomIndex'[q] = m_roomIndex[q]
           /\ m_teamType'[q] = m_teamType[q] /\ m_bLoadingComplete'[q] = m_bLoadingComplete[q]
  PROVE  RoomInv'
<1>1. \A r \in Room : \A q \in m_RoomMemberMap[r] : q \in Player \ {p}
  <2> SUFFICES ASSUME NEW r \in Room, NEW q \in m_RoomMemberMap[r] PROVE q \in Player \ {p}
    OBVIOUS
  <2>1. q \in Player /\ state[q] \in {"ROOM", "LOADING", "PLAY"}
    BY MembersAreInRooms DEF RoomInv
  <2> QED BY <2>1 DEF InRoom
<1>2. /\ roomState' = roomState /\ m_pRoomChief' = m_pRoomChief
      /\ m_RoomMemberMap' = m_RoomMemberMap /\ m_Observerlist' = m_Observerlist
      /\ m_Team' = m_Team /\ m_PeerMap' = m_PeerMap
      /\ m_EmptyRoomMap' = m_EmptyRoomMap /\ m_ActiveRoomMap' = m_ActiveRoomMap
  BY DEF roomVars, memberVars
<1>3. RoomPlayerAgree'
  <2>1. ASSUME NEW q \in Player, state'[q] \in InRoom
        PROVE  q \in m_RoomMemberMap'[m_roomIndex'[q]]
    <3>1. q \in Player \ {p}
      BY <2>1
    <3> QED BY <1>2, <2>1, <3>1 DEF RoomInv, RoomPlayerAgree
  <2>2. ASSUME NEW r \in Room, NEW q \in m_RoomMemberMap'[r]
        PROVE  m_roomIndex'[q] = r /\ state'[q] \in MemberStates(roomState'[r])
    BY <1>1, <1>2, <2>2 DEF RoomInv, RoomPlayerAgree
  <2> QED BY <2>1, <2>2 DEF RoomPlayerAgree, MemberStates
<1>4. RoomMapsAgree'
  BY <1>1, <1>2 DEF RoomInv, RoomMapsAgree
<1>5. RoomsAccountedFor'
  BY <1>2 DEF RoomInv, RoomsAccountedFor
<1>6. PeerInv'
  BY <1>1, <1>2 DEF RoomInv, PeerInv
<1> QED BY <1>3, <1>4, <1>5, <1>6 DEF RoomInv

LEMMA ConnectKeepsInv ==
  ASSUME GameInv, NEW s \in Serial, OnConnectPlayer(s)
  PROVE  GameInv'
<1> DEFINE p == Head(m_pPlayerPool)
<1> USE DEF GameInv
<1>1. /\ p \in Player /\ m_pPlayerPool' \in Seq(Player) /\ Distinct(m_pPlayerPool')
      /\ Objects(m_pPlayerPool') = Objects(m_pPlayerPool) \ {p} /\ p \in Objects(m_pPlayerPool)
  <2>1. m_pPlayerPool' = Tail(m_pPlayerPool) /\ m_pPlayerPool # <<>>
    BY DEF OnConnectPlayer
  <2>2. m_pPlayerPool \in Seq(Player) /\ Distinct(m_pPlayerPool)
    BY DEF GameTypeOK, PlayerPoolExact, Distinct
  <2> QED BY <2>1, <2>2, PoolTail
<1>2. p \notin Connected /\ state[p] = "NONE"
  BY <1>1 DEF PlayerPoolExact, Objects
<1>3. /\ m_PlayerMap' = [m_PlayerMap EXCEPT ![s] = p]
      /\ m_pPlayerPool' = Tail(m_pPlayerPool)
      /\ state' = [state EXCEPT ![p] = "INIT"]
      /\ m_bLoadingComplete' = [m_bLoadingComplete EXCEPT ![p] = FALSE]
      /\ m_teamType' = [m_teamType EXCEPT ![p] = "RED"]
      /\ m_PlayerMap[s] = NoPlayer
      /\ UNCHANGED <<m_username, m_roomIndex, registered, lobby, roomVars, dbRequests>>
  BY DEF OnConnectPlayer
<1> HIDE DEF p
<1>4. GameTypeOK'
  BY <1>1, <1>3 DEF GameTypeOK, TeamType, PlayerState, roomVars, memberVars
<1>5. Connected' = Connected \cup {p}
  BY <1>1, <1>3, GameAssumption DEF GameTypeOK, Connected
<1>6. PlayerPoolExact'
  <2>1. ASSUME NEW t \in Serial, NEW u \in Serial, m_PlayerMap'[t] = m_PlayerMap'[u],
               m_PlayerMap'[t] # NoPlayer
        PROVE  t = u
    <3>1. \A v \in Serial : m_PlayerMap[v] # p
      BY <1>1, <1>2, GameAssumption DEF Connected
    <3> QED BY <1>3, <2>1, <3>1 DEF PlayerPoolExact, GameTypeOK
  <2>2. Connected' = {q \in Player : state'[q] # "NONE"}
    BY <1>1, <1>3, <1>5 DEF PlayerPoolExact, GameTypeOK
  <2>3. Connected' = Player \ Objects(m_pPlayerPool')
    BY <1>1, <1>5 DEF PlayerPoolExact, Objects
  <2> QED BY <1>1, <2>1, <2>2, <2>3 DEF PlayerPoolExact, Distinct, Objects
<1>7. RoomInv'
  <2>1. state[p] \notin InRoom /\ state'[p] \notin InRoom
    BY <1>1, <1>2, <1>3 DEF GameTypeOK, InRoom
  <2> QED BY <1>3, <2>1, RoomsUntouched DEF GameTypeOK
<1>8. LobbyExact'
  BY <1>1, <1>2, <1>3 DEF LobbyExact, GameTypeOK
<1>9. RegisteredIsLoggedIn'
  BY <1>1, <1>2, <1>3 DEF RegisteredIsLoggedIn, GameTypeOK
<1> QED BY <1>4, <1>6, <1>7, <1>8, <1>9

LEMMA LoginKeepsInv ==
  ASSUME GameInv, NEW s \in Serial, NEW name \in Name, OnLogin(s, name)
  PROVE  GameInv'
<1> USE DEF GameInv
<1>1. m_PlayerMap[s] \in Player /\ state[m_PlayerMap[s]] = "INIT"
  BY PlayerOfClient DEF OnLogin, From
<1>2. GameTypeOK'
  BY <1>1, GameAssumption, SMTT(60) DEF OnLogin, GameTypeOK, roomVars, memberVars
<1>3. PlayerPoolExact'
  BY DEF OnLogin, PlayerPoolExact, Connected
<1>4. RoomInv'
  BY <1>1, RoomsUntouched DEF OnLogin, InRoom
<1>5. LobbyExact'
  BY DEF OnLogin, LobbyExact
<1>6. RegisteredIsLoggedIn'
  BY <1>1 DEF OnLogin, RegisteredIsLoggedIn, GameTypeOK
<1> QED BY <1>2, <1>3, <1>4, <1>5, <1>6

LEMMA DBFailsKeepsInv ==
  ASSUME GameInv, NEW s \in Serial, DBFails(s)
  PROVE  GameInv'
<1> USE DEF GameInv
<1>t. dbRequests' \in [Serial -> 0..MaxRequests]
  BY GameAssumption DEF DBFails, GameTypeOK
<1>1. GameTypeOK'
  BY <1>t DEF DBFails, GameTypeOK, playerVars, roomVars, memberVars
<1>2. PlayerPoolExact'
  BY DEF DBFails, PlayerPoolExact, Connected, playerVars
<1>3. RoomInv'
  BY RoomsUntouched, GameAssumption DEF DBFails, playerVars
<1>4. LobbyExact' /\ RegisteredIsLoggedIn'
  BY DEF DBFails, LobbyExact, RegisteredIsLoggedIn, playerVars
<1> QED BY <1>1, <1>2, <1>3, <1>4

(* A change of the states of players that are connected before and after.   *)
LEMMA StatesKeepPool ==
  ASSUME GameTypeOK, PlayerPoolExact, UNCHANGED <<m_PlayerMap, m_pPlayerPool>>,
         \A p \in Player : state'[p] = "NONE" <=> state[p] = "NONE"
  PROVE  PlayerPoolExact'
BY DEF PlayerPoolExact, Connected

LEMMA DBResultKeepsInv ==
  ASSUME GameInv, NEW s \in Serial, NEW success \in BOOLEAN, OnDBResult(s, success)
  PROVE  GameInv'
<1> USE DEF GameInv
<1> DEFINE p == m_PlayerMap[s]
           Logs == From(s, "INIT") /\ success /\ AddPlayer(p)
<1>1. /\ dbRequests' = [dbRequests EXCEPT ![s] = @ - 1] /\ dbRequests[s] > 0
      /\ UNCHANGED <<m_PlayerMap, m_pPlayerPool, m_username, m_roomIndex, m_teamType, roomVars>>
  BY DEF OnDBResult
<1>t. dbRequests' \in [Serial -> 0..MaxRequests]
  BY <1>1, GameAssumption DEF GameTypeOK
<1>2. CASE Logs
  <2>1. p \in Player /\ state[p] = "INIT"
    BY <1>2, PlayerOfClient DEF From
  <2>2. registered' = [registered EXCEPT ![m_username[p]] = p] /\ ChangeState({p}, "LOGIN")
    BY <1>2 DEF OnDBResult
  <2>3. /\ state' = [state EXCEPT ![p] = "LOGIN"]
        /\ m_bLoadingComplete' = m_bLoadingComplete
        /\ lobby' = lobby
    BY <2>1, <2>2 DEF ChangeState, GameTypeOK
  <2>4. GameTypeOK'
    BY <1>1, <1>t, <2>1, <2>2, <2>3 DEF GameTypeOK, PlayerState, roomVars, memberVars
  <2>5. PlayerPoolExact'
    BY <1>1, <2>1, <2>3, StatesKeepPool DEF GameTypeOK
  <2>6. RoomInv'
    <3>1. state[p] \notin InRoom /\ state'[p] \notin InRoom
      BY <2>1, <2>3 DEF GameTypeOK, InRoom
    <3> QED BY <1>1, <2>3, <3>1, RoomsUntouched DEF GameTypeOK
  <2>7. LobbyExact'
    BY <2>1, <2>3 DEF LobbyExact, GameTypeOK
  <2>8. RegisteredIsLoggedIn'
    BY <1>1, <2>1, <2>2, <2>3 DEF RegisteredIsLoggedIn, GameTypeOK
  <2> QED BY <2>4, <2>5, <2>6, <2>7, <2>8
<1>3. CASE ~Logs
  <2>1. UNCHANGED <<registered, state, m_bLoadingComplete, lobby>>
    BY <1>3 DEF OnDBResult
  <2>2. GameTypeOK'
    BY <1>1, <1>t, <2>1 DEF GameTypeOK, roomVars, memberVars
  <2>3. PlayerPoolExact'
    BY <1>1, <2>1 DEF PlayerPoolExact, Connected
  <2>4. RoomInv'
    BY <1>1, <2>1, RoomsUntouched, GameAssumption
  <2>5. LobbyExact' /\ RegisteredIsLoggedIn'
    BY <1>1, <2>1 DEF LobbyExact, RegisteredIsLoggedIn
  <2> QED BY <2>2, <2>3, <2>4, <2>5
<1> QED BY <1>2, <1>3

LEMMA EnterLobbyKeepsInv ==
  ASSUME GameInv, NEW s \in Serial, OnEnterLobby(s)
  PROVE  GameInv'
<1> USE DEF GameInv
<1> DEFINE p == m_PlayerMap[s]
<1>1. p \in Player /\ state[p] = "LOGIN"
  BY PlayerOfClient DEF OnEnterLobby, From
<1>2. /\ state' = [state EXCEPT ![p] = "LOBBY"]
      /\ m_bLoadingComplete' = m_bLoadingComplete
      /\ lobby' = lobby \cup {p}
  BY <1>1 DEF OnEnterLobby, ChangeState, GameTypeOK
<1>3. GameTypeOK'
  BY <1>1, <1>2 DEF OnEnterLobby, GameTypeOK, PlayerState, roomVars, memberVars
<1>4. PlayerPoolExact'
  BY <1>1, <1>2, StatesKeepPool DEF OnEnterLobby, GameTypeOK
<1>5. RoomInv'
  <2>1. state[p] \notin InRoom /\ state'[p] \notin InRoom
    BY <1>1, <1>2 DEF GameTypeOK, InRoom
  <2> QED BY <1>2, <2>1, RoomsUntouched DEF OnEnterLobby, GameTypeOK
<1>6. LobbyExact'
  BY <1>1, <1>2 DEF LobbyExact, GameTypeOK
<1>7. RegisteredIsLoggedIn'
  BY <1>1, <1>2 DEF OnEnterLobby, RegisteredIsLoggedIn, GameTypeOK
<1> QED BY <1>3, <1>4, <1>5, <1>6, <1>7

-----------------------------------------------------------------------------
(* A player of the lobby joins a room that waits or plays, or just opened.  *)
LEMMA JoinKeepsInv ==
  ASSUME GameInv, NEW r \in Room, NEW p \in Player, NEW st \in {"ROOM", "LOADING"},
         state[p] = "LOBBY", Join(r, p, st),
         roomState' \in [Room -> RoomState], m_pRoomChief' \in [Room -> Player \cup {NoPlayer}],
         m_EmptyRoomMap' \subseteq Room, m_ActiveRoomMap' \subseteq Room,
         \A x \in Room \ {r} : roomState'[x] = roomState[x],
         (roomState'[r] = "WAIT" /\ st = "ROOM") \/ (roomState'[r] = "PLAY" /\ st = "LOADING"),
         roomState[r] = roomState'[r] \/ roomState[r] = "NONE",
         Cardinality(m_RoomMemberMap[r] \cup {p}) <= MaxRoomMember
  PROVE  /\ GameTypeOK' /\ PlayerPoolExact' /\ RoomPlayerAgree' /\ RoomMapsAgree' /\ PeerInv'
         /\ LobbyExact' /\ RegisteredIsLoggedIn'
<1> USE DEF GameInv, RoomInv
<1> DEFINE team == SelectMyTeam(r)
<1>1. /\ m_Observerlist' = [m_Observerlist EXCEPT ![r] = @ \cup {p}]
      /\ m_RoomMemberMap' = [m_RoomMemberMap EXCEPT ![r] = @ \cup {p}]
      /\ m_Team' = [m_Team EXCEPT ![r][team] = @ \cup {p}]
      /\ m_teamType' = [m_teamType EXCEPT ![p] = team]
      /\ m_roomIndex' = [m_roomIndex EXCEPT ![p] = r]
      /\ UNCHANGED <<m_PlayerMap, m_pPlayerPool, m_username, registered, m_PeerMap, dbRequests>>
  BY DEF Join
<1>2. team \in TeamType
  BY DEF SelectMyTeam, TeamType
<1> HIDE DEF team
<1>3. /\ state' = [state EXCEPT ![p] = st]
      /\ m_bLoadingComplete' \in [Player -> BOOLEAN]
      /\ \A q \in Player \ {p} : m_bLoadingComplete'[q] = m_bLoadingComplete[q]
      /\ lobby' = lobby \ {p}
  BY DEF Join, ChangeState, GameTypeOK
<1>4. \A x \in Room : p \notin m_RoomMemberMap[x]
  BY MembersAreInRooms
<1>5. GameTypeOK'
  BY <1>1, <1>2, <1>3 DEF GameTypeOK, PlayerState
<1>6. PlayerPoolExact'
  BY <1>1, <1>3, StatesKeepPool DEF GameTypeOK
<1>7. \A x \in Room \ {r} : m_RoomMemberMap'[x] = m_RoomMemberMap[x] /\ m_Team'[x] = m_Team[x]
  BY <1>1 DEF GameTypeOK
<1>8. m_RoomMemberMap'[r] = m_RoomMemberMap[r] \cup {p}
  BY <1>1 DEF GameTypeOK
<1>9. RoomPlayerAgree'
  <2>1. ASSUME NEW q \in Player, state'[q] \in InRoom
        PROVE  q \in m_RoomMemberMap'[m_roomIndex'[q]]
    <3>1. CASE q = p
      BY <1>1, <1>8, <3>1 DEF GameTypeOK
    <3>2. CASE q # p
      <4>1. q \in m_RoomMemberMap[m_roomIndex[q]]
        BY <1>3, <2>1, <3>2 DEF RoomPlayerAgree, GameTypeOK
      <4>2. m_roomIndex'[q] = m_roomIndex[q] /\ m_roomIndex[q] \in Room
        BY <1>1, <3>2 DEF GameTypeOK
      <4> QED BY <1>7, <1>8, <4>1, <4>2
    <3> QED BY <3>1, <3>2
  <2>2. ASSUME NEW x \in Room, NEW q \in m_RoomMemberMap'[x]
        PROVE  m_roomIndex'[q] = x /\ state'[q] \in MemberStates(roomState'[x])
    <3>1. CASE q = p
      <4>1. x = r
        BY <1>4, <1>7, <2>2, <3>1
      <4>2. state'[p] = st /\ m_roomIndex'[p] = r
        BY <1>1, <1>3 DEF GameTypeOK
      <4> QED BY <3>1, <4>1, <4>2, StatesOfMembers
    <3>2. CASE q # p
      <4>1. q \in m_RoomMemberMap[x]
        BY <1>7, <1>8, <2>2, <3>2
      <4>2. q \in Player /\ roomState[x] # "NONE"
        BY <4>1, MembersAreInRooms
      <4>3. m_roomIndex'[q] = m_roomIndex[q] /\ state'[q] = state[q]
        BY <1>1, <1>3, <3>2, <4>2 DEF GameTypeOK
      <4>4. roomState'[x] = roomState[x]
        BY <4>2
      <4> QED BY <4>1, <4>3, <4>4 DEF RoomPlayerAgree
    <3> QED BY <3>1, <3>2
  <2> QED BY <2>1, <2>2 DEF RoomPlayerAgree, MemberStates
<1>10. RoomMapsAgree'
  <2> SUFFICES ASSUME NEW x \in Room
               PROVE  /\ m_Observerlist'[x] = m_RoomMemberMap'[x]
                      /\ \A t \in TeamType :
                           m_Team'[x][t] = {q \in m_RoomMemberMap'[x] : m_teamType'[q] = t}
                      /\ m_PeerMap'[x] \subseteq m_RoomMemberMap'[x]
                      /\ Cardinality(m_RoomMemberMap'[x]) <= MaxRoomMember
    BY DEF RoomMapsAgree
  <2>1. \A q \in m_RoomMemberMap[x] : q \in Player /\ m_teamType'[q] = m_teamType[q]
    BY <1>1, <1>4 DEF GameTypeOK
  <2>2. CASE x # r
    BY <1>1, <1>7, <2>1, <2>2 DEF RoomMapsAgree, GameTypeOK
  <2>3. CASE x = r
    <3>1. ASSUME NEW t \in TeamType
          PROVE  m_Team'[r][t] = {q \in m_RoomMemberMap'[r] : m_teamType'[q] = t}
      <4>1. m_Team'[r][t] = IF t = team THEN m_Team[r][t] \cup {p} ELSE m_Team[r][t]
        BY <1>1, <1>2 DEF GameTypeOK
      <4>2. m_Team[r][t] = {q \in m_RoomMemberMap[r] : m_teamType[q] = t}
        BY DEF RoomMapsAgree
      <4>3. m_teamType'[p] = team
        BY <1>1 DEF GameTypeOK
      <4> QED BY <1>8, <2>1, <2>3, <4>1, <4>2, <4>3
    <3> QED BY <1>1, <1>8, <2>3, <3>1 DEF RoomMapsAgree, GameTypeOK
  <2> QED BY <2>2, <2>3
<1>11. PeerInv'
  <2>w. \A x \in Room : roomState'[x] = "WAIT" => m_PeerMap'[x] = {}
    <3>1. roomState[r] = "NONE" => m_PeerMap[r] = {}
      BY DEF RoomsAccountedFor, RoomMapsAgree
    <3> QED BY <1>1, <3>1 DEF PeerInv
  <2> SUFFICES ASSUME NEW x \in Room, roomState'[x] = "LOADING", NEW q \in m_RoomMemberMap'[x],
                      m_bLoadingComplete'[q]
               PROVE  q \in m_PeerMap'[x]
    BY <2>w DEF PeerInv
  <2>1. x # r
    OBVIOUS
  <2>2. q \in m_RoomMemberMap[x] /\ q \in Player /\ q # p /\ roomState[x] = "LOADING"
    BY <1>4, <1>7, <2>1 DEF GameTypeOK
  <2> QED BY <1>1, <1>3, <2>2 DEF PeerInv
<1>12. LobbyExact'
  BY <1>3 DEF LobbyExact, GameTypeOK
<1>13. RegisteredIsLoggedIn'
  BY <1>1, <1>3 DEF RegisteredIsLoggedIn, GameTypeOK
<1> QED BY <1>5, <1>6, <1>9, <1>10, <1>11, <1>12, <1>13

LEMMA CreateRoomKeepsInv ==
  ASSUME GameInv, NEW s \in Serial, OnCreateRoom(s)
  PROVE  GameInv'
<1> USE DEF GameInv, RoomInv
<1> DEFINE p == m_PlayerMap[s]
           r == Least(m_EmptyRoomMap)
<1>1. p \in Player /\ state[p] = "LOBBY"
  BY PlayerOfClient DEF OnCreateRoom, From
<1>2. r \in m_EmptyRoomMap /\ r \in Room
  BY LeastIsMember, GameAssumption DEF OnCreateRoom, GameTypeOK
<1>3. /\ m_EmptyRoomMap' = m_EmptyRoomMap \ {r}
      /\ m_ActiveRoomMap' = m_ActiveRoomMap \cup {r}
      /\ m_pRoomChief' = [m_pRoomChief EXCEPT ![r] = p]
      /\ roomState' = [roomState EXCEPT ![r] = "WAIT"]
      /\ Join(r, p, "ROOM")
  BY DEF OnCreateRoom
<1> HIDE DEF p, r
<1>4. roomState[r] = "NONE" /\ m_RoomMemberMap[r] = {}
  BY <1>2 DEF RoomsAccountedFor
<1>5. Cardinality(m_RoomMemberMap[r] \cup {p}) <= MaxRoomMember
  <2>1. m_RoomMemberMap[r] \cup {p} = {p}
    BY <1>4
  <2>2. Cardinality({p}) = 1
    BY FS_Singleton
  <2> QED BY <2>1, <2>2, GameAssumption
<1>6. /\ roomState' \in [Room -> RoomState] /\ m_pRoomChief' \in [Room -> Player \cup {NoPlayer}]
      /\ m_EmptyRoomMap' \subseteq Room /\ m_ActiveRoomMap' \subseteq Room
      /\ roomState'[r] = "WAIT" /\ \A x \in Room \ {r} : roomState'[x] = roomState[x]
  BY <1>1, <1>2, <1>3 DEF GameTypeOK, RoomState
<1>7. /\ GameTypeOK' /\ PlayerPoolExact' /\ RoomPlayerAgree' /\ RoomMapsAgree' /\ PeerInv'
      /\ LobbyExact' /\ RegisteredIsLoggedIn'
  <2>1. /\ "ROOM" \in {"ROOM", "LOADING"}
        /\ (roomState'[r] = "WAIT" /\ "ROOM" = "ROOM") \/ (roomState'[r] = "PLAY" /\ "ROOM" = "LOADING")
        /\ roomState[r] = roomState'[r] \/ roomState[r] = "NONE"
    BY <1>4, <1>6
  <2> QED BY <1>1, <1>2, <1>3, <1>5, <1>6, <2>1, JoinKeepsInv
<1>8. RoomsAccountedFor'
  <2>1. /\ \A x \in Room \ {r} : m_RoomMemberMap'[x] = m_RoomMemberMap[x]
                                 /\ m_pRoomChief'[x] = m_pRoomChief[x]
        /\ p \in m_RoomMemberMap'[r] /\ m_pRoomChief'[r] = p
    BY <1>2, <1>3 DEF Join, GameTypeOK
  <2>2. m_EmptyRoomMap' = {x \in Room : roomState'[x] = "NONE"}
    BY <1>3, <1>6 DEF RoomsAccountedFor
  <2>3. m_ActiveRoomMap' = Room \ m_EmptyRoomMap'
    BY <1>2, <1>3 DEF RoomsAccountedFor
  <2> QED BY <1>3, <2>1, <2>2, <2>3 DEF RoomsAccountedFor
<1> QED BY <1>7, <1>8

LEMMA EnterRoomKeepsInv ==
  ASSUME GameInv, NEW s \in Serial, NEW r \in Room, OnEnterRoom(s, r)
  PROVE  GameInv'
<1> USE DEF GameInv, RoomInv
<1> DEFINE p == m_PlayerMap[s]
           st == IF roomState[r] = "WAIT" THEN "ROOM" ELSE "LOADING"
<1>1. p \in Player /\ state[p] = "LOBBY"
  BY PlayerOfClient DEF OnEnterRoom, From
<1>2. /\ roomState[r] \in {"WAIT", "PLAY"} /\ Join(r, p, st)
      /\ UNCHANGED <<roomState, m_pRoomChief, m_EmptyRoomMap, m_ActiveRoomMap>>
      /\ Cardinality(m_RoomMemberMap[r]) < MaxRoomMember
  BY DEF OnEnterRoom, HasSpace, RoomMapsAgree
<1> HIDE DEF p
<1>3. Cardinality(m_RoomMemberMap[r] \cup {p}) <= MaxRoomMember
  <2>1. m_RoomMemberMap[r] \in SUBSET Player /\ IsFiniteSet(Player)
    BY GameAssumption DEF GameTypeOK
  <2>2. IsFiniteSet(m_RoomMemberMap[r])
    BY <2>1, FS_Subset
  <2>3. Cardinality(m_RoomMemberMap[r]) \in Nat
    BY <2>2, FS_CardinalityType
  <2>4. Cardinality(m_RoomMemberMap[r] \cup {p}) =
          IF p \in m_RoomMemberMap[r] THEN Cardinality(m_RoomMemberMap[r])
                                       ELSE Cardinality(m_RoomMemberMap[r]) + 1
    BY <2>2, FS_AddElement
  <2> QED BY <1>2, <2>3, <2>4, GameAssumption
<1>4. /\ roomState' \in [Room -> RoomState] /\ m_pRoomChief' \in [Room -> Player \cup {NoPlayer}]
      /\ m_EmptyRoomMap' \subseteq Room /\ m_ActiveRoomMap' \subseteq Room
  BY <1>2 DEF GameTypeOK
<1>s. /\ st \in {"ROOM", "LOADING"} /\ roomState'[r] = roomState[r]
      /\ (roomState'[r] = "WAIT" /\ st = "ROOM") \/ (roomState'[r] = "PLAY" /\ st = "LOADING")
  BY <1>2
<1> HIDE DEF st
<1>5. /\ GameTypeOK' /\ PlayerPoolExact' /\ RoomPlayerAgree' /\ RoomMapsAgree' /\ PeerInv'
      /\ LobbyExact' /\ RegisteredIsLoggedIn'
  BY <1>1, <1>2, <1>3, <1>4, <1>s, JoinKeepsInv
<1>6. RoomsAccountedFor'
  <2>1. \A x \in Room : m_RoomMemberMap'[x] = m_RoomMemberMap[x]
                         \/ (x = r /\ m_RoomMemberMap'[x] = m_RoomMemberMap[x] \cup {p})
    <3>1. m_RoomMemberMap' = [m_RoomMemberMap EXCEPT ![r] = @ \cup {p}]
      BY <1>2 DEF Join
    <3> QED BY <3>1 DEF GameTypeOK
  <2>2. r \in m_ActiveRoomMap
    BY <1>2 DEF RoomsAccountedFor
  <2> QED BY <1>2, <2>1, <2>2 DEF RoomsAccountedFor
<1> QED BY <1>5, <1>6

-----------------------------------------------------------------------------
(* The room of a player that believes it is in one.                         *)
LEMMA RoomOfPlayer ==
  ASSUME GameTypeOK, RoomPlayerAgree, NEW p \in Player, state[p] \in InRoom
  PROVE  /\ m_roomIndex[p] \in Room /\ p \in m_RoomMemberMap[m_roomIndex[p]]
         /\ \A x \in Room : p \in m_RoomMemberMap[x] => x = m_roomIndex[p]
BY DEF GameTypeOK, RoomPlayerAgree

LEMMA ChangeTeamKeepsInv ==
  ASSUME GameInv, NEW s \in Serial, OnChangeTeam(s)
  PROVE  GameInv'
<1> USE DEF GameInv, RoomInv
<1> DEFINE p == m_PlayerMap[s]
           r == m_roomIndex[p]
           team == m_teamType[p]
           other == NextTeam(team)
<1>1. p \in Player /\ state[p] = "ROOM"
  BY PlayerOfClient DEF OnChangeTeam, From
<1>2. r \in Room /\ p \in m_RoomMemberMap[r] /\ \A x \in Room \ {r} : p \notin m_RoomMemberMap[x]
  BY <1>1, RoomOfPlayer DEF InRoom
<1>3. /\ m_Team' = [m_Team EXCEPT ![r][team] = @ \ {p}, ![r][other] = @ \cup {p}]
      /\ m_teamType' = [m_teamType EXCEPT ![p] = other]
      /\ UNCHANGED <<m_PlayerMap, m_pPlayerPool, state, m_username, m_roomIndex, m_bLoadingComplete,
                      registered, lobby, roomState, m_pRoomChief, m_RoomMemberMap, m_Observerlist,
                      m_PeerMap, m_EmptyRoomMap, m_ActiveRoomMap, dbRequests>>
  BY DEF OnChangeTeam
<1>4. team \in TeamType /\ other \in TeamType /\ other # team
  BY <1>1 DEF GameTypeOK, NextTeam, TeamType
<1> HIDE DEF p, r, team, other
<1>m. /\ m_Team' \in [Room -> [TeamType -> SUBSET Player]]
      /\ \A x \in Room \ {r} : m_Team'[x] = m_Team[x]
      /\ \A t \in TeamType : m_Team'[r][t] = IF t = other THEN m_Team[r][t] \cup {p}
                                 ELSE IF t = team THEN m_Team[r][t] \ {p} ELSE m_Team[r][t]
  <2>1. m_Team \in [Room -> [TeamType -> SUBSET Player]]
    BY DEF GameTypeOK
  <2>2. PICK f : f = [m_Team EXCEPT ![r][team] = @ \ {p}]
    OBVIOUS
  <2>3. /\ f \in [Room -> [TeamType -> SUBSET Player]]
        /\ \A x \in Room \ {r} : f[x] = m_Team[x]
        /\ \A t \in TeamType : f[r][t] = IF t = team THEN m_Team[r][t] \ {p} ELSE m_Team[r][t]
    BY <1>1, <1>2, <1>4, <2>1, <2>2
  <2>4. m_Team' = [f EXCEPT ![r][other] = @ \cup {p}]
    BY <1>3, <2>2
  <2> QED BY <1>1, <1>2, <1>4, <2>3, <2>4
<1>5. GameTypeOK'
  BY <1>1, <1>3, <1>4, <1>m DEF GameTypeOK
<1>t. \A x \in Room, t \in TeamType :
         m_Team'[x][t] = {q \in m_RoomMemberMap'[x] : m_teamType'[q] = t}
  <2> SUFFICES ASSUME NEW x \in Room, NEW t \in TeamType
               PROVE  m_Team'[x][t] = {q \in m_RoomMemberMap[x] : m_teamType'[q] = t}
    BY <1>3
  <2>1. m_Team[x][t] = {q \in m_RoomMemberMap[x] : m_teamType[q] = t}
    BY DEF RoomMapsAgree
  <2>2. /\ \A q \in Player \ {p} : m_teamType'[q] = m_teamType[q]
        /\ m_teamType'[p] = other /\ m_RoomMemberMap[x] \subseteq Player
    BY <1>1, <1>3 DEF GameTypeOK
  <2>3. CASE x # r
    <3>1. m_Team'[x][t] = m_Team[x][t] /\ p \notin m_RoomMemberMap[x]
      BY <1>2, <1>m, <2>3
    <3> QED BY <2>1, <2>2, <3>1
  <2>4. CASE x = r
    <3>1. m_teamType[p] = team
      BY DEF team
    <3>2. CASE t = other
      <4>1. m_Team'[x][t] = m_Team[x][t] \cup {p}
        BY <1>m, <2>4, <3>2
      <4> QED BY <1>2, <2>1, <2>2, <2>4, <3>2, <4>1
    <3>3. CASE t # other
      <4>1. t = team /\ m_Team'[x][t] = m_Team[x][t] \ {p}
        BY <1>4, <1>m, <2>4, <3>3 DEF TeamType
      <4> QED BY <1>2, <2>1, <2>2, <2>4, <3>1, <3>3, <4>1
    <3> QED BY <3>2, <3>3
  <2> QED BY <2>3, <2>4
<1>6. RoomMapsAgree'
  <2>1. \A x \in Room : /\ m_Observerlist'[x] = m_RoomMemberMap'[x]
                        /\ m_PeerMap'[x] \subseteq m_RoomMemberMap'[x]
                        /\ Cardinality(m_RoomMemberMap'[x]) <= MaxRoomMember
    <3>1. \A x \in Room : /\ m_Observerlist[x] = m_RoomMemberMap[x]
                          /\ m_PeerMap[x] \subseteq m_RoomMemberMap[x]
                          /\ Cardinality(m_RoomMemberMap[x]) <= MaxRoomMember
      BY DEF RoomMapsAgree
    <3> QED BY <1>3, <3>1
  <2> QED BY <1>t, <2>1 DEF RoomMapsAgree
<1>7. PlayerPoolExact'
  BY <1>3 DEF PlayerPoolExact, Connected
<1>8. RoomPlayerAgree' /\ RoomsAccountedFor' /\ PeerInv'
  BY <1>3 DEF RoomPlayerAgree, RoomsAccountedFor, PeerInv, MemberStates
<1>9. LobbyExact' /\ RegisteredIsLoggedIn'
  BY <1>3 DEF LobbyExact, RegisteredIsLoggedIn
<1> QED BY <1>5, <1>6, <1>7, <1>8, <1>9

LEMMA LoadingStartKeepsInv ==
  ASSUME GameInv, NEW s \in Serial, OnLoadingStart(s)
  PROVE  GameInv'
<1> USE DEF GameInv, RoomInv
<1> DEFINE p == m_PlayerMap[s]
           r == m_roomIndex[p]
           M == m_RoomMemberMap[r]
<1>1. p \in Player /\ state[p] = "ROOM"
  BY PlayerOfClient DEF OnLoadingStart, From
<1>2. r \in Room /\ p \in M /\ TeamMembers(r) = M
  BY <1>1, RoomOfPlayer, TeamsAreMembers DEF InRoom
<1>3. /\ roomState[r] = "WAIT" /\ \A q \in M : state[q] = "ROOM"
      /\ roomState' = [roomState EXCEPT ![r] = "LOADING"]
      /\ ChangeState(M, "LOADING")
      /\ UNCHANGED <<m_PlayerMap, m_pPlayerPool, m_username, m_roomIndex, m_teamType, registered,
                      m_pRoomChief, memberVars, m_EmptyRoomMap, m_ActiveRoomMap, dbRequests>>
  BY <1>2 DEF OnLoadingStart
<1>4. M \subseteq Player /\ \A x \in Room \ {r} : \A q \in m_RoomMemberMap[x] : q \notin M
  BY <1>2 DEF GameTypeOK, RoomPlayerAgree
<1> HIDE DEF p, r
<1>5. /\ state' = [q \in Player |-> IF q \in M THEN "LOADING" ELSE state[q]]
      /\ m_bLoadingComplete' = [q \in Player |-> IF q \in M THEN FALSE ELSE m_bLoadingComplete[q]]
      /\ lobby' = lobby
  <2>1. state' = [q \in Player |-> IF q \in M THEN "LOADING" ELSE state[q]]
    BY <1>3 DEF ChangeState
  <2>2. m_bLoadingComplete' = [q \in Player |-> IF q \in M THEN FALSE ELSE m_bLoadingComplete[q]]
    BY <1>3 DEF ChangeState
  <2>3. lobby' = lobby
    BY <1>3 DEF ChangeState
  <2> QED BY <2>1, <2>2, <2>3
<1>6. /\ m_RoomMemberMap' = m_RoomMemberMap /\ m_Observerlist' = m_Observerlist
      /\ m_Team' = m_Team /\ m_PeerMap' = m_PeerMap
  BY <1>3 DEF memberVars
<1>7. GameTypeOK'
  BY <1>2, <1>3, <1>5, <1>6 DEF GameTypeOK, PlayerState, RoomState
<1>8. PlayerPoolExact'
  <2>1. \A q \in Player : state'[q] = "NONE" <=> state[q] = "NONE"
    BY <1>3, <1>5
  <2> QED BY <1>3, <2>1, StatesKeepPool
<1>9. RoomPlayerAgree'
  <2>1. ASSUME NEW q \in Player, state'[q] \in InRoom
        PROVE  q \in m_RoomMemberMap'[m_roomIndex'[q]]
    <3>1. state[q] \in InRoom
      BY <1>3, <1>5, <2>1 DEF InRoom
    <3> QED BY <1>3, <1>6, <3>1 DEF RoomPlayerAgree
  <2>2. ASSUME NEW x \in Room, NEW q \in m_RoomMemberMap'[x]
        PROVE  m_roomIndex'[q] = x /\ state'[q] \in MemberStates(roomState'[x])
    <3>1. q \in m_RoomMemberMap[x] /\ m_roomIndex'[q] = x /\ q \in Player
      BY <1>3, <1>6, <2>2 DEF RoomPlayerAgree, GameTypeOK
    <3>2. CASE x = r
      <4>1. state'[q] = "LOADING" /\ roomState'[x] = "LOADING"
        BY <1>2, <1>3, <1>5, <3>1, <3>2 DEF GameTypeOK
      <4> QED BY <3>1, <4>1, StatesOfMembers
    <3>3. CASE x # r
      <4>1. state'[q] = state[q] /\ roomState'[x] = roomState[x]
        BY <1>2, <1>3, <1>4, <1>5, <3>1, <3>3 DEF GameTypeOK
      <4> QED BY <3>1, <4>1 DEF RoomPlayerAgree
    <3> QED BY <3>2, <3>3
  <2> QED BY <2>1, <2>2 DEF RoomPlayerAgree, MemberStates
<1>10. RoomMapsAgree'
  BY <1>3, <1>6 DEF RoomMapsAgree
<1>11. RoomsAccountedFor'
  <2>1. \A x \in Room : roomState'[x] = "NONE" <=> roomState[x] = "NONE"
    BY <1>2, <1>3 DEF GameTypeOK
  <2> QED BY <1>3, <1>6, <2>1 DEF RoomsAccountedFor
<1>12. PeerInv'
  <2> SUFFICES ASSUME NEW x \in Room, roomState'[x] = "LOADING", NEW q \in m_RoomMemberMap[x],
                      m_bLoadingComplete'[q]
               PROVE  q \in m_PeerMap[x]
    BY <1>2, <1>3, <1>6 DEF PeerInv, GameTypeOK
  <2>1. q \in Player /\ q \notin M
    BY <1>5 DEF GameTypeOK
  <2>2. x # r /\ roomState[x] = "LOADING" /\ m_bLoadingComplete[q]
    BY <1>2, <1>3, <1>5, <2>1 DEF GameTypeOK
  <2> QED BY <2>2 DEF PeerInv
<1>13. LobbyExact'
  BY <1>3, <1>4, <1>5 DEF LobbyExact
<1>14. RegisteredIsLoggedIn'
  BY <1>3, <1>5 DEF RegisteredIsLoggedIn, GameTypeOK
<1> QED BY <1>7, <1>8, <1>9, <1>10, <1>11, <1>12, <1>13, <1>14

LEMMA LoadingCompleteKeepsInv ==
  ASSUME GameInv, NEW s \in Serial, OnLoadingComplete(s)
  PROVE  GameInv'
<1> USE DEF GameInv, RoomInv
<1> DEFINE p == m_PlayerMap[s]
           r == m_roomIndex[p]
           M == m_RoomMemberMap[r]
           start == roomState[r] = "LOADING" /\ CheckLoadingComplete(r, p)
           plays == IF start THEN M ELSE IF roomState[r] = "PLAY" THEN {p} ELSE {}
<1>1. p \in Player /\ state[p] = "LOADING"
  BY PlayerOfClient DEF OnLoadingComplete, From
<1>2. r \in Room /\ p \in M /\ TeamMembers(r) = M
  BY <1>1, RoomOfPlayer, TeamsAreMembers DEF InRoom
<1>3. /\ m_bLoadingComplete' = [m_bLoadingComplete EXCEPT ![p] = TRUE]
      /\ m_PeerMap' = [m_PeerMap EXCEPT ![r] = IF roomState[r] = "LOADING" THEN @ \cup {p} ELSE @]
      /\ roomState' = [roomState EXCEPT ![r] = IF start THEN "PLAY" ELSE @]
      /\ state' = [q \in Player |-> IF q \in plays THEN "PLAY" ELSE state[q]]
      /\ UNCHANGED <<m_PlayerMap, m_pPlayerPool, m_username, m_roomIndex, m_teamType, registered,
                      lobby, m_pRoomChief, m_RoomMemberMap, m_Observerlist, m_Team, m_EmptyRoomMap,
                      m_ActiveRoomMap, dbRequests>>
  BY <1>2 DEF OnLoadingComplete
<1>4. /\ plays \subseteq M /\ M \subseteq Player
      /\ \A x \in Room \ {r} : \A q \in m_RoomMemberMap[x] : q \notin M
      /\ \A q \in M : state[q] \in {"ROOM", "LOADING", "PLAY"}
  BY <1>2, MembersAreInRooms DEF GameTypeOK, RoomPlayerAgree
<1> HIDE DEF p, r, M, start, plays
<1>5. GameTypeOK'
  <2>1. /\ roomState' \in [Room -> RoomState] /\ m_PeerMap' \in [Room -> SUBSET Player]
        /\ m_bLoadingComplete' \in [Player -> BOOLEAN]
    BY <1>1, <1>2, <1>3 DEF GameTypeOK, RoomState
  <2>2. state' \in [Player -> PlayerState]
    BY <1>3 DEF GameTypeOK, PlayerState
  <2> QED BY <1>3, <2>1, <2>2 DEF GameTypeOK
<1>6. PlayerPoolExact'
  <2>1. \A q \in Player : state'[q] = "NONE" <=> state[q] = "NONE"
    BY <1>3, <1>4
  <2> QED BY <1>3, <2>1, StatesKeepPool
<1>7. RoomPlayerAgree'
  <2>1. ASSUME NEW q \in Player, state'[q] \in InRoom
        PROVE  q \in m_RoomMemberMap'[m_roomIndex'[q]]
    <3>1. state[q] \in InRoom
      BY <1>3, <1>4, <2>1 DEF InRoom
    <3> QED BY <1>3, <3>1 DEF RoomPlayerAgree
  <2>2. ASSUME NEW x \in Room, NEW q \in m_RoomMemberMap'[x]
        PROVE  m_roomIndex'[q] = x /\ state'[q] \in MemberStates(roomState'[x])
    <3>1. /\ q \in m_RoomMemberMap[x] /\ m_roomIndex'[q] = x /\ q \in Player
          /\ state[q] \in MemberStates(roomState[x])
      BY <1>3, <2>2 DEF RoomPlayerAgree, GameTypeOK
    <3>2. CASE x = r
      <4>1. q \in M
        BY <3>1, <3>2 DEF M
      <4>2. CASE start
        <5>1. state'[q] = "PLAY" /\ roomState'[x] = "PLAY"
          BY <1>2, <1>3, <3>1, <3>2, <4>1, <4>2 DEF GameTypeOK, plays
        <5> QED BY <3>1, <5>1, StatesOfMembers
      <4>3. CASE ~start
        <5>1. /\ roomState'[x] = roomState[x]
              /\ state'[q] = state[q] \/ (roomState[r] = "PLAY" /\ state'[q] = "PLAY")
          BY <1>2, <1>3, <3>1, <3>2, <4>3 DEF GameTypeOK, plays
        <5> QED BY <3>1, <3>2, <5>1, StatesOfMembers
      <4> QED BY <4>2, <4>3
    <3>3. CASE x # r
      <4>1. state'[q] = state[q] /\ roomState'[x] = roomState[x]
        BY <1>2, <1>3, <1>4, <3>1, <3>3 DEF GameTypeOK
      <4> QED BY <3>1, <4>1
    <3> QED BY <3>2, <3>3
  <2> QED BY <2>1, <2>2 DEF RoomPlayerAgree, MemberStates
<1>8. RoomMapsAgree'
  <2>1. \A x \in Room : m_PeerMap'[x] \subseteq m_RoomMemberMap[x]
    BY <1>2, <1>3 DEF RoomMapsAgree, GameTypeOK, M
  <2> QED BY <1>3, <2>1 DEF RoomMapsAgree
<1>9. RoomsAccountedFor'
  <2>1. \A x \in Room : roomState'[x] = "NONE" <=> roomState[x] = "NONE"
    BY <1>2, <1>3 DEF GameTypeOK, start
  <2> QED BY <1>3, <2>1 DEF RoomsAccountedFor
<1>10. PeerInv'
  <2> SUFFICES ASSUME NEW x \in Room, roomState'[x] = "LOADING", NEW q \in m_RoomMemberMap[x],
                      m_bLoadingComplete'[q]
               PROVE  q \in m_PeerMap'[x]
    <3>1. \A x \in Room : roomState'[x] = "WAIT" => m_PeerMap'[x] = {}
      BY <1>2, <1>3 DEF PeerInv, GameTypeOK
    <3> QED BY <1>3, <3>1 DEF PeerInv
  <2>1. roomState[x] = "LOADING" /\ q \in Player
    BY <1>2, <1>3 DEF GameTypeOK
  <2>2. CASE q = p
    <3>1. x = r
      BY <1>2, <1>4, <2>2 DEF M
    <3> QED BY <1>2, <1>3, <2>1, <2>2, <3>1 DEF GameTypeOK
  <2>3. CASE q # p
    <3>1. q \in m_PeerMap[x]
      BY <1>1, <1>3, <2>1, <2>3 DEF PeerInv, GameTypeOK
    <3> QED BY <1>2, <1>3, <3>1 DEF GameTypeOK
  <2> QED BY <2>2, <2>3
<1>11. LobbyExact'
  BY <1>3, <1>4 DEF LobbyExact
<1>12. RegisteredIsLoggedIn'
  BY <1>3 DEF RegisteredIsLoggedIn, GameTypeOK
<1> QED BY <1>5, <1>6, <1>7, <1>8, <1>9, <1>10, <1>11, <1>12

-----------------------------------------------------------------------------
(* p leaves the room it is in, for a state in which it is in none.          *)
LEMMA LeavingKeepsRooms ==
  ASSUME GameInv, NEW r \in Room, NEW p \in m_RoomMemberMap[r], NEW st \in {"LOBBY", "NONE"},
         LeaveRoom(r, p), StatesWithout(r, p, st),
         UNCHANGED <<m_roomIndex, m_teamType, m_bLoadingComplete>>
  PROVE  /\ RoomInv' /\ state' = [state EXCEPT ![p] = st]
         /\ roomState' \in [Room -> RoomState] /\ m_pRoomChief' \in [Room -> Player \cup {NoPlayer}]
         /\ m_RoomMemberMap' \in [Room -> SUBSET Player] /\ m_Observerlist' \in [Room -> SUBSET Player]
         /\ m_Team' \in [Room -> [TeamType -> SUBSET Player]] /\ m_PeerMap' \in [Room -> SUBSET Player]
         /\ m_EmptyRoomMap' \subseteq Room /\ m_ActiveRoomMap' \subseteq Room
<1> USE DEF GameInv, RoomInv
<1> DEFINE M == m_RoomMemberMap[r]
           last == M = {p}
<1>1. /\ p \in Player /\ M \subseteq Player /\ m_Observerlist[r] = M /\ TeamMembers(r) = M
      /\ state[p] \in {"ROOM", "LOADING", "PLAY"} /\ roomState[r] # "NONE"
      /\ r \in m_ActiveRoomMap /\ m_roomIndex[p] = r
      /\ \A x \in Room \ {r} : p \notin m_RoomMemberMap[x]
  <2>1. p \in Player /\ state[p] \in {"ROOM", "LOADING", "PLAY"} /\ roomState[r] # "NONE"
    BY MembersAreInRooms
  <2>2. M \subseteq Player /\ m_Observerlist[r] = M
    BY DEF GameTypeOK, RoomMapsAgree
  <2>3. TeamMembers(r) = M
    BY TeamsAreMembers
  <2>4. r \in m_ActiveRoomMap
    BY <2>1 DEF RoomsAccountedFor
  <2>5. m_roomIndex[p] = r /\ \A x \in Room \ {r} : p \notin m_RoomMemberMap[x]
    BY DEF RoomPlayerAgree
  <2> QED BY <2>1, <2>2, <2>3, <2>4, <2>5
<1>2. state' = [state EXCEPT ![p] = st]
  <2>1. m_Observerlist[r] = {p} => TeamMembers(r) \ {p} = {}
    BY <1>1
  <2>2. state' = [q \in Player |-> IF q = p THEN st ELSE state[q]]
    BY <2>1 DEF StatesWithout
  <2> QED BY <1>1, <2>2 DEF GameTypeOK
<1>3. /\ m_RoomMemberMap' = [m_RoomMemberMap EXCEPT ![r] = @ \ {p}]
      /\ m_Observerlist' = [m_Observerlist EXCEPT ![r] = @ \ {p}]
      /\ m_Team' = [m_Team EXCEPT ![r][m_teamType[p]] = @ \ {p}]
      /\ m_PeerMap' = [m_PeerMap EXCEPT ![r] = IF roomState[r] \in {"LOADING", "PLAY"} THEN @ \ {p} ELSE @]
  BY DEF LeaveRoom, DeletePeer
<1>4. m_teamType[p] \in TeamType
  BY <1>1 DEF GameTypeOK
<1>5. /\ m_RoomMemberMap' \in [Room -> SUBSET Player] /\ m_Observerlist' \in [Room -> SUBSET Player]
      /\ m_Team' \in [Room -> [TeamType -> SUBSET Player]] /\ m_PeerMap' \in [Room -> SUBSET Player]
  <2>1. m_RoomMemberMap' \in [Room -> SUBSET Player] /\ m_Observerlist' \in [Room -> SUBSET Player]
    BY <1>3 DEF GameTypeOK
  <2>2. m_Team' \in [Room -> [TeamType -> SUBSET Player]]
    BY <1>3, <1>4 DEF GameTypeOK
  <2>3. m_PeerMap' \in [Room -> SUBSET Player]
    BY <1>3 DEF GameTypeOK
  <2> QED BY <2>1, <2>2, <2>3
<1>6. /\ roomState' \in [Room -> RoomState] /\ m_pRoomChief' \in [Room -> Player \cup {NoPlayer}]
      /\ \A x \in Room \ {r} : roomState'[x] = roomState[x] /\ m_pRoomChief'[x] = m_pRoomChief[x]
      /\ roomState'[r] = IF last THEN "NONE" ELSE roomState[r]
      /\ m_EmptyRoomMap' = IF last THEN m_EmptyRoomMap \cup {r} ELSE m_EmptyRoomMap
      /\ m_ActiveRoomMap' = IF last THEN m_ActiveRoomMap \ {r} ELSE m_ActiveRoomMap
      /\ ~last => m_pRoomChief'[r] \in M \ {p}
  <2>1. CASE last
    <3>1. /\ roomState' = [roomState EXCEPT ![r] = "NONE"]
          /\ m_EmptyRoomMap' = m_EmptyRoomMap \cup {r} /\ m_ActiveRoomMap' = m_ActiveRoomMap \ {r}
          /\ m_pRoomChief' = m_pRoomChief
      BY <1>1, <2>1 DEF LeaveRoom
    <3> QED BY <2>1, <3>1 DEF GameTypeOK, RoomState
  <2>2. CASE ~last
    <3>1. PassOnChief(r, p) /\ UNCHANGED <<roomState, m_EmptyRoomMap, m_ActiveRoomMap>>
      BY <1>1, <2>2 DEF LeaveRoom
    <3>2. M \ {p} # {}
      BY <2>2
    <3>3. NextChief(r, p) \in M \ {p}
      BY <3>2, NextChiefIsMember
    <3>4. m_pRoomChief[r] \in M
      BY <1>1 DEF RoomsAccountedFor
    <3>5. m_pRoomChief' = [m_pRoomChief EXCEPT ![r] = IF @ = p THEN NextChief(r, p) ELSE @]
      BY <3>1 DEF PassOnChief
    <3>6. /\ m_pRoomChief' \in [Room -> Player \cup {NoPlayer}] /\ m_pRoomChief'[r] \in M \ {p}
          /\ \A x \in Room \ {r} : m_pRoomChief'[x] = m_pRoomChief[x]
      BY <1>1, <3>3, <3>4, <3>5 DEF GameTypeOK
    <3> QED BY <2>2, <3>1, <3>6 DEF GameTypeOK
  <2> QED BY <2>1, <2>2
<1>7. /\ \A x \in Room \ {r} : m_RoomMemberMap'[x] = m_RoomMemberMap[x]
      /\ m_RoomMemberMap'[r] = M \ {p}
  BY <1>3 DEF GameTypeOK
<1> HIDE DEF M
<1>8. RoomPlayerAgree'
  <2>1. ASSUME NEW q \in Player, state'[q] \in InRoom
        PROVE  q \in m_RoomMemberMap'[m_roomIndex'[q]]
    <3>1. q # p /\ state[q] \in InRoom
      BY <1>1, <1>2, <2>1 DEF InRoom, GameTypeOK
    <3>2. m_roomIndex'[q] \in Room /\ q \in m_RoomMemberMap[m_roomIndex'[q]]
      BY <3>1, RoomOfPlayer
    <3> QED BY <1>7, <3>1, <3>2 DEF M
  <2>2. ASSUME NEW x \in Room, NEW q \in m_RoomMemberMap'[x]
        PROVE  m_roomIndex'[q] = x /\ state'[q] \in MemberStates(roomState'[x])
    <3>1. q \in m_RoomMemberMap[x] /\ q # p /\ (x = r => ~last)
      BY <1>1, <1>7, <2>2 DEF M
    <3>2. m_roomIndex'[q] = x /\ state[q] \in MemberStates(roomState[x]) /\ q \in Player
      BY <3>1 DEF RoomPlayerAgree, GameTypeOK
    <3>3. roomState'[x] = roomState[x] /\ state'[q] = state[q]
      BY <1>2, <1>6, <3>1, <3>2 DEF GameTypeOK
    <3> QED BY <3>2, <3>3
  <2> QED BY <2>1, <2>2 DEF RoomPlayerAgree, MemberStates
<1>9. RoomMapsAgree'
  <2> SUFFICES ASSUME NEW x \in Room
               PROVE  /\ m_Observerlist'[x] = m_RoomMemberMap'[x]
                      /\ \A t \in TeamType :
                           m_Team'[x][t] = {q \in m_RoomMemberMap'[x] : m_teamType'[q] = t}
                      /\ m_PeerMap'[x] \subseteq m_RoomMemberMap'[x]
                      /\ Cardinality(m_RoomMemberMap'[x]) <= MaxRoomMember
    BY DEF RoomMapsAgree
  <2>1. CASE x # r
    <3>1. /\ m_Observerlist'[x] = m_Observerlist[x] /\ m_Team'[x] = m_Team[x]
          /\ m_PeerMap'[x] = m_PeerMap[x]
      BY <1>3, <2>1 DEF GameTypeOK
    <3> QED BY <1>7, <2>1, <3>1 DEF RoomMapsAgree
  <2>2. CASE x = r
    <3>1. ASSUME NEW t \in TeamType
          PROVE  m_Team'[r][t] = {q \in M \ {p} : m_teamType[q] = t}
      <4>1. m_Team'[r][t] = IF t = m_teamType[p] THEN m_Team[r][t] \ {p} ELSE m_Team[r][t]
        BY <1>3, <1>4 DEF GameTypeOK
      <4>2. m_Team[r][t] = {q \in M : m_teamType[q] = t}
        BY DEF RoomMapsAgree, M
      <4> QED BY <4>1, <4>2
    <3>2. m_Observerlist'[r] = M \ {p}
      BY <1>1, <1>3 DEF GameTypeOK
    <3>3. m_PeerMap'[r] \subseteq M \ {p}
      <4>1. m_PeerMap[r] \subseteq M
        BY DEF RoomMapsAgree, M
      <4>2. CASE roomState[r] \in {"LOADING", "PLAY"}
        BY <1>3, <4>1, <4>2 DEF GameTypeOK
      <4>3. CASE roomState[r] \notin {"LOADING", "PLAY"}
        <5>1. roomState[r] = "WAIT"
          BY <1>1, <4>3 DEF GameTypeOK, RoomState
        <5> QED BY <1>3, <4>3, <5>1 DEF GameTypeOK, PeerInv
      <4> QED BY <4>2, <4>3
    <3>4. Cardinality(M \ {p}) <= MaxRoomMember
      <4>1. IsFiniteSet(M)
        BY <1>1, FS_Subset, GameAssumption
      <4>2. Cardinality(M \ {p}) <= Cardinality(M) /\ Cardinality(M) \in Nat
        BY <4>1, FS_Subset, FS_CardinalityType
      <4>3. Cardinality(M) <= MaxRoomMember
        BY DEF RoomMapsAgree, M
      <4>4. Cardinality(M \ {p}) \in Nat
        BY <4>1, FS_RemoveElement, FS_CardinalityType
      <4> QED BY <4>2, <4>3, <4>4, GameAssumption
    <3> QED BY <1>7, <2>2, <3>1, <3>2, <3>3, <3>4
  <2> QED BY <2>1, <2>2
<1>10. RoomsAccountedFor'
  <2>1. m_EmptyRoomMap' = {x \in Room : roomState'[x] = "NONE"}
    BY <1>1, <1>6 DEF RoomsAccountedFor
  <2>2. m_ActiveRoomMap' = Room \ m_EmptyRoomMap'
    BY <1>1, <1>6 DEF RoomsAccountedFor
  <2>3. ASSUME NEW x \in Room
        PROVE  IF x \in m_ActiveRoomMap' THEN m_pRoomChief'[x] \in m_RoomMemberMap'[x]
                                         ELSE m_RoomMemberMap'[x] = {}
    <3>1. CASE x # r
      BY <1>6, <1>7, <3>1 DEF RoomsAccountedFor
    <3>2. CASE x = r
      BY <1>1, <1>6, <1>7, <3>2
    <3> QED BY <3>1, <3>2
  <2> QED BY <2>1, <2>2, <2>3 DEF RoomsAccountedFor
<1>11. PeerInv'
  <2> SUFFICES ASSUME NEW x \in Room, roomState'[x] = "LOADING", NEW q \in m_RoomMemberMap'[x],
                      m_bLoadingComplete'[q]
               PROVE  q \in m_PeerMap'[x]
    <3>1. \A x \in Room : roomState'[x] = "WAIT" => m_PeerMap'[x] = {}
      BY <1>3, <1>6 DEF PeerInv, GameTypeOK
    <3> QED BY <3>1 DEF PeerInv
  <2>1. roomState[x] = "LOADING" /\ q \in m_RoomMemberMap[x] /\ q # p
    BY <1>1, <1>6, <1>7 DEF M
  <2>2. q \in m_PeerMap[x]
    BY <2>1 DEF PeerInv
  <2> QED BY <1>3, <2>1, <2>2 DEF GameTypeOK
<1>12. m_EmptyRoomMap' \subseteq Room /\ m_ActiveRoomMap' \subseteq Room
  BY <1>6 DEF GameTypeOK
<1> QED BY <1>2, <1>5, <1>6, <1>8, <1>9, <1>10, <1>11, <1>12

LEMMA LeaveRoomKeepsInv ==
  ASSUME GameInv, NEW s \in Serial, OnLeaveRoom(s)
  PROVE  GameInv'
<1> USE DEF GameInv
<1> DEFINE p == m_PlayerMap[s]
           r == m_roomIndex[p]
<1>1. p \in Player /\ state[p] \in {"ROOM", "PLAY"}
  BY PlayerOfClient DEF OnLeaveRoom, From
<1>2. r \in Room /\ p \in m_RoomMemberMap[r]
  BY <1>1, RoomOfPlayer DEF InRoom, RoomInv
<1>3. /\ LeaveRoom(r, p) /\ StatesWithout(r, p, "LOBBY") /\ lobby' = lobby \cup {p}
      /\ UNCHANGED <<m_PlayerMap, m_pPlayerPool, m_username, m_roomIndex, m_teamType,
                      m_bLoadingComplete, registered, dbRequests>>
  BY DEF OnLeaveRoom
<1> HIDE DEF p, r
<1>4. /\ RoomInv' /\ state' = [state EXCEPT ![p] = "LOBBY"]
      /\ roomState' \in [Room -> RoomState] /\ m_pRoomChief' \in [Room -> Player \cup {NoPlayer}]
      /\ m_RoomMemberMap' \in [Room -> SUBSET Player] /\ m_Observerlist' \in [Room -> SUBSET Player]
      /\ m_Team' \in [Room -> [TeamType -> SUBSET Player]] /\ m_PeerMap' \in [Room -> SUBSET Player]
      /\ m_EmptyRoomMap' \subseteq Room /\ m_ActiveRoomMap' \subseteq Room
  BY <1>2, <1>3, LeavingKeepsRooms
<1>5. GameTypeOK'
  BY <1>1, <1>3, <1>4 DEF GameTypeOK, PlayerState
<1>6. PlayerPoolExact'
  BY <1>1, <1>3, <1>4, StatesKeepPool DEF GameTypeOK
<1>7. LobbyExact'
  BY <1>1, <1>3, <1>4 DEF LobbyExact, GameTypeOK
<1>8. RegisteredIsLoggedIn'
  BY <1>1, <1>3, <1>4 DEF RegisteredIsLoggedIn, GameTypeOK
<1> QED BY <1>4, <1>5, <1>6, <1>7, <1>8

LEMMA DisconnectKeepsInv ==
  ASSUME GameInv, NEW s \in Serial, OnDisconnectPlayer(s)
  PROVE  GameInv'
<1> USE DEF GameInv
<1> DEFINE p == m_PlayerMap[s]
           r == m_roomIndex[p]
<1>1. p \in Player /\ state[p] # "NONE" /\ p # NoPlayer
  BY PlayerOfClient DEF OnDisconnectPlayer
<1>2. /\ registered' = [registered EXCEPT ![m_username[p]] = NoPlayer]
      /\ lobby' = lobby \ {p}
      /\ m_pPlayerPool' = Append(m_pPlayerPool, p)
      /\ m_PlayerMap' = [m_PlayerMap EXCEPT ![s] = NoPlayer]
      /\ UNCHANGED <<m_username, m_roomIndex, m_teamType, m_bLoadingComplete, dbRequests>>
  BY DEF OnDisconnectPlayer, DelPlayer, Release
<1>3. /\ RoomInv' /\ state' = [state EXCEPT ![p] = "NONE"]
      /\ roomState' \in [Room -> RoomState] /\ m_pRoomChief' \in [Room -> Player \cup {NoPlayer}]
      /\ m_RoomMemberMap' \in [Room -> SUBSET Player] /\ m_Observerlist' \in [Room -> SUBSET Player]
      /\ m_Team' \in [Room -> [TeamType -> SUBSET Player]] /\ m_PeerMap' \in [Room -> SUBSET Player]
      /\ m_EmptyRoomMap' \subseteq Room /\ m_ActiveRoomMap' \subseteq Room
  <2>1. CASE state[p] \in InRoom
    <3>1. LeaveRoom(r, p) /\ StatesWithout(r, p, "NONE")
      BY <2>1 DEF OnDisconnectPlayer
    <3>2. r \in Room /\ p \in m_RoomMemberMap[r]
      BY <1>1, <2>1, RoomOfPlayer DEF RoomInv
    <3> QED BY <1>2, <3>1, <3>2, LeavingKeepsRooms
  <2>2. CASE state[p] \notin InRoom
    <3>1. state' = [state EXCEPT ![p] = "NONE"] /\ UNCHANGED roomVars
      BY <2>2 DEF OnDisconnectPlayer
    <3>2. state'[p] \notin InRoom
      BY <1>1, <3>1 DEF InRoom, GameTypeOK
    <3>3. RoomInv'
      BY <1>2, <2>2, <3>1, <3>2, RoomsUntouched DEF GameTypeOK
    <3> QED BY <3>1, <3>3 DEF roomVars, memberVars, GameTypeOK
  <2> QED BY <2>1, <2>2
<1> HIDE DEF p, r
<1>4. Distinct(m_pPlayerPool) /\ p \notin Objects(m_pPlayerPool) /\ Connected = Player \ Objects(m_pPlayerPool)
  BY <1>1 DEF PlayerPoolExact, Distinct, Objects
<1>5. /\ m_pPlayerPool' \in Seq(Player) /\ Distinct(m_pPlayerPool')
      /\ Objects(m_pPlayerPool') = Objects(m_pPlayerPool) \cup {p}
  BY <1>1, <1>2, <1>4, PoolAppend DEF GameTypeOK
<1>6. GameTypeOK'
  BY <1>1, <1>2, <1>3, <1>5 DEF GameTypeOK, PlayerState
<1>7. \A t \in Serial : t # s => m_PlayerMap[t] # p
  BY <1>1 DEF PlayerPoolExact, p
<1>8. Connected' = Connected \ {p}
  BY <1>1, <1>2, <1>7 DEF Connected, GameTypeOK, p
<1>9. PlayerPoolExact'
  <2>1. ASSUME NEW t \in Serial, NEW u \in Serial, m_PlayerMap'[t] = m_PlayerMap'[u],
               m_PlayerMap'[t] # NoPlayer
        PROVE  t = u
    BY <1>2, <2>1 DEF PlayerPoolExact, GameTypeOK
  <2>2. Connected' = {q \in Player : state'[q] # "NONE"}
    BY <1>1, <1>3, <1>8 DEF PlayerPoolExact, GameTypeOK
  <2>3. Connected' = Player \ Objects(m_pPlayerPool')
    BY <1>4, <1>5, <1>8
  <2> QED BY <1>5, <2>1, <2>2, <2>3 DEF PlayerPoolExact, Distinct, Objects
<1>10. LobbyExact'
  BY <1>1, <1>2, <1>3 DEF LobbyExact, GameTypeOK
<1>11. RegisteredIsLoggedIn'
  BY <1>1, <1>2, <1>3 DEF RegisteredIsLoggedIn, GameTypeOK
<1> QED BY <1>3, <1>6, <1>9, <1>10, <1>11

-----------------------------------------------------------------------------
LEMMA InitEstablishesInv == GameInit => GameInv
<1> SUFFICES ASSUME GameInit PROVE GameInv
  OBVIOUS
<1> USE DEF GameInit
<1>1. m_pPlayerPool \in Seq(Player) /\ Distinct(m_pPlayerPool) /\ Objects(m_pPlayerPool) = Player
  <2> DEFINE n == Cardinality(Player)
             O == Objects(m_pPlayerPool)
  <2>1. n \in Nat
    BY GameAssumption, FS_CardinalityType
  <2>2. m_pPlayerPool \in [1..n -> Player] /\ Distinct(m_pPlayerPool) /\ DOMAIN m_pPlayerPool = 1..n
    BY DEF Distinct
  <2>3. m_pPlayerPool \in Bijection(1..n, O)
    <3>1. m_pPlayerPool \in [1..n -> O] /\ \A y \in O : \E i \in 1..n : m_pPlayerPool[i] = y
      BY <2>2 DEF Objects
    <3> QED BY <2>2, <3>1 DEF Bijection, Injection, Surjection, IsInjective, Distinct
  <2>4. Cardinality(O) = n
    BY <2>1, <2>3, FS_CountingElements DEF ExistsBijection
  <2>5. O \in SUBSET Player
    BY <2>2 DEF Objects
  <2>6. O = Player
    BY <2>4, <2>5, FS_Subset, GameAssumption
  <2> QED BY <2>1, <2>2, <2>6
<1>2. GameTypeOK
  BY <1>1, GameAssumption DEF GameTypeOK, PlayerState, RoomState, TeamType
<1>3. PlayerPoolExact
  <2>1. Connected = {}
    BY DEF Connected
  <2> QED BY <1>1, <2>1 DEF PlayerPoolExact, Distinct, Objects
<1>4. RoomPlayerAgree /\ PeerInv
  BY DEF RoomPlayerAgree, PeerInv, InRoom
<1>5. RoomMapsAgree
  BY FS_EmptySet, GameAssumption DEF RoomMapsAgree
<1>6. RoomsAccountedFor
  BY DEF RoomsAccountedFor
<1>7. LobbyExact /\ RegisteredIsLoggedIn
  BY DEF LobbyExact, RegisteredIsLoggedIn
<1> QED BY <1>2, <1>3, <1>4, <1>5, <1>6, <1>7 DEF GameInv, RoomInv

LEMMA StepKeepsInv == GameInv /\ [GameNext]_gameVars => GameInv'
<1> SUFFICES ASSUME GameInv, [GameNext]_gameVars PROVE GameInv'
  OBVIOUS
<1>1. CASE GameNext
  <2>1. PICK s \in Serial :
          \/ OnConnectPlayer(s) \/ OnDisconnectPlayer(s)
          \/ \E n \in Name : OnLogin(s, n)
          \/ \E success \in BOOLEAN : OnDBResult(s, success)
          \/ DBFails(s)
          \/ OnEnterLobby(s) \/ OnCreateRoom(s) \/ \E r \in Room : OnEnterRoom(s, r)
          \/ OnChangeTeam(s) \/ OnLoadingStart(s) \/ OnLoadingComplete(s) \/ OnLeaveRoom(s)
    BY <1>1 DEF GameNext
  <2> QED
    BY <2>1, ConnectKeepsInv, DisconnectKeepsInv, LoginKeepsInv, DBResultKeepsInv, DBFailsKeepsInv,
       EnterLobbyKeepsInv, CreateRoomKeepsInv, EnterRoomKeepsInv, ChangeTeamKeepsInv,
       LoadingStartKeepsInv, LoadingCompleteKeepsInv, LeaveRoomKeepsInv
<1>2. CASE UNCHANGED gameVars
  <2>t. GameTypeOK'
    BY <1>2 DEF GameInv, GameTypeOK, gameVars, playerVars, roomVars, memberVars
  <2>1. PlayerPoolExact'
    BY <1>2, StatesKeepPool DEF GameInv, gameVars, playerVars
  <2>2. RoomInv'
    BY <1>2, RoomsUntouched, GameAssumption DEF GameInv, gameVars, playerVars
  <2>3. LobbyExact' /\ RegisteredIsLoggedIn'
    BY <1>2 DEF GameInv, LobbyExact, RegisteredIsLoggedIn, gameVars, playerVars
  <2> QED BY <2>t, <2>1, <2>2, <2>3 DEF GameInv
<1> QED BY <1>1, <1>2

(* The inductive invariant holds in every state of the game.                *)
THEOREM GameInvariant == GameSpec => []GameInv
BY InitEstablishesInv, StepKeepsInv, PTL DEF GameSpec

(* The variables keep their types (SFPlayer, SFRoom, SFLobby and their      *)
(* managers).                                                               *)
THEOREM GameTypeCorrect == GameSpec => []GameTypeOK
BY GameInvariant, PTL DEF GameInv

(* SFPlayer's and SFRoom's state machines agree, so GetRoom never yields    *)
(* NULL to a handler of a player that believes it is in a room.             *)
THEOREM StateMachinesAgree == GameSpec => []RoomPlayerAgree
BY GameInvariant, PTL DEF GameInv, RoomInv

(* Members, observers, teams and peers of a room (SFRoom) are consistent    *)
(* and within MAX_ROOM_MEMBER; SFRoomManager loses no room, and an open     *)
(* room has a chief that is in it.                                          *)
THEOREM RoomsStayConsistent == GameSpec => []RoomsConsistent
BY GameInvariant, PTL DEF GameInv, RoomInv, RoomsConsistent

(* SFLogicEntry's player objects are used once or pooled once, and SFLobby  *)
(* holds exactly the players in state LOBBY.                                *)
THEOREM PlayersConserved == GameSpec => []PlayersAccountedFor
BY GameInvariant, PTL DEF GameInv, PlayersAccountedFor

(* SFPlayerManager registers logged-in players under their own names.       *)
THEOREM RegistryCorrect == GameSpec => []RegisteredIsLoggedIn
BY GameInvariant, PTL DEF GameInv

-----------------------------------------------------------------------------
(* A registration ends only when a player of that name disconnects          *)
(* (SFPlayerManager::DelPlayer); AddPlayer never replaces one.              *)
THEOREM RegistrationsKept == GameSpec => RegistrationKept
<1> DEFINE Kept == \A n \in Name : registered[n] # NoPlayer /\ registered'[n] # registered[n] =>
                     \E p \in Connected : m_username[p] = n /\ p \notin Connected'
<1>1. ASSUME GameInv, [GameNext]_gameVars PROVE [Kept]_gameVars
  <2> SUFFICES ASSUME NEW n \in Name, registered[n] # NoPlayer, registered'[n] # registered[n]
               PROVE  \E p \in Connected : m_username[p] = n /\ p \notin Connected'
    OBVIOUS
  <2>0. GameTypeOK /\ PlayerPoolExact
    BY <1>1 DEF GameInv
  <2>1. CASE UNCHANGED registered
    BY <2>1
  <2>2. ASSUME NEW s \in Serial, NEW success \in BOOLEAN, OnDBResult(s, success)
        PROVE  FALSE
    <3>1. CASE UNCHANGED registered
      BY <3>1
    <3>2. CASE /\ AddPlayer(m_PlayerMap[s])
               /\ registered' = [registered EXCEPT ![m_username[m_PlayerMap[s]]] = m_PlayerMap[s]]
      BY <2>0, <3>2 DEF AddPlayer, GameTypeOK
    <3> QED BY <2>2, <3>1, <3>2 DEF OnDBResult
  <2>3. ASSUME NEW s \in Serial, OnDisconnectPlayer(s)
        PROVE  \E p \in Connected : m_username[p] = n /\ p \notin Connected'
    <3> DEFINE p == m_PlayerMap[s]
    <3>0. p # NoPlayer
      BY <2>3 DEF OnDisconnectPlayer
    <3>1. p \in Connected /\ p \in Player
      BY <2>0, <3>0 DEF Connected, GameTypeOK
    <3>2. registered' = [registered EXCEPT ![m_username[p]] = NoPlayer]
      BY <2>3 DEF OnDisconnectPlayer, DelPlayer
    <3>3. m_username[p] = n
      BY <2>0, <3>1, <3>2 DEF GameTypeOK
    <3>4. m_PlayerMap' = [m_PlayerMap EXCEPT ![s] = NoPlayer]
      BY <2>3 DEF OnDisconnectPlayer
    <3>5. \A t \in Serial : t # s => m_PlayerMap[t] # p
      BY <2>0, <3>0 DEF PlayerPoolExact
    <3>6. \A t \in Serial : m_PlayerMap'[t] # p
      BY <2>0, <3>0, <3>4, <3>5 DEF GameTypeOK
    <3>7. p \notin Connected'
      BY <3>6 DEF Connected
    <3> QED BY <3>1, <3>3, <3>7
  <2>4. CASE GameNext
    <3>1. PICK s \in Serial :
            \/ UNCHANGED registered \/ OnDisconnectPlayer(s)
            \/ \E success \in BOOLEAN : OnDBResult(s, success)
      <4>1. PICK s \in Serial :
              \/ OnConnectPlayer(s) \/ OnDisconnectPlayer(s)
              \/ \E m \in Name : OnLogin(s, m)
              \/ \E success \in BOOLEAN : OnDBResult(s, success)
              \/ DBFails(s)
              \/ OnEnterLobby(s) \/ OnCreateRoom(s) \/ \E r \in Room : OnEnterRoom(s, r)
              \/ OnChangeTeam(s) \/ OnLoadingStart(s) \/ OnLoadingComplete(s) \/ OnLeaveRoom(s)
        BY <2>4 DEF GameNext
      <4>2. \/ UNCHANGED registered \/ OnDisconnectPlayer(s)
            \/ \E success \in BOOLEAN : OnDBResult(s, success)
        BY <4>1 DEF OnConnectPlayer, OnLogin, DBFails, OnEnterLobby, OnCreateRoom, OnEnterRoom, Join,
                    OnChangeTeam, OnLoadingStart, OnLoadingComplete, OnLeaveRoom
      <4> QED BY <4>2
    <3>2. CASE UNCHANGED registered
      BY <2>1, <3>2
    <3>3. CASE OnDisconnectPlayer(s)
      BY <2>3, <3>3
    <3>4. CASE \E success \in BOOLEAN : OnDBResult(s, success)
      BY <2>2, <3>4
    <3> QED BY <3>1, <3>2, <3>3, <3>4
  <2> QED BY <1>1, <2>1, <2>4 DEF gameVars
<1> QED BY <1>1, GameInvariant, PTL DEF GameSpec, RegistrationKept

-----------------------------------------------------------------------------
(* Only SFRoomLoading::OnLoadingComplete starts a game.                     *)
LEMMA GameStartedBy ==
  ASSUME GameInv, GameNext, NEW x \in Room, roomState[x] = "LOADING", roomState'[x] = "PLAY"
  PROVE  \E s \in Serial : OnLoadingComplete(s)
<1> USE DEF GameInv
<1>0. roomState \in [Room -> RoomState]
  BY DEF GameTypeOK
<1>1. PICK s \in Serial :
        \/ OnConnectPlayer(s) \/ OnDisconnectPlayer(s)
        \/ \E m \in Name : OnLogin(s, m)
        \/ \E success \in BOOLEAN : OnDBResult(s, success)
        \/ DBFails(s)
        \/ OnEnterLobby(s) \/ OnCreateRoom(s) \/ \E r \in Room : OnEnterRoom(s, r)
        \/ OnChangeTeam(s) \/ OnLoadingStart(s) \/ OnLoadingComplete(s) \/ OnLeaveRoom(s)
  BY DEF GameNext
<1>2. ASSUME NEW r, NEW p, LeaveRoom(r, p)
      PROVE  FALSE
  BY <1>0, <1>2 DEF LeaveRoom
<1>3. CASE OnDisconnectPlayer(s)
  BY <1>2, <1>3 DEF OnDisconnectPlayer, roomVars
<1>4. CASE OnLeaveRoom(s)
  BY <1>2, <1>4 DEF OnLeaveRoom
<1>5. CASE OnCreateRoom(s)
  BY <1>0, <1>5 DEF OnCreateRoom
<1>6. CASE OnLoadingStart(s)
  BY <1>0, <1>6 DEF OnLoadingStart
<1>7. CASE UNCHANGED roomState
  BY <1>7
<1>8. \/ UNCHANGED roomState \/ OnDisconnectPlayer(s) \/ OnLeaveRoom(s) \/ OnCreateRoom(s)
      \/ OnLoadingStart(s) \/ OnLoadingComplete(s)
  BY <1>1 DEF OnConnectPlayer, OnLogin, OnDBResult, DBFails, OnEnterLobby, OnEnterRoom, OnChangeTeam,
              roomVars
<1> QED BY <1>3, <1>4, <1>5, <1>6, <1>7, <1>8

(* Every member plays and is a known peer when SFRoomLoading starts the     *)
(* game, although members may have left while the others loaded.            *)
THEOREM PeersKnown == GameSpec => PeersKnownAtStart
<1> DEFINE Known == \A r \in Room : roomState[r] = "LOADING" /\ roomState'[r] = "PLAY" =>
                      /\ m_PeerMap'[r] = m_RoomMemberMap'[r]
                      /\ \A p \in m_RoomMemberMap'[r] : state'[p] = "PLAY"
<1>1. ASSUME GameInv, [GameNext]_gameVars PROVE [Known]_gameVars
  <2> SUFFICES ASSUME GameNext, NEW x \in Room, roomState[x] = "LOADING", roomState'[x] = "PLAY"
               PROVE  /\ m_PeerMap'[x] = m_RoomMemberMap'[x]
                      /\ \A q \in m_RoomMemberMap'[x] : state'[q] = "PLAY"
    BY <1>1
  <2>0. GameTypeOK /\ PlayerPoolExact /\ RoomPlayerAgree /\ RoomMapsAgree /\ PeerInv
    BY <1>1 DEF GameInv, RoomInv
  <2>1. PICK s \in Serial : OnLoadingComplete(s)
    BY <1>1, GameStartedBy
  <2> DEFINE p == m_PlayerMap[s]
             r == m_roomIndex[p]
             M == m_RoomMemberMap[r]
             start == roomState[r] = "LOADING" /\ CheckLoadingComplete(r, p)
  <2>2. p \in Player /\ state[p] = "LOADING"
    BY <2>0, <2>1, PlayerOfClient DEF OnLoadingComplete, From
  <2>3. r \in Room /\ p \in M /\ TeamMembers(r) = M /\ M \subseteq Player
    BY <2>0, <2>2, RoomOfPlayer, TeamsAreMembers DEF InRoom, GameTypeOK
  <2>4. /\ m_PeerMap' = [m_PeerMap EXCEPT ![r] = IF roomState[r] = "LOADING" THEN @ \cup {p} ELSE @]
        /\ roomState' = [roomState EXCEPT ![r] = IF start THEN "PLAY" ELSE @]
        /\ start => state' = [q \in Player |-> IF q \in M THEN "PLAY" ELSE state[q]]
        /\ m_RoomMemberMap' = m_RoomMemberMap
    BY <2>1, <2>3 DEF OnLoadingComplete
  <2>5. start => \A q \in M \ {p} : m_bLoadingComplete[q]
    BY <2>3 DEF CheckLoadingComplete
  <2> HIDE DEF p, r, M, start
  <2>6. x = r /\ start
    BY <2>0, <2>3, <2>4 DEF GameTypeOK
  <2>7. m_PeerMap'[x] = m_PeerMap[x] \cup {p} /\ m_PeerMap[x] \subseteq M
    BY <2>0, <2>3, <2>4, <2>6 DEF GameTypeOK, RoomMapsAgree, M
  <2>8. M \ {p} \subseteq m_PeerMap[x]
    BY <2>0, <2>5, <2>6 DEF PeerInv, M
  <2>9. m_RoomMemberMap'[x] = M
    BY <2>4, <2>6 DEF M
  <2> QED BY <2>3, <2>4, <2>6, <2>7, <2>8, <2>9
<1> QED BY <1>1, GameInvariant, PTL DEF GameSpec, PeersKnownAtStart

-----------------------------------------------------------------------------
(* A room does not stall while its state is kept, no member leaves and none *)
(* completes its loading.                                                   *)
LEMMA NoNewStall ==
  ASSUME NEW x \in Room, ~Stalled(x), roomState'[x] = roomState[x],
         \A q \in TeamMembers(x) :
           q \in TeamMembers(x)' /\ (m_bLoadingComplete'[q] => m_bLoadingComplete[q])
  PROVE  ~Stalled(x)'
BY DEF Stalled

(* The actions that neither empty a team nor complete a player's loading.   *)
LEMMA QuietSteps ==
  ASSUME GameInv, NEW s \in Serial, NEW x \in Room, ~Stalled(x),
         \/ OnConnectPlayer(s) \/ (\E m \in Name : OnLogin(s, m)) \/ DBFails(s)
         \/ (\E success \in BOOLEAN : OnDBResult(s, success))
         \/ OnEnterLobby(s) \/ OnChangeTeam(s)
  PROVE  ~Stalled(x)'
<1>0. GameTypeOK /\ PlayerPoolExact /\ RoomPlayerAgree /\ RoomMapsAgree
  BY DEF GameInv, RoomInv
<1>1. CASE OnChangeTeam(s)
  <2>1. GameInv'
    BY <1>1, ChangeTeamKeepsInv
  <2>2. TeamMembers(x) = m_RoomMemberMap[x]
    BY <1>0, TeamsAreMembers
  <2>3. GameTypeOK' /\ RoomMapsAgree'
    BY <2>1 DEF GameInv, RoomInv
  <2>4. TeamMembers(x)' = m_RoomMemberMap'[x]
    BY <2>3 DEF GameTypeOK, RoomMapsAgree, TeamMembers, TeamType
  <2>5. UNCHANGED <<roomState, m_bLoadingComplete, m_RoomMemberMap>>
    BY <1>1 DEF OnChangeTeam
  <2> QED BY <2>2, <2>4, <2>5, NoNewStall
<1>2. CASE ~OnChangeTeam(s)
  <2>1. UNCHANGED <<roomState, m_Team>>
    BY <1>2 DEF OnConnectPlayer, OnLogin, DBFails, OnDBResult, OnEnterLobby, roomVars, memberVars
  <2>2. \A q \in Player : m_bLoadingComplete'[q] => m_bLoadingComplete[q]
    <3>1. CASE OnConnectPlayer(s)
      BY <1>0, <3>1 DEF OnConnectPlayer, GameTypeOK
    <3>2. CASE \E m \in Name : OnLogin(s, m)
      BY <3>2 DEF OnLogin
    <3>3. CASE DBFails(s)
      BY <3>3 DEF DBFails, playerVars
    <3>4. CASE \E success \in BOOLEAN : OnDBResult(s, success)
      BY <3>4 DEF OnDBResult, ChangeState
    <3>5. CASE OnEnterLobby(s)
      BY <3>5 DEF OnEnterLobby, ChangeState
    <3> QED BY <1>2, <3>1, <3>2, <3>3, <3>4, <3>5
  <2>3. TeamMembers(x)' = TeamMembers(x) /\ TeamMembers(x) \subseteq Player
    BY <1>0, <2>1 DEF TeamMembers, GameTypeOK, TeamType
  <2> QED BY <2>1, <2>2, <2>3, NoNewStall
<1> QED BY <1>1, <1>2

(* Entering a room stalls none.                                             *)
LEMMA JoinSteps ==
  ASSUME GameInv, NEW s \in Serial, NEW x \in Room, ~Stalled(x),
         OnCreateRoom(s) \/ (\E r \in Room : OnEnterRoom(s, r))
  PROVE  ~Stalled(x)'
<1>0. GameTypeOK /\ PlayerPoolExact
  BY DEF GameInv
<1>1. PICK r, st : Join(r, m_PlayerMap[s], st)
  BY DEF OnCreateRoom, OnEnterRoom
<1>2. m_Team' = [m_Team EXCEPT ![r][SelectMyTeam(r)] = @ \cup {m_PlayerMap[s]}] /\ ChangeState({m_PlayerMap[s]}, st)
  BY <1>1 DEF Join
<1>3. SelectMyTeam(r) \in TeamType
  BY DEF SelectMyTeam, TeamType
<1>4. m_Team \in [Room -> [TeamType -> SUBSET Player]]
  BY <1>0 DEF GameTypeOK
<1>5. \A t \in TeamType : m_Team[x][t] \subseteq m_Team'[x][t]
  BY <1>2, <1>3, <1>4
<1>6. TeamMembers(x) \subseteq TeamMembers(x)' /\ TeamMembers(x) \subseteq Player
  BY <1>4, <1>5 DEF TeamMembers, TeamType
<1>7. \A q \in Player : m_bLoadingComplete'[q] => m_bLoadingComplete[q]
  BY <1>2 DEF ChangeState
<1>8. roomState'[x] = roomState[x] \/ roomState'[x] = "WAIT"
  BY <1>0 DEF OnCreateRoom, OnEnterRoom, GameTypeOK
<1>9. CASE roomState'[x] = roomState[x]
  BY <1>6, <1>7, <1>9, NoNewStall
<1>10. CASE roomState'[x] = "WAIT"
  BY <1>10 DEF Stalled
<1> QED BY <1>8, <1>9, <1>10

(* The chief that starts the game has not loaded yet.                       *)
LEMMA StartStep ==
  ASSUME GameInv, NEW s \in Serial, NEW x \in Room, ~Stalled(x), OnLoadingStart(s)
  PROVE  ~Stalled(x)'
<1> DEFINE p == m_PlayerMap[s]
           r == m_roomIndex[p]
<1>0. GameTypeOK /\ PlayerPoolExact /\ RoomPlayerAgree /\ RoomMapsAgree
  BY DEF GameInv, RoomInv
<1>1. p \in Player /\ state[p] = "ROOM"
  BY <1>0, PlayerOfClient DEF OnLoadingStart, From
<1>2. r \in Room /\ p \in TeamMembers(r) /\ TeamMembers(x) \subseteq Player
  BY <1>0, <1>1, RoomOfPlayer, TeamsAreMembers DEF InRoom, GameTypeOK
<1>3. /\ roomState' = [roomState EXCEPT ![r] = "LOADING"]
      /\ ChangeState(TeamMembers(r), "LOADING") /\ m_Team' = m_Team
  BY DEF OnLoadingStart, memberVars
<1> HIDE DEF p, r
<1>4. m_bLoadingComplete'[p] = FALSE /\ \A q \in Player : m_bLoadingComplete'[q] => m_bLoadingComplete[q]
  BY <1>1, <1>2, <1>3 DEF ChangeState
<1>5. \A y \in Room : TeamMembers(y)' = TeamMembers(y)
  BY <1>3 DEF TeamMembers
<1>6. CASE x = r
  BY <1>2, <1>4, <1>5, <1>6 DEF Stalled
<1>7. CASE x # r
  <2>1. roomState'[x] = roomState[x]
    BY <1>0, <1>3, <1>7 DEF GameTypeOK
  <2> QED BY <1>2, <1>4, <1>5, <2>1, NoNewStall
<1> QED BY <1>6, <1>7

(* The last to load starts the game.                                        *)
LEMMA CompleteStep ==
  ASSUME GameInv, NEW s \in Serial, NEW x \in Room, ~Stalled(x), OnLoadingComplete(s)
  PROVE  ~Stalled(x)'
<1> DEFINE p == m_PlayerMap[s]
           r == m_roomIndex[p]
           start == roomState[r] = "LOADING" /\ CheckLoadingComplete(r, p)
<1>0. GameTypeOK /\ PlayerPoolExact /\ RoomPlayerAgree /\ RoomMapsAgree
  BY DEF GameInv, RoomInv
<1>1. p \in Player /\ state[p] = "LOADING"
  BY <1>0, PlayerOfClient DEF OnLoadingComplete, From
<1>2. /\ r \in Room /\ \A y \in Room : TeamMembers(y) = m_RoomMemberMap[y]
      /\ \A y \in Room \ {r} : p \notin m_RoomMemberMap[y]
  BY <1>0, <1>1, RoomOfPlayer, TeamsAreMembers DEF InRoom
<1>3. /\ m_bLoadingComplete' = [m_bLoadingComplete EXCEPT ![p] = TRUE]
      /\ roomState' = [roomState EXCEPT ![r] = IF start THEN "PLAY" ELSE @]
      /\ m_Team' = m_Team
  BY DEF OnLoadingComplete
<1>4. ~start /\ roomState[r] = "LOADING" => \E q \in TeamMembers(r) \ {p} : ~m_bLoadingComplete[q]
  BY DEF CheckLoadingComplete
<1> HIDE DEF p, r, start
<1>5. /\ \A y \in Room : TeamMembers(y)' = TeamMembers(y)
      /\ TeamMembers(x) \subseteq Player
      /\ \A q \in Player \ {p} : m_bLoadingComplete'[q] = m_bLoadingComplete[q]
  BY <1>0, <1>2, <1>3 DEF TeamMembers, GameTypeOK
<1>6. CASE x # r
  <2>1. roomState'[x] = roomState[x]
    BY <1>0, <1>3, <1>6 DEF GameTypeOK
  <2>2. p \notin TeamMembers(x)
    BY <1>2, <1>6
  <2> QED BY <1>5, <2>1, <2>2, NoNewStall
<1>7. CASE x = r /\ start
  <2>1. roomState'[x] = "PLAY"
    BY <1>0, <1>3, <1>7 DEF GameTypeOK
  <2> QED BY <2>1 DEF Stalled
<1>8. CASE x = r /\ ~start
  <2>1. roomState'[x] = roomState[x]
    BY <1>0, <1>3, <1>8 DEF GameTypeOK
  <2>2. CASE roomState[x] = "LOADING"
    <3>1. PICK q \in TeamMembers(x) \ {p} : ~m_bLoadingComplete[q]
      BY <1>4, <1>8, <2>2
    <3>2. q \in TeamMembers(x)' /\ ~m_bLoadingComplete'[q]
      BY <1>5, <3>1
    <3> QED BY <3>2 DEF Stalled
  <2>3. CASE roomState[x] # "LOADING"
    BY <2>1, <2>3 DEF Stalled
  <2> QED BY <2>2, <2>3
<1> QED BY <1>6, <1>7, <1>8

(* A player that leaves takes itself, and nothing else, out of its room.    *)
LEMMA LeaveStep ==
  ASSUME GameInv, NEW s \in Serial, NEW x \in Room, ~Stalled(x), Stalled(x)',
         OnLeaveRoom(s) \/ OnDisconnectPlayer(s)
  PROVE  m_RoomMemberMap'[x] \subseteq m_RoomMemberMap[x] /\ m_RoomMemberMap'[x] # m_RoomMemberMap[x]
<1> DEFINE p == m_PlayerMap[s]
           r == m_roomIndex[p]
<1>0. GameTypeOK /\ PlayerPoolExact /\ RoomPlayerAgree /\ RoomMapsAgree
  BY DEF GameInv, RoomInv
<1>1. p \in Player /\ UNCHANGED m_bLoadingComplete
  BY <1>0, PlayerOfClient DEF OnLeaveRoom, OnDisconnectPlayer, From
<1>2. CASE LeaveRoom(r, p) /\ state[p] \in InRoom
  <2>1. r \in Room /\ p \in m_RoomMemberMap[r] /\ m_teamType[p] \in TeamType
    BY <1>0, <1>1, <1>2, RoomOfPlayer DEF GameTypeOK
  <2>2. /\ m_RoomMemberMap' = [m_RoomMemberMap EXCEPT ![r] = @ \ {p}]
        /\ m_Team' = [m_Team EXCEPT ![r][m_teamType[p]] = @ \ {p}]
    BY <1>2 DEF LeaveRoom
  <2>3. \A y \in Room \ {r} : roomState'[y] = roomState[y]
    BY <1>0, <1>2 DEF LeaveRoom, GameTypeOK
  <2> HIDE DEF p, r
  <2>4. CASE x = r
    BY <1>0, <2>1, <2>2, <2>4 DEF GameTypeOK
  <2>5. CASE x # r
    <3>1. m_Team'[x] = m_Team[x] /\ roomState'[x] = roomState[x]
      BY <1>0, <2>2, <2>3, <2>5 DEF GameTypeOK
    <3>2. TeamMembers(x)' = TeamMembers(x)
      BY <3>1 DEF TeamMembers
    <3> QED BY <1>1, <3>1, <3>2 DEF Stalled
  <2> QED BY <2>4, <2>5
<1>3. CASE UNCHANGED roomVars
  <2>1. UNCHANGED <<roomState, m_Team>>
    BY <1>3 DEF roomVars, memberVars
  <2> QED BY <1>1, <2>1 DEF Stalled, TeamMembers
<1>4. (LeaveRoom(r, p) /\ state[p] \in InRoom) \/ UNCHANGED roomVars
  BY DEF OnLeaveRoom, OnDisconnectPlayer, From, InRoom
<1> QED BY <1>2, <1>3, <1>4

(* A room in which all have loaded plays, unless the one the others waited  *)
(* for left it (SFRoomLoading::OnLeaveRoom does not look again).            *)
THEOREM StallsOnlyByLeave == GameSpec => StallOnlyByLeave
<1> DEFINE OnlyByLeave ==
      \A r \in Room : ~Stalled(r) /\ Stalled(r)' =>
        m_RoomMemberMap'[r] \subseteq m_RoomMemberMap[r] /\ m_RoomMemberMap'[r] # m_RoomMemberMap[r]
<1>1. ASSUME GameInv, [GameNext]_gameVars PROVE [OnlyByLeave]_gameVars
  <2> SUFFICES ASSUME GameNext, NEW x \in Room, ~Stalled(x), Stalled(x)'
               PROVE  /\ m_RoomMemberMap'[x] \subseteq m_RoomMemberMap[x]
                      /\ m_RoomMemberMap'[x] # m_RoomMemberMap[x]
    BY <1>1
  <2>1. PICK s \in Serial :
          \/ OnConnectPlayer(s) \/ OnDisconnectPlayer(s)
          \/ \E m \in Name : OnLogin(s, m)
          \/ \E success \in BOOLEAN : OnDBResult(s, success)
          \/ DBFails(s)
          \/ OnEnterLobby(s) \/ OnCreateRoom(s) \/ \E r \in Room : OnEnterRoom(s, r)
          \/ OnChangeTeam(s) \/ OnLoadingStart(s) \/ OnLoadingComplete(s) \/ OnLeaveRoom(s)
    BY DEF GameNext
  <2>2. ~(\/ OnConnectPlayer(s) \/ (\E m \in Name : OnLogin(s, m)) \/ DBFails(s)
          \/ (\E success \in BOOLEAN : OnDBResult(s, success))
          \/ OnEnterLobby(s) \/ OnChangeTeam(s))
    BY <1>1, QuietSteps
  <2>3. ~(OnCreateRoom(s) \/ (\E r \in Room : OnEnterRoom(s, r)))
    BY <1>1, JoinSteps
  <2>4. ~OnLoadingStart(s) /\ ~OnLoadingComplete(s)
    BY <1>1, StartStep, CompleteStep
  <2>5. OnLeaveRoom(s) \/ OnDisconnectPlayer(s)
    BY <2>1, <2>2, <2>3, <2>4
  <2> QED BY <1>1, <2>5, LeaveStep
<1> QED BY <1>1, GameInvariant, PTL DEF GameSpec, StallOnlyByLeave
=============================================================================
