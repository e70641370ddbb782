----------------------------- MODULE CasualGame ------------------------------
(***************************************************************************)
(* LogicLayer/CasualGame: players, lobby and rooms of a casual game server.*)
(*                                                                         *)
(* SFLogicEntry keeps one SFPlayer, taken from a pool, per serial.  A      *)
(* player and a room are each a state machine; the packets of a client     *)
(* drive its player, and through it its room, which drives all its players.*)
(* One logic thread handles a packet at a time, so a handler is one step;  *)
(* what interleaves are the clients, and the answers of the database,      *)
(* which worker threads send whenever they are done and which name their   *)
(* player by serial only.                                                  *)
(*                                                                         *)
(* The network's packets come in the order SessionLogic.tla shows while a  *)
(* serial has one owner: CONNECT, data, DISCONNECT.  Packets to clients,   *)
(* scores, characters and spawn points are left out, and so is the         *)
(* refusal of clients that have no address when P2P is on (off unless      *)
(* CasualGame.ini says so); game modes are registered ones.  PLAYREADY,    *)
(* which a room and its players enter and leave in one handler, is PLAY's. *)
(***************************************************************************)
EXTENDS Integers, Sequences, FiniteSets

CONSTANTS
  Serial,          (* serials, the keys of m_PlayerMap                      *)
  Player,          (* the SFPlayer objects of the pool                      *)
  NoPlayer,        (* the null pointer                                      *)
  Name,            (* user names                                            *)
  NoName,          (* the name of a player object nobody has used: ""       *)
  Room,            (* room indices: 0..MAX_ROOM_COUNT - 1                   *)
  MaxRoomMember,   (* MAX_ROOM_MEMBER                                       *)
  MaxRequests      (* bound: login requests of a serial in the database     *)

ASSUME GameAssumption ==
  /\ Serial \subseteq Nat /\ Room \subseteq Nat
  /\ IsFiniteSet(Player) /\ IsFiniteSet(Serial)
  /\ NoPlayer \notin Player /\ NoName \notin Name
  /\ Cardinality(Serial) <= Cardinality(Player)
  /\ MaxRoomMember \in Nat \ {0} /\ MaxRequests \in Nat

VARIABLES
  m_PlayerMap,         (* serial -> player, NoPlayer when there is none     *)
  m_pPlayerPool,       (* player objects nobody uses, next one first        *)
  state,               (* player state                                      *)
  m_username, m_roomIndex, m_teamType, m_bLoadingComplete,
  registered,          (* SFPlayerManager::m_PlayerMap: name -> player      *)
  lobby,               (* the players of SFLobby::m_PlayerMap               *)
  roomState,
  m_pRoomChief,
  m_RoomMemberMap, m_Observerlist, m_Team, m_PeerMap,
  m_EmptyRoomMap, m_ActiveRoomMap,
  dbRequests           (* serial -> login requests without an answer        *)

playerVars == <<state, m_username, m_roomIndex, m_teamType, m_bLoadingComplete>>
memberVars == <<m_RoomMemberMap, m_Observerlist, m_Team, m_PeerMap>>
roomVars   == <<roomState, m_pRoomChief, memberVars, m_EmptyRoomMap, m_ActiveRoomMap>>
gameVars   == <<m_PlayerMap, m_pPlayerPool, playerVars, registered, lobby, roomVars, dbRequests>>

TeamType    == {"RED", "BLUE"}
PlayerState == {"NONE", "INIT", "LOGIN", "LOBBY", "ROOM", "LOADING", "PLAY", "PLAYEND"}
RoomState   == {"NONE", "WAIT", "LOADING", "PLAY"}

(* Mutant: a player that is loading is forgotten.                           *)
InRoomExceptLoading == {"ROOM", "PLAY", "PLAYEND"}

(* The states OnDisconnectPlayer takes to be in a room.                     *)
InRoom      == {"ROOM", "LOADING", "PLAY", "PLAYEND"}

Least(S) == CHOOSE x \in S : \A y \in S : x <= y

TeamMembers(r) == m_Team[r]["RED"] \cup m_Team[r]["BLUE"]

-----------------------------------------------------------------------------
(* SFPlayerFSM::ChangeState for each player of Q: entering the lobby and    *)
(* leaving it keep SFLobby up to date, entering LOADING resets the flag.    *)
ChangeState(Q, st) ==
  /\ state' = [p \in Player |-> IF p \in Q THEN st ELSE state[p]]
  /\ m_bLoadingComplete' = [p \in Player |->
       IF p \in Q /\ st = "LOADING" /\ state[p] # st THEN FALSE ELSE m_bLoadingComplete[p]]
  /\ lobby' = (lobby \ {p \in Q : state[p] = "LOBBY"}) \cup (IF st = "LOBBY" THEN Q ELSE {})

(* CONNECT: a player object is taken from the pool and reset; its name and  *)
(* its room index stay what they were.  (Alloc makes an object when there   *)
(* is none; Player has one for every serial, so there always is.)           *)
OnConnectPlayer(s) ==
  /\ m_PlayerMap[s] = NoPlayer /\ m_pPlayerPool # <<>>
  /\ LET p == Head(m_pPlayerPool) IN
     /\ m_PlayerMap' = [m_PlayerMap EXCEPT ![s] = p]
     /\ m_pPlayerPool' = Tail(m_pPlayerPool)
     /\ state' = [state EXCEPT ![p] = "INIT"]
     /\ m_bLoadingComplete' = [m_bLoadingComplete EXCEPT ![p] = FALSE]
     /\ m_teamType' = [m_teamType EXCEPT ![p] = "RED"]
  /\ UNCHANGED <<m_username, m_roomIndex, registered, lobby, roomVars, dbRequests>>

(* A packet of the client of s, whose player is in state st.                *)
From(s, st) == m_PlayerMap[s] # NoPlayer /\ state[m_PlayerMap[s]] = st

(* SFPlayerInit::OnLogin: the name is the player's from now on; the         *)
(* database is asked.                                                       *)
OnLogin(s, name) ==
  /\ From(s, "INIT")
  /\ dbRequests[s] < MaxRequests
  /\ m_username' = [m_username EXCEPT ![m_PlayerMap[s]] = name]
  /\ dbRequests' = [dbRequests EXCEPT ![s] = @ + 1]
  /\ UNCHANGED <<m_PlayerMap, m_pPlayerPool, state, m_roomIndex, m_teamType, m_bLoadingComplete,
                 registered, lobby, roomVars>>

(* SFMySQLAdaptorImpl::OnLogin without a connection or with an exception:   *)
(* no answer is sent.                                                       *)
DBFails(s) ==
  /\ dbRequests[s] > 0
  /\ dbRequests' = [dbRequests EXCEPT ![s] = @ - 1]
  /\ UNCHANGED <<m_PlayerMap, m_pPlayerPool, playerVars, registered, lobby, roomVars>>

(* Mutant: the map's entry is overwritten.                                  *)
AddPlayerOverwrites(p) == TRUE

(* SFPlayerManager::AddPlayer: insert fails when the name is taken.         *)
AddPlayer(p) == registered[m_username[p]] = NoPlayer

(* SFLogicEntry::OnDBResult and SFPlayerInit::OnDBLogin: whoever has the    *)
(* serial now is logged in under the name it has now, unless that name is   *)
(* taken.  An answer for a serial without a player reaches an SFASSERT(0).  *)
OnDBResult(s, success) ==
  /\ dbRequests[s] > 0
  /\ dbRequests' = [dbRequests EXCEPT ![s] = @ - 1]
  /\ LET p == m_PlayerMap[s] IN
     IF From(s, "INIT") /\ success /\ AddPlayer(p)
       THEN /\ registered' = [registered EXCEPT ![m_username[p]] = p]
            /\ ChangeState({p}, "LOGIN")
       ELSE UNCHANGED <<registered, state, m_bLoadingComplete, lobby>>
  /\ UNCHANGED <<m_PlayerMap, m_pPlayerPool, m_username, m_roomIndex, m_teamType, roomVars>>

OnEnterLobby(s) ==
  /\ From(s, "LOGIN")
  /\ ChangeState({m_PlayerMap[s]}, "LOBBY")
  /\ UNCHANGED <<m_PlayerMap, m_pPlayerPool, m_username, m_roomIndex, m_teamType, registered,
                 roomVars, dbRequests>>

-----------------------------------------------------------------------------
(* SFRoom::SelectMyTeam.                                                    *)
SelectMyTeam(r) ==
  IF Cardinality(m_Team[r]["RED"]) > Cardinality(m_Team[r]["BLUE"]) THEN "BLUE" ELSE "RED"

(* p becomes a member of r (SFRoom::Open, SFRoom::OnEnter) and changes its  *)
(* state to st.                                                             *)
Join(r, p, st) ==
  /\ m_Observerlist' = [m_Observerlist EXCEPT ![r] = @ \cup {p}]
  /\ m_RoomMemberMap' = [m_RoomMemberMap EXCEPT ![r] = @ \cup {p}]
  /\ m_Team' = [m_Team EXCEPT ![r][SelectMyTeam(r)] = @ \cup {p}]
  /\ m_teamType' = [m_teamType EXCEPT ![p] = SelectMyTeam(r)]
  /\ m_roomIndex' = [m_roomIndex EXCEPT ![p] = r]
  /\ ChangeState({p}, st)
  /\ UNCHANGED <<m_PlayerMap, m_pPlayerPool, m_username, registered, m_PeerMap, dbRequests>>

(* SFPlayerLobby::OnCreateRoom: the first empty room opens in state WAIT    *)
(* with its creator as chief.                                               *)
OnCreateRoom(s) ==
  /\ From(s, "LOBBY")
  /\ m_EmptyRoomMap # {}
  /\ LET r == Least(m_EmptyRoomMap) IN
     /\ m_EmptyRoomMap' = m_EmptyRoomMap \ {r}
     /\ m_ActiveRoomMap' = m_ActiveRoomMap \cup {r}
     /\ m_pRoomChief' = [m_pRoomChief EXCEPT ![r] = m_PlayerMap[s]]
     /\ roomState' = [roomState EXCEPT ![r] = "WAIT"]
     /\ Join(r, m_PlayerMap[s], "ROOM")

(* The test of OnEnterRoom in SFRoomWait and SFRoomPlay.                    *)
HasSpace(r) == Cardinality(m_Observerlist[r]) < MaxRoomMember

(* SFPlayerLobby::OnEnterRoom: a waiting room, or one in which the game is  *)
(* already being played, takes the player unless it is full.                *)
OnEnterRoom(s, r) ==
  /\ From(s, "LOBBY")
  /\ roomState[r] \in {"WAIT", "PLAY"}
  /\ HasSpace(r)
  /\ m_PlayerMap[s] \notin m_Observerlist[r]
  /\ Join(r, m_PlayerMap[s], IF roomState[r] = "WAIT" THEN "ROOM" ELSE "LOADING")
  /\ UNCHANGED <<roomState, m_pRoomChief, m_EmptyRoomMap, m_ActiveRoomMap>>

NextTeam(t) == IF t = "RED" THEN "BLUE" ELSE "RED"

(* SFRoom::ChangeTeam, in a waiting room.                                   *)
OnChangeTeam(s) ==
  /\ From(s, "ROOM")
  /\ LET p == m_PlayerMap[s]
         r == m_roomIndex[p]
         other == NextTeam(m_teamType[p])
     IN  /\ roomState[r] = "WAIT"
         /\ m_Team' = [m_Team EXCEPT ![r][m_teamType[p]] = @ \ {p}, ![r][other] = @ \cup {p}]
         /\ m_teamType' = [m_teamType EXCEPT ![p] = other]
  /\ UNCHANGED <<m_PlayerMap, m_pPlayerPool, state, m_username, m_roomIndex, m_bLoadingComplete,
                 registered, lobby, roomState, m_pRoomChief, m_RoomMemberMap, m_Observerlist,
                 m_PeerMap, m_EmptyRoomMap, m_ActiveRoomMap, dbRequests>>

(* SFRoomWait::OnLoadingStart: the chief starts the game, all load.         *)
OnLoadingStart(s) ==
  /\ From(s, "ROOM")
  /\ LET r == m_roomIndex[m_PlayerMap[s]] IN
     /\ roomState[r] = "WAIT"
     /\ m_pRoomChief[r] = m_PlayerMap[s]
     /\ \A p \in TeamMembers(r) : state[p] = "ROOM"
     /\ roomState' = [roomState EXCEPT ![r] = "LOADING"]
     /\ ChangeState(TeamMembers(r), "LOADING")
  /\ UNCHANGED <<m_PlayerMap, m_pPlayerPool, m_username, m_roomIndex, m_teamType, registered,
                 m_pRoomChief, memberVars, m_EmptyRoomMap, m_ActiveRoomMap, dbRequests>>

(* Mutants: the game starts with the first player that has loaded; the      *)
(* test runs before the player's own flag is set.                           *)
CheckLoadingCompleteFirst(r, p) == TRUE
CheckLoadingCompleteEarly(r, p) == \A q \in TeamMembers(r) : m_bLoadingComplete[q]

(* SFRoom::CheckLoadingComplete, once p has loaded.                         *)
CheckLoadingComplete(r, p) == \A q \in TeamMembers(r) \ {p} : m_bLoadingComplete[q]

(* SFPlayerLoading::OnLoadingComplete.  In a loading room the player is     *)
(* made known as a peer, and once all have loaded all play; in a playing    *)
(* room it plays at once, and is not made known as a peer.                  *)
OnLoadingComplete(s) ==
  /\ From(s, "LOADING")
  /\ LET p == m_PlayerMap[s]
         r == m_roomIndex[p]
         start == roomState[r] = "LOADING" /\ CheckLoadingComplete(r, p)
         plays == IF start THEN TeamMembers(r) ELSE IF roomState[r] = "PLAY" THEN {p} ELSE {}
     IN  /\ m_bLoadingComplete' = [m_bLoadingComplete EXCEPT ![p] = TRUE]
         /\ m_PeerMap' = [m_PeerMap EXCEPT ![r] = IF roomState[r] = "LOADING" THEN @ \cup {p} ELSE @]
         /\ roomState' = [roomState EXCEPT ![r] = IF start THEN "PLAY" ELSE @]
         /\ state' = [q \in Player |-> IF q \in plays THEN "PLAY" ELSE state[q]]
  /\ UNCHANGED <<m_PlayerMap, m_pPlayerPool, m_username, m_roomIndex, m_teamType, registered,
                 lobby, m_pRoomChief, m_RoomMemberMap, m_Observerlist, m_Team, m_EmptyRoomMap,
                 m_ActiveRoomMap, dbRequests>>

-----------------------------------------------------------------------------
(* The first of the members p leaves behind, by serial.                     *)
NextChief(r, p) ==
  m_PlayerMap[Least({s \in Serial : m_PlayerMap[s] \in m_RoomMemberMap[r] \ {p}})]

(* Mutant: the chief stays the chief.                                       *)
KeepChief(r, p) == UNCHANGED m_pRoomChief

(* The chief's part of SFRoom::OnLeave.                                     *)
PassOnChief(r, p) ==
  m_pRoomChief' = [m_pRoomChief EXCEPT ![r] = IF @ = p THEN NextChief(r, p) ELSE @]

(* DeletePeer, which the room states LOADING and PLAY call.                 *)
DeletePeer(r, p) ==
  m_PeerMap' = [m_PeerMap EXCEPT ![r] = IF roomState[r] \in {"LOADING", "PLAY"} THEN @ \ {p} ELSE @]

(* SFRoom::OnLeave, and DeletePeer where the room's state does it: the last *)
(* to leave recalls the room, a leaving chief hands over.                   *)
LeaveRoom(r, p) ==
  /\ m_RoomMemberMap' = [m_RoomMemberMap EXCEPT ![r] = @ \ {p}]
  /\ m_Observerlist' = [m_Observerlist EXCEPT ![r] = @ \ {p}]
  /\ m_Team' = [m_Team EXCEPT ![r][m_teamType[p]] = @ \ {p}]
  /\ DeletePeer(r, p)
  /\ IF m_Observerlist[r] = {p}
       THEN /\ roomState' = [roomState EXCEPT ![r] = "NONE"]
            /\ m_EmptyRoomMap' = m_EmptyRoomMap \cup {r}
            /\ m_ActiveRoomMap' = m_ActiveRoomMap \ {r}
            /\ UNCHANGED m_pRoomChief
       ELSE /\ PassOnChief(r, p)
            /\ UNCHANGED <<roomState, m_EmptyRoomMap, m_ActiveRoomMap>>

(* States when p leaves r for st: recalling a room that plays ends the game *)
(* for the players its teams still have.                                    *)
StatesWithout(r, p, st) ==
  LET ended == IF roomState[r] = "PLAY" /\ m_Observerlist[r] = {p}
                 THEN TeamMembers(r) \ {p} ELSE {}
  IN  state' = [q \in Player |-> IF q = p THEN st ELSE IF q \in ended THEN "PLAYEND" ELSE state[q]]

(* A LeaveRoom packet: waiting and playing rooms handle it, a loading room  *)
(* does not.                                                                *)
OnLeaveRoom(s) ==
  /\ From(s, "ROOM") \/ From(s, "PLAY")
  /\ LET p == m_PlayerMap[s]
         r == m_roomIndex[p]
     IN  /\ roomState[r] \in {"WAIT", "PLAY"}
         /\ LeaveRoom(r, p)
         /\ StatesWithout(r, p, "LOBBY")
         /\ lobby' = lobby \cup {p}
  /\ UNCHANGED <<m_PlayerMap, m_pPlayerPool, m_username, m_roomIndex, m_teamType,
                 m_bLoadingComplete, registered, dbRequests>>

(* Mutant: the name stays registered.                                       *)
DelPlayerNot(p) == UNCHANGED registered

(* SFPlayerManager::DelPlayer erases the entry of the player's name,        *)
(* whoever it belongs to.                                                   *)
DelPlayer(p) == registered' = [registered EXCEPT ![m_username[p]] = NoPlayer]

(* Mutant: the object does not go back to the pool.                         *)
ReleaseNot(p) == UNCHANGED m_pPlayerPool

Release(p) == m_pPlayerPool' = Append(m_pPlayerPool, p)

(* DISCONNECT: whatever is registered under the player's name is removed,   *)
(* it leaves its room (through LOBBY) or the lobby, and the object goes     *)
(* back to the pool.                                                        *)
OnDisconnectPlayer(s) ==
  /\ m_PlayerMap[s] # NoPlayer
  /\ LET p == m_PlayerMap[s] IN
     /\ DelPlayer(p)
     /\ IF state[p] \in InRoom
          THEN LeaveRoom(m_roomIndex[p], p) /\ StatesWithout(m_roomIndex[p], p, "NONE")
          ELSE state' = [state EXCEPT ![p] = "NONE"] /\ UNCHANGED roomVars
     /\ lobby' = lobby \ {p}
     /\ Release(p)
  /\ m_PlayerMap' = [m_PlayerMap EXCEPT ![s] = NoPlayer]
  /\ UNCHANGED <<m_username, m_roomIndex, m_teamType, m_bLoadingComplete, dbRequests>>

-----------------------------------------------------------------------------
(* SFLogicEntry::Initialize, SFRoomManager::Initialize.                     *)
GameInit ==
  /\ m_PlayerMap = [s \in Serial |-> NoPlayer]
  /\ m_pPlayerPool \in [1..Cardinality(Player) -> Player]
  /\ \A i, j \in DOMAIN m_pPlayerPool : m_pPlayerPool[i] = m_pPlayerPool[j] => i = j
  /\ state = [p \in Player |-> "NONE"]
  /\ m_username = [p \in Player |-> NoName]
  /\ m_roomIndex \in [Player -> Room]
  /\ m_teamType = [p \in Player |-> "RED"]
  /\ m_bLoadingComplete = [p \in Player |-> FALSE]
  /\ registered = [n \in Name \cup {NoName} |-> NoPlayer]
  /\ lobby = {}
  /\ roomState = [r \in Room |-> "NONE"]
  /\ m_pRoomChief = [r \in Room |-> NoPlayer]
  /\ m_RoomMemberMap = [r \in Room |-> {}]
  /\ m_Observerlist = [r \in Room |-> {}]
  /\ m_Team = [r \in Room |-> [t \in TeamType |-> {}]]
  /\ m_PeerMap = [r \in Room |-> {}]
  /\ m_EmptyRoomMap = Room
  /\ m_ActiveRoomMap = {}
  /\ dbRequests = [s \in Serial |-> 0]

GameNext ==
  \E s \in Serial :
    \/ OnConnectPlayer(s) \/ OnDisconnectPlayer(s)
    \/ \E n \in Name : OnLogin(s, n)
    \/ \E success \in BOOLEAN : OnDBResult(s, success)
    \/ DBFails(s)
    \/ OnEnterLobby(s) \/ OnCreateRoom(s) \/ \E r \in Room : OnEnterRoom(s, r)
    \/ OnChangeTeam(s) \/ OnLoadingStart(s) \/ OnLoadingComplete(s) \/ OnLeaveRoom(s)

GameSpec == GameInit /\ [][GameNext]_gameVars

-----------------------------------------------------------------------------
(* Type invariant: the values of the variables.                             *)
GameTypeOK ==
  /\ m_PlayerMap \in [Serial -> Player \cup {NoPlayer}]
  /\ m_pPlayerPool \in Seq(Player)
  /\ state \in [Player -> PlayerState]
  /\ m_username \in [Player -> Name \cup {NoName}]
  /\ m_roomIndex \in [Player -> Room]
  /\ m_teamType \in [Player -> TeamType]
  /\ m_bLoadingComplete \in [Player -> BOOLEAN]
  /\ registered \in [Name \cup {NoName} -> Player \cup {NoPlayer}]
  /\ lobby \subseteq Player
  /\ roomState \in [Room -> RoomState]
  /\ m_pRoomChief \in [Room -> Player \cup {NoPlayer}]
  /\ m_RoomMemberMap \in [Room -> SUBSET Player]
  /\ m_Observerlist \in [Room -> SUBSET Player]
  /\ m_Team \in [Room -> [TeamType -> SUBSET Player]]
  /\ m_PeerMap \in [Room -> SUBSET Player]
  /\ m_EmptyRoomMap \subseteq Room /\ m_ActiveRoomMap \subseteq Room
  /\ dbRequests \in [Serial -> 0..MaxRequests]

Connected == {m_PlayerMap[s] : s \in Serial} \ {NoPlayer}

(* What a room's state says of its members.                                 *)
MemberStates(rs) ==
  CASE rs = "NONE"    -> {}
    [] rs = "WAIT"    -> {"ROOM"}
    [] rs = "LOADING" -> {"LOADING"}
    [] rs = "PLAY"    -> {"LOADING", "PLAY"}

(* The two state machines agree: a player that believes it is in a room is  *)
(* a member of the room it names and of no other, that room is open (the    *)
(* handlers use GetRoom's result, NULL for a closed room, unchecked), and   *)
(* its state is one the room's state allows.                                *)
RoomPlayerAgree ==
  /\ \A p \in Player : state[p] \in InRoom => p \in m_RoomMemberMap[m_roomIndex[p]]
  /\ \A r \in Room : \A p \in m_RoomMemberMap[r] :
       m_roomIndex[p] = r /\ state[p] \in MemberStates(roomState[r])

(* The maps of a room agree although each is kept by other code: members,   *)
(* observers and teams are the same players, each in the team it believes   *)
(* in, never more than the room takes; peers are members.                   *)
RoomMapsAgree ==
  \A r \in Room :
    /\ m_Observerlist[r] = m_RoomMemberMap[r]
    /\ \A t \in TeamType : m_Team[r][t] = {p \in m_RoomMemberMap[r] : m_teamType[p] = t}
    /\ m_PeerMap[r] \subseteq m_RoomMemberMap[r]
    /\ Cardinality(m_RoomMemberMap[r]) <= MaxRoomMember

(* A room is open, active and not empty, or closed and free to be created;  *)
(* whoever lists the rooms finds a chief that is a member.                  *)
RoomsAccountedFor ==
  /\ m_EmptyRoomMap = {r \in Room : roomState[r] = "NONE"}
  /\ m_ActiveRoomMap = Room \ m_EmptyRoomMap
  /\ \A r \in Room : IF r \in m_ActiveRoomMap THEN m_pRoomChief[r] \in m_RoomMemberMap[r]
                                               ELSE m_RoomMemberMap[r] = {}

(* The data of a room agree after every sequence of entering, changing      *)
(* teams, leaving and recalling: its maps with each other, and the room     *)
(* manager's maps with the room's state and chief.                          *)
RoomsConsistent == RoomMapsAgree /\ RoomsAccountedFor

(* The lobby knows exactly the players in state LOBBY, whichever way they   *)
(* came and went.                                                           *)
LobbyExact == lobby = {p \in Player : state[p] = "LOBBY"}

(* A player object is used by one client or waits in the pool once; a       *)
(* pooled object is in no state a map could still know it by.               *)
PlayerPoolExact ==
  /\ \A i, j \in DOMAIN m_pPlayerPool : m_pPlayerPool[i] = m_pPlayerPool[j] => i = j
  /\ \A s, u \in Serial : m_PlayerMap[s] = m_PlayerMap[u] /\ m_PlayerMap[s] # NoPlayer => s = u
  /\ Connected = Player \ {m_pPlayerPool[i] : i \in DOMAIN m_pPlayerPool}
  /\ Connected = {p \in Player : state[p] # "NONE"}

(* Every player object is where its state says: with one client or in the   *)
(* pool, and in the lobby or not, although OnDisconnectPlayer, the room's   *)
(* and the lobby's handlers each keep one of these.                         *)
PlayersAccountedFor == PlayerPoolExact /\ LobbyExact

(* Whoever is registered under a name is connected, logged in, and has that *)
(* name, although the name an answer registers is the one the player has    *)
(* when the answer comes.                                                   *)
RegisteredIsLoggedIn ==
  \A n \in Name \cup {NoName} : registered[n] # NoPlayer =>
    state[registered[n]] \notin {"NONE", "INIT"} /\ m_username[registered[n]] = n

(* A registration is lost only when a player of that name disconnects.  The *)
(* player may be another one, which only tried to log in under the name or  *)
(* got it with its object from the pool: DelPlayer erases by name.          *)
RegistrationKept ==
  [][\A n \in Name : registered[n] # NoPlayer /\ registered'[n] # registered[n] =>
       \E p \in Connected : m_username[p] = n /\ p \notin Connected']_gameVars

Stalled(r) == roomState[r] = "LOADING" /\ \A p \in TeamMembers(r) : m_bLoadingComplete[p]

(* A room in which all have loaded plays.  Only a player that leaves while  *)
(* the others wait for it makes the room stay in LOADING: OnLeaveRoom does  *)
(* not look again.                                                          *)
StallOnlyByLeave ==
  [][\A r \in Room : ~Stalled(r) /\ Stalled(r)' =>
       m_RoomMemberMap'[r] \subseteq m_RoomMemberMap[r] /\ m_RoomMemberMap'[r] # m_RoomMemberMap[r]]_gameVars

(* When a game starts every member plays and is known to the others as a    *)
(* peer (the peer list is sent once, at the start).                         *)
PeersKnownAtStart ==
  [][\A r \in Room : roomState[r] = "LOADING" /\ roomState'[r] = "PLAY" =>
       /\ m_PeerMap'[r] = m_RoomMemberMap'[r]
       /\ \A p \in m_RoomMemberMap'[r] : state'[p] = "PLAY"]_gameVars

(* What SFASSERT(0) in OnDBResult says: the player an answer is for is      *)
(* still there.                                                             *)
AnswerFindsPlayer == \A s \in Serial : dbRequests[s] > 0 => m_PlayerMap[s] # NoPlayer
=============================================================================
