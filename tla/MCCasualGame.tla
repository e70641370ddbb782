---------------------------- MODULE MCCasualGame -----------------------------
(* CasualGame for TLC.  Player objects and names are interchangeable;        *)
(* serials and rooms are ordered.                                            *)
EXTENDS CasualGame, TLC

GameSymmetry == Permutations(Player) \cup Permutations(Name)

(* Fields that every path writes again before it reads them are not told     *)
(* apart: room, team and loading flag of a player outside the states that    *)
(* use them, and the chief of a closed room.                                 *)
GameView ==
  LET Live(f, Q) == [p \in Player |-> IF p \in Q THEN <<f[p]>> ELSE <<>>]
      inRoom == {p \in Player : state[p] \in InRoom}
  IN  <<m_PlayerMap, m_pPlayerPool, state, m_username, Live(m_roomIndex, inRoom),
        Live(m_teamType, inRoom),
        Live(m_bLoadingComplete, {p \in Player : state[p] = "LOADING"}), registered, lobby,
        roomState, [r \in Room |-> IF roomState[r] = "NONE" THEN NoPlayer ELSE m_pRoomChief[r]],
        memberVars, m_EmptyRoomMap, m_ActiveRoomMap, dbRequests>>
=============================================================================
