--------------------------- MODULE SerialAllocator ---------------------------
(***************************************************************************)
(* What a table of session numbers promises, whatever data structure keeps *)
(* it: a serial has at most one owner, it is given only while it has none, *)
(* and it never passes from one owner to another without being returned.   *)
(***************************************************************************)

CONSTANTS
  Serial,     (* the session numbers                                        *)
  Owner,      (* who may own one                                            *)
  Nobody      (* the owner of an idle serial                                *)

VARIABLE
  owner       (* the owner of each serial                                   *)

AllocatorInit == owner = [id \in Serial |-> Nobody]

Issue(id, p) ==
  /\ owner[id] = Nobody
  /\ owner' = [owner EXCEPT ![id] = p]

Return(id) ==
  /\ owner[id] # Nobody
  /\ owner' = [owner EXCEPT ![id] = Nobody]

AllocatorNext ==
  \E id \in Serial : Return(id) \/ \E p \in Owner : Issue(id, p)

AllocatorSpec == AllocatorInit /\ [][AllocatorNext]_owner
=============================================================================
