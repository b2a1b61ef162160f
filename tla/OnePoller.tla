----------------------------- MODULE OnePoller ------------------------------
(***************************************************************************)
(* What an agent that can be moved promises, whatever moves it: it has one *)
(* home, the machine whose copy of its memory counts; it is started only   *)
(* at home and only while no copy of it runs; its home moves only onto a   *)
(* machine that holds its memory and only when nothing but the home it     *)
(* leaves may run; and the memory at home is never given up.               *)
(*                                                                         *)
(* moveHost.ts states it in pieces: "One bot, one poller: the source must  *)
(* stop before the copy on the target ever starts" and "only with the data *)
(* there does the record point there".  MoveHost implements it.            *)
(***************************************************************************)
CONSTANT Places   \* where a copy of the agent may be

VARIABLES
  home,     \* the place whose copy counts
  holding,  \* the places whose volume holds the agent's memory
  polling   \* the places where a copy runs, and polls the agent's one bot

vars == <<home, holding, polling>>

Init ==
  /\ home \in Places
  /\ holding = {home}
  /\ polling \in {{}, {home}}

(* A start whose answer is lost may be given up on in the same breath: the *)
(* copy runs, and its home is where the memory still is.                   *)
Start ==
  /\ polling = {} /\ polling' = {home}
  /\ home' \in holding
  /\ UNCHANGED holding

Stop == polling' \subseteq polling /\ UNCHANGED <<home, holding>>

Copy == \E p \in Places : holding' = holding \union {p} /\ UNCHANGED <<home, polling>>

(* A copy that does not count is removed, container and volume.            *)
Remove ==
  /\ home \in holding'
  /\ holding' \subseteq holding /\ polling' \subseteq polling
  /\ UNCHANGED home

Move ==
  /\ polling \subseteq {home} /\ polling' \subseteq polling
  /\ home' \in holding
  /\ UNCHANGED holding

Next == Start \/ Stop \/ Copy \/ Remove \/ Move

Spec == Init /\ [][Next]_vars

-----------------------------------------------------------------------------
(* At most one copy of the agent polls its bot, and its memory is at home. *)
Safe ==
  /\ \A p, q \in polling : p = q
  /\ home \in holding
=============================================================================
