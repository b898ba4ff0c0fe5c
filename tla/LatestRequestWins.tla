-------------------------- MODULE LatestRequestWins --------------------------
(***************************************************************************)
(* What the workspace scan machinery promises its callers, with none of    *)
(* the mechanism.  Requests are numbered in the order the actor takes      *)
(* them.  Results may be installed for any request newer than the one      *)
(* served last, never for an older one, and the workspace is announced     *)
(* ready only while the newest request is the one that was served.         *)
(***************************************************************************)
EXTENDS Integers

VARIABLES
  wanted,     \* number of the newest request
  served,     \* number of the request whose results are installed
  announced   \* number of the newest request when "ready" was last announced

vars == <<wanted, served, announced>>

Init == wanted = 0 /\ served = 0 /\ announced = 0

Request == /\ wanted' = wanted + 1
           /\ UNCHANGED <<served, announced>>

Serve == /\ \E n \in (served + 1)..wanted : served' = n
         /\ UNCHANGED <<wanted, announced>>

Announce == /\ served = wanted
            /\ announced < wanted
            /\ announced' = wanted
            /\ UNCHANGED <<wanted, served>>

(* The process is killed and started again: what was outstanding is forgotten. *)
Restart == /\ served' = wanted
           /\ announced' = wanted
           /\ UNCHANGED wanted

Next == Request \/ Serve \/ Announce \/ Restart

Spec == Init /\ [][Next]_vars
=============================================================================
