-------------------------------- MODULE Follow --------------------------------
(***************************************************************************)
(* What the pod configuration promises the main loop: for every pod, the   *)
(* follower takes each change the leader has made, one at a time, in       *)
(* order, none twice, and falls behind only for a while.                   *)
(***************************************************************************)
EXTENDS Naturals

CONSTANT UIDs

VARIABLES
  leader,    \* changes made to each pod
  follower   \* changes taken of each pod

followVars == <<leader, follower>>

FollowInit ==
  /\ leader = [u \in UIDs |-> 0]
  /\ follower = [u \in UIDs |-> 0]

\* Some pods change at once.
Lead ==
  /\ \E changed \in SUBSET UIDs :
       leader' = [u \in UIDs |-> IF u \in changed THEN leader[u] + 1 ELSE leader[u]]
  /\ UNCHANGED follower

Take(u) ==
  /\ follower[u] < leader[u]
  /\ follower' = [follower EXCEPT ![u] = @ + 1]
  /\ UNCHANGED leader

FollowNext == Lead \/ \E u \in UIDs : Take(u)

FollowSafety == FollowInit /\ [][FollowNext]_followVars

FollowSpec ==
  /\ FollowSafety
  /\ \A u \in UIDs : WF_followVars(Take(u))

=============================================================================
