----------------------------- MODULE Membership -----------------------------
(***************************************************************************)
(* What the group commands promise, without sessions, maps or sharing: who *)
(* owns a group, who is in it and who has asked to be.                     *)
(***************************************************************************)

CONSTANTS Users, Groups, None

VARIABLES
  owner,    \* the owner of each group, None while it does not exist
  member,   \* the members of each group
  asked     \* open join requests, <<user, group>>

Init ==
  /\ owner = [g \in Groups |-> None]
  /\ member = [g \in Groups |-> {}]
  /\ asked = {}

\* create_group: the creator is the owner and the first member.
Create(u, g) ==
  /\ owner[g] = None
  /\ owner' = [owner EXCEPT ![g] = u]
  /\ member' = [member EXCEPT ![g] = {u}]
  /\ UNCHANGED asked

\* join_group: only someone outside an existing group asks.
Ask(u, g) ==
  /\ owner[g] # None
  /\ u \notin member[g]
  /\ asked' = asked \cup {<<u, g>>}
  /\ UNCHANGED <<owner, member>>

\* accept_request: nobody is admitted who has not asked since he last left.
Admit(u, g) ==
  /\ <<u, g>> \in asked
  /\ asked' = asked \ {<<u, g>>}
  /\ member' = [member EXCEPT ![g] = @ \cup {u}]
  /\ UNCHANGED owner

\* leave_group: everyone but the owner may go.
Leave(u, g) ==
  /\ u \in member[g] \ {owner[g]}
  /\ member' = [member EXCEPT ![g] = @ \ {u}]
  /\ UNCHANGED <<owner, asked>>

Next == \E u \in Users, g \in Groups :
          Create(u, g) \/ Ask(u, g) \/ Admit(u, g) \/ Leave(u, g)

Spec == Init /\ [][Next]_<<owner, member, asked>>
=============================================================================
