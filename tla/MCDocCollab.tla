---------------------------- MODULE MCDocCollab ----------------------------
(***************************************************************************)
(* DocCollab on small instances.  The regimes say which kinds of handler   *)
(* the environment keeps apart; the code itself keeps none apart.          *)
(***************************************************************************)
EXTENDS DocCollab, TLC

\* The code as it is.
NoMutex == {}

Membership == {"connect", "disconnect", "toggle"}

\* Joins, leaves and toggles of the share one after another.
MembershipMutex == {{k, l} : k \in Membership, l \in Membership}

\* Pushes overlap joins and saves, and nothing else overlaps.
SessionMutex ==
    {{k, l} : k \in Kinds, l \in Kinds} \ {{"push", "connect"}, {"push", "save"}, {"save"}}

\* The state without the clients' copies, which no guard and no session looks at.
ButCopies == <<stores, handlers, sent, refused>>

Symmetry == Permutations(Servants) \cup Permutations(Edits) \cup Permutations(Requests)
============================================================================
