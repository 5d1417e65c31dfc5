-------------------------- MODULE MCDocMembership ---------------------------
(***************************************************************************)
(* Joins, leaves and toggles one after another, pushes and saves beside    *)
(* them, with two notes: the edits that were pushed, and whether a push    *)
(* has run beside a leave, a toggle or another push: only then may a       *)
(* participant miss one of them.                                           *)
(***************************************************************************)
EXTENDS MCDocCollab

VARIABLES
    pushed,   \* the edits of all the pushes that the server began to apply
    crossed   \* a push has run beside a leave, a toggle or another push

BeingPushed == {push[p].edit : p \in Active("push")}

Crossing ==
    /\ Active("push") # {}
    /\ \/ Active("disconnect") # {} \/ Active("toggle") # {}
       \/ \E p, q \in Active("push") : p # q

NotedSpec ==
    /\ Init /\ pushed = {} /\ crossed = FALSE
    /\ [][/\ Next
          /\ pushed' = pushed \cup BeingPushed'
          /\ crossed' = (crossed \/ Crossing')]_<<vars, pushed, crossed>>

\* Until a push runs beside a leave, a toggle or another push, a listed
\* participant that has fetched the text has heard, or is about to hear, of every
\* edit that was pushed into it: it was listed before it fetched, and a change is
\* stored before the list of those to be told is read (handleConnection,
\* checkSharing, handleUpdates).
NoMissedEditUncrossed == crossed \/ NoMissedEdit(pushed)

\* States that the invariants of the run and the guards do not tell apart: what
\* was refused, and what was pushed and known once a push has crossed.
Distinguished ==
    <<share, inBin, file, lock, userKey, table, handlers, sent, crossed,
      IF crossed THEN None ELSE <<view, pushed>> >>

============================================================================
