--------------------------- MODULE CollabSession ---------------------------
(***************************************************************************)
(* What collaborative editing of a text file promises.  A session opens on *)
(* the text that is on disk; while it is open the text only grows by the   *)
(* edits people make; it closes once the text is back on disk.  A save     *)
(* that goes round the session is possible only while none is open.        *)
(***************************************************************************)
CONSTANTS Edits, Original

VARIABLES
    disk,  \* the text on disk
    open,  \* whether a session is open
    text   \* the text people see

sessionVars == <<disk, open, text>>

Init ==
    /\ disk \in {{}, {Original}}
    /\ open = FALSE
    /\ text = disk

Open ==
    /\ ~open /\ open'
    /\ UNCHANGED <<disk, text>>

Edit(edit) ==
    /\ open
    /\ text' = text \cup {edit}
    /\ UNCHANGED <<disk, open>>

Flush ==
    /\ open
    /\ disk' = text
    /\ UNCHANGED <<open, text>>

Close ==
    /\ open /\ ~open'
    /\ disk = text
    /\ UNCHANGED <<disk, text>>

Save(edit) ==
    /\ ~open
    /\ disk' = {edit} /\ text' = {edit}
    /\ UNCHANGED open

Next ==
    \/ Open \/ Flush \/ Close
    \/ \E edit \in Edits : Edit(edit) \/ Save(edit)

Spec == Init /\ [][Next]_sessionVars
============================================================================
