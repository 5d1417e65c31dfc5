-------------------------- MODULE DocCollabProofs --------------------------
(***************************************************************************)
(* What DocCollab keeps for every set of sockets, requests and edits, and  *)
(* under every regime: the proofs never look at Exclusive, MaxRunning or   *)
(* Offers, so that they hold of the code, which excludes nothing.          *)
(***************************************************************************)
EXTENDS DocCollab, TLAPS

----------------------------------------------------------------------------
\* Types.

\* The phases, so that no proof below has to look inside the sets of them.
LEMMA Phases ==
    /\ "idle" \in ConnPhases /\ "lock" \in ConnPhases /\ "share" \in ConnPhases
    /\ "exists" \in ConnPhases /\ "read" \in ConnPhases /\ "create" \in ConnPhases
    /\ "join" \in ConnPhases /\ "add" \in ConnPhases /\ "failed" \in ConnPhases
    /\ "done" \in ConnPhases
    /\ "lockThenExists" \in ConnPhases /\ "lockThenDone" \in ConnPhases
    /\ "idle" \in DiscPhases /\ "params" \in DiscPhases /\ "servants" \in DiscPhases
    /\ "master" \in DiscPhases
    /\ "unlock" \in DiscPhases /\ "text" \in DiscPhases /\ "check" \in DiscPhases
    /\ "write" \in DiscPhases /\ "delete" \in DiscPhases /\ "remove" \in DiscPhases
    /\ "done" \in DiscPhases
    /\ "idle" \in PushPhases /\ "read" \in PushPhases /\ "store" \in PushPhases
    /\ "tell" \in PushPhases /\ "master" \in PushPhases
    /\ "idle" \in ReqPhases /\ "save" \in ReqPhases /\ "make" \in ReqPhases
    /\ "text" \in ReqPhases /\ "flush" \in ReqPhases /\ "drop" \in ReqPhases
    /\ "read" \in ReqPhases /\ "fill" \in ReqPhases /\ "disabling" \in ReqPhases
    /\ "enabling" \in ReqPhases /\ "done" \in ReqPhases
  BY DEF ConnPhases, DiscPhases, PushPhases, ReqPhases

\* A handler's local state is well typed, and so are its parts.
LEMMA AtType ==
  ASSUME NEW P, NEW pc \in P, NEW list \in SUBSET Servants, NEW text \in Texts
  PROVE  At(pc, list, text) \in Handler(P)
  BY DEF At, Handler

LEMMA HandlerFields ==
  ASSUME NEW P, NEW h \in Handler(P)
  PROVE  h.pc \in P /\ h.list \in SUBSET Servants /\ h.text \in Texts
  BY DEF Handler

LEMMA PhaseSet ==
  ASSUME NEW P, NEW S, NEW f \in [S -> Handler(P)], NEW s \in S, NEW pc \in P
  PROVE  [f EXCEPT ![s].pc = pc] \in [S -> Handler(P)]
  BY DEF Handler

\* Texts: the empty one, and what writing, pushing and refusing make of them.
LEMMA EmptyText == {} \in Texts
  BY DEF Texts

LEMMA TextOps ==
  ASSUME NEW text \in Texts, NEW other \in Texts, NEW edit \in Edits \cup {Clear}
  PROVE  /\ edit # Clear => {edit} \in Texts /\ text \cup {edit} \in Texts
         /\ text \cup ({edit} \ {Clear}) \in Texts
         /\ text \cup other \in Texts
  BY DEF Texts

\* The hash table, whatever field is set.
LEMMA NoTableType == NoTable \in Table
  BY DEF NoTable, Table, Texts

LEMMA TableType ==
  ASSUME table \in Table
  PROVE  /\ table.exists \in BOOLEAN /\ table.doc \in Texts \cup {None}
         /\ table.master \in Owners \cup {None} /\ table.servants \in SUBSET Servants
  BY DEF Table

LEMMA StoredDocType ==
  ASSUME table \in Table
  PROVE  StoredDoc \in Texts \cup {None}
  BY TableType, EmptyText DEF StoredDoc

LEMMA SetMasterType ==
  ASSUME table \in Table, NEW master \in Owners \cup {None}
  PROVE  SetField("master", master) \in Table
  BY DEF SetField, Table

LEMMA SetServantsType ==
  ASSUME table \in Table, NEW servants \in SUBSET Servants
  PROVE  SetField("servants", servants) \in Table
  BY DEF SetField, Table

LEMMA SetDocType ==
  ASSUME table \in Table, NEW doc \in Texts
  PROVE  SetField("doc", doc) \in Table
  BY DEF SetField, Table

\* Every initial state is well typed.
LEMMA InitTypeOK == Init => TypeOK
  <1> SUFFICES ASSUME Init PROVE TypeOK
    OBVIOUS
  <1>1. AtPhase("idle") \in Handler(ConnPhases) /\ AtPhase("idle") \in Handler(DiscPhases)
        /\ AtPhase("idle") \in Handler(ReqPhases)
    BY AtType, EmptyText, Phases DEF AtPhase
  <1>2. NoPush \in [pc : PushPhases, edit : Edits \cup {Clear},
                            list : SUBSET Servants, text : Texts]
    BY EmptyText, Phases DEF NoPush
  <1>3. file \in Texts /\ refused \in Texts
    BY EmptyText DEF Init, Texts
  <1> QED
    BY <1>1, <1>2, <1>3, NoTableType DEF Init, TypeOK

\* Every step keeps the types.
LEMMA StepTypeOK == TypeOK /\ [Next]_vars => TypeOK'
  <1> SUFFICES ASSUME TypeOK, [Next]_vars PROVE TypeOK'
    OBVIOUS
  <1> USE Phases DEF TypeOK, stores, handlers, history
  <1>1. ASSUME NEW s \in Sockets, Admit(s) PROVE TypeOK'
    BY <1>1, PhaseSet DEF Admit
  <1>2. ASSUME NEW s \in Sockets, ConnSetLock(s) PROVE TypeOK'
    <2>1. AfterLock(s) \in ConnPhases
      BY DEF AfterLock
    <2>2. conn' \in [Sockets -> Handler(ConnPhases)]
      BY <1>2, <2>1, PhaseSet DEF ConnSetLock
    <2>3. lock' \in Sockets \cup {None}
      BY <1>2 DEF ConnSetLock
    <2>4. UNCHANGED <<share, inBin, file, userKey, table, stray, push, disc, req, history>>
      BY <1>2 DEF ConnSetLock
    <2> QED
      BY <2>2, <2>3, <2>4
  <1>3. ASSUME NEW s \in Sockets, ConnIsEnabled(s) PROVE TypeOK'
    <2> DEFINE next == IF share = "enabled"
                       THEN IF conn[s].pc = "share" THEN "exists" ELSE "lockThenExists"
                       ELSE IF conn[s].pc = "share" THEN "done" ELSE "lockThenDone"
    <2>1. next \in ConnPhases
      OBVIOUS
    <2>2. conn' = [conn EXCEPT ![s].pc = next]
      BY <1>3 DEF ConnIsEnabled
    <2>3. conn' \in [Sockets -> Handler(ConnPhases)]
      <3> HIDE DEF next
      <3> QED
        BY <2>1, <2>2, PhaseSet
    <2> QED
      BY <1>3, <2>3 DEF ConnIsEnabled
  <1>4. ASSUME NEW s \in Sockets, ConnExists(s) PROVE TypeOK'
    <2>1. (IF table.exists THEN "join" ELSE "read") \in ConnPhases
      OBVIOUS
    <2> QED
      BY <1>4, <2>1, PhaseSet DEF ConnExists
  <1>5. ASSUME NEW s \in Sockets, ConnReadFile(s) PROVE TypeOK'
    BY <1>5, AtType, EmptyText DEF ConnReadFile, AtPhase
  <1>6. ASSUME NEW s \in Sockets, ConnCreateTable(s) PROVE TypeOK'
    <2>1. table' \in Table
      <3>1. conn[s].text \in Texts
        BY HandlerFields
      <3> QED
        BY <1>6, <3>1 DEF ConnCreateTable, Table
    <2>2. AtPhase("done") \in Handler(ConnPhases)
      BY AtType, EmptyText DEF AtPhase
    <2> QED
      BY <1>6, <2>1, <2>2 DEF ConnCreateTable
  <1>7. ASSUME NEW s \in Sockets, ConnSetMaster(s) PROVE TypeOK'
    <2>1. table' \in Table
      BY <1>7, SetMasterType DEF ConnSetMaster
    <2>2. conn' \in [Sockets -> Handler(ConnPhases)]
      BY <1>7, PhaseSet DEF ConnSetMaster
    <2> QED
      BY <1>7, <2>1, <2>2 DEF ConnSetMaster
  <1>8. ASSUME NEW s \in Sockets, ConnReadServants(s) PROVE TypeOK'
    BY <1>8, AtType, EmptyText, TableType DEF ConnReadServants, AtPhase
  <1>9. ASSUME NEW s \in Sockets, ConnAddServant(s) PROVE TypeOK'
    BY <1>9, AtType, EmptyText, SetServantsType, HandlerFields DEF ConnAddServant, AtPhase
  <1>10. ASSUME NEW s \in Sockets, Leave(s) PROVE TypeOK'
    BY <1>10, PhaseSet DEF Leave
  <1>11. ASSUME NEW s \in Sockets, DiscParams(s) PROVE TypeOK'
    BY <1>11, PhaseSet DEF DiscParams
  <1>11a. ASSUME NEW s \in Sockets, DiscServants(s) PROVE TypeOK'
    BY <1>11a, AtType, EmptyText, TableType DEF DiscServants, AtPhase
  <1>12. ASSUME NEW s \in Sockets, DiscMaster(s) PROVE TypeOK'
    BY <1>12, AtType, EmptyText, HandlerFields DEF DiscMaster, AtPhase
  <1>13. ASSUME NEW s \in Sockets, DiscRemoveLock(s) PROVE TypeOK'
    BY <1>13, PhaseSet DEF DiscRemoveLock
  <1>14. ASSUME NEW s \in Sockets, DiscReadDoc(s) PROVE TypeOK'
    BY <1>14, AtType, EmptyText, StoredDocType DEF DiscReadDoc, AtPhase
  <1>15. ASSUME NEW s \in Sockets, DiscCheckLock(s) PROVE TypeOK'
    <2>1. AtPhase("done") \in Handler(DiscPhases)
      BY AtType, EmptyText DEF AtPhase
    <2>2. [disc[s] EXCEPT !.pc = "write"] \in Handler(DiscPhases)
      BY DEF Handler
    <2> QED
      BY <1>15, <2>1, <2>2 DEF DiscCheckLock
  <1>16. ASSUME NEW s \in Sockets, DiscWriteFile(s) PROVE TypeOK'
    BY <1>16, AtType, EmptyText, HandlerFields DEF DiscWriteFile, AtPhase
  <1>17. ASSUME NEW s \in Sockets, DiscDeleteTable(s) PROVE TypeOK'
    BY <1>17, PhaseSet, NoTableType DEF DiscDeleteTable
  <1>18. ASSUME NEW s \in Sockets, DiscRemoveSelf(s) PROVE TypeOK'
    BY <1>18, AtType, EmptyText, SetServantsType, SetMasterType, HandlerFields
       DEF DiscRemoveSelf, AtPhase
  <1>19. ASSUME NEW s \in Sockets, PushNoDoc(s) PROVE TypeOK'
    BY <1>19, EmptyText, TextOps DEF PushNoDoc, NoPush, Refuse
  <1>20. ASSUME NEW s \in Sockets, PushMismatch(s) PROVE TypeOK'
    BY <1>20, EmptyText, TextOps DEF PushMismatch, NoPush, Refuse
  <1>21. ASSUME NEW s \in Sockets, PushApply(s) PROVE TypeOK'
    <2> DEFINE newDoc ==
          IF push[s].edit = Clear THEN {} ELSE StoredDoc \cup {push[s].edit}
    <2>1. newDoc \in Texts
      <3>1. StoredDoc \in Texts
        BY <1>21, StoredDocType DEF PushApply
      <3>2. push[s].edit \in Edits \cup {Clear}
        OBVIOUS
      <3> QED
        BY <3>1, <3>2, EmptyText, TextOps
    <2>2. push' = [push EXCEPT ![s].pc = "store", ![s].text = newDoc]
      BY <1>21 DEF PushApply
    <2>3. push' \in [Sockets -> [pc : PushPhases, edit : Edits \cup {Clear},
                            list : SUBSET Servants, text : Texts]]
      <3> HIDE DEF newDoc
      <3> QED
        BY <2>1, <2>2
    <2> QED
      BY <1>21, <2>3 DEF PushApply
  <1>22. ASSUME NEW s \in Sockets, PushStore(s) PROVE TypeOK'
    BY <1>22, EmptyText, SetDocType DEF PushStore
  <1>23. ASSUME NEW s \in Sockets, PushTell(s) PROVE TypeOK'
    BY <1>23, EmptyText DEF PushTell, Tell, NoPush
  <1>23a. ASSUME NEW s \in Sockets, PushServants(s) PROVE TypeOK'
    BY <1>23a, TableType DEF PushServants
  <1>23b. ASSUME NEW s \in Sockets, PushMaster(s) PROVE TypeOK'
    BY <1>23b, EmptyText DEF PushMaster, Tell, NoPush
  <1>24. ASSUME NEW s \in Sockets, Fetch(s) PROVE TypeOK'
    BY <1>24 DEF Fetch
  <1>25. ASSUME NEW s \in Sockets, NEW edit \in Edits \cup {Clear}, PushExists(s, edit)
        PROVE TypeOK'
    <2>1. refused \cup ({edit} \ {Clear}) \in Texts
      BY TextOps
    <2>2. refused' \in Texts
      BY <1>25, <2>1 DEF PushExists, Refuse
    <2>3. sent' \subseteq Edits
      BY <1>25 DEF PushExists
    <2>4. push' \in [Sockets -> [pc : PushPhases, edit : Edits \cup {Clear},
                            list : SUBSET Servants, text : Texts]]
      BY <1>25 DEF PushExists
    <2> QED
      BY <1>25, <2>2, <2>3, <2>4 DEF PushExists
  <1>26. ASSUME NEW r \in Requests, ReqSaveWrite(r) PROVE TypeOK'
    <2>1. req[r].text \in Texts
      BY HandlerFields
    <2>2. refused \cup req[r].text \in Texts
      BY <2>1 DEF Texts
    <2>3. AtPhase("done") \in Handler(ReqPhases)
      BY AtType, EmptyText DEF AtPhase
    <2> QED
      BY <1>26, <2>1, <2>2, <2>3 DEF ReqSaveWrite
  <1>27. ASSUME NEW r \in Requests, ReqCreate(r) PROVE TypeOK'
    BY <1>27, PhaseSet DEF ReqCreate
  <1>28. ASSUME NEW r \in Requests, ReqMakeShare(r) PROVE TypeOK'
    BY <1>28, PhaseSet DEF ReqMakeShare
  <1>29. ASSUME NEW r \in Requests, ReqDisable(r) PROVE TypeOK'
    BY <1>29, PhaseSet DEF ReqDisable
  <1>30. ASSUME NEW r \in Requests, ReqReadDoc(r) PROVE TypeOK'
    BY <1>30, AtType, EmptyText, StoredDocType DEF ReqReadDoc, AtPhase
  <1>31. ASSUME NEW r \in Requests, ReqWriteFile(r) PROVE TypeOK'
    BY <1>31, AtType, EmptyText, HandlerFields DEF ReqWriteFile, AtPhase
  <1>32. ASSUME NEW r \in Requests, ReqDeleteTable(r) PROVE TypeOK'
    BY <1>32, PhaseSet, NoTableType DEF ReqDeleteTable
  <1>33. ASSUME NEW r \in Requests, ReqEnable(r) PROVE TypeOK'
    BY <1>33, PhaseSet DEF ReqEnable
  <1>34. ASSUME NEW r \in Requests, ReqReadFile(r) PROVE TypeOK'
    BY <1>34, AtType, EmptyText, TableType DEF ReqReadFile, AtPhase
  <1>35. ASSUME NEW r \in Requests, ReqCreateTable(r) PROVE TypeOK'
    BY <1>35, AtType, EmptyText, HandlerFields DEF ReqCreateTable, Table, AtPhase
  <1>36. ASSUME NEW r \in Requests, ReqCommit(r) PROVE TypeOK'
    BY <1>36, PhaseSet DEF ReqCommit
  <1>37. ASSUME NEW r \in Requests, NEW edit \in Edits, ReqSave(r, edit) PROVE TypeOK'
    <2>1. At("save", {}, {edit}) \in Handler(ReqPhases)
      <3>1. {edit} \in Texts
        BY DEF Texts
      <3> QED
        BY <3>1, AtType
    <2> QED
      BY <1>37, <2>1 DEF ReqSave
  <1>38. ASSUME NEW r \in Requests, NEW edit \in Edits, ReqSaveRefused(r, edit) PROVE TypeOK'
    BY <1>38, PhaseSet, TextOps DEF ReqSaveRefused, Refuse
  <1>39. CASE MoveToBinOrBack
    BY <1>39 DEF MoveToBinOrBack
  <1>40. CASE ExpireLock
    BY <1>40 DEF ExpireLock
  <1>41. CASE ExpireUserKey
    BY <1>41 DEF ExpireUserKey
  <1>42. CASE Crash
    BY <1>42, AtType, EmptyText DEF Crash, NoPush, AtPhase
  <1>43. CASE UNCHANGED vars
    BY <1>43 DEF vars
  <1> QED
    BY <1>1, <1>2, <1>3, <1>4, <1>5, <1>6, <1>7, <1>8, <1>9, <1>10, <1>11, <1>11a, <1>12,
       <1>13, <1>14, <1>15, <1>16, <1>17, <1>18, <1>19, <1>20, <1>21, <1>22, <1>23, <1>23a,
       <1>23b, <1>24, <1>25, <1>26, <1>27, <1>28, <1>29, <1>30, <1>31, <1>32, <1>33, <1>34, <1>35, <1>36,
       <1>37, <1>38, <1>39, <1>40, <1>41, <1>42, <1>43
       DEF Next, Connect, Disconnect, Push, Request, Serve

\* The stores, the handlers and the history keep their types in every behaviour.
THEOREM TypeCorrect == Spec => []TypeOK
  BY InitTypeOK, StepTypeOK, PTL DEF Spec

----------------------------------------------------------------------------
\* No path writes an empty text over one that is not empty.

LEMMA InitWritesAreNotEmpty == Init => WritesAreNotEmpty
  BY DEF Init, WritesAreNotEmpty, AtPhase, At

\* A handler takes a text to write from StoredDoc, which is never empty, or from
\* the request, which is one edit.
LEMMA StepWritesAreNotEmpty ==
  TypeOK /\ WritesAreNotEmpty /\ [Next]_vars => WritesAreNotEmpty'
  <1> SUFFICES ASSUME TypeOK, WritesAreNotEmpty, [Next]_vars PROVE WritesAreNotEmpty'
    OBVIOUS
  <1> USE DEF TypeOK, WritesAreNotEmpty, Handler, At, AtPhase, stores, handlers, history
  <1>1. ASSUME UNCHANGED <<disc, req>> PROVE WritesAreNotEmpty'
    BY <1>1
  <1>2. ASSUME NEW s \in Sockets, Leave(s) PROVE WritesAreNotEmpty'
    BY <1>2 DEF Leave
  <1>3. ASSUME NEW s \in Sockets, DiscParams(s) PROVE WritesAreNotEmpty'
    BY <1>3 DEF DiscParams
  <1>3a. ASSUME NEW s \in Sockets, DiscServants(s) PROVE WritesAreNotEmpty'
    BY <1>3a DEF DiscServants
  <1>4. ASSUME NEW s \in Sockets, DiscMaster(s) PROVE WritesAreNotEmpty'
    BY <1>4 DEF DiscMaster
  <1>5. ASSUME NEW s \in Sockets, DiscRemoveLock(s) PROVE WritesAreNotEmpty'
    BY <1>5 DEF DiscRemoveLock
  <1>6. ASSUME NEW s \in Sockets, DiscReadDoc(s) PROVE WritesAreNotEmpty'
    <2>1. StoredDoc # None => StoredDoc # {}
      BY DEF StoredDoc
    <2> QED
      BY <1>6, <2>1 DEF DiscReadDoc
  <1>7. ASSUME NEW s \in Sockets, DiscCheckLock(s) PROVE WritesAreNotEmpty'
    BY <1>7 DEF DiscCheckLock
  <1>8. ASSUME NEW s \in Sockets, DiscWriteFile(s) PROVE WritesAreNotEmpty'
    BY <1>8 DEF DiscWriteFile
  <1>9. ASSUME NEW s \in Sockets, DiscDeleteTable(s) PROVE WritesAreNotEmpty'
    BY <1>9 DEF DiscDeleteTable
  <1>10. ASSUME NEW s \in Sockets, DiscRemoveSelf(s) PROVE WritesAreNotEmpty'
    BY <1>10 DEF DiscRemoveSelf
  <1>11. ASSUME NEW r \in Requests, NEW edit \in Edits, ReqSave(r, edit)
         PROVE WritesAreNotEmpty'
    BY <1>11 DEF ReqSave
  <1>12. ASSUME NEW r \in Requests, NEW edit \in Edits, ReqSaveRefused(r, edit)
         PROVE WritesAreNotEmpty'
    BY <1>12 DEF ReqSaveRefused
  <1>13. ASSUME NEW r \in Requests, ReqCreate(r) PROVE WritesAreNotEmpty'
    BY <1>13 DEF ReqCreate
  <1>14. ASSUME NEW r \in Requests, ReqDisable(r) PROVE WritesAreNotEmpty'
    BY <1>14 DEF ReqDisable
  <1>15. ASSUME NEW r \in Requests, ReqEnable(r) PROVE WritesAreNotEmpty'
    BY <1>15 DEF ReqEnable
  <1>16. ASSUME NEW r \in Requests, ReqReadDoc(r) PROVE WritesAreNotEmpty'
    <2>1. StoredDoc # None => StoredDoc # {}
      BY DEF StoredDoc
    <2> QED
      BY <1>16, <2>1 DEF ReqReadDoc
  <1>17. ASSUME NEW r \in Requests,
                \/ ReqSaveWrite(r) \/ ReqMakeShare(r) \/ ReqWriteFile(r) \/ ReqDeleteTable(r)
                \/ ReqReadFile(r) \/ ReqCreateTable(r) \/ ReqCommit(r)
         PROVE WritesAreNotEmpty'
    <2>1. UNCHANGED disc
      BY <1>17 DEF ReqSaveWrite, ReqMakeShare, ReqWriteFile, ReqDeleteTable, ReqReadFile,
                   ReqCreateTable, ReqCommit
    <2>2. /\ \A q \in Requests \ {r} : req'[q] = req[q]
          /\ req'[r].pc \notin {"save", "flush"}
      BY <1>17 DEF ReqSaveWrite, ReqMakeShare, ReqWriteFile, ReqDeleteTable, ReqReadFile,
                   ReqCreateTable, ReqCommit
    <2> QED
      BY <2>1, <2>2
  <1>18. CASE Crash
    BY <1>18 DEF Crash
  <1>19. ASSUME NEW s \in Sockets, Admit(s) \/ Connect(s) \/ Push(s) \/ Fetch(s)
         PROVE WritesAreNotEmpty'
    <2>1. UNCHANGED <<disc, req>>
      BY <1>19 DEF Admit, Connect, ConnSetLock, ConnIsEnabled, ConnExists, ConnReadFile,
           ConnCreateTable, ConnSetMaster, ConnReadServants, ConnAddServant, Push,
           PushNoDoc, PushMismatch, PushApply, PushStore, PushTell, PushServants, PushMaster,
           Tell, Fetch
    <2> QED
      BY <1>1, <2>1
  <1>20. ASSUME NEW s \in Sockets, NEW edit, PushExists(s, edit) PROVE WritesAreNotEmpty'
    BY <1>1, <1>20 DEF PushExists
  <1>21. CASE MoveToBinOrBack \/ ExpireLock \/ ExpireUserKey \/ UNCHANGED vars
    BY <1>1, <1>21 DEF MoveToBinOrBack, ExpireLock, ExpireUserKey, vars
  <1> QED
    BY <1>2, <1>3, <1>3a, <1>4, <1>5, <1>6, <1>7, <1>8, <1>9, <1>10, <1>11, <1>12, <1>13,
       <1>14, <1>15, <1>16, <1>17, <1>18, <1>19, <1>20, <1>21
       DEF Next, Disconnect, Request, Serve

\* Only the last leaver, an HTTP save and a toggle write the file.
LEMMA StepNeverEmptied ==
  TypeOK /\ WritesAreNotEmpty /\ [Next]_vars => [file # {} => file' # {}]_vars
  <1> SUFFICES ASSUME TypeOK, WritesAreNotEmpty, [Next]_vars, file # {} PROVE file' # {}
    OBVIOUS
  <1> USE DEF stores
  <1>1. ASSUME NEW s \in Sockets, Disconnect(s) PROVE file' # {}
    BY <1>1 DEF Disconnect, DiscParams, DiscServants, DiscMaster, DiscRemoveLock, DiscReadDoc,
         DiscCheckLock, DiscWriteFile, DiscDeleteTable, DiscRemoveSelf, WritesAreNotEmpty
  <1>2. ASSUME NEW r \in Requests, Serve(r) PROVE file' # {}
    BY <1>2 DEF Serve, ReqSaveWrite, ReqMakeShare, ReqReadDoc, ReqWriteFile, ReqDeleteTable,
         ReqReadFile, ReqCreateTable, ReqCommit, WritesAreNotEmpty
  <1>3. ASSUME NEW r \in Requests, Request(r) PROVE file' # {}
    BY <1>3 DEF Request, ReqSave, ReqSaveRefused, ReqCreate, ReqDisable, ReqEnable
  <1>4. ASSUME NEW s \in Sockets, Admit(s) \/ Connect(s) \/ Leave(s) \/ Push(s) \/ Fetch(s)
        PROVE file' # {}
    BY <1>4 DEF Admit, Connect, ConnSetLock, ConnIsEnabled, ConnExists, ConnReadFile,
         ConnCreateTable, ConnSetMaster, ConnReadServants, ConnAddServant, Leave, Push,
         PushNoDoc, PushMismatch, PushApply, PushStore, PushTell, PushServants, PushMaster,
         Tell, Fetch
  <1>5. ASSUME NEW s \in Sockets, NEW edit, PushExists(s, edit) PROVE file' # {}
    BY <1>5 DEF PushExists
  <1>6. CASE MoveToBinOrBack \/ ExpireLock \/ ExpireUserKey \/ Crash \/ UNCHANGED vars
    BY <1>6 DEF MoveToBinOrBack, ExpireLock, ExpireUserKey, Crash, vars
  <1> QED
    BY <1>1, <1>2, <1>3, <1>4, <1>5, <1>6 DEF Next

\* The text on disk is never replaced by an empty one, whatever overlaps.
THEOREM NeverEmptiedHolds == Spec => NeverEmptied
  <1>1. Init => TypeOK /\ WritesAreNotEmpty
    BY InitTypeOK, InitWritesAreNotEmpty
  <1>2. (TypeOK /\ WritesAreNotEmpty) /\ [Next]_vars => (TypeOK /\ WritesAreNotEmpty)'
    BY StepTypeOK, StepWritesAreNotEmpty
  <1>3. TypeOK /\ WritesAreNotEmpty /\ [Next]_vars => [file # {} => file' # {}]_vars
    BY StepNeverEmptied
  <1> QED
    BY <1>1, <1>2, <1>3, PTL DEF Spec, NeverEmptied

----------------------------------------------------------------------------
\* A file that nobody shared has no hash table.

\* The second part of UnsharedIsIdle, handler by handler.
IdleConn ==
    /\ \A o \in Owners : conn[o].pc \in
          {"idle", "lock", "share", "lockThenDone", "failed", "done"}
    /\ \A s \in Servants : conn[s].pc \in {"idle", "failed", "done"}
IdlePush == \A s \in Sockets : push[s].pc = "idle"
IdleDisc == \A s \in Sockets : disc[s].pc # "remove" /\ disc[s].list = {}
IdleReq == \A r \in Requests : req[r].pc \in {"idle", "save", "make", "done"}
Idle == IdleConn /\ IdlePush /\ IdleDisc /\ IdleReq

LEMMA InitUnsharedIsIdle == Init => UnsharedIsIdle
  BY DEF Init, UnsharedIsIdle, AtPhase, At, NoPush, Sockets

\* HSET makes a table exist, whatever was there.
LEMMA SetFieldExists ==
  ASSUME table \in Table, NEW field \in {"doc", "master", "servants"}, NEW value
  PROVE  SetField(field, value).exists
  BY DEF SetField, Table

\* The row of a shared file is never deleted.
LEMMA RowStays == TypeOK /\ [Next]_vars => (share' = "none" => share = "none")
  <1> SUFFICES ASSUME TypeOK, [Next]_vars, share # "none" PROVE share' # "none"
    OBVIOUS
  <1> USE DEF stores
  <1>1. ASSUME NEW r \in Requests, Serve(r) PROVE share' # "none"
    BY <1>1 DEF Serve, ReqSaveWrite, ReqMakeShare, ReqReadDoc, ReqWriteFile, ReqDeleteTable,
         ReqReadFile, ReqCreateTable, ReqCommit
  <1>2. ASSUME NEW r \in Requests, Request(r) PROVE share' # "none"
    BY <1>2 DEF Request, ReqSave, ReqSaveRefused, ReqCreate, ReqDisable, ReqEnable
  <1>3. ASSUME NEW s \in Sockets, Admit(s) \/ Connect(s) \/ Leave(s) \/ Push(s) \/ Fetch(s)
        PROVE share' # "none"
    BY <1>3 DEF Admit, Connect, ConnSetLock, ConnIsEnabled, ConnExists, ConnReadFile,
         ConnCreateTable, ConnSetMaster, ConnReadServants, ConnAddServant, Leave, Push,
         PushNoDoc, PushMismatch, PushApply, PushStore, PushTell, PushServants, PushMaster,
         Tell, Fetch
  <1>4. ASSUME NEW s \in Sockets, Disconnect(s) PROVE share' # "none"
    BY <1>4 DEF Disconnect, DiscParams, DiscServants, DiscMaster, DiscRemoveLock, DiscReadDoc,
         DiscCheckLock, DiscWriteFile, DiscDeleteTable, DiscRemoveSelf
  <1>5. ASSUME NEW s \in Sockets, NEW edit, PushExists(s, edit) PROVE share' # "none"
    BY <1>5 DEF PushExists
  <1>6. CASE MoveToBinOrBack \/ ExpireLock \/ ExpireUserKey \/ Crash \/ UNCHANGED vars
    BY <1>6 DEF MoveToBinOrBack, ExpireLock, ExpireUserKey, Crash, vars
  <1> QED
    BY <1>1, <1>2, <1>3, <1>4, <1>5, <1>6 DEF Next

\* A table that does not exist has no fields.
LEMMA TableWhole ==
  TypeOK /\ (table.exists \/ table = NoTable) /\ [Next]_vars =>
    (table'.exists \/ table' = NoTable)
  <1> DEFINE Whole == table.exists \/ table = NoTable
  <1> SUFFICES ASSUME TypeOK, Whole, [Next]_vars PROVE Whole'
    OBVIOUS
  <1>1. UNCHANGED table => Whole'
    OBVIOUS
  <1>2. \A field \in {"doc", "master", "servants"} : \A value :
          table' = SetField(field, value) => Whole'
    BY SetFieldExists DEF TypeOK
  <1>3. table' = NoTable => Whole'
    OBVIOUS
  <1>4. table'.exists => Whole'
    OBVIOUS
  <1> HIDE DEF Whole
  <1>5. ASSUME NEW s \in Sockets, Connect(s) PROVE Whole'
    BY <1>1, <1>2, <1>4, <1>5 DEF Connect, ConnSetLock, ConnIsEnabled, ConnExists, ConnReadFile,
         ConnCreateTable, ConnSetMaster, ConnReadServants, ConnAddServant, stores
  <1>6. ASSUME NEW s \in Sockets, Disconnect(s) PROVE Whole'
    BY <1>1, <1>2, <1>3, <1>6 DEF Disconnect, DiscParams, DiscServants, DiscMaster,
         DiscRemoveLock, DiscReadDoc,
         DiscCheckLock, DiscWriteFile, DiscDeleteTable, DiscRemoveSelf, stores
  <1>7. ASSUME NEW s \in Sockets, Push(s) PROVE Whole'
    BY <1>1, <1>2, <1>7 DEF Push, PushNoDoc, PushMismatch, PushApply, PushStore, PushTell,
         PushServants, PushMaster, Tell, stores
  <1>8. ASSUME NEW r \in Requests, Serve(r) PROVE Whole'
    BY <1>1, <1>3, <1>4, <1>8 DEF Serve, ReqSaveWrite, ReqMakeShare, ReqReadDoc, ReqWriteFile,
         ReqDeleteTable, ReqReadFile, ReqCreateTable, ReqCommit, stores
  <1>9. ASSUME NEW s \in Sockets, Admit(s) \/ Leave(s) \/ Fetch(s) PROVE Whole'
    BY <1>1, <1>9 DEF Admit, Leave, Fetch, stores
  <1>10. ASSUME NEW s \in Sockets, NEW edit, PushExists(s, edit) PROVE Whole'
    BY <1>1, <1>10 DEF PushExists, stores
  <1>11. ASSUME NEW r \in Requests, Request(r) PROVE Whole'
    BY <1>1, <1>11 DEF Request, ReqSave, ReqSaveRefused, ReqCreate, ReqDisable, ReqEnable, stores
  <1>12. CASE MoveToBinOrBack \/ ExpireLock \/ ExpireUserKey \/ Crash \/ UNCHANGED vars
    BY <1>1, <1>12 DEF MoveToBinOrBack, ExpireLock, ExpireUserKey, Crash, vars, stores
  <1> QED
    BY <1>5, <1>6, <1>7, <1>8, <1>9, <1>10, <1>11, <1>12 DEF Next

\* Without a row no handler gets to a step that touches the table.
LEMMA UnsharedStaysIdle ==
  TypeOK /\ share = "none" /\ table = NoTable /\ Idle /\ [Next]_vars =>
    table' = NoTable /\ Idle'
  <1> SUFFICES ASSUME TypeOK, share = "none", table = NoTable, Idle, [Next]_vars
               PROVE  table' = NoTable /\ Idle'
    OBVIOUS
  <1> USE DEF Idle, stores, handlers, history
  <1>0. UNCHANGED <<table, handlers>> => table' = NoTable /\ Idle'
    BY DEF IdleConn, IdlePush, IdleDisc, IdleReq
  <1>1. ASSUME NEW s \in Sockets, Admit(s) \/ Connect(s)
        PROVE  table' = NoTable /\ Idle'
    <2>1. UNCHANGED <<table, push, disc, req>>
      BY <1>1 DEF Admit, Connect, ConnSetLock, ConnIsEnabled, ConnExists, ConnReadFile,
           ConnCreateTable, ConnSetMaster, ConnReadServants, ConnAddServant, IdleConn, Sockets
    <2>2. IdleConn'
      <3>1. CASE Admit(s)
        BY <3>1 DEF Admit, Admitted, IdleConn, Sockets, TypeOK, Handler
      <3>2. CASE ConnSetLock(s)
        BY <3>2, DistinctAssumption DEF ConnSetLock, AfterLock, IdleConn, Sockets, TypeOK, Handler
      <3>3. CASE ConnIsEnabled(s)
        BY <3>3, DistinctAssumption DEF ConnIsEnabled, IdleConn, Sockets, TypeOK, Handler
      <3>4. CASE \/ ConnExists(s) \/ ConnReadFile(s) \/ ConnCreateTable(s) \/ ConnSetMaster(s)
                 \/ ConnReadServants(s) \/ ConnAddServant(s)
        BY <3>4 DEF ConnExists, ConnReadFile, ConnCreateTable, ConnSetMaster, ConnReadServants,
             ConnAddServant, IdleConn, Sockets
      <3> QED
        BY <1>1, <3>1, <3>2, <3>3, <3>4 DEF Connect
    <2> QED
      BY <2>1, <2>2 DEF IdlePush, IdleDisc, IdleReq
  <1>2. ASSUME NEW s \in Sockets, Leave(s) \/ Disconnect(s)
        PROVE  table' = NoTable /\ Idle'
    <2>1. UNCHANGED <<conn, push, req>>
      BY <1>2 DEF Leave, Disconnect, DiscParams, DiscServants, DiscMaster, DiscRemoveLock,
           DiscReadDoc, DiscCheckLock, DiscWriteFile, DiscDeleteTable, DiscRemoveSelf
    <2>2. table' = NoTable
      BY <1>2 DEF Leave, Disconnect, DiscParams, DiscServants, DiscMaster, DiscRemoveLock,
           DiscReadDoc, DiscCheckLock, DiscWriteFile, DiscDeleteTable, DiscRemoveSelf, IdleDisc
    <2>3. IdleDisc'
      <3>1. table.servants = {} /\ table.master = None /\ disc[s].list = {}
        BY DEF NoTable, IdleDisc
      <3>2. disc \in [Sockets -> Handler(DiscPhases)]
        BY DEF TypeOK
      <3>3. /\ \A t \in Sockets \ {s} : disc'[t] = disc[t]
            /\ disc'[s].pc # "remove" /\ disc'[s].list = {}
        <4>1. CASE Leave(s) \/ DiscParams(s) \/ DiscRemoveLock(s) \/ DiscDeleteTable(s)
          BY <3>1, <3>2, <4>1 DEF Leave, DiscParams, DiscRemoveLock, DiscDeleteTable, Handler
        <4>2. CASE DiscServants(s) \/ DiscMaster(s)
          BY <3>1, <3>2, <4>2 DEF DiscServants, DiscMaster, AtPhase, At
        <4>3. CASE DiscReadDoc(s) \/ DiscCheckLock(s) \/ DiscWriteFile(s) \/ DiscRemoveSelf(s)
          BY <3>1, <3>2, <4>3 DEF DiscReadDoc, DiscCheckLock, DiscWriteFile, DiscRemoveSelf, AtPhase,
             At, Handler
        <4> QED
          BY <1>2, <4>1, <4>2, <4>3 DEF Disconnect
      <3> QED
        BY <3>3 DEF IdleDisc
    <2> QED
      BY <2>1, <2>2, <2>3 DEF IdleConn, IdlePush, IdleReq
  <1>3. ASSUME NEW s \in Sockets, Push(s) PROVE FALSE
    BY <1>3 DEF Push, PushNoDoc, PushMismatch, PushApply, PushStore, PushTell, PushServants,
         PushMaster, Tell, IdlePush
  <1>4. ASSUME NEW s \in Sockets, NEW edit, PushExists(s, edit) PROVE UNCHANGED <<table, handlers>>
    BY <1>4 DEF PushExists, NoTable
  <1>5. ASSUME NEW s \in Sockets, Fetch(s) PROVE UNCHANGED <<table, handlers>>
    BY <1>5 DEF Fetch
  <1>6. ASSUME NEW r \in Requests, Request(r) \/ Serve(r)
        PROVE  table' = NoTable /\ Idle'
    <2>1. UNCHANGED <<table, conn, push, disc>>
      BY <1>6 DEF Request, ReqSave, ReqSaveRefused, ReqCreate, ReqDisable, ReqEnable, Serve,
           ReqSaveWrite, ReqMakeShare, ReqReadDoc, ReqWriteFile, ReqDeleteTable,
           ReqReadFile, ReqCreateTable, ReqCommit, IdleReq
    <2>2. req'[r].pc \in {"idle", "save", "make", "done"}
      <3>1. CASE Request(r)
        BY <3>1 DEF Request, ReqSave, ReqSaveRefused, ReqCreate, ReqDisable, ReqEnable, TypeOK,
             Handler, AtPhase, At
      <3>2. CASE Serve(r)
        BY <3>2 DEF Serve, ReqSaveWrite, ReqMakeShare, ReqReadDoc, ReqWriteFile, ReqDeleteTable,
             ReqReadFile, ReqCreateTable, ReqCommit, IdleReq, TypeOK, Handler, AtPhase, At
      <3> QED
        BY <1>6, <3>1, <3>2
    <2>3. \A q \in Requests \ {r} : req'[q] = req[q]
      <3>1. CASE Request(r)
        BY <3>1 DEF Request, ReqSave, ReqSaveRefused, ReqCreate, ReqDisable, ReqEnable, TypeOK
      <3>2. CASE Serve(r)
        BY <3>2 DEF Serve, ReqSaveWrite, ReqMakeShare, ReqReadDoc, ReqWriteFile, ReqDeleteTable,
             ReqReadFile, ReqCreateTable, ReqCommit, TypeOK
      <3> QED
        BY <1>6, <3>1, <3>2
    <2> QED
      BY <2>1, <2>2, <2>3 DEF IdleConn, IdlePush, IdleDisc, IdleReq
  <1>7. CASE Crash
    BY <1>7 DEF Crash, IdleConn, IdlePush, IdleDisc, IdleReq, AtPhase, At, NoPush, Sockets
  <1>8. CASE MoveToBinOrBack \/ ExpireLock \/ ExpireUserKey \/ UNCHANGED vars
    BY <1>0, <1>8 DEF MoveToBinOrBack, ExpireLock, ExpireUserKey, vars
  <1> QED
    BY <1>0, <1>1, <1>2, <1>3, <1>4, <1>5, <1>6, <1>7, <1>8 DEF Next

LEMMA StepUnsharedIsIdle == TypeOK /\ UnsharedIsIdle /\ [Next]_vars => UnsharedIsIdle'
  <1>1. UnsharedIsIdle <=>
          /\ table.exists \/ table = NoTable
          /\ share = "none" => table = NoTable /\ Idle
    BY DEF UnsharedIsIdle, Idle, IdleConn, IdlePush, IdleDisc, IdleReq
  <1>2. UnsharedIsIdle' <=>
          /\ table'.exists \/ table' = NoTable
          /\ share' = "none" => table' = NoTable /\ Idle'
    BY DEF UnsharedIsIdle, Idle, IdleConn, IdlePush, IdleDisc, IdleReq
  <1> QED
    BY <1>1, <1>2, RowStays, TableWhole, UnsharedStaysIdle

\* A file without a share row never has a hash table, not even one revived by a
\* late HSET of a socket that leaves or pushes after the table was deleted.
THEOREM TableImpliesShareHolds == Spec => []TableImpliesShare
  <1>1. Init => TypeOK /\ UnsharedIsIdle
    BY InitTypeOK, InitUnsharedIsIdle
  <1>2. (TypeOK /\ UnsharedIsIdle) /\ [Next]_vars => (TypeOK /\ UnsharedIsIdle)'
    BY StepTypeOK, StepUnsharedIsIdle
  <1>3. UnsharedIsIdle => TableImpliesShare
    BY DEF UnsharedIsIdle, TableImpliesShare, NoTable
  <1> QED
    BY <1>1, <1>2, <1>3, PTL DEF Spec

----------------------------------------------------------------------------
\* What the server refuses leaves no trace.

\* What an edit can be found in: the file, the table, and the copies that
\* handlers are about to write; the text of a save is not written yet.
Written(e) ==
    \/ e \in file
    \/ table.doc # None /\ e \in table.doc
    \/ \E s \in Sockets : e \in conn[s].text \/ e \in push[s].text \/ e \in disc[s].text
    \/ \E r \in Requests : req[r].pc # "save" /\ e \in req[r].text

\* Edits that have arrived and are neither written nor refused so far.
Pushed(s, e) == push[s].pc = "read" /\ push[s].edit = e
Saved(r, e) == req[r].pc = "save" /\ e \in req[r].text

Seen(e) ==
    \/ Written(e) \/ e \in refused
    \/ \E s \in Sockets : Pushed(s, e)
    \/ \E r \in Requests : Saved(r, e)

\* An edit that was never sent is nowhere; one that waits waits in one handler.
OneFateOf(e) ==
    /\ Written(e) => e \notin refused
    /\ \A s \in Sockets : Pushed(s, e) => e \notin refused /\ ~Written(e)
    /\ \A r \in Requests : Saved(r, e) => e \notin refused /\ ~Written(e)
    /\ \A s, t \in Sockets : Pushed(s, e) /\ Pushed(t, e) => s = t
    /\ \A r, q \in Requests : Saved(r, e) /\ Saved(q, e) => r = q
    /\ \A s \in Sockets, r \in Requests : ~(Pushed(s, e) /\ Saved(r, e))
    /\ Seen(e) => e \in sent \cup {Original}

OneFate == \A e \in Edits \cup {Original} : OneFateOf(e)

LEMMA InitOneFate == Init => OneFate
  <1> SUFFICES ASSUME Init, NEW e \in Edits \cup {Original} PROVE OneFateOf(e)
    BY DEF OneFate
  <1>1. refused = {} /\ (Written(e) => e = Original)
    BY DEF Init, Written, NoTable, AtPhase, At, NoPush
  <1>2. \A s \in Sockets : ~Pushed(s, e)
    BY DEF Init, Pushed, NoPush
  <1>3. \A r \in Requests : ~Saved(r, e)
    BY DEF Init, Saved, AtPhase, At
  <1> QED
    BY <1>1, <1>2, <1>3 DEF OneFateOf, Seen

\* A step that only copies what is written, or lets go of it.
LEMMA Copies ==
  ASSUME OneFate, UNCHANGED <<sent, refused>>, NEW e \in Edits \cup {Original},
         Written(e)' => Written(e),
         \A s \in Sockets : Pushed(s, e)' => Pushed(s, e),
         \A r \in Requests : Saved(r, e)' => Saved(r, e)
  PROVE  OneFateOf(e)'
  BY DEF OneFate, OneFateOf, Seen

\* A step that decides what becomes of the edit that waits in a handler.
LEMMA Settles ==
  ASSUME OneFate, UNCHANGED sent, NEW e \in Edits \cup {Original},
         (\E s \in Sockets : Pushed(s, e)) \/ (\E r \in Requests : Saved(r, e)),
         \A s \in Sockets : ~Pushed(s, e)', \A r \in Requests : ~Saved(r, e)',
         \/ refused' = refused
         \/ ~Written(e)' /\ e \in refused'
  PROVE  OneFateOf(e)'
  BY DEF OneFate, OneFateOf, Seen

LEMMA SetFieldDoc ==
  ASSUME table \in Table, NEW value
  PROVE  /\ SetField("doc", value).doc = value
         /\ SetField("master", value).doc = table.doc
         /\ SetField("servants", value).doc = table.doc
  BY DEF SetField, Table

\* Joining moves texts from the file to the table and nowhere else.
LEMMA ConnectOneFate ==
  ASSUME TypeOK, OneFate, NEW s \in Sockets, Admit(s) \/ Connect(s)
  PROVE  OneFate'
  <1> SUFFICES ASSUME NEW e \in Edits \cup {Original} PROVE OneFateOf(e)'
    BY DEF OneFate
  <1> USE DEF stores, handlers, history
  <1>1. UNCHANGED <<file, push, disc, req, sent, refused>>
    BY DEF Admit, Connect, ConnSetLock, ConnIsEnabled, ConnExists, ConnReadFile,
       ConnCreateTable, ConnSetMaster, ConnReadServants, ConnAddServant
  <1>2. conn \in [Sockets -> Handler(ConnPhases)]
    BY DEF TypeOK
  <1>3. \A c \in Sockets : e \in conn'[c].text => e \in conn[c].text \/ e \in file
    BY <1>2 DEF Admit, Connect, ConnSetLock, ConnIsEnabled, ConnExists, ConnReadFile,
       ConnCreateTable, ConnSetMaster, ConnReadServants, ConnAddServant, Handler, AtPhase, At
  <1>4. table' = table \/ table'.doc = table.doc \/ table'.doc = conn[s].text
    BY SetFieldDoc DEF TypeOK, Admit, Connect, ConnSetLock, ConnIsEnabled, ConnExists, ConnReadFile,
       ConnCreateTable, ConnSetMaster, ConnReadServants, ConnAddServant
  <1>5. Written(e)' => Written(e)
    BY <1>1, <1>3, <1>4 DEF Written
  <1> QED
    BY <1>1, <1>5, Copies DEF Pushed, Saved

\* Leaving moves texts from the table to the file and nowhere else.
LEMMA DisconnectOneFate ==
  ASSUME TypeOK, OneFate, NEW s \in Sockets, Leave(s) \/ Disconnect(s)
  PROVE  OneFate'
  <1> SUFFICES ASSUME NEW e \in Edits \cup {Original} PROVE OneFateOf(e)'
    BY DEF OneFate
  <1> USE DEF stores, handlers, history
  <1>1. UNCHANGED <<conn, push, req, sent, refused>>
    BY DEF Leave, Disconnect, DiscParams, DiscServants, DiscMaster, DiscRemoveLock, DiscReadDoc,
         DiscCheckLock, DiscWriteFile, DiscDeleteTable, DiscRemoveSelf
  <1>2. disc \in [Sockets -> Handler(DiscPhases)]
    BY DEF TypeOK
  <1>3. \A c \in Sockets :
           e \in disc'[c].text => e \in disc[c].text \/ (table.doc # None /\ e \in table.doc)
    BY <1>2 DEF Leave, Disconnect, DiscParams, DiscServants, DiscMaster, DiscRemoveLock,
         DiscReadDoc,
         DiscCheckLock, DiscWriteFile, DiscDeleteTable, DiscRemoveSelf, Handler, AtPhase, At,
         StoredDoc
  <1>4. table'.doc = table.doc \/ table'.doc = None
    BY SetFieldDoc DEF TypeOK, Leave, Disconnect, DiscParams, DiscServants, DiscMaster,
         DiscRemoveLock, DiscReadDoc,
         DiscCheckLock, DiscWriteFile, DiscDeleteTable, DiscRemoveSelf, NoTable
  <1>5. file' = file \/ file' = disc[s].text
    BY DEF Leave, Disconnect, DiscParams, DiscServants, DiscMaster, DiscRemoveLock, DiscReadDoc,
         DiscCheckLock, DiscWriteFile, DiscDeleteTable, DiscRemoveSelf
  <1>6. Written(e)' => Written(e)
    BY <1>1, <1>3, <1>4, <1>5 DEF Written
  <1> QED
    BY <1>1, <1>6, Copies DEF Pushed, Saved

\* A change that arrives has never been seen; without a table it is refused at once.
LEMMA PushExistsOneFate ==
  ASSUME TypeOK, OneFate, NEW s \in Sockets, NEW edit \in (Edits \ sent) \cup {Clear},
         PushExists(s, edit)
  PROVE  OneFate'
  <1> SUFFICES ASSUME NEW e \in Edits \cup {Original} PROVE OneFateOf(e)'
    BY DEF OneFate
  <1> USE DEF stores, handlers, history
  <1>1. /\ UNCHANGED <<file, table, conn, disc, req>> /\ push[s].pc = "idle"
        /\ sent' = sent \cup ({edit} \ {Clear})
    BY DEF PushExists, Pushing
  <1>2. \A c \in Sockets : push'[c].text = push[c].text
    BY DEF PushExists, TypeOK
  <1>3. Written(e)' = Written(e)
    BY <1>1, <1>2 DEF Written
  <1>4. \A r \in Requests : Saved(r, e)' = Saved(r, e)
    BY <1>1 DEF Saved
  <1>5. e # edit => e \in refused' <=> e \in refused
    BY DEF PushExists, Refuse
  <1>6. \A c \in Sockets : Pushed(c, e)' => Pushed(c, e) \/ (c = s /\ e = edit /\ e \notin refused')
    BY <1>1, DistinctAssumption DEF PushExists, Pushed, TypeOK, OneFate, OneFateOf, Seen
  <1>7. e = edit => ~Seen(e)
    BY DistinctAssumption DEF OneFate, OneFateOf
  <1> QED
    BY <1>1, <1>3, <1>4, <1>5, <1>6, <1>7, DistinctAssumption DEF OneFate, OneFateOf, Seen

\* A change that waits is refused or goes into a text, and then it waits no more.
LEMMA PushOneFate ==
  ASSUME TypeOK, OneFate, NEW s \in Sockets, Push(s)
  PROVE  OneFate'
  <1> SUFFICES ASSUME NEW e \in Edits \cup {Original} PROVE OneFateOf(e)'
    BY DEF OneFate
  <1> USE DEF stores, handlers, history
  <1>1. UNCHANGED <<file, conn, disc, req, sent>>
    BY DEF Push, PushNoDoc, PushMismatch, PushApply, PushStore, PushTell, PushServants,
         PushMaster, Tell
  <1>2. push \in [Sockets -> [pc : PushPhases, edit : Edits \cup {Clear},
                            list : SUBSET Servants, text : Texts]]
        /\ table \in Table
    BY DEF TypeOK
  <1>3. \A r \in Requests : Saved(r, e)' = Saved(r, e)
    BY <1>1 DEF Saved
  <1>4. \A c \in Sockets : Pushed(c, e)' => Pushed(c, e) /\ c # s
    BY <1>2 DEF Push, PushNoDoc, PushMismatch, PushApply, PushStore, PushTell, PushServants,
         PushMaster, Tell, Pushed, NoPush
  <1>5. CASE Pushed(s, e)
    <2>1. \A c \in Sockets : ~Pushed(c, e)'
      BY <1>4, <1>5 DEF OneFate, OneFateOf
    <2>2. \A r \in Requests : ~Saved(r, e)'
      BY <1>3, <1>5 DEF OneFate, OneFateOf
    <2>3. CASE PushNoDoc(s) \/ PushMismatch(s)
      <3>1. e \in refused'
        BY <1>5, <2>3, DistinctAssumption DEF PushNoDoc, PushMismatch, Refuse, Pushed
      <3>2. table' = table /\ \A c \in Sockets : e \in push'[c].text => e \in push[c].text
        BY <1>2, <2>3 DEF PushNoDoc, PushMismatch, NoPush
      <3>3. ~Written(e)
        BY <1>5 DEF OneFate, OneFateOf
      <3>4. ~Written(e)'
        BY <1>1, <3>2, <3>3 DEF Written
      <3> QED
        BY <1>1, <1>5, <2>1, <2>2, <3>1, <3>4, Settles
    <2>4. CASE PushApply(s)
      BY <1>1, <1>5, <2>1, <2>2, <2>4, Settles DEF PushApply
    <2> QED
      BY <1>5, <2>3, <2>4 DEF Push, PushStore, PushTell, PushServants, PushMaster, Tell, Pushed
  <1>6. CASE ~Pushed(s, e)
    <2>1. e \in refused' <=> e \in refused
      BY <1>6 DEF Push, PushNoDoc, PushMismatch, PushApply, PushStore, PushTell, PushServants,
           PushMaster, Tell, Refuse, Pushed
    <2>2. \A c \in Sockets : e \in push'[c].text =>
             e \in push[c].text \/ (table.doc # None /\ e \in table.doc)
      BY <1>2, <1>6 DEF Push, PushNoDoc, PushMismatch, PushApply, PushStore, PushTell,
           PushServants, PushMaster, Tell, Pushed, NoPush, StoredDoc
    <2>3. table'.doc = table.doc \/ table'.doc = push[s].text
      BY <1>2 DEF Push, PushNoDoc, PushMismatch, PushApply, PushStore, PushTell, PushServants,
           PushMaster, Tell, SetField, Table
    <2>4. Written(e)' => Written(e)
      BY <1>1, <2>2, <2>3 DEF Written
    <2> QED
      BY <1>1, <1>3, <1>4, <2>1, <2>4 DEF OneFate, OneFateOf, Seen
  <1> QED
    BY <1>5, <1>6

\* A save arrives with an edit of its own, or is refused with it.
LEMMA RequestOneFate ==
  ASSUME TypeOK, OneFate, NEW r \in Requests, Request(r)
  PROVE  OneFate'
  <1> SUFFICES ASSUME NEW e \in Edits \cup {Original} PROVE OneFateOf(e)'
    BY DEF OneFate
  <1> USE DEF stores, handlers, history
  <1>1. UNCHANGED <<file, table, conn, push, disc>> /\ req[r].pc = "idle"
    BY DEF Request, ReqSave, ReqSaveRefused, ReqCreate, ReqDisable, ReqEnable, Begin
  <1>2. req \in [Requests -> Handler(ReqPhases)]
    BY DEF TypeOK
  <1>3. \A s \in Sockets : Pushed(s, e)' = Pushed(s, e)
    BY <1>1 DEF Pushed
  <1>4. CASE ReqCreate(r) \/ ReqDisable(r) \/ ReqEnable(r)
    <2>1. /\ UNCHANGED <<sent, refused>>
          /\ \A q \in Requests : /\ req'[q].pc = "save" <=> req[q].pc = "save"
                                /\ req'[q].text = req[q].text
      BY <1>2, <1>4 DEF ReqCreate, ReqDisable, ReqEnable, Handler, Begin
    <2>2. Written(e)' = Written(e) /\ \A q \in Requests : Saved(q, e)' = Saved(q, e)
      BY <1>1, <2>1 DEF Written, Saved
    <2> QED
      BY <1>3, <2>1, <2>2, Copies
  <1>5. ASSUME NEW edit \in Edits \ sent, ReqSave(r, edit) PROVE OneFateOf(e)'
    <2>1. /\ sent' = sent \cup {edit} /\ refused' = refused
          /\ req'[r].pc = "save" /\ req'[r].text = {edit}
          /\ \A q \in Requests \ {r} : req'[q] = req[q]
      BY <1>2, <1>5 DEF ReqSave, At
    <2>2. Written(e)' => Written(e)
      BY <1>1, <2>1 DEF Written
    <2>3. \A q \in Requests : Saved(q, e)' => Saved(q, e) \/ (q = r /\ e = edit)
      BY <2>1 DEF Saved
    <2>4. e = edit => ~Seen(e)
      BY DistinctAssumption DEF OneFate, OneFateOf
    <2> QED
      BY <1>3, <2>1, <2>2, <2>3, <2>4 DEF OneFate, OneFateOf, Seen
  <1>6. ASSUME NEW edit \in Edits \ sent, ReqSaveRefused(r, edit) PROVE OneFateOf(e)'
    <2>1. /\ sent' = sent \cup {edit} /\ (e \in refused' => e \in refused \/ e = edit)
          /\ \A q \in Requests : /\ req'[q].pc = "save" <=> req[q].pc = "save"
                                /\ req'[q].text = req[q].text
      BY <1>1, <1>2, <1>6 DEF ReqSaveRefused, Handler, Refuse
    <2>2. Written(e)' = Written(e) /\ \A q \in Requests : Saved(q, e)' = Saved(q, e)
      BY <1>1, <2>1 DEF Written, Saved
    <2>3. e = edit => ~Seen(e)
      BY DistinctAssumption DEF OneFate, OneFateOf
    <2> QED
      BY <1>3, <2>1, <2>2, <2>3 DEF OneFate, OneFateOf, Seen
  <1> QED
    BY <1>4, <1>5, <1>6 DEF Request

\* A save is written, or refused when the file is in the bin; a toggle copies.
LEMMA ServeOneFate ==
  ASSUME TypeOK, OneFate, NEW r \in Requests, Serve(r)
  PROVE  OneFate'
  <1> SUFFICES ASSUME NEW e \in Edits \cup {Original} PROVE OneFateOf(e)'
    BY DEF OneFate
  <1> USE DEF stores, handlers, history
  <1>1. UNCHANGED <<conn, push, disc, sent>>
    BY DEF Serve, ReqSaveWrite, ReqMakeShare, ReqReadDoc, ReqWriteFile, ReqDeleteTable,
       ReqReadFile, ReqCreateTable, ReqCommit
  <1>2. req \in [Requests -> Handler(ReqPhases)] /\ table \in Table
    BY DEF TypeOK
  <1>3. \A s \in Sockets : Pushed(s, e)' = Pushed(s, e)
    BY <1>1 DEF Pushed
  <1>4. \A q \in Requests : Saved(q, e)' => Saved(q, e) /\ q # r
    BY <1>2 DEF Serve, ReqSaveWrite, ReqMakeShare, ReqReadDoc, ReqWriteFile, ReqDeleteTable,
       ReqReadFile, ReqCreateTable, ReqCommit, Saved, Handler, AtPhase, At
  <1>5. CASE ReqSaveWrite(r)
    <2>1. /\ req[r].pc = "save" /\ table' = table
          /\ \A q \in Requests : req'[q].text = {} \/ req'[q] = req[q]
          /\ \/ refused' = refused /\ file' = req[r].text
             \/ refused' = refused \cup req[r].text /\ file' = file
      BY <1>2, <1>5 DEF ReqSaveWrite, AtPhase, At
    <2>2. CASE Saved(r, e)
      <3>1. \A s \in Sockets : ~Pushed(s, e)'
        BY <1>3, <2>2 DEF OneFate, OneFateOf
      <3>2. \A q \in Requests : ~Saved(q, e)'
        BY <1>4, <2>2 DEF OneFate, OneFateOf
      <3>3. file' = file => ~Written(e)'
        <4>1. ~Written(e)
          BY <2>2 DEF OneFate, OneFateOf
        <4> QED
          BY <1>1, <2>1, <4>1 DEF Written
      <3> QED
        BY <1>1, <2>1, <2>2, <3>1, <3>2, <3>3, Settles DEF Saved
    <2>3. CASE ~Saved(r, e)
      <3>1. e \notin req[r].text
        BY <2>1, <2>3 DEF Saved
      <3>2. Written(e)' => Written(e)
        BY <1>1, <2>1, <3>1 DEF Written
      <3>3. e \in refused' <=> e \in refused
        BY <2>1, <3>1
      <3> QED
        BY <1>1, <1>3, <1>4, <3>2, <3>3 DEF OneFate, OneFateOf, Seen
    <2> QED
      BY <2>2, <2>3
  <1>6. CASE ~ReqSaveWrite(r)
    <2>1. req[r].pc # "save" /\ refused' = refused
      BY <1>6 DEF Serve, ReqMakeShare, ReqReadDoc, ReqWriteFile, ReqDeleteTable,
         ReqReadFile, ReqCreateTable, ReqCommit
    <2>2. \A q \in Requests : e \in req'[q].text =>
             \/ q # r /\ req'[q] = req[q]
             \/ e \in req[r].text \/ e \in file \/ (table.doc # None /\ e \in table.doc)
      BY <1>2, <1>6 DEF Serve, ReqMakeShare, ReqReadDoc, ReqWriteFile, ReqDeleteTable,
         ReqReadFile, ReqCreateTable, ReqCommit, Handler, AtPhase, At, StoredDoc
    <2>3. table'.doc = table.doc \/ table'.doc = None \/ table'.doc = req[r].text
      BY <1>2, <1>6 DEF Serve, ReqMakeShare, ReqReadDoc, ReqWriteFile, ReqDeleteTable,
         ReqReadFile, ReqCreateTable, ReqCommit, NoTable
    <2>4. file' = file \/ file' = req[r].text
      BY <1>6 DEF Serve, ReqMakeShare, ReqReadDoc, ReqWriteFile, ReqDeleteTable,
         ReqReadFile, ReqCreateTable, ReqCommit
    <2>5. Written(e)' => Written(e)
      BY <1>1, <2>1, <2>2, <2>3, <2>4 DEF Written
    <2> QED
      BY <1>1, <1>3, <1>4, <2>1, <2>5, Copies
  <1> QED
    BY <1>5, <1>6

LEMMA StepOneFate == TypeOK /\ OneFate /\ [Next]_vars => OneFate'
  <1> SUFFICES ASSUME TypeOK, OneFate, [Next]_vars PROVE OneFate'
    OBVIOUS
  <1> USE DEF stores, handlers, history
  <1>1. ASSUME UNCHANGED <<file, table, handlers, sent, refused>> PROVE OneFate'
    <2> SUFFICES ASSUME NEW e \in Edits \cup {Original} PROVE OneFateOf(e)'
      BY DEF OneFate
    <2>1. Written(e)' = Written(e)
      BY <1>1 DEF Written
    <2> QED
      BY <1>1, <2>1, Copies DEF Pushed, Saved
  <1>2. CASE Crash
    <2> SUFFICES ASSUME NEW e \in Edits \cup {Original} PROVE OneFateOf(e)'
      BY DEF OneFate
    <2>1. /\ \A s \in Sockets : e \in conn'[s].text => e \in conn[s].text
          /\ \A s \in Sockets : e \in disc'[s].text => e \in disc[s].text
          /\ \A s \in Sockets : push'[s].pc = "idle" /\ push'[s].text = {}
      BY <1>2 DEF Crash, AtPhase, At, NoPush
    <2>2. \A r \in Requests : req'[r] = req[r] \/ (req'[r].pc = "done" /\ req'[r].text = {})
      BY <1>2 DEF Crash, AtPhase, At
    <2>3. UNCHANGED <<file, table, sent, refused>>
      BY <1>2 DEF Crash
    <2> HIDE DEF stores, handlers, history
    <2>4. Written(e)' => Written(e)
      BY <2>1, <2>2, <2>3 DEF Written
    <2> QED
      BY <2>1, <2>2, <2>3, <2>4, Copies DEF Pushed, Saved
  <1>3. ASSUME NEW s \in Sockets, Fetch(s) PROVE OneFate'
    BY <1>1, <1>3 DEF Fetch
  <1>4. CASE MoveToBinOrBack \/ ExpireLock \/ ExpireUserKey \/ UNCHANGED vars
    BY <1>1, <1>4 DEF MoveToBinOrBack, ExpireLock, ExpireUserKey, vars
  <1>5. ASSUME NEW s \in Sockets, NEW edit \in (Edits \ sent) \cup {Clear}, PushExists(s, edit)
        PROVE  OneFate'
    BY <1>5, PushExistsOneFate
  <1> QED
    BY <1>2, <1>3, <1>4, <1>5, ConnectOneFate, DisconnectOneFate, PushOneFate, RequestOneFate,
       ServeOneFate DEF Next

\* Whatever stale copies the handlers hold and write back, an edit that the
\* server refused or ignored is never on disk nor in the table (replaceText,
\* handlePushUpdates, saveFileStructure, toggleIsEnabled).
THEOREM RefusedLeavesNoTraceHolds == Spec => []RefusedLeavesNoTrace
  <1>1. Init => TypeOK /\ OneFate
    BY InitTypeOK, InitOneFate
  <1>2. (TypeOK /\ OneFate) /\ [Next]_vars => (TypeOK /\ OneFate)'
    BY StepTypeOK, StepOneFate
  <1>3. TypeOK /\ OneFate => RefusedLeavesNoTrace
    <2> SUFFICES ASSUME TypeOK, OneFate, NEW e \in refused
                 PROVE  e \notin file /\ (table.doc # None => e \notin table.doc)
      BY DEF RefusedLeavesNoTrace
    <2>1. e \in Edits \cup {Original}
      BY DEF TypeOK, Texts
    <2> QED
      BY <2>1 DEF OneFate, OneFateOf, Written
  <1> QED
    BY <1>1, <1>2, <1>3, PTL DEF Spec
============================================================================
