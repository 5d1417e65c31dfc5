-------------------------- MODULE DocSessionProofs --------------------------
(***************************************************************************)
(* Tables, locks and handlers implement the session its users see, for     *)
(* every number of sockets, requests and edits, when a push overlaps only  *)
(* joins and saves, and nothing but saves overlaps anything else.          *)
(***************************************************************************)
EXTENDS MCDocCollab, DocCollabProofs

\* What the refinement supposes of the environment.  The other offers make it
\* false: a forced save, a change set that deletes all the text, a file that goes
\* to the bin, a restart, an expired lock and a table refilled from the file.
SessionRegime ==
    /\ SessionMutex \subseteq Exclusive
    /\ Offers \subseteq {"save", "create", "disable", "fetch", "tabs", "expireUser"}

-----------------------------------------------------------------------------
\* The inductive invariant.

\* Who runs beside whom.
Apart ==
    /\ \A s, t \in Sockets : Connecting(s) /\ Connecting(t) => s = t
    /\ \A s, t \in Sockets : Leaving(s) /\ Leaving(t) => s = t
    /\ \A s, t \in Sockets : Pushing(s) /\ Pushing(t) => s = t
    /\ \A q, r \in Requests : Toggling(q) /\ Toggling(r) => q = r
    /\ \A s, t \in Sockets : ~(Leaving(s) /\ (Connecting(t) \/ Pushing(t)))
    /\ \A s \in Sockets, r \in Requests :
          /\ ~(Connecting(s) /\ (Saving(r) \/ Toggling(r)))
          /\ ~(Leaving(s) /\ (Saving(r) \/ Toggling(r)))
          /\ ~(Pushing(s) /\ Toggling(r))
    /\ \A q, r \in Requests : ~(Saving(q) /\ Toggling(r))

\* A session is open behind the lock, until the last leaver has taken it.
OpenIsLocked ==
    /\ table.exists =>
          \/ lock # None
          \/ \E s \in Sockets : disc[s].pc \in {"text", "check", "write", "delete"}
    /\ \A s \in Sockets :
          conn[s].pc \in {"share", "exists", "read", "create", "join", "add"} => lock # None
    /\ \A s \in Sockets : disc[s].pc \in {"text", "check", "write", "delete"} => lock = None
    /\ \A r \in Requests : Saving(r) => ~table.exists /\ \E e \in Edits : req[r].text = {e}

\* Whether there is a table does not change under a handler that relies on it.
TableIsThere ==
    /\ table.exists \/ table = NoTable
    /\ table.exists => table.doc # None
    /\ \A s \in Sockets : conn[s].pc \in {"read", "create"} => ~table.exists
    /\ \A s \in Sockets : conn[s].pc \in {"join", "add"} => table.exists
    /\ \A s \in Sockets : Pushing(s) => table.exists /\ push[s].edit \in Edits
    /\ \A s \in Sockets : disc[s].pc = "remove" => table.exists
    /\ \A s \in Sockets : disc[s].pc = "master" => disc[s].list = table.servants

\* The copies that handlers hold are the text, and what was written is on disk.
CopiesAreTheText ==
    /\ table.doc = {} => file = {}
    /\ \A s \in Sockets : conn[s].pc = "create" => conn[s].text = file
    /\ \A s \in Sockets : push[s].pc = "store" => push[s].text = table.doc \cup {push[s].edit}
    /\ \A s \in Sockets : disc[s].pc \in {"check", "write"} => disc[s].text = table.doc
    /\ \A s \in Sockets : disc[s].pc = "delete" /\ table.exists => file = table.doc
    /\ \A r \in Requests : req[r].pc = "flush" => req[r].text = table.doc
    /\ \A r \in Requests : req[r].pc = "drop" /\ table.exists => file = table.doc

InSession ==
    /\ inBin = FALSE
    /\ \A r \in Requests : req[r].pc \notin {"read", "fill", "enabling"}
    /\ Apart /\ OpenIsLocked /\ TableIsThere /\ CopiesAreTheText

LEMMA ExclusivePairs ==
  ASSUME SessionRegime
  PROVE  /\ \A other \in {"connect", "disconnect", "save", "toggle"} : {"connect", other} \in Exclusive
         /\ \A other \in Kinds : {"disconnect", other} \in Exclusive
         /\ \A other \in {"push", "disconnect", "toggle"} : {"push", other} \in Exclusive
         /\ \A other \in {"connect", "disconnect", "toggle"} : {"save", other} \in Exclusive
         /\ \A other \in Kinds : {"toggle", other} \in Exclusive
  <1>1. \A k, l \in Kinds :
          {k, l} \notin {{"push", "connect"}, {"push", "save"}, {"save"}} => {k, l} \in Exclusive
    BY DEF SessionRegime, SessionMutex
  <1>2. \A k, l : "disconnect" \in {k, l} \/ "toggle" \in {k, l} =>
          {k, l} \notin {{"push", "connect"}, {"push", "save"}, {"save"}}
    <2>1. ASSUME NEW S, "disconnect" \in S \/ "toggle" \in S
          PROVE  S \notin {{"push", "connect"}, {"push", "save"}, {"save"}}
      <3>1. S # {"push", "connect"}
        BY <2>1
      <3>2. S # {"push", "save"}
        BY <2>1
      <3>3. S # {"save"}
        BY <2>1
      <3> QED BY <3>1, <3>2, <3>3
    <2> QED BY <2>1
  <1>3. \A k \in {"connect", "push"} :
          {k} \notin {{"push", "connect"}, {"push", "save"}, {"save"}}
    <2>1. ASSUME NEW k \in {"connect", "push"}
          PROVE  {k} \notin {{"push", "connect"}, {"push", "save"}, {"save"}}
      <3>1. {k} # {"push", "connect"}
        BY <2>1
      <3>2. {k} # {"push", "save"}
        BY <2>1
      <3>3. {k} # {"save"}
        BY <2>1
      <3> QED BY <3>1, <3>2, <3>3
    <2> QED BY <2>1
  <1>4. {"connect", "save"} \notin {{"push", "connect"}, {"push", "save"}, {"save"}}
    <2> DEFINE S == {"connect", "save"}
    <2>1. S # {"push", "connect"}
      OBVIOUS
    <2>2. S # {"push", "save"}
      OBVIOUS
    <2>3. S # {"save"}
      OBVIOUS
    <2> QED BY <2>1, <2>2, <2>3
  <1>5. {"connect", "connect"} \in Exclusive /\ {"push", "push"} \in Exclusive
    BY <1>1, <1>3 DEF Kinds
  <1>6. {"connect", "save"} \in Exclusive
    BY <1>1, <1>4 DEF Kinds
  <1>7. \A k \in Kinds : /\ {"disconnect", k} \in Exclusive /\ {k, "disconnect"} \in Exclusive
                        /\ {"toggle", k} \in Exclusive /\ {k, "toggle"} \in Exclusive
    BY <1>1, <1>2 DEF Kinds
  <1>8. {"save", "connect"} = {"connect", "save"}
    OBVIOUS
  <1>9. {"connect", "push", "save", "disconnect", "toggle"} \subseteq Kinds
    BY DEF Kinds
  <1> QED BY <1>5, <1>6, <1>7, <1>8, <1>9

\* What is not running when a handler starts.
LEMMA StartsApart ==
  ASSUME SessionRegime
  PROVE  /\ MayStart("connect") =>
              /\ \A s \in Sockets : ~Connecting(s) /\ ~Leaving(s)
              /\ \A r \in Requests : ~Saving(r) /\ ~Toggling(r)
         /\ MayStart("disconnect") \/ MayStart("toggle") =>
              /\ \A s \in Sockets : ~Connecting(s) /\ ~Leaving(s) /\ ~Pushing(s)
              /\ \A r \in Requests : ~Saving(r) /\ ~Toggling(r)
         /\ MayStart("push") =>
              /\ \A s \in Sockets : ~Pushing(s) /\ ~Leaving(s)
              /\ \A r \in Requests : ~Toggling(r)
         /\ MayStart("save") =>
              /\ \A s \in Sockets : ~Connecting(s) /\ ~Leaving(s)
              /\ \A r \in Requests : ~Toggling(r)
  <1>1. \A k : MayStart(k) => \A other \in Kinds : {k, other} \in Exclusive => Active(other) = {}
    BY DEF MayStart
  <1>2. /\ Active("connect") = {} => \A s \in Sockets : ~Connecting(s)
        /\ Active("disconnect") = {} => \A s \in Sockets : ~Leaving(s)
        /\ Active("push") = {} => \A s \in Sockets : ~Pushing(s)
        /\ Active("save") = {} => \A r \in Requests : ~Saving(r)
        /\ Active("toggle") = {} => \A r \in Requests : ~Toggling(r)
    BY DEF Active
  <1>3. {"connect", "push", "save", "disconnect", "toggle"} \subseteq Kinds
    BY DEF Kinds
  <1>4. MayStart("connect") =>
          Active("connect") = {} /\ Active("disconnect") = {} /\ Active("save") = {}
          /\ Active("toggle") = {}
    BY <1>1, <1>3, ExclusivePairs
  <1>5. MayStart("disconnect") =>
          Active("connect") = {} /\ Active("disconnect") = {} /\ Active("save") = {}
          /\ Active("toggle") = {} /\ Active("push") = {}
    BY <1>1, <1>3, ExclusivePairs
  <1>6. MayStart("toggle") =>
          Active("connect") = {} /\ Active("disconnect") = {} /\ Active("save") = {}
          /\ Active("toggle") = {} /\ Active("push") = {}
    BY <1>1, <1>3, ExclusivePairs
  <1>7. MayStart("push") => Active("push") = {} /\ Active("disconnect") = {} /\ Active("toggle") = {}
    BY <1>1, <1>3, ExclusivePairs
  <1>8. MayStart("save") =>
          Active("connect") = {} /\ Active("disconnect") = {} /\ Active("toggle") = {}
    BY <1>1, <1>3, ExclusivePairs
  <1> QED BY <1>2, <1>4, <1>5, <1>6, <1>7, <1>8

-----------------------------------------------------------------------------
\* The invariant is inductive.

LEMMA InitInSession == Init => InSession
  <1> SUFFICES ASSUME Init PROVE InSession
    OBVIOUS
  <1>1. /\ \A s \in Sockets : conn[s].pc = "idle" /\ disc[s].pc = "idle" /\ push[s].pc = "idle"
        /\ \A r \in Requests : req[r].pc = "idle"
        /\ ~table.exists /\ table = NoTable /\ table.doc = None /\ inBin = FALSE
    BY DEF Init, AtPhase, At, NoPush, NoTable
  <1>2. None # {}
    BY DistinctAssumption
  <1> QED BY <1>1, <1>2 DEF InSession, Apart, OpenIsLocked, TableIsThere, CopiesAreTheText,
        Connecting, Leaving, Pushing, Saving, Toggling

\* A join runs beside a push and nothing else.
LEMMA JoinsApart ==
  ASSUME SessionRegime, TypeOK, InSession, NEW s \in Sockets, Admit(s) \/ Connect(s)
  PROVE  /\ \A t \in Sockets : ~Leaving(t) /\ (Connecting(t) => t = s)
         /\ \A r \in Requests : ~Saving(r) /\ ~Toggling(r)
  <1>1. CASE Admit(s)
    BY <1>1, StartsApart DEF Admit
  <1>2. CASE Connect(s)
    <2>1. Connecting(s)
      BY <1>2 DEF Connect, ConnSetLock, ConnIsEnabled, ConnExists, ConnReadFile,
         ConnCreateTable, ConnSetMaster, ConnReadServants, ConnAddServant, Connecting
    <2> QED BY <2>1 DEF InSession, Apart
  <1> QED BY <1>1, <1>2

\* What a step of a join does to the table: nothing, or a field, or all of it.
LEMMA JoinTable ==
  ASSUME TypeOK, InSession, NEW s \in Sockets, Admit(s) \/ Connect(s)
  PROVE  \/ table' = table
         \/ /\ conn[s].pc \in {"join", "add"} /\ table.exists /\ table'.exists
            /\ table'.doc = table.doc
         \/ /\ conn[s].pc = "create" /\ ~table.exists /\ table'.exists
            /\ table'.doc = conn[s].text /\ conn[s].text = file
  <1>1. CASE ConnCreateTable(s)
    BY <1>1 DEF ConnCreateTable, InSession, TableIsThere, CopiesAreTheText
  <1>2. CASE ConnSetMaster(s) \/ ConnAddServant(s)
    BY <1>2, SetFieldExists, SetFieldDoc
       DEF ConnSetMaster, ConnAddServant, InSession, TableIsThere, TypeOK
  <1>3. CASE \/ Admit(s) \/ ConnSetLock(s) \/ ConnIsEnabled(s) \/ ConnExists(s)
             \/ ConnReadFile(s) \/ ConnReadServants(s)
    BY <1>3 DEF Admit, ConnSetLock, ConnIsEnabled, ConnExists, ConnReadFile,
       ConnReadServants, stores
  <1> QED BY <1>1, <1>2, <1>3 DEF Connect

LEMMA JoinInSession ==
  ASSUME SessionRegime, TypeOK, InSession, NEW s \in Sockets, Admit(s) \/ Connect(s)
  PROVE  InSession'
  <1> USE DEF stores, handlers, history
  <1>1. /\ UNCHANGED <<inBin, file, push, disc, req>>
        /\ \A t \in Sockets \ {s} : conn'[t] = conn[t]
    BY DEF TypeOK, Admit, Connect, ConnSetLock, ConnIsEnabled, ConnExists, ConnReadFile,
       ConnCreateTable, ConnSetMaster, ConnReadServants, ConnAddServant
  <1>2. /\ \A t \in Sockets : ~Leaving(t) /\ (Connecting(t) => t = s)
        /\ \A r \in Requests : ~Saving(r) /\ ~Toggling(r)
    BY JoinsApart
  <1>3. /\ \A t \in Sockets : ~Leaving(t)' /\ (Connecting(t)' => t = s)
        /\ \A t \in Sockets : Pushing(t)' <=> Pushing(t)
        /\ \A r \in Requests : ~Saving(r)' /\ ~Toggling(r)'
    BY <1>1, <1>2 DEF Leaving, Connecting, Pushing, Saving, Toggling
  <1>4. /\ \/ table' = table
           \/ /\ conn[s].pc \in {"join", "add"} /\ table.exists /\ table'.exists
              /\ table'.doc = table.doc
           \/ /\ conn[s].pc = "create" /\ ~table.exists /\ table'.exists
              /\ table'.doc = conn[s].text /\ conn[s].text = file
        /\ conn[s].text \in Texts /\ None \notin Texts
    BY JoinTable, DistinctAssumption DEF TypeOK, Handler, Texts
  <1>5. inBin = FALSE /\ s # None
    BY DistinctAssumption DEF InSession
  <1>6. /\ conn'[s].pc \in {"join", "add"} => table.exists /\ table' = table
        /\ conn'[s].pc \in {"read", "create"} => ~table.exists /\ table' = table
        /\ conn'[s].pc = "create" => conn'[s].text = file
        /\ table' # table => conn[s].pc \in {"join", "add", "create"} /\ conn'[s].pc = "done"
        /\ lock' = s
           \/ /\ lock' = lock
              /\ conn'[s].pc \in {"share", "exists", "read", "create", "join", "add"} =>
                   conn[s].pc \in {"share", "exists", "read", "create", "join", "add"}
    BY <1>5 DEF InSession, TableIsThere, TypeOK, Handler, Admit, Connect, ConnSetLock,
       AfterLock, ConnIsEnabled, ConnExists, ConnReadFile, ConnCreateTable, ConnSetMaster,
       ConnReadServants, ConnAddServant, AtPhase, At
  <1>7. Apart'
    BY <1>3 DEF InSession, Apart
  <1>8. OpenIsLocked'
    <2>1. \A t \in Sockets :
            conn'[t].pc \in {"share", "exists", "read", "create", "join", "add"} => lock' # None
      BY <1>1, <1>5, <1>6 DEF InSession, OpenIsLocked
    <2>2. \A t \in Sockets : disc'[t].pc \notin {"text", "check", "write", "delete"}
      BY <1>3 DEF Leaving
    <2>3. table'.exists => lock' # None
      <3>1. table.exists => lock # None
        BY <1>1, <2>2 DEF InSession, OpenIsLocked
      <3>2. conn[s].pc \in {"join", "add", "create"} => lock # None
        BY DEF InSession, OpenIsLocked
      <3> QED BY <1>4, <1>5, <1>6, <3>1, <3>2
    <2> QED BY <1>3, <2>1, <2>2, <2>3 DEF OpenIsLocked
  <1>9. TableIsThere'
    <2>1. \A t \in Sockets \ {s} : conn'[t].pc \notin {"read", "create", "join", "add"}
      BY <1>3 DEF Connecting
    <2>2. (table.exists => table'.exists) /\ (table'.exists \/ table' = NoTable)
      BY <1>4 DEF InSession, TableIsThere
    <2>3. table'.exists => table'.doc # None
      BY <1>4 DEF InSession, TableIsThere
    <2>4. \A t \in Sockets : disc'[t].pc \notin {"remove", "master"}
      BY <1>3 DEF Leaving
    <2> QED BY <1>1, <1>3, <1>6, <2>1, <2>2, <2>3, <2>4 DEF InSession, TableIsThere
  <1>10. CopiesAreTheText'
    <2>1. \A t \in Sockets : conn'[t].pc = "create" => conn'[t].text = file
      BY <1>3, <1>6 DEF Connecting
    <2>2. \A t \in Sockets : disc'[t].pc \notin {"check", "write", "delete"}
      BY <1>3 DEF Leaving
    <2>3. \A r \in Requests : req'[r].pc \notin {"flush", "drop"}
      BY <1>3 DEF Toggling
    <2>4. \A t \in Sockets : Pushing(t) => table'.doc = table.doc
      BY <1>4 DEF InSession, TableIsThere
    <2>5. table'.doc = {} => file = {}
      BY <1>4 DEF InSession, CopiesAreTheText
    <2> QED BY <1>1, <2>1, <2>2, <2>3, <2>4, <2>5 DEF InSession, CopiesAreTheText, Pushing
  <1> QED BY <1>1, <1>5, <1>7, <1>8, <1>9, <1>10 DEF InSession

\* A leave runs alone.
LEMMA LeavesApart ==
  ASSUME SessionRegime, TypeOK, InSession, NEW s \in Sockets, Leave(s) \/ Disconnect(s)
  PROVE  /\ \A t \in Sockets : ~Connecting(t) /\ ~Pushing(t) /\ (Leaving(t) => t = s)
         /\ \A r \in Requests : ~Saving(r) /\ ~Toggling(r)
  <1>1. CASE Leave(s)
    BY <1>1, StartsApart DEF Leave
  <1>2. CASE Disconnect(s)
    <2>1. Leaving(s)
      BY <1>2 DEF Disconnect, DiscParams, DiscServants, DiscMaster, DiscRemoveLock, DiscReadDoc,
         DiscCheckLock, DiscWriteFile, DiscDeleteTable, DiscRemoveSelf, Leaving
    <2> QED BY <2>1 DEF InSession, Apart
  <1> QED BY <1>1, <1>2

\* What a step of a leave does to the table and the file.
LEMMA LeaveStores ==
  ASSUME TypeOK, InSession, NEW s \in Sockets, Leave(s) \/ Disconnect(s)
  PROVE  \/ UNCHANGED <<table, file>>
         \/ /\ disc[s].pc = "remove" /\ file' = file
            /\ table.exists /\ table'.exists /\ table'.doc = table.doc
         \/ /\ disc[s].pc = "write" /\ table' = table
            /\ file' = table.doc /\ table.doc = disc[s].text
         \/ /\ disc[s].pc = "delete" /\ table' = NoTable /\ file' = file
            /\ table.exists => file = table.doc
  <1>1. CASE DiscRemoveSelf(s)
    BY <1>1, SetFieldExists, SetFieldDoc DEF DiscRemoveSelf, InSession, TableIsThere, TypeOK
  <1>2. CASE DiscWriteFile(s)
    BY <1>2 DEF DiscWriteFile, InSession, CopiesAreTheText
  <1>3. CASE DiscDeleteTable(s)
    BY <1>3 DEF DiscDeleteTable, InSession, CopiesAreTheText
  <1>4. CASE \/ Leave(s) \/ DiscParams(s) \/ DiscServants(s) \/ DiscMaster(s) \/ DiscRemoveLock(s)
             \/ DiscReadDoc(s) \/ DiscCheckLock(s)
    BY <1>4 DEF Leave, DiscParams, DiscServants, DiscMaster, DiscRemoveLock, DiscReadDoc,
         DiscCheckLock, stores
  <1> QED BY <1>1, <1>2, <1>3, <1>4 DEF Disconnect

LEMMA LeaveInSession ==
  ASSUME SessionRegime, TypeOK, InSession, NEW s \in Sockets, Leave(s) \/ Disconnect(s)
  PROVE  InSession'
  <1> USE DEF stores, handlers, history
  <1>1. /\ UNCHANGED <<inBin, conn, push, req>>
        /\ \A t \in Sockets \ {s} : disc'[t] = disc[t]
    BY DEF TypeOK, Leave, Disconnect, DiscParams, DiscServants, DiscMaster, DiscRemoveLock,
       DiscReadDoc, DiscCheckLock, DiscWriteFile, DiscDeleteTable, DiscRemoveSelf
  <1>2. /\ \A t \in Sockets : ~Connecting(t) /\ ~Pushing(t) /\ (Leaving(t) => t = s)
        /\ \A r \in Requests : ~Saving(r) /\ ~Toggling(r)
    BY LeavesApart
  <1>3. /\ \A t \in Sockets : ~Connecting(t)' /\ ~Pushing(t)' /\ (Leaving(t)' => t = s)
        /\ \A r \in Requests : ~Saving(r)' /\ ~Toggling(r)'
    BY <1>1, <1>2 DEF Leaving, Connecting, Pushing, Saving, Toggling
  <1>4. /\ \A t \in Sockets : conn'[t].pc \in {"idle", "failed", "done"} /\ push'[t].pc = "idle"
        /\ \A t \in Sockets \ {s} : disc'[t].pc \in {"idle", "done"}
        /\ \A r \in Requests : req'[r].pc \notin {"save", "flush", "drop"}
    BY <1>3 DEF Leaving, Connecting, Pushing, Saving, Toggling
  <1>5. \/ UNCHANGED <<table, file>>
        \/ /\ disc[s].pc = "remove" /\ file' = file
           /\ table.exists /\ table'.exists /\ table'.doc = table.doc
        \/ /\ disc[s].pc = "write" /\ table' = table
           /\ file' = table.doc /\ table.doc = disc[s].text
        \/ /\ disc[s].pc = "delete" /\ table' = NoTable /\ file' = file
           /\ table.exists => file = table.doc
    BY LeaveStores
  <1>6. inBin = FALSE /\ table \in Table
    BY DEF InSession, TypeOK
  <1>7. Apart'
    BY <1>3 DEF Apart
  <1>8. /\ disc'[s].pc \in {"text", "check", "write", "delete"} => lock' = None
        /\ lock' = lock \/ (lock' = None /\ disc'[s].pc = "text")
        /\ disc[s].pc \in {"text", "check", "write", "delete"} =>
             disc'[s].pc \in {"text", "check", "write", "delete"} \/ disc[s].pc = "delete"
        /\ disc[s].pc = "delete" => table' = NoTable
    <2>1. disc[s].pc \in {"text", "check", "write", "delete"} => lock = None
      BY DEF InSession, OpenIsLocked
    <2>2. CASE DiscReadDoc(s)
      BY <2>1, <2>2 DEF DiscReadDoc, TypeOK, AtPhase, At
    <2>3. CASE DiscCheckLock(s)
      BY <2>1, <2>3 DEF DiscCheckLock, TypeOK, Handler
    <2>4. CASE DiscWriteFile(s)
      BY <1>6, <2>1, <2>4 DEF DiscWriteFile, TypeOK, AtPhase, At
    <2>5. CASE DiscRemoveLock(s) \/ DiscDeleteTable(s)
      BY <2>5 DEF DiscRemoveLock, DiscDeleteTable, TypeOK, Handler
    <2>6. CASE Leave(s) \/ DiscParams(s) \/ DiscServants(s) \/ DiscMaster(s) \/ DiscRemoveSelf(s)
      <3>1. lock' = lock /\ disc'[s].pc \notin {"text", "check", "write", "delete"}
        BY <1>6, <2>6 DEF Leave, DiscParams, DiscServants, DiscMaster, DiscRemoveSelf, TypeOK,
             Handler, AtPhase, At
      <3>2. disc[s].pc \notin {"text", "check", "write", "delete"}
        BY <2>6 DEF Leave, Connected, DiscParams, DiscServants, DiscMaster, DiscRemoveSelf
      <3> QED BY <3>1, <3>2
    <2> QED BY <2>2, <2>3, <2>4, <2>5, <2>6 DEF Disconnect
  <1>9. OpenIsLocked'
    <2>1. table'.exists => lock' # None \/ disc'[s].pc \in {"text", "check", "write", "delete"}
      <3>1. ASSUME table'.exists, lock' = lock
            PROVE  lock # None \/ disc'[s].pc \in {"text", "check", "write", "delete"}
        <4>1. table.exists /\ disc[s].pc # "delete"
          BY <1>5, <1>8, <3>1 DEF NoTable
        <4>2. lock # None \/ disc[s].pc \in {"text", "check", "write", "delete"}
          BY <1>1, <1>4, <4>1 DEF InSession, OpenIsLocked
        <4> QED BY <1>8, <4>1, <4>2
      <3> QED BY <1>8, <3>1
    <2> QED BY <1>3, <1>4, <1>8, <2>1 DEF OpenIsLocked
  <1>10. /\ disc'[s].pc = "remove" => table.exists /\ table' = table
         /\ disc'[s].pc = "master" => table' = table /\ disc'[s].list = table.servants
    <2>1. (table.servants # {} \/ table.master # None) => table.exists
      BY DEF InSession, TableIsThere, NoTable
    <2> QED BY <1>6, <2>1 DEF InSession, TableIsThere, TypeOK, Handler, Leave, Disconnect,
         DiscParams, DiscServants, DiscMaster, DiscRemoveLock, DiscReadDoc, DiscCheckLock,
         DiscWriteFile, DiscDeleteTable, DiscRemoveSelf, AtPhase, At
  <1>11. TableIsThere'
    <2>1. table'.exists \/ table' = NoTable
      BY <1>5 DEF InSession, TableIsThere
    <2>2. table'.exists => table'.doc # None
      BY <1>5 DEF InSession, TableIsThere, NoTable
    <2> QED BY <1>3, <1>4, <1>10, <2>1, <2>2 DEF TableIsThere
  <1>12. /\ disc'[s].pc \in {"check", "write"} =>
              table' = table /\ file' = file /\ disc'[s].text = table.doc
         /\ disc'[s].pc = "delete" => table' = table /\ (table.exists => file' = table.doc)
    <2>1. StoredDoc = None => table.doc \in {None, {}}
      BY DEF StoredDoc
    <2>2. StoredDoc # None => StoredDoc = table.doc
      BY DEF StoredDoc
    <2>3. table.exists /\ table.doc \in {None, {}} => file = table.doc
      BY DEF InSession, TableIsThere, CopiesAreTheText
    <2> HIDE DEF stores, history
    <2>4. CASE DiscReadDoc(s)
      BY <2>1, <2>2, <2>3, <2>4 DEF DiscReadDoc, TypeOK, AtPhase, At, stores
    <2>5. CASE DiscCheckLock(s)
      BY <2>5 DEF DiscCheckLock, TypeOK, Handler, AtPhase, At, stores, InSession, CopiesAreTheText
    <2>6. CASE DiscWriteFile(s)
      BY <1>6, <2>6 DEF DiscWriteFile, TypeOK, AtPhase, At, InSession, CopiesAreTheText
    <2>7. CASE \/ Leave(s) \/ DiscParams(s) \/ DiscServants(s) \/ DiscMaster(s) \/ DiscRemoveLock(s)
               \/ DiscDeleteTable(s) \/ DiscRemoveSelf(s)
      <3>1. disc'[s].pc \notin {"check", "write", "delete"}
        BY <1>6, <2>7 DEF Leave, DiscParams, DiscServants, DiscMaster, DiscRemoveLock,
             DiscDeleteTable, DiscRemoveSelf, TypeOK, Handler, AtPhase, At
      <3> QED BY <3>1
    <2> QED BY <2>4, <2>5, <2>6, <2>7 DEF Disconnect
  <1>13. CopiesAreTheText'
    <2>1. table'.doc = {} => file' = {}
      <3>1. None # {}
        BY DistinctAssumption
      <3> QED BY <1>5, <3>1 DEF InSession, CopiesAreTheText, NoTable
    <2> QED BY <1>4, <1>12, <2>1 DEF CopiesAreTheText
  <1> QED BY <1>1, <1>6, <1>7, <1>9, <1>11, <1>13 DEF InSession

LEMMA PushInSession ==
  ASSUME SessionRegime, TypeOK, InSession, NEW s \in Sockets,
         Push(s) \/ \E edit \in Edits : PushExists(s, edit)
  PROVE  InSession'
  <1> USE DEF stores, history
  <1>1. /\ UNCHANGED <<inBin, file, lock, conn, disc, req>>
        /\ \A t \in Sockets \ {s} : push'[t] = push[t]
    BY DEF TypeOK, Push, PushNoDoc, PushMismatch, PushApply, PushStore, PushTell, PushServants,
         PushMaster, Tell, PushExists
  <1>2. /\ \A t \in Sockets : ~Leaving(t) /\ (Pushing(t) => t = s)
        /\ \A r \in Requests : ~Toggling(r)
    <2>1. CASE \E edit \in Edits : PushExists(s, edit)
      BY <2>1, StartsApart DEF PushExists
    <2>2. CASE Push(s)
      <3>1. Pushing(s)
        BY <2>2 DEF Push, PushNoDoc, PushMismatch, PushApply, PushStore, PushTell,
             PushServants, PushMaster, Tell, Pushing
      <3> QED BY <3>1 DEF InSession, Apart
    <2> QED BY <2>1, <2>2
  <1>3. table.exists \/ UNCHANGED <<table, push>>
    <2>1. Pushing(s) => table.exists
      BY DEF InSession, TableIsThere
    <2> QED BY <2>1 DEF Push, PushNoDoc, PushMismatch, PushApply, PushStore, PushTell,
         PushServants, PushMaster, Tell, Pushing, PushExists
  <1>4. \/ table' = table
        \/ table.exists /\ table'.exists /\ table'.servants = table.servants
           /\ table.doc # None /\ push[s].pc = "store" /\ table'.doc = push[s].text
    <2>1. PushStore(s) => table'.exists /\ table'.servants = table.servants
                          /\ push[s].pc = "store" /\ table'.doc = push[s].text
      BY TableType, SetFieldExists, SetFieldDoc DEF PushStore, TypeOK, SetField, Table
    <2>2. table.exists => table.doc # None
      BY DEF InSession, TableIsThere
    <2> QED BY <1>3, <2>1, <2>2 DEF Push, PushNoDoc, PushMismatch, PushApply, PushTell,
         PushServants, PushMaster, Tell, PushExists
  <1>5. push[s].text \in Texts /\ None \notin Texts /\ push[s].edit \in Edits \cup {Clear}
    BY DistinctAssumption DEF TypeOK, Texts
  <1>6. Pushing(s)' => push'[s].edit \in Edits /\ table'.exists
    <2>1. Pushing(s)' => table'.exists
      BY <1>3, <1>4 DEF InSession, TableIsThere, Pushing
    <2>2. Pushing(s) => push[s].edit \in Edits
      BY DEF InSession, TableIsThere
    <2>3. \A edit \in Edits : PushExists(s, edit) /\ Pushing(s)' => push'[s].edit \in Edits
      BY DEF PushExists, Pushing, TypeOK
    <2>4. Push(s) /\ Pushing(s)' => push'[s].edit \in Edits
      BY <2>2 DEF Push, PushNoDoc, PushMismatch, PushApply, PushStore, PushTell, PushServants,
           PushMaster, Tell, Pushing, NoPush, TypeOK
    <2> QED BY <2>1, <2>3, <2>4
  <1>7. Apart'
    <2>1. \A t \in Sockets : /\ ~Leaving(t)' /\ (Connecting(t)' <=> Connecting(t))
                            /\ (Pushing(t)' => t = s)
      BY <1>1, <1>2 DEF Leaving, Connecting, Pushing
    <2>2. \A r \in Requests : ~Toggling(r)' /\ (Saving(r)' <=> Saving(r))
      BY <1>1, <1>2 DEF Toggling, Saving
    <2> QED BY <2>1, <2>2 DEF InSession, Apart
  <1>8. OpenIsLocked'
    BY <1>1, <1>4 DEF InSession, OpenIsLocked, Saving
  <1>9. TableIsThere'
    <2>1. /\ table'.exists \/ table' = NoTable
          /\ table'.exists <=> table.exists
          /\ table'.exists => table'.doc # None
      BY <1>4, <1>5 DEF InSession, TableIsThere
    <2>2. \A t \in Sockets : Pushing(t)' => table'.exists /\ push'[t].edit \in Edits
      BY <1>1, <1>6, <2>1 DEF InSession, TableIsThere, Pushing
    <2>3. \A t \in Sockets : disc'[t].pc \notin {"remove", "master"}
      BY <1>1, <1>2 DEF Leaving
    <2> QED BY <1>1, <2>1, <2>2, <2>3 DEF InSession, TableIsThere
  <1>10. CopiesAreTheText'
    <2>1. table'.doc = {} => file = {}
      <3>1. CASE table' = table
        BY <3>1 DEF InSession, CopiesAreTheText
      <3>2. CASE table' # table
        <4>1. table'.doc = table.doc \cup {push[s].edit}
          BY <1>4, <3>2 DEF InSession, CopiesAreTheText
        <4> QED BY <4>1
      <3> QED BY <3>1, <3>2
    <2>2. push'[s].pc = "store" => push'[s].text = table'.doc \cup {push'[s].edit}
      <3>1. CASE PushApply(s)
        <4>1. StoredDoc = table.doc
          BY <3>1 DEF PushApply, StoredDoc
        <4>2. push[s].edit # Clear
          BY <3>1, DistinctAssumption DEF PushApply, InSession, TableIsThere, Pushing
        <4> QED BY <3>1, <4>1, <4>2 DEF PushApply, TypeOK
      <3>2. CASE ~PushApply(s)
        <4>1. push'[s].pc # "store" \/ UNCHANGED <<table, push>>
          BY <3>2 DEF Push, PushNoDoc, PushMismatch, PushStore, PushTell, PushServants,
               PushMaster, Tell, PushExists, NoPush, TypeOK
        <4> QED BY <4>1 DEF InSession, CopiesAreTheText
      <3> QED BY <3>1, <3>2
    <2>3. \A t \in Sockets \ {s} : push'[t].pc # "store"
      BY <1>1, <1>2 DEF Pushing
    <2>4. \A t \in Sockets : disc'[t].pc \notin {"check", "write", "delete"}
      BY <1>1, <1>2 DEF Leaving
    <2>5. \A r \in Requests : req'[r].pc \notin {"flush", "drop"}
      BY <1>1, <1>2 DEF Toggling
    <2> QED BY <1>1, <2>1, <2>2, <2>3, <2>4, <2>5 DEF InSession, CopiesAreTheText
  <1> QED BY <1>1, <1>7, <1>8, <1>9, <1>10 DEF InSession

\* A save starts while nobody is in the session, and finds it that way.
LEMMA SaveInSession ==
  ASSUME SessionRegime, TypeOK, InSession, NEW r \in Requests,
         ReqSaveWrite(r) \/ \E edit \in Edits : ReqSave(r, edit) \/ ReqSaveRefused(r, edit)
  PROVE  InSession'
  <1> USE DEF stores
  <1>1. /\ UNCHANGED <<inBin, table, lock, conn, push, disc>>
        /\ \A q \in Requests \ {r} : req'[q] = req[q]
        /\ req'[r].pc \in {"save", "done"}
    BY DEF TypeOK, Handler, ReqSaveWrite, ReqSave, ReqSaveRefused, AtPhase, At
  <1>2. /\ \A t \in Sockets : ~Connecting(t) /\ ~Leaving(t)
        /\ \A q \in Requests : ~Toggling(q)
    <2>1. CASE ReqSaveWrite(r)
      BY <2>1 DEF ReqSaveWrite, Saving, InSession, Apart
    <2>2. CASE \E edit \in Edits : ReqSave(r, edit) \/ ReqSaveRefused(r, edit)
      BY <2>2, StartsApart DEF ReqSave, ReqSaveRefused, Begin
    <2> QED BY <2>1, <2>2
  <1>3. /\ \A t \in Sockets : ~Connecting(t)' /\ ~Leaving(t)' /\ (Pushing(t)' <=> Pushing(t))
        /\ \A q \in Requests : ~Toggling(q)'
    BY <1>1, <1>2 DEF Connecting, Leaving, Pushing, Toggling
  <1>4. /\ \A t \in Sockets : conn'[t].pc \in {"idle", "failed", "done"}
                             /\ disc'[t].pc \in {"idle", "done"}
        /\ \A q \in Requests : req'[q].pc \in {"idle", "save", "done"}
    BY <1>3 DEF Connecting, Leaving, Toggling
  <1>5. req'[r].pc = "save" => ~table.exists /\ \E e \in Edits : req'[r].text = {e}
    <2>1. ASSUME NEW edit \in Edits, ReqSave(r, edit)
          PROVE  ~table.exists /\ req'[r].text = {edit}
      <3>1. lock = None
        BY <2>1 DEF ReqSave, SessionRegime
      <3>2. \A s \in Sockets : disc[s].pc \notin {"text", "check", "write", "delete"}
        BY <1>1, <1>4
      <3> QED BY <2>1, <3>1, <3>2 DEF InSession, OpenIsLocked, ReqSave, TypeOK, At
    <2>2. ASSUME NEW edit \in Edits, ReqSaveRefused(r, edit) PROVE req'[r].pc # "save"
      BY <2>2 DEF ReqSaveRefused, TypeOK, Handler
    <2>3. ReqSaveWrite(r) => req'[r].pc # "save"
      BY DEF ReqSaveWrite, TypeOK, AtPhase, At
    <2> QED BY <2>1, <2>2, <2>3
  <1>6. file' = file \/ (~table.exists /\ table.doc = None)
    <2>1. CASE ReqSaveWrite(r)
      <3>1. ~table.exists
        BY <2>1 DEF ReqSaveWrite, InSession, OpenIsLocked, Saving
      <3> QED BY <3>1 DEF InSession, TableIsThere, NoTable
    <2>2. CASE \E edit \in Edits : ReqSave(r, edit) \/ ReqSaveRefused(r, edit)
      BY <2>2 DEF ReqSave, ReqSaveRefused
    <2> QED BY <2>1, <2>2
  <1>7. Apart'
    BY <1>3 DEF InSession, Apart
  <1>8. OpenIsLocked'
    BY <1>1, <1>4, <1>5 DEF InSession, OpenIsLocked, Saving
  <1>9. TableIsThere'
    BY <1>1, <1>3, <1>4 DEF InSession, TableIsThere
  <1>10. CopiesAreTheText'
    <2>1. None # {}
      BY DistinctAssumption
    <2> QED BY <1>1, <1>4, <1>6, <2>1 DEF InSession, CopiesAreTheText
  <1> QED BY <1>1, <1>4, <1>7, <1>8, <1>9, <1>10 DEF InSession

LEMMA ToggleInSession ==
  ASSUME SessionRegime, TypeOK, InSession, NEW r \in Requests,
         \/ ReqCreate(r) \/ ReqDisable(r) \/ ReqMakeShare(r) \/ ReqReadDoc(r)
         \/ ReqWriteFile(r) \/ ReqDeleteTable(r) \/ ReqCommit(r)
  PROVE  InSession'
  <1> USE DEF stores, history
  <1>1. /\ UNCHANGED <<inBin, lock, conn, push, disc>>
        /\ \A q \in Requests \ {r} : req'[q] = req[q]
    BY DEF TypeOK, ReqCreate, ReqDisable, ReqMakeShare, ReqReadDoc, ReqWriteFile,
       ReqDeleteTable, ReqCommit
  <1>2. /\ \A t \in Sockets : ~Connecting(t) /\ ~Leaving(t) /\ ~Pushing(t)
        /\ \A q \in Requests : ~Saving(q) /\ (Toggling(q) => q = r)
    <2>1. Toggling(r) \/ MayStart("toggle")
      BY DEF ReqCreate, ReqDisable, ReqMakeShare, ReqReadDoc, ReqWriteFile, ReqDeleteTable,
         ReqCommit, Begin, Toggling
    <2> QED BY <2>1, StartsApart DEF InSession, Apart
  <1>3. inBin = FALSE /\ req'[r].pc \notin {"idle", "save", "read", "fill", "enabling"}
    BY DEF InSession, ReqCreate, ReqDisable, ReqMakeShare, ReqReadDoc, ReqWriteFile,
       ReqDeleteTable, ReqCommit, TypeOK, Handler, AtPhase, At
  <1>4. /\ \A t \in Sockets : ~Connecting(t)' /\ ~Leaving(t)' /\ ~Pushing(t)'
        /\ \A q \in Requests : ~Saving(q)' /\ (Toggling(q)' => q = r)
    BY <1>1, <1>2, <1>3 DEF Connecting, Leaving, Pushing, Saving, Toggling
  <1>5. /\ \A t \in Sockets : conn'[t].pc \in {"idle", "failed", "done"}
                             /\ disc'[t].pc \in {"idle", "done"} /\ push'[t].pc = "idle"
        /\ \A q \in Requests \ {r} : req'[q].pc \in {"idle", "done"}
    BY <1>4 DEF Connecting, Leaving, Pushing, Saving, Toggling
  <1>6. \/ UNCHANGED <<table, file>>
        \/ ReqWriteFile(r) /\ table' = table /\ file' = table.doc
        \/ ReqDeleteTable(r) /\ table' = NoTable /\ file' = file
    <2>1. CASE ReqWriteFile(r)
      BY <1>3, <2>1 DEF ReqWriteFile, InSession, CopiesAreTheText
    <2>2. CASE ReqDeleteTable(r)
      BY <2>2 DEF ReqDeleteTable
    <2>3. CASE ReqCreate(r) \/ ReqDisable(r) \/ ReqMakeShare(r) \/ ReqReadDoc(r) \/ ReqCommit(r)
      BY <2>3 DEF ReqCreate, ReqDisable, ReqMakeShare, ReqReadDoc, ReqCommit
    <2> QED BY <2>1, <2>2, <2>3
  <1>7. /\ req'[r].pc = "flush" => table' = table /\ req'[r].text = table.doc
        /\ req'[r].pc = "drop" => table' = table /\ file' = table.doc
    <2>1. CASE ReqReadDoc(r)
      BY <2>1 DEF ReqReadDoc, StoredDoc, TypeOK, AtPhase, At
    <2>2. CASE ReqWriteFile(r)
      BY <1>3, <2>2 DEF ReqWriteFile, TypeOK, AtPhase, At, InSession, CopiesAreTheText
    <2>3. CASE ReqCreate(r) \/ ReqDisable(r) \/ ReqMakeShare(r) \/ ReqDeleteTable(r) \/ ReqCommit(r)
      <3>1. req'[r].pc \notin {"flush", "drop"}
        BY <1>3, <2>3 DEF ReqCreate, ReqDisable, ReqMakeShare, ReqDeleteTable, ReqCommit, TypeOK,
           Handler
      <3> QED BY <3>1
    <2> QED BY <2>1, <2>2, <2>3
  <1>8. Apart'
    BY <1>4 DEF Apart
  <1>9. OpenIsLocked'
    <2>1. table'.exists => table.exists
      BY <1>6 DEF NoTable
    <2> QED BY <1>1, <1>4, <1>5, <2>1 DEF InSession, OpenIsLocked
  <1>10. TableIsThere'
    <2>1. /\ table'.exists \/ table' = NoTable
          /\ table'.exists => table'.doc # None
      BY <1>6 DEF InSession, TableIsThere, NoTable
    <2> QED BY <1>4, <1>5, <2>1 DEF TableIsThere
  <1>11. CopiesAreTheText'
    <2>1. table'.doc = {} => file' = {}
      <3>1. None # {}
        BY DistinctAssumption
      <3> QED BY <1>6, <3>1 DEF InSession, CopiesAreTheText, NoTable
    <2> QED BY <1>5, <1>7, <2>1 DEF CopiesAreTheText
  <1>12. \A q \in Requests : req'[q].pc \notin {"read", "fill", "enabling"}
    BY <1>3, <1>5
  <1> QED BY <1>1, <1>3, <1>8, <1>9, <1>10, <1>11, <1>12 DEF InSession

\* In this regime nobody enables the share, and nothing happens to the file or
\* the server.
LEMMA NotOffered ==
  ASSUME SessionRegime, InSession
  PROVE  /\ ~MoveToBinOrBack /\ ~ExpireLock /\ ~Crash /\ "empty" \notin Offers
         /\ \A r \in Requests : ~ReqEnable(r) /\ ~ReqReadFile(r) /\ ~ReqCreateTable(r)
  BY DEF SessionRegime, InSession, MoveToBinOrBack, ExpireLock, Crash, ReqEnable,
     ReqReadFile, ReqCreateTable

LEMMA NextInSession ==
  ASSUME SessionRegime, TypeOK, InSession, [Next]_vars
  PROVE  InSession'
  <1>1. ASSUME NEW s \in Sockets, Admit(s) \/ Connect(s) \/ Leave(s) \/ Disconnect(s) \/ Push(s)
        PROVE  InSession'
    BY <1>1, JoinInSession, LeaveInSession, PushInSession
  <1>2. ASSUME NEW s \in Sockets, NEW edit \in Edits \ sent, PushExists(s, edit)
        PROVE  InSession'
    BY <1>2, PushInSession
  <1>3. ASSUME NEW r \in Requests, Request(r) \/ Serve(r) PROVE InSession'
    BY <1>3, NotOffered, SaveInSession, ToggleInSession DEF Request, Serve
  <1>4. ASSUME UNCHANGED <<inBin, file, lock, table, conn, push, disc, req>> PROVE InSession'
    BY <1>4 DEF InSession, Apart, OpenIsLocked, TableIsThere, CopiesAreTheText, Connecting,
       Leaving, Pushing, Saving, Toggling
  <1>5. ASSUME NEW s \in Sockets, Fetch(s) PROVE InSession'
    BY <1>4, <1>5 DEF Fetch, stores, handlers
  <1>6. CASE UNCHANGED vars
    BY <1>4, <1>6 DEF vars, stores, handlers
  <1>7. CASE ExpireUserKey
    BY <1>4, <1>7 DEF ExpireUserKey, handlers
  <1> QED BY <1>1, <1>2, <1>3, <1>5, <1>6, <1>7, NotOffered DEF Next

-----------------------------------------------------------------------------
\* Every step is a step of the session, or none.

\* The text that people see.
Shown == IF table.doc = None THEN file ELSE table.doc

Simulates == Session!Next \/ UNCHANGED Session!sessionVars

\* The steps of the session, in terms of the table and the file.
Stays == file' = file /\ (table'.exists <=> table.exists) /\ table'.doc = table.doc
Opens == ~table.exists /\ table'.exists /\ table'.doc = file /\ file' = file
Edited == /\ table.exists /\ table'.exists /\ file' = file
          /\ \E e \in Edits : table'.doc = table.doc \cup {e}
Flushes == table.exists /\ table' = table /\ file' = table.doc
Closes == table.exists /\ ~table'.exists /\ file = table.doc /\ file' = file
Saves == ~table.exists /\ table' = table /\ \E e \in Edits : file' = {e}

LEMMA StoresSimulate ==
  ASSUME TypeOK, TypeOK', InSession, InSession',
         Stays \/ Opens \/ Edited \/ Flushes \/ Closes \/ Saves
  PROVE  Simulates
  <1>1. table.exists \in BOOLEAN /\ table'.exists \in BOOLEAN
    BY DEF TypeOK, Table
  <1>2. /\ table.exists => Shown = table.doc
        /\ ~table.exists => Shown = file
    BY DEF InSession, TableIsThere, NoTable, Shown
  <1>3. /\ table'.exists => Shown' = table'.doc
        /\ ~table'.exists => Shown' = file'
    BY DEF InSession, TableIsThere, NoTable, Shown
  <1>4. CASE Stays
    BY <1>1, <1>4 DEF Stays, Simulates, Session!sessionVars
  <1>5. CASE Opens
    <2>1. Session!Open
      BY <1>1, <1>2, <1>3, <1>5 DEF Opens, Session!Open, Shown
    <2> QED BY <2>1 DEF Simulates, Session!Next
  <1>6. CASE Edited
    <2>1. \E e \in Edits : Session!Edit(e)
      BY <1>1, <1>2, <1>3, <1>6 DEF Edited, Session!Edit, Shown
    <2> QED BY <2>1 DEF Simulates, Session!Next
  <1>7. CASE Flushes
    <2>1. Session!Flush
      BY <1>1, <1>2, <1>3, <1>7 DEF Flushes, Session!Flush, Shown
    <2> QED BY <2>1 DEF Simulates, Session!Next
  <1>8. CASE Closes
    <2>1. Session!Close
      BY <1>1, <1>2, <1>3, <1>8 DEF Closes, Session!Close, Shown
    <2> QED BY <2>1 DEF Simulates, Session!Next
  <1>9. CASE Saves
    <2>1. \E e \in Edits : Session!Save(e)
      BY <1>1, <1>2, <1>3, <1>9 DEF Saves, Session!Save, Shown
    <2> QED BY <2>1 DEF Simulates, Session!Next
  <1> QED BY <1>4, <1>5, <1>6, <1>7, <1>8, <1>9

\* Which step of the session each group of actions takes.
LEMMA JoinOpens ==
  ASSUME TypeOK, InSession, NEW s \in Sockets, Admit(s) \/ Connect(s)
  PROVE  Stays \/ Opens
  <1>1. file' = file
    BY DEF Admit, Connect, ConnSetLock, ConnIsEnabled, ConnExists, ConnReadFile,
       ConnCreateTable, ConnSetMaster, ConnReadServants, ConnAddServant, stores
  <1> QED BY <1>1, JoinTable DEF Stays, Opens

LEMMA LeaveCloses ==
  ASSUME TypeOK, InSession, NEW s \in Sockets, Leave(s) \/ Disconnect(s)
  PROVE  Stays \/ Flushes \/ Closes
  <1>1. CASE UNCHANGED <<table, file>> \/ disc[s].pc = "remove"
    BY <1>1, LeaveStores DEF Stays
  <1>2. CASE disc[s].pc = "write" /\ table' = table /\ file' = table.doc
             /\ table.doc = disc[s].text
    <2>1. None \notin Texts /\ disc[s].text \in Texts
      BY DistinctAssumption DEF Texts, TypeOK, Handler
    <2>2. table.exists
      BY <1>2, <2>1 DEF InSession, TableIsThere, NoTable
    <2> QED BY <1>2, <2>2 DEF Flushes
  <1>3. CASE table' = NoTable /\ file' = file /\ (table.exists => file = table.doc)
    BY <1>3 DEF Closes, Stays, InSession, TableIsThere, NoTable
  <1> QED BY <1>1, <1>2, <1>3, LeaveStores

LEMMA PushEdits ==
  ASSUME TypeOK, InSession, NEW s \in Sockets,
         Push(s) \/ \E edit \in Edits : PushExists(s, edit)
  PROVE  Stays \/ Edited
  <1>1. CASE PushStore(s)
    <2>1. Pushing(s) /\ push[s].pc = "store"
      BY <1>1 DEF PushStore, Pushing
    <2>2. table.exists /\ push[s].edit \in Edits /\ push[s].text = table.doc \cup {push[s].edit}
      BY <2>1 DEF InSession, TableIsThere, CopiesAreTheText
    <2>3. table'.exists /\ table'.doc = push[s].text /\ file' = file
      BY <1>1, SetFieldExists, SetFieldDoc DEF PushStore, TypeOK
    <2> QED BY <2>2, <2>3 DEF Edited
  <1>2. CASE ~PushStore(s)
    BY <1>2 DEF Push, PushNoDoc, PushMismatch, PushApply, PushTell, PushServants, PushMaster,
         Tell, PushExists, Stays, stores
  <1> QED BY <1>1, <1>2

LEMMA RequestSaves ==
  ASSUME SessionRegime, TypeOK, InSession, NEW r \in Requests, Request(r) \/ Serve(r)
  PROVE  Stays \/ Saves \/ Flushes \/ Closes
  <1>1. CASE ReqSaveWrite(r)
    <2>1. ~table.exists /\ \E e \in Edits : req[r].text = {e}
      BY <1>1 DEF ReqSaveWrite, InSession, OpenIsLocked, Saving
    <2> QED BY <1>1, <2>1 DEF ReqSaveWrite, InSession, Saves
  <1>2. CASE ReqWriteFile(r)
    <2>1. table' = table /\ file' = table.doc /\ req[r].text = table.doc
      BY <1>2 DEF ReqWriteFile, InSession, CopiesAreTheText
    <2>2. None \notin Texts /\ req[r].text \in Texts
      BY DistinctAssumption DEF Texts, TypeOK, Handler
    <2>3. table.exists
      BY <2>1, <2>2 DEF InSession, TableIsThere, NoTable
    <2> QED BY <2>1, <2>3 DEF Flushes
  <1>3. CASE ReqDeleteTable(r)
    <2>1. table' = NoTable /\ file' = file /\ (table.exists => file = table.doc)
      BY <1>3 DEF ReqDeleteTable, InSession, CopiesAreTheText
    <2> QED BY <2>1 DEF Closes, Stays, InSession, TableIsThere, NoTable
  <1>4. CASE Request(r) \/ ReqMakeShare(r) \/ ReqReadDoc(r) \/ ReqCommit(r)
    BY <1>4 DEF Request, ReqSave, ReqSaveRefused, ReqCreate, ReqDisable, ReqEnable,
       ReqMakeShare, ReqReadDoc, ReqCommit, Stays, stores
  <1> QED BY <1>1, <1>2, <1>3, <1>4, NotOffered DEF Serve

LEMMA NextSimulates ==
  ASSUME SessionRegime, TypeOK, TypeOK', InSession, InSession', [Next]_vars
  PROVE  Simulates
  <1> SUFFICES Stays \/ Opens \/ Edited \/ Flushes \/ Closes \/ Saves
    BY StoresSimulate
  <1>1. ASSUME NEW s \in Sockets, Admit(s) \/ Connect(s) PROVE Stays \/ Opens
    BY <1>1, JoinOpens
  <1>2. ASSUME NEW s \in Sockets, Leave(s) \/ Disconnect(s) PROVE Stays \/ Flushes \/ Closes
    BY <1>2, LeaveCloses
  <1>3. ASSUME NEW s \in Sockets, Push(s) PROVE Stays \/ Edited
    BY <1>3, PushEdits
  <1>4. ASSUME NEW s \in Sockets, NEW edit \in Edits \ sent, PushExists(s, edit)
        PROVE  Stays \/ Edited
    BY <1>4, PushEdits
  <1>5. ASSUME NEW s \in Sockets, Fetch(s) PROVE Stays
    BY <1>5 DEF Fetch, Stays, stores
  <1>6. ASSUME NEW r \in Requests, Request(r) \/ Serve(r)
        PROVE  Stays \/ Saves \/ Flushes \/ Closes
    BY <1>6, RequestSaves
  <1>7. CASE UNCHANGED vars
    BY <1>7 DEF Stays, vars, stores
  <1>8. CASE ExpireUserKey
    BY <1>8 DEF ExpireUserKey, Stays
  <1> QED BY <1>1, <1>2, <1>3, <1>4, <1>5, <1>6, <1>7, <1>8, NotOffered DEF Next

LEMMA InitSimulates == Init => Session!Init
  BY DEF Init, NoTable, Session!Init

\* Behind tables, locks and handlers people see one text: it opens on the file,
\* grows by their edits, and is on disk when the session closes, and a save writes
\* the file only while none is open.
THEOREM ImplementsSessionHolds == SessionRegime => (Spec => ImplementsSession)
  <1> SUFFICES ASSUME SessionRegime PROVE Spec => ImplementsSession
    OBVIOUS
  <1>1. Init => TypeOK /\ InSession /\ Session!Init
    BY InitTypeOK, InitInSession, InitSimulates
  <1>2. (TypeOK /\ InSession) /\ [Next]_vars => (TypeOK /\ InSession)'
    BY StepTypeOK, NextInSession
  <1>3. (TypeOK /\ InSession) /\ (TypeOK /\ InSession)' /\ [Next]_vars
          => [Session!Next]_(Session!sessionVars)
    BY NextSimulates DEF Simulates
  <1> QED BY <1>1, <1>2, <1>3, PTL DEF Spec, ImplementsSession, Session!Spec
=============================================================================
