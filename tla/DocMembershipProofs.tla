------------------------ MODULE DocMembershipProofs -------------------------
(***************************************************************************)
(* Who is in a session, its lock, and what its participants hear, for      *)
(* every number of sockets, requests and edits, when joins, leaves and     *)
(* toggles of the share do not overlap one another.  Pushes and saves      *)
(* overlap them, and each other, as they like.                             *)
(***************************************************************************)
EXTENDS MCDocMembership, DocCollabProofs

\* What the properties of this module suppose of the environment.  With several
\* tabs of the owner, with a file that goes to the bin, and with a restart or an
\* expired lock they are false, whatever is kept apart.
Regime ==
    /\ \A k, l \in Membership : {k, l} \in Exclusive
    /\ Offers \cap {"tabs", "bin", "crash", "expire"} = {}

-----------------------------------------------------------------------------
\* One joins, leaves or toggles at a time.

OneAtATime ==
    /\ \A s, t \in Sockets : Connecting(s) /\ Connecting(t) => s = t
    /\ \A s, t \in Sockets : Leaving(s) /\ Leaving(t) => s = t
    /\ \A q, r \in Requests : Toggling(q) /\ Toggling(r) => q = r
    /\ \A s, t \in Sockets : ~(Connecting(s) /\ Leaving(t))
    /\ \A s \in Sockets, r \in Requests : ~(Connecting(s) /\ Toggling(r))
    /\ \A s \in Sockets, r \in Requests : ~(Leaving(s) /\ Toggling(r))

\* A socket joins before it leaves, and no join fails; the owner has one socket.
InOrder ==
    /\ \A s \in Sockets : conn[s].pc = "idle" \/ Connecting(s) => disc[s].pc = "idle"
    /\ \A s \in Sockets : conn[s].pc # "failed"
    /\ \A o, p \in Owners :
          (Connected(o) \/ Leaving(o)) /\ (Connected(p) \/ Leaving(p)) => o = p

\* Nobody else writes the list while a handler holds a copy of it.
Lists ==
    /\ \A s \in Sockets : conn[s].pc = "add" => conn[s].list = table.servants
    /\ \A s \in Sockets :
          disc[s].pc = "master" => s \in Servants /\ disc[s].list = table.servants
    /\ \A s \in Servants : disc[s].pc = "remove" => disc[s].list = table.servants \ {s}
    /\ \A r \in Requests : req[r].pc = "fill" => req[r].list = table.servants

\* Who takes the lock away is the last one listed; who does not leaves another.
LastOne ==
    /\ \A s \in Sockets :
          disc[s].pc \in {"unlock", "text", "check", "write", "delete"} => Listed \subseteq {s}
    /\ \A s \in Sockets : disc[s].pc \in {"text", "check", "write", "delete"} => lock = None
    /\ \A s \in Sockets : disc[s].pc = "remove" => \E t \in Sockets \ {s} : Connected(t)

\* A join sets the lock before it touches the table, and the lock that is set has
\* somebody who will see to it that it goes.
Locks ==
    /\ \A s \in Sockets :
          conn[s].pc \in {"share", "exists", "read", "create", "join", "add"} => lock # None
    /\ lock # None =>
          \E s \in Sockets :
             \/ Connected(s)
             \/ disc[s].pc \in {"params", "servants", "master", "unlock", "remove"}

Members ==
    /\ inBin = FALSE
    /\ OneAtATime /\ InOrder /\ Lists /\ LastOne /\ Locks
    /\ ListedAreConnected /\ TableLocked


LEMMA ListedSockets ==
  ASSUME TypeOK
  PROVE  Listed \subseteq Sockets
  BY TableType DEF TypeOK, Listed, Sockets

LEMMA StartsAlone ==
  ASSUME Regime, NEW k \in Membership, MayStart(k)
  PROVE  /\ \A s \in Sockets : ~Connecting(s) /\ ~Leaving(s)
         /\ \A r \in Requests : ~Toggling(r)
  <1>1. \A l \in Membership : Active(l) = {}
    BY DEF Regime, MayStart, Membership, Kinds
  <1>2. Active("connect") = {} /\ Active("disconnect") = {} /\ Active("toggle") = {}
    BY <1>1 DEF Membership
  <1> QED BY <1>2 DEF Active

\* Steps that touch no handler but a push or a save, nor the list, nor the lock.
LEMMA BesideMembers ==
  ASSUME TypeOK, Members, UNCHANGED <<inBin, lock, conn, disc>>,
         table'.master = table.master, table'.servants = table.servants,
         \A r \in Requests : req'[r].pc \notin {"idle", "save", "done"} => req'[r] = req[r]
  PROVE  Members'
  <1>1. Listed' = Listed
    BY DEF Listed
  <1>2. \A s \in Sockets : /\ (Connecting(s)' <=> Connecting(s)) /\ (Leaving(s)' <=> Leaving(s))
                          /\ (Connected(s)' <=> Connected(s))
    BY DEF Connecting, Leaving, Connected
  <1>3. \A r \in Requests : Toggling(r)' => Toggling(r)
    BY DEF Toggling
  <1>4. OneAtATime' /\ InOrder'
    BY <1>2, <1>3 DEF Members, OneAtATime, InOrder, Sockets
  <1>5. Lists' /\ LastOne' /\ Locks'
    BY <1>1, <1>2 DEF Members, Lists, LastOne, Locks
  <1>6. ListedAreConnected' /\ TableLocked'
    BY <1>1, <1>2, ListedSockets DEF Members, ListedAreConnected, TableLocked
  <1> QED BY <1>4, <1>5, <1>6 DEF Members

\* A step of a toggle: nobody is joining or leaving.
LEMMA ToggleMembers ==
  ASSUME TypeOK, Members, NEW r \in Requests, UNCHANGED <<inBin, lock, conn, disc>>,
         \A q \in Requests \ {r} : req'[q] = req[q],
         \A s \in Sockets : ~Connecting(s) /\ ~Leaving(s),
         \A q \in Requests \ {r} : ~Toggling(q),
         table'.master \in {table.master, None}, table'.servants \subseteq table.servants,
         req'[r].pc = "fill" => req'[r].list = table'.servants
  PROVE  Members'
  <1>1. Listed' \subseteq Listed
    BY DEF Listed
  <1>2. \A s \in Sockets : /\ ~Connecting(s)' /\ ~Leaving(s)' /\ (Connected(s)' <=> Connected(s))
    BY DEF Connecting, Leaving, Connected
  <1>3. \A q \in Requests \ {r} : ~Toggling(q)'
    BY DEF Toggling
  <1>4. OneAtATime' /\ InOrder'
    BY <1>2, <1>3 DEF Members, OneAtATime, InOrder, Sockets
  <1>5. \A s \in Sockets : conn'[s].pc \in {"idle", "failed", "done"} /\ disc'[s].pc \in {"idle", "done"}
    BY <1>2 DEF Connecting, Leaving
  <1>6. \A q \in Requests \ {r} : req'[q].pc # "fill"
    BY <1>3 DEF Toggling
  <1>7. Lists'
    BY <1>5, <1>6 DEF Lists, Sockets
  <1>8. LastOne' /\ Locks'
    BY <1>5, <1>2 DEF LastOne, Locks, Members
  <1>9. ListedAreConnected' /\ TableLocked'
    BY <1>1, <1>2, ListedSockets DEF Members, ListedAreConnected, TableLocked, Leaving
  <1> QED BY <1>4, <1>7, <1>8, <1>9 DEF Members

\* A step of a join: nobody is leaving or toggling, and only the lock and one
\* more entry of the list may be new.
LEMMA JoinMembers ==
  ASSUME TypeOK, Members, NEW s \in Sockets, UNCHANGED <<inBin, disc, req>>,
         \A t \in Sockets \ {s} : conn'[t] = conn[t],
         \A t \in Sockets \ {s} : ~Connecting(t), \A t \in Sockets : ~Leaving(t),
         \A r \in Requests : ~Toggling(r),
         disc[s].pc = "idle", conn'[s].pc \notin {"idle", "failed"},
         s \in Owners => \A o \in Owners \ {s} : ~Connected(o),
         conn'[s].pc = "add" => conn'[s].list = table'.servants,
         Listed' \subseteq Listed \cup {s},
         lock' = lock \/ lock' = s,
         conn'[s].pc \in {"share", "exists", "read", "create", "join", "add"} => lock' # None,
         lock' # None \/ s \notin Listed',
         None \notin Sockets
  PROVE  Members'
  <1>1. \A t \in Sockets : ~Leaving(t)'
    BY DEF Leaving
  <1>2. \A t \in Sockets \ {s} : ~Connecting(t)' /\ (Connected(t)' <=> Connected(t))
    BY DEF Connecting, Connected
  <1>3. Connected(s)'
    BY DEF Connected
  <1>4. \A r \in Requests : ~Toggling(r)' /\ req'[r].pc # "fill"
    BY DEF Toggling
  <1>5. OneAtATime'
    BY <1>1, <1>2, <1>4 DEF OneAtATime
  <1>6. \A t \in Sockets : disc'[t].pc \in {"idle", "done"}
    BY DEF Leaving
  <1>7. InOrder'
    <2>1. \A t \in Sockets : conn'[t].pc = "idle" \/ Connecting(t)' => disc'[t].pc = "idle"
      BY DEF Members, InOrder, Connecting
    <2>2. \A t \in Sockets : conn'[t].pc # "failed"
      BY DEF Members, InOrder
    <2>3. \A o, p \in Owners : Connected(o)' /\ Connected(p)' => o = p
      BY <1>2 DEF Members, InOrder, Sockets
    <2> QED BY <1>1, <2>1, <2>2, <2>3 DEF InOrder, Sockets
  <1>8. Lists'
    <2>1. \A t \in Sockets \ {s} : conn'[t].pc # "add"
      BY DEF Connecting
    <2> QED BY <1>4, <1>6, <2>1 DEF Lists, Sockets
  <1>9. LastOne'
    BY <1>6 DEF LastOne
  <1>10. Locks'
    <2>1. \A t \in Sockets \ {s} : conn'[t].pc \in {"idle", "failed", "done"}
      BY DEF Connecting
    <2> QED BY <1>3, <2>1 DEF Locks
  <1>11. ListedAreConnected'
    BY <1>1, <1>2, <1>3, ListedSockets DEF Members, ListedAreConnected, Sockets
  <1>12. TableLocked'
    <2>1. CASE lock' = s
      BY <2>1 DEF TableLocked
    <2>2. CASE lock' = lock
      BY <1>2, <2>2, ListedSockets DEF Members, TableLocked
    <2> QED BY <2>1, <2>2
  <1> QED BY <1>5, <1>7, <1>8, <1>9, <1>10, <1>11, <1>12 DEF Members

\* A step of a leave: nobody is joining or toggling, and the list only shrinks.
LEMMA LeaveMembers ==
  ASSUME TypeOK, Members, NEW s \in Sockets, UNCHANGED <<inBin, conn, req>>,
         \A t \in Sockets \ {s} : disc'[t] = disc[t],
         \A t \in Sockets : ~Connecting(t), \A t \in Sockets \ {s} : ~Leaving(t),
         \A r \in Requests : ~Toggling(r),
         Connected(s) \/ Leaving(s), disc'[s].pc # "idle",
         Listed' \subseteq Listed,
         lock' = lock \/ (lock' = None /\ Listed' \subseteq {s}),
         disc'[s].pc = "master" => s \in Servants /\ disc'[s].list = table'.servants,
         disc'[s].pc = "remove" /\ s \in Servants => disc'[s].list = table'.servants \ {s},
         disc'[s].pc \in {"unlock", "text", "check", "write", "delete"} => Listed' \subseteq {s},
         disc'[s].pc \in {"text", "check", "write", "delete"} => lock' = None,
         disc'[s].pc = "remove" => \E t \in Sockets \ {s} : Connected(t),
         disc'[s].pc = "done" => s \notin Listed',
         disc'[s].pc = "done" => lock' = None \/ \E t \in Sockets \ {s} : Connected(t),
         disc'[s].pc \in DiscPhases
  PROVE  Members'
  <1>1. \A t \in Sockets : ~Connecting(t)' /\ conn'[t].pc \in {"idle", "failed", "done"}
    BY DEF Connecting
  <1>2. \A t \in Sockets \ {s} : ~Leaving(t)' /\ (Connected(t)' <=> Connected(t))
                                 /\ disc'[t].pc \in {"idle", "done"}
    BY DEF Leaving, Connected
  <1>3. ~Connected(s)' /\ conn[s].pc # "idle"
    BY DEF Connected, Leaving, Members, InOrder
  <1>4. \A r \in Requests : ~Toggling(r)' /\ req'[r].pc # "fill"
    BY DEF Toggling
  <1>5. OneAtATime'
    BY <1>1, <1>2, <1>4 DEF OneAtATime
  <1>6. InOrder'
    <2>1. \A t \in Sockets : conn'[t].pc = "idle" => disc'[t].pc = "idle"
      BY <1>3 DEF Members, InOrder
    <2>2. \A o, p \in Owners : (Connected(o) \/ Leaving(o))' /\ (Connected(p) \/ Leaving(p))' => o = p
      <3>1. \A o \in Owners : (Connected(o) \/ Leaving(o))' => Connected(o) \/ Leaving(o)
        BY <1>2 DEF Sockets
      <3> QED BY <3>1 DEF Members, InOrder
    <2> QED BY <1>1, <2>1, <2>2 DEF Members, InOrder
  <1>7. Lists'
    BY <1>1, <1>2, <1>4 DEF Lists, Sockets
  <1>8. LastOne'
    <2>1. \A t \in Sockets \ {s} : Connected(t) => Connected(t)'
      BY <1>2
    <2>2. disc'[s].pc = "remove" => \E t \in Sockets \ {s} : Connected(t)'
      BY <2>1
    <2> QED BY <1>2, <2>2 DEF LastOne
  <1>9. Locks'
    <2>1. ASSUME lock' # None
          PROVE  \E t \in Sockets : \/ Connected(t)'
                                     \/ disc'[t].pc \in {"params", "servants", "master", "unlock",
                                                         "remove"}
      <3>1. CASE disc'[s].pc = "done"
        BY <1>2, <2>1, <3>1
      <3>2. CASE disc'[s].pc # "done"
        BY <2>1, <3>2 DEF DiscPhases
      <3> QED BY <3>1, <3>2
    <2> QED BY <1>1, <2>1 DEF Locks
  <1>10. ListedAreConnected'
    <2>1. ASSUME NEW t \in Listed', t # s PROVE Connected(t)' \/ Leaving(t)'
      <3>1. t \in Listed /\ t \in Sockets
        BY <2>1, ListedSockets
      <3> QED BY <1>2, <2>1, <3>1 DEF Members, ListedAreConnected
    <2>2. s \in Listed' => Leaving(s)'
      BY DEF Leaving
    <2> QED BY <2>1, <2>2 DEF ListedAreConnected
  <1>11. TableLocked'
    BY <1>2, <1>3, ListedSockets DEF Members, TableLocked
  <1> QED BY <1>5, <1>6, <1>7, <1>8, <1>9, <1>10, <1>11 DEF Members

LEMMA AdmitMembers ==
  ASSUME Regime, TypeOK, Members, NEW s \in Sockets, Admit(s)
  PROVE  Members'
  <1>1. /\ \A t \in Sockets : ~Connecting(t) /\ ~Leaving(t)
        /\ \A r \in Requests : ~Toggling(r)
    BY StartsAlone DEF Admit, Membership
  <1>2. /\ conn[s].pc = "idle" /\ conn'[s].pc = "lock"
        /\ \A t \in Sockets \ {s} : conn'[t] = conn[t]
        /\ UNCHANGED <<inBin, disc, req, table, lock>>
    BY DEF Admit, TypeOK, Handler
  <1>3. disc[s].pc = "idle" /\ ~Connected(s)
    BY <1>2 DEF Members, InOrder, Connected
  <1>4. s \in Owners => \A o \in Owners \ {s} : ~Connected(o)
    BY DEF Admit, Regime
  <1>5. Listed' = Listed /\ s \notin Listed
    BY <1>1, <1>2, <1>3 DEF Members, ListedAreConnected, Listed
  <1> QED BY <1>1, <1>2, <1>3, <1>4, <1>5, JoinMembers, DistinctAssumption

LEMMA ConnectMembers ==
  ASSUME TypeOK, Members, NEW s \in Sockets, Connect(s)
  PROVE  Members'
  <1>1. Connecting(s)
    BY DEF Connect, ConnSetLock, ConnIsEnabled, ConnExists, ConnReadFile, ConnCreateTable,
       ConnSetMaster, ConnReadServants, ConnAddServant, Connecting
  <1>2. /\ \A t \in Sockets \ {s} : ~Connecting(t)
        /\ \A t \in Sockets : ~Leaving(t)
        /\ \A r \in Requests : ~Toggling(r)
        /\ disc[s].pc = "idle" /\ Connected(s)
    BY <1>1 DEF Members, OneAtATime, InOrder, Connected, Connecting
  <1>3. s \in Owners => \A o \in Owners \ {s} : ~Connected(o)
    BY <1>2 DEF Members, InOrder
  <1>4. /\ conn[s].pc \in {"share", "exists", "read", "create", "join", "add"} => lock # None
        /\ s \in Listed => lock # None
        /\ inBin = FALSE
    BY <1>2 DEF Members, Locks, TableLocked
  <1>5. /\ UNCHANGED <<inBin, disc, req>>
        /\ \A t \in Sockets \ {s} : conn'[t] = conn[t]
    BY DEF Connect, ConnSetLock, ConnIsEnabled, ConnExists, ConnReadFile, ConnCreateTable,
       ConnSetMaster, ConnReadServants, ConnAddServant, stores, TypeOK
  <1>6. s # None /\ s \in Owners \cup Servants
    BY DistinctAssumption DEF Sockets
  <1>7. ASSUME conn'[s].pc \notin {"idle", "failed"},
               conn'[s].pc = "add" => conn'[s].list = table'.servants,
               Listed' \subseteq Listed \cup {s},
               lock' = lock \/ lock' = s,
               conn'[s].pc \in {"share", "exists", "read", "create", "join", "add"} => lock' # None,
               lock' # None \/ s \notin Listed'
        PROVE  Members'
    BY <1>2, <1>3, <1>5, <1>7, JoinMembers, DistinctAssumption
  <1>8. ASSUME ConnSetLock(s) PROVE Members'
    <2>1. /\ lock' = s /\ Listed' = Listed
          /\ conn'[s].pc = AfterLock(s)
      BY <1>8 DEF ConnSetLock, Listed, TypeOK, Handler
    <2>2. AfterLock(s) \in {"exists", "done", "share"}
      BY DEF AfterLock
    <2> QED BY <1>6, <1>7, <2>1, <2>2
  <1>9. ASSUME ConnIsEnabled(s) PROVE Members'
    <2>1. /\ lock' = lock /\ Listed' = Listed
          /\ conn[s].pc = "share" => conn'[s].pc \in {"exists", "done"}
          /\ conn[s].pc # "share" => conn'[s].pc \in {"lockThenExists", "lockThenDone"}
      BY <1>9 DEF ConnIsEnabled, Listed, stores, TypeOK, Handler
    <2> QED BY <1>4, <1>7, <2>1
  <1>10. ASSUME ConnExists(s) \/ ConnReadFile(s) PROVE Members'
    <2>1. /\ lock' = lock /\ Listed' = Listed
          /\ conn[s].pc \in {"exists", "read"} /\ conn'[s].pc \in {"read", "join", "create"}
      BY <1>4, <1>10 DEF ConnExists, ConnReadFile, Listed, stores, At, TypeOK, Handler
    <2> QED BY <1>4, <1>7, <2>1
  <1>11. ASSUME ConnCreateTable(s) \/ ConnSetMaster(s) \/ ConnAddServant(s) PROVE Members'
    <2>1. lock' = lock /\ conn[s].pc \in {"create", "join", "add"} /\ conn'[s].pc = "done"
      BY <1>11 DEF ConnCreateTable, ConnSetMaster, ConnAddServant, AtPhase, At, TypeOK, Handler
    <2>2. CASE ConnCreateTable(s)
      <3>1. Listed' \subseteq {s}
        BY <2>2 DEF ConnCreateTable, Listed
      <3> QED BY <1>4, <1>7, <2>1, <3>1
    <2>3. CASE ConnSetMaster(s)
      <3>1. table'.master = s /\ table'.servants = table.servants
        BY <2>3, TableType DEF ConnSetMaster, SetField, TypeOK, Table
      <3> QED BY <1>4, <1>7, <2>1, <3>1 DEF Listed
    <2>4. CASE ConnAddServant(s)
      <3>1. table'.master = table.master /\ table'.servants = conn[s].list \cup {s}
        BY <2>4, TableType DEF ConnAddServant, SetField, TypeOK, Table
      <3>2. conn[s].list = table.servants
        BY <2>4 DEF ConnAddServant, Members, Lists
      <3> QED BY <1>4, <1>7, <2>1, <3>1, <3>2 DEF Listed
    <2> QED BY <1>11, <2>2, <2>3, <2>4
  <1>12. ASSUME ConnReadServants(s) PROVE Members'
    <2>1. /\ lock' = lock /\ Listed' = Listed /\ table' = table /\ conn[s].pc = "join"
          /\ \/ conn'[s].pc = "done"
             \/ conn'[s].pc = "add" /\ conn'[s].list = table.servants
      BY <1>12 DEF ConnReadServants, Listed, stores, AtPhase, At, TypeOK, Handler
    <2> QED BY <1>4, <1>7, <2>1
  <1> QED BY <1>8, <1>9, <1>10, <1>11, <1>12 DEF Connect

LEMMA LeavingMembers ==
  ASSUME Regime, TypeOK, Members, NEW s \in Sockets, Leave(s)
  PROVE  Members'
  <1>1. /\ \A t \in Sockets : ~Connecting(t) /\ ~Leaving(t)
        /\ \A r \in Requests : ~Toggling(r)
    BY StartsAlone DEF Leave, Membership
  <1>2. /\ Connected(s) /\ disc'[s].pc = "params" /\ "params" \in DiscPhases
        /\ \A t \in Sockets \ {s} : disc'[t] = disc[t]
        /\ UNCHANGED <<inBin, conn, req, table, lock>>
    BY DEF Leave, TypeOK, Handler, DiscPhases
  <1>3. Listed' = Listed
    BY <1>2 DEF Listed
  <1> QED BY <1>1, <1>2, <1>3, LeaveMembers

LEMMA DisconnectMembers ==
  ASSUME TypeOK, Members, NEW s \in Sockets, Disconnect(s)
  PROVE  Members'
  <1>1. Leaving(s)
    BY DEF Disconnect, DiscParams, DiscServants, DiscMaster, DiscRemoveLock, DiscReadDoc,
         DiscCheckLock, DiscWriteFile, DiscDeleteTable, DiscRemoveSelf, Leaving
  <1>2. /\ \A t \in Sockets : ~Connecting(t)
        /\ \A t \in Sockets \ {s} : ~Leaving(t)
        /\ \A r \in Requests : ~Toggling(r)
        /\ inBin = FALSE /\ ~Connected(s)
    BY <1>1 DEF Members, OneAtATime, Connected, Leaving
  <1>3. \A t \in Listed : t # s => t \in Sockets /\ Connected(t)
    BY <1>2, ListedSockets DEF Members, ListedAreConnected
  <1>4. /\ UNCHANGED <<inBin, conn, req>>
        /\ \A t \in Sockets \ {s} : disc'[t] = disc[t]
    BY DEF Disconnect, DiscParams, DiscServants, DiscMaster, DiscRemoveLock, DiscReadDoc,
         DiscCheckLock, DiscWriteFile, DiscDeleteTable, DiscRemoveSelf, stores, TypeOK
  <1>5. /\ table.master \in Owners \cup {None} /\ table.servants \subseteq Servants
        /\ Owners \cap Servants = {} /\ None \notin Sockets
    BY TableType, DistinctAssumption DEF TypeOK
  <1>6. ASSUME disc'[s].pc \in DiscPhases \ {"idle"},
               Listed' \subseteq Listed,
               lock' = lock \/ (lock' = None /\ Listed' \subseteq {s}),
               disc'[s].pc = "master" => s \in Servants /\ disc'[s].list = table'.servants,
               disc'[s].pc = "remove" /\ s \in Servants => disc'[s].list = table'.servants \ {s},
               disc'[s].pc \in {"unlock", "text", "check", "write", "delete"} => Listed' \subseteq {s},
               disc'[s].pc \in {"text", "check", "write", "delete"} => lock' = None,
               disc'[s].pc = "remove" => \E t \in Sockets \ {s} : Connected(t),
               disc'[s].pc = "done" => s \notin Listed',
               disc'[s].pc = "done" => lock' = None \/ \E t \in Sockets \ {s} : Connected(t)
        PROVE  Members'
    BY <1>1, <1>2, <1>4, <1>6, LeaveMembers
  <1>13. ASSUME DiscParams(s) PROVE Members'
    <2>1. lock' = lock /\ Listed' = Listed /\ disc'[s].pc = "servants"
      BY <1>13, <1>2 DEF DiscParams, stores, Listed, TypeOK, Handler
    <2> QED BY <1>6, <2>1, Phases
  <1>7. ASSUME DiscServants(s) PROVE Members'
    <2>1. lock' = lock /\ table' = table /\ Listed' = Listed
      BY <1>7 DEF DiscServants, stores, Listed
    <2>2. CASE s \in Servants
      <3>1. disc'[s].pc = "master" /\ disc'[s].list = table.servants
        BY <1>7, <2>2 DEF DiscServants, At, TypeOK
      <3> QED BY <1>6, <2>1, <2>2, <3>1, Phases
    <2>3. CASE s \notin Servants /\ table.servants = {}
      <3>1. disc'[s].pc = "unlock"
        BY <1>7, <2>3 DEF DiscServants, AtPhase, At, TypeOK
      <3>2. \A t \in Listed : t = s
        <4>1. \A t \in Listed : t \in Owners
          BY <1>5, <2>3 DEF Listed
        <4>2. s \in Owners
          BY <2>3 DEF Sockets
        <4> QED BY <1>1, <1>3, <4>1, <4>2 DEF Members, InOrder
      <3> QED BY <1>6, <2>1, <2>3, <3>1, <3>2, Phases
    <2>4. CASE s \notin Servants /\ table.servants # {}
      <3>1. disc'[s].pc = "remove"
        BY <1>7, <2>4 DEF DiscServants, AtPhase, At, TypeOK
      <3>2. \E t \in Sockets \ {s} : Connected(t)
        BY <1>3, <1>5, <2>4 DEF Listed
      <3> QED BY <1>6, <2>1, <2>4, <3>1, <3>2, Phases
    <2> QED BY <2>2, <2>3, <2>4
  <1>8. ASSUME DiscMaster(s) PROVE Members'
    <2>1. lock' = lock /\ table' = table /\ Listed' = Listed
      BY <1>8 DEF DiscMaster, stores, Listed
    <2>2. s \in Servants /\ disc[s].list = table.servants
      BY <1>8 DEF DiscMaster, Members, Lists
    <2>3. CASE table.master = None /\ table.servants \ {s} = {}
      <3>1. disc'[s].pc = "unlock"
        BY <1>8, <2>2, <2>3 DEF DiscMaster, AtPhase, At, TypeOK
      <3>2. Listed \subseteq {s}
        BY <2>3 DEF Listed
      <3> QED BY <1>6, <2>1, <3>1, <3>2, Phases
    <2>4. CASE ~(table.master = None /\ table.servants \ {s} = {})
      <3>1. disc'[s].pc = "remove" /\ disc'[s].list = table.servants \ {s}
        BY <1>8, <2>2, <2>4 DEF DiscMaster, At, TypeOK
      <3>2. \E t \in Listed : t # s
        BY <1>5, <2>2, <2>4 DEF Listed
      <3> QED BY <1>3, <1>6, <2>1, <3>1, <3>2, Phases
    <2> QED BY <2>3, <2>4
  <1>9. ASSUME DiscRemoveLock(s) PROVE Members'
    <2>1. lock' = None /\ Listed' = Listed /\ disc'[s].pc = "text"
      BY <1>9 DEF DiscRemoveLock, Listed, TypeOK, Handler
    <2>2. Listed \subseteq {s}
      BY <1>9 DEF DiscRemoveLock, Members, LastOne
    <2> QED BY <1>6, <2>1, <2>2, Phases
  <1>10. ASSUME DiscReadDoc(s) \/ DiscCheckLock(s) \/ DiscWriteFile(s) PROVE Members'
    <2>1. lock = None /\ Listed \subseteq {s}
      BY <1>10 DEF DiscReadDoc, DiscCheckLock, DiscWriteFile, Members, LastOne
    <2>2. /\ lock' = lock /\ Listed' = Listed
      BY <1>10 DEF DiscReadDoc, DiscCheckLock, DiscWriteFile, stores, Listed
    <2>3. disc'[s].pc \in {"delete", "check", "write"}
      BY <1>2, <1>10, <2>1 DEF DiscReadDoc, DiscCheckLock, DiscWriteFile, AtPhase, At, TypeOK,
           Handler
    <2> QED BY <1>6, <2>1, <2>2, <2>3, Phases
  <1>11. ASSUME DiscDeleteTable(s) PROVE Members'
    <2>1. lock = None
      BY <1>11 DEF DiscDeleteTable, Members, LastOne
    <2>2. lock' = lock /\ Listed' = {} /\ disc'[s].pc = "done"
      BY <1>11 DEF DiscDeleteTable, NoTable, Listed, TypeOK, Handler
    <2> QED BY <1>6, <2>1, <2>2, Phases
  <1>12. ASSUME DiscRemoveSelf(s) PROVE Members'
    <2>1. lock' = lock /\ disc'[s].pc = "done" /\ \E t \in Sockets \ {s} : Connected(t)
      BY <1>12 DEF DiscRemoveSelf, AtPhase, At, TypeOK, Members, LastOne
    <2>2. CASE s \in Servants
      <3>1. table'.master = table.master /\ table'.servants = disc[s].list
        BY <1>12, <2>2, TableType DEF DiscRemoveSelf, SetField, TypeOK, Table
      <3>2. disc[s].list = table.servants \ {s}
        BY <1>12, <2>2 DEF DiscRemoveSelf, Members, Lists
      <3>3. Listed' \subseteq Listed /\ s \notin Listed'
        BY <1>5, <2>2, <3>1, <3>2 DEF Listed
      <3> QED BY <1>6, <2>1, <3>3, Phases
    <2>3. CASE s \notin Servants
      <3>1. table'.master = None /\ table'.servants = table.servants
        BY <1>12, <2>3, TableType DEF DiscRemoveSelf, SetField, TypeOK, Table
      <3>2. Listed' \subseteq Listed /\ s \notin Listed'
        BY <1>5, <2>3, <3>1 DEF Listed
      <3> QED BY <1>6, <2>1, <3>2, Phases
    <2> QED BY <2>2, <2>3
  <1> QED BY <1>7, <1>13, <1>8, <1>9, <1>10, <1>11, <1>12 DEF Disconnect

LEMMA TogglesMembers ==
  ASSUME Regime, TypeOK, Members, NEW r \in Requests,
         \/ ReqCreate(r) \/ ReqDisable(r) \/ ReqEnable(r) \/ ReqMakeShare(r) \/ ReqReadDoc(r)
         \/ ReqWriteFile(r) \/ ReqDeleteTable(r) \/ ReqReadFile(r) \/ ReqCreateTable(r)
         \/ ReqCommit(r)
  PROVE  Members'
  <1>1. Toggling(r) \/ MayStart("toggle")
    BY DEF ReqCreate, ReqDisable, ReqEnable, ReqMakeShare, ReqReadDoc, ReqWriteFile,
       ReqDeleteTable, ReqReadFile, ReqCreateTable, ReqCommit, Begin, Toggling
  <1>2. /\ \A s \in Sockets : ~Connecting(s) /\ ~Leaving(s)
        /\ \A q \in Requests \ {r} : ~Toggling(q)
    BY <1>1, StartsAlone DEF Membership, Members, OneAtATime
  <1>3. /\ UNCHANGED <<inBin, lock, conn, disc>>
        /\ \A q \in Requests \ {r} : req'[q] = req[q]
    BY DEF ReqCreate, ReqDisable, ReqEnable, ReqMakeShare, ReqReadDoc, ReqWriteFile,
       ReqDeleteTable, ReqReadFile, ReqCreateTable, ReqCommit, stores, TypeOK
  <1>4. CASE ReqDeleteTable(r)
    <2>1. table'.master = None /\ table'.servants = {} /\ req'[r].pc # "fill"
      BY <1>4 DEF ReqDeleteTable, NoTable, TypeOK, Handler
    <2> QED BY <1>2, <1>3, <2>1, ToggleMembers
  <1>5. CASE ReqCreateTable(r)
    <2>1. table'.master = None /\ table'.servants = table.servants /\ req'[r].pc # "fill"
      BY <1>5 DEF ReqCreateTable, AtPhase, At, TypeOK, Members, Lists
    <2> QED BY <1>2, <1>3, <2>1, ToggleMembers
  <1>6. CASE ReqReadFile(r)
    <2>1. table' = table /\ (req'[r].pc = "fill" => req'[r].list = table.servants)
      BY <1>6 DEF ReqReadFile, stores, AtPhase, At, TypeOK
    <2> QED BY <1>2, <1>3, <2>1, ToggleMembers
  <1>7. CASE \/ ReqCreate(r) \/ ReqDisable(r) \/ ReqEnable(r) \/ ReqMakeShare(r)
             \/ ReqReadDoc(r) \/ ReqWriteFile(r) \/ ReqCommit(r)
    <2>1. table' = table
      BY <1>7 DEF ReqCreate, ReqDisable, ReqEnable, ReqMakeShare, ReqReadDoc, ReqWriteFile,
         ReqCommit, stores
    <2>2. req'[r].pc # "fill"
      BY <1>7 DEF ReqCreate, ReqDisable, ReqEnable, ReqMakeShare, ReqReadDoc, ReqWriteFile,
         ReqCommit, AtPhase, At, TypeOK, Handler
    <2> QED BY <1>2, <1>3, <2>1, <2>2, ToggleMembers
  <1> QED BY <1>4, <1>5, <1>6, <1>7

LEMMA InitMembers == Init => Members
  <1> SUFFICES ASSUME Init PROVE Members
    OBVIOUS
  <1>1. \A s \in Sockets : conn[s].pc = "idle" /\ disc[s].pc = "idle"
    BY DEF Init, AtPhase, At
  <1>2. \A r \in Requests : req[r].pc = "idle"
    BY DEF Init, AtPhase, At
  <1>3. Listed = {} /\ lock = None /\ inBin = FALSE
    BY DEF Init, Listed, NoTable
  <1> QED BY <1>1, <1>2, <1>3 DEF Members, OneAtATime, InOrder, Lists, LastOne, Locks,
        ListedAreConnected, TableLocked, Connecting, Leaving, Toggling, Connected, Sockets

LEMMA NextMembers ==
  ASSUME Regime, TypeOK, Members, [Next]_vars
  PROVE  Members'
  <1>1. ASSUME NEW s \in Sockets, Admit(s) \/ Connect(s) \/ Leave(s) \/ Disconnect(s)
        PROVE  Members'
    BY <1>1, AdmitMembers, ConnectMembers, LeavingMembers, DisconnectMembers
  <1>2. ASSUME NEW s \in Sockets, Push(s) \/ Fetch(s) PROVE Members'
    <2>1. /\ UNCHANGED <<inBin, lock, conn, disc, req>>
          /\ table' = table \/ table' = SetField("doc", push[s].text)
      BY <1>2 DEF Push, PushNoDoc, PushMismatch, PushApply, PushStore, PushTell, PushServants,
           PushMaster, Tell, Fetch,
         stores, handlers
    <2>2. table'.master = table.master /\ table'.servants = table.servants
      BY <2>1, TableType DEF SetField, TypeOK, Table
    <2> QED BY <2>1, <2>2, BesideMembers
  <1>3. ASSUME NEW s \in Sockets, NEW edit, PushExists(s, edit) PROVE Members'
    BY <1>3, BesideMembers DEF PushExists, stores
  <1>4. ASSUME NEW r \in Requests, NEW edit \in Edits,
               ReqSave(r, edit) \/ ReqSaveRefused(r, edit) \/ ReqSaveWrite(r)
        PROVE  Members'
    <2>1. UNCHANGED <<inBin, lock, conn, disc, table>>
      BY <1>4 DEF ReqSave, ReqSaveRefused, ReqSaveWrite, stores
    <2>2. /\ \A q \in Requests \ {r} : req'[q] = req[q]
          /\ req'[r].pc \in {"save", "done"}
      BY <1>4 DEF ReqSave, ReqSaveRefused, ReqSaveWrite, AtPhase, At, TypeOK, Handler
    <2> QED BY <2>1, <2>2, BesideMembers
  <1>5. ASSUME NEW r \in Requests, Request(r) \/ Serve(r) PROVE Members'
    <2>1. CASE ReqSaveWrite(r)
      <3>1. UNCHANGED <<inBin, lock, conn, disc, table>>
        BY <2>1 DEF ReqSaveWrite
      <3>2. /\ \A q \in Requests \ {r} : req'[q] = req[q]
            /\ req'[r].pc = "done"
        BY <2>1 DEF ReqSaveWrite, AtPhase, At, TypeOK
      <3> QED BY <3>1, <3>2, BesideMembers
    <2> QED BY <1>4, <1>5, <2>1, TogglesMembers DEF Request, Serve
  <1>6. CASE UNCHANGED vars
    BY <1>6, BesideMembers DEF vars, stores, handlers
  <1>7. ~MoveToBinOrBack /\ ~ExpireLock /\ ~Crash
    BY DEF Regime, MoveToBinOrBack, ExpireLock, Crash
  <1>8. CASE ExpireUserKey
    BY <1>8, BesideMembers DEF ExpireUserKey, handlers
  <1> QED BY <1>1, <1>2, <1>3, <1>5, <1>6, <1>7, <1>8 DEF Next

LEMMA MembersAlways ==
  ASSUME Regime
  PROVE  Spec => [](TypeOK /\ Members)
  <1>1. Init => TypeOK /\ Members
    BY InitTypeOK, InitMembers
  <1>2. (TypeOK /\ Members) /\ [Next]_vars => (TypeOK /\ Members)'
    BY StepTypeOK, NextMembers
  <1> QED BY <1>1, <1>2, PTL DEF Spec

\* Everybody the table lists is still there, as long as joins, leaves and toggles
\* do not overlap: the list that addServant and removeServant write back is the
\* one that was there.
THEOREM ListedAreConnectedHolds == Regime => (Spec => []ListedAreConnected)
  <1> SUFFICES ASSUME Regime PROVE Spec => []ListedAreConnected
    OBVIOUS
  <1>1. TypeOK /\ Members => ListedAreConnected
    BY DEF Members
  <1> QED BY <1>1, MembersAlways, PTL

\* When all the sockets have gone the lock is free: who leaves without taking it
\* away leaves somebody else in the session.
THEOREM LockFreedHolds == Regime => (Spec => []LockFreed)
  <1> SUFFICES ASSUME Regime PROVE Spec => []LockFreed
    OBVIOUS
  <1>1. TypeOK /\ Members => LockFreed
    BY DEF Members, Locks, LockFreed, Leaving
  <1> QED BY <1>1, MembersAlways, PTL

\* While a listed participant is connected the lock is set, so that replaceText
\* refuses a checked save.
THEOREM TableLockedHolds == Regime => (Spec => []TableLocked)
  <1> SUFFICES ASSUME Regime PROVE Spec => []TableLocked
    OBVIOUS
  <1>1. TypeOK /\ Members => TableLocked
    BY DEF Members
  <1> QED BY <1>1, MembersAlways, PTL

-----------------------------------------------------------------------------
\* What the participants have heard.  The edits that were pushed are noted, and
\* the notes are kept as NotedSpec keeps them.

\* What holds whether a push has crossed or not: an edit is pushed or saved and
\* not both, who has fetched has joined, and a table that exists has a text.
Noted ==
    /\ pushed \subseteq sent
    /\ \A p \in Sockets : Pushing(p) => push[p].edit \in pushed
    /\ \A r \in Requests : Saving(r) => req[r].text \cap pushed = {}
    /\ \A s \in Sockets : view[s] # None => conn[s].pc = "done"
    /\ \A s \in Sockets : conn[s].pc \in {"join", "add"} => table.exists
    /\ \A s \in Sockets : disc[s].pc = "remove" => table.exists
    /\ table.exists => table.doc # None

\* Who pushes does so alone, and is in the session.
PushesAlone ==
    \A p \in Sockets : Pushing(p) =>
        /\ table.exists /\ Connected(p)
        /\ \A s \in Sockets : ~Leaving(s) /\ (Pushing(s) => s = p)
        /\ \A r \in Requests : ~Toggling(r)

\* A session opens on a table that is not there, with the edits that are on disk.
OpensAfresh ==
    /\ \A s \in Sockets : conn[s].pc \in {"read", "create"} => ~table.exists
    /\ \A s \in Sockets : conn[s].pc = "create" => file \cap pushed \subseteq conn[s].text
    /\ table.exists => file \cap pushed \subseteq table.doc

\* The copies of the text that handlers hold are the text.
CopiesAreFresh ==
    /\ \A p \in Sockets : push[p].pc = "store" => push[p].text = table.doc \cup {push[p].edit}
    /\ \A s \in Sockets : disc[s].pc \in {"check", "write"} => disc[s].text = table.doc
    /\ \A r \in Requests : req[r].pc = "flush" => req[r].text = table.doc
    /\ \A r \in Requests : req[r].pc = "fill" =>
          /\ file \cap pushed \subseteq req[r].text
          /\ table.exists => req[r].text \cap pushed \subseteq table.doc

\* A change that is stored is in the text, and when the servants that will be told
\* of it are known, whoever joins them will find it there.
NewcomersKnow ==
    \A p \in Sockets :
        /\ push[p].pc \in {"tell", "master"} => push[p].edit \in table.doc
        /\ push[p].pc = "master" =>
              \A s \in table.servants \ push[p].list :
                 view[s] # None => push[p].edit \in view[s]

Smooth ==
    PushesAlone /\ OpensAfresh /\ CopiesAreFresh /\ NewcomersKnow /\ NoMissedEdit(pushed)

AllHeard == Noted /\ (crossed \/ Smooth)

\* A step of the run, with its notes.
notes == <<pushed, crossed>>
Note ==
    /\ pushed' = pushed \cup BeingPushed'
    /\ crossed' = (crossed \/ Crossing')

Heard == TypeOK /\ Members /\ UnsharedIsIdle /\ OneFate /\ AllHeard

\* A push that runs alone: nobody leaves, toggles or pushes beside it.
LEMMA PushIsAlone ==
  ASSUME ~Crossing, NEW p \in Sockets, Pushing(p)
  PROVE  /\ \A s \in Sockets : ~Leaving(s) /\ (Pushing(s) => s = p)
         /\ \A r \in Requests : ~Toggling(r)
  BY DEF Crossing, Active

LEMMA AloneIsNotCrossing ==
  ASSUME PushesAlone
  PROVE  ~Crossing
  BY DEF PushesAlone, Crossing, Active

\* Who is listed has a table, and its text is a text.
LEMMA ListedHaveTable ==
  ASSUME TypeOK, UnsharedIsIdle
  PROVE  ~table.exists => Listed = {} /\ table = NoTable
  BY DEF UnsharedIsIdle, NoTable, Listed

\* A text that is read from the table is the table's text.
LEMMA StoredText ==
  ASSUME TypeOK
  PROVE  /\ StoredDoc # None => StoredDoc = table.doc /\ table.doc # None
         /\ StoredDoc = None => table.doc \in {None, {}}
  BY DEF StoredDoc

LEMMA NothingNew ==
  ASSUME Noted, Note,
         \A p \in Sockets : Pushing(p)' => Pushing(p) /\ push'[p].edit = push[p].edit
  PROVE  pushed' = pushed
  BY DEF Noted, Note, BeingPushed, Active

LEMMA ConnectHeard ==
  ASSUME Heard, Note, NEW s \in Sockets, Admit(s) \/ Connect(s)
  PROVE  AllHeard'
  <1> USE DEF stores, handlers, history
  <1>1. /\ UNCHANGED <<file, push, disc, req, sent, view>>
        /\ \A t \in Sockets \ {s} : conn'[t] = conn[t]
        /\ conn[s].pc # "done" /\ conn'[s].pc # "idle"
    BY DEF Heard, TypeOK, Handler, Admit, Connect, ConnSetLock, AfterLock, ConnIsEnabled,
       ConnExists, ConnReadFile, ConnCreateTable, ConnSetMaster, ConnReadServants,
       ConnAddServant, AtPhase, At
  <1>2. pushed' = pushed
    BY <1>1, NothingNew DEF Heard, AllHeard, Pushing
  <1>3. view[s] = None
    BY <1>1 DEF Heard, AllHeard, Noted
  <1>4. table' # table =>
          /\ conn[s].pc \in {"create", "join", "add"} /\ conn'[s].pc = "done"
          /\ \A t \in Sockets : ~Leaving(t) /\ (Connecting(t) => t = s)
          /\ \A r \in Requests : ~Toggling(r)
    <2>1. table' # table => conn[s].pc \in {"create", "join", "add"} /\ conn'[s].pc = "done"
      BY DEF Heard, TypeOK, Handler, Admit, Connect, ConnSetLock, ConnIsEnabled,
         ConnExists, ConnReadFile, ConnCreateTable, ConnSetMaster, ConnReadServants,
         ConnAddServant, AtPhase, At
    <2> QED BY <2>1 DEF Heard, Members, OneAtATime, Connecting
  <1>5. \/ table' = table
        \/ table.exists /\ table'.exists /\ table'.doc = table.doc
           /\ conn[s].pc \in {"join", "add"} /\ Listed' \subseteq Listed \cup {s}
           /\ table'.servants \subseteq table.servants \cup {s}
        \/ ConnCreateTable(s) /\ conn[s].pc = "create" /\ table'.exists
           /\ table'.doc = conn[s].text /\ Listed' \subseteq {s}
    <2>1. CASE ConnCreateTable(s)
      BY <2>1 DEF ConnCreateTable, Listed
    <2>2. CASE ConnSetMaster(s)
      <3>1. conn[s].pc = "join" /\ table' = SetField("master", s)
        BY <2>2 DEF ConnSetMaster
      <3>2. table'.exists /\ table'.doc = table.doc /\ table'.master = s
            /\ table'.servants = table.servants
        BY <3>1, TableType DEF Heard, TypeOK, SetField, Table
      <3> QED BY <3>1, <3>2 DEF Heard, AllHeard, Noted, Listed
    <2>3. CASE ConnAddServant(s)
      <3>1. conn[s].pc = "add" /\ table' = SetField("servants", conn[s].list \cup {s})
            /\ conn[s].list = table.servants
        BY <2>3 DEF ConnAddServant, Heard, Members, Lists
      <3>2. table'.exists /\ table'.doc = table.doc /\ table'.master = table.master
            /\ table'.servants = table.servants \cup {s}
        BY <3>1, TableType DEF Heard, TypeOK, SetField, Table
      <3> QED BY <3>1, <3>2 DEF Heard, AllHeard, Noted, Listed
    <2>4. CASE \/ Admit(s) \/ ConnSetLock(s) \/ ConnIsEnabled(s) \/ ConnExists(s)
               \/ ConnReadFile(s) \/ ConnReadServants(s)
      BY <2>4 DEF Admit, ConnSetLock, ConnIsEnabled, ConnExists, ConnReadFile, ConnReadServants
    <2> QED BY <2>1, <2>2, <2>3, <2>4 DEF Connect
  <1>6. conn[s].text \in Texts /\ None \notin Texts /\ inBin = FALSE
    BY DistinctAssumption DEF Heard, TypeOK, Handler, Members, Texts
  <1>7. /\ conn'[s].pc \in {"join", "add"} => table.exists /\ table' = table
        /\ conn'[s].pc = "read" => ~table.exists /\ table' = table
        /\ conn'[s].pc = "create" =>
             conn[s].pc = "read" /\ table' = table /\ conn'[s].text = file
    BY <1>6 DEF Heard, AllHeard, Noted, TypeOK, Handler, Admit, Connect, ConnSetLock, AfterLock,
       ConnIsEnabled, ConnExists, ConnReadFile, ConnCreateTable, ConnSetMaster,
       ConnReadServants, ConnAddServant, AtPhase, At
  <1>8. Noted'
    <2>1. table.exists => table'.exists
      BY <1>5
    <2>2. table'.exists => table'.doc # None
      BY <1>5, <1>6 DEF Heard, AllHeard, Noted
    <2>3. \A t \in Sockets : conn'[t].pc \in {"join", "add"} => table'.exists
      BY <1>1, <1>7, <2>1 DEF Heard, AllHeard, Noted
    <2>4. \A t \in Sockets : view'[t] # None => conn'[t].pc = "done"
      BY <1>1, <1>3 DEF Heard, AllHeard, Noted
    <2> QED BY <1>1, <1>2, <2>1, <2>2, <2>3, <2>4 DEF Heard, AllHeard, Noted, Pushing, Saving
  <1>9. ASSUME ~crossed' PROVE Smooth'
    <2>1. Smooth
      BY <1>9 DEF Note, Heard, AllHeard
    <2>2. PushesAlone'
      BY <1>1, <1>5, <2>1 DEF Smooth, PushesAlone, Pushing, Connected, Leaving, Toggling
    <2>3. OpensAfresh'
      <3>1. ASSUME NEW t \in Sockets, conn'[t].pc \in {"read", "create"} PROVE ~table'.exists
        <4>1. table' = table
          BY <1>1, <1>4, <3>1 DEF Connecting
        <4> QED BY <1>1, <1>7, <2>1, <3>1, <4>1 DEF Smooth, OpensAfresh
      <3>2. ASSUME NEW t \in Sockets, conn'[t].pc = "create"
            PROVE  file' \cap pushed' \subseteq conn'[t].text
        BY <1>1, <1>2, <1>7, <2>1, <3>2 DEF Smooth, OpensAfresh
      <3>3. table'.exists => file' \cap pushed' \subseteq table'.doc
        BY <1>1, <1>2, <1>5, <2>1 DEF Smooth, OpensAfresh
      <3> QED BY <3>1, <3>2, <3>3 DEF OpensAfresh
    <2>6. (\E p \in Sockets : Pushing(p)) =>
             table'.doc = table.doc /\ table'.servants \subseteq table.servants \cup {s}
      BY <1>5, <2>1 DEF Smooth, PushesAlone, OpensAfresh
    <2>7. NewcomersKnow'
      BY <1>1, <1>3, <2>1, <2>6 DEF Smooth, NewcomersKnow, Pushing
    <2>4. CopiesAreFresh'
      <3>1. (\E p \in Sockets : Pushing(p)) => table'.doc = table.doc
        BY <2>6
      <3>2. \A p \in Sockets : push'[p].pc = "store" =>
              push'[p].text = table'.doc \cup {push'[p].edit}
        BY <1>1, <2>1, <3>1 DEF Smooth, CopiesAreFresh, Pushing
      <3>3. CASE table' = table
        BY <1>1, <1>2, <2>1, <3>2, <3>3 DEF Smooth, CopiesAreFresh
      <3>4. CASE table' # table
        BY <1>1, <1>4, <3>2, <3>4 DEF CopiesAreFresh, Leaving, Toggling
      <3> QED BY <3>3, <3>4
    <2>5. NoMissedEdit(pushed)'
      <3> SUFFICES ASSUME NEW t \in Listed', view'[t] # None, table'.doc # None
                   PROVE  table'.doc \cap pushed' \subseteq view'[t] \cup Untold'
        BY DEF NoMissedEdit
      <3>1. Untold' = Untold /\ view' = view
        BY <1>1 DEF Untold
      <3>2. t # s
        BY <1>3, <3>1
      <3>3. t \in Listed /\ table'.doc = table.doc
        BY <1>5, <3>2 DEF Listed
      <3> QED BY <1>2, <2>1, <3>1, <3>3 DEF Smooth, NoMissedEdit
    <2> QED BY <2>2, <2>3, <2>4, <2>5, <2>7 DEF Smooth
  <1> QED BY <1>8, <1>9 DEF AllHeard

LEMMA DisconnectHeard ==
  ASSUME Heard, Note, NEW s \in Sockets, Leave(s) \/ Disconnect(s)
  PROVE  AllHeard'
  <1> USE DEF stores, handlers, history
  <1>1. /\ UNCHANGED <<inBin, conn, push, req, sent, view>>
        /\ \A t \in Sockets \ {s} : disc'[t] = disc[t]
    BY DEF Heard, TypeOK, Leave, Disconnect, DiscParams, DiscServants, DiscMaster, DiscRemoveLock,
       DiscReadDoc, DiscCheckLock, DiscWriteFile, DiscDeleteTable, DiscRemoveSelf
  <1>2. pushed' = pushed
    BY <1>1, NothingNew DEF Heard, AllHeard, Pushing
  <1>3. Disconnect(s) =>
          /\ Leaving(s)
          /\ \A t \in Sockets : ~Connecting(t) /\ (Leaving(t) => t = s)
          /\ \A r \in Requests : ~Toggling(r)
    <2>1. Disconnect(s) => Leaving(s)
      BY DEF Disconnect, DiscParams, DiscServants, DiscMaster, DiscRemoveLock, DiscReadDoc,
           DiscCheckLock, DiscWriteFile, DiscDeleteTable, DiscRemoveSelf, Leaving
    <2> QED BY <2>1 DEF Heard, Members, OneAtATime
  <1>4. Leave(s) => UNCHANGED <<table, file>> /\ disc'[s].pc = "params" /\ Connected(s)
    BY DEF Leave, Heard, TypeOK, Handler
  <1>5. \/ table' = table
        \/ DiscRemoveSelf(s) /\ table.exists /\ table'.exists /\ table'.doc = table.doc
           /\ Listed' \subseteq Listed
        \/ DiscDeleteTable(s) /\ table' = NoTable
    <2>1. CASE DiscRemoveSelf(s)
      <3>1. table.exists /\ table'.exists /\ table'.doc = table.doc
        BY <2>1, SetFieldExists, SetFieldDoc
           DEF DiscRemoveSelf, Heard, AllHeard, Noted, TypeOK
      <3>2. CASE s \in Servants
        <4>1. table'.servants = table.servants \ {s} /\ table'.master = table.master
          BY <2>1, <3>2, TableType
             DEF DiscRemoveSelf, SetField, Heard, TypeOK, Table, Members, Lists
        <4> QED BY <2>1, <3>1, <4>1 DEF Listed
      <3>3. CASE s \notin Servants
        <4>1. table'.servants = table.servants /\ table'.master = None
          BY <2>1, <3>3, TableType DEF DiscRemoveSelf, SetField, Heard, TypeOK, Table
        <4> QED BY <2>1, <3>1, <4>1 DEF Listed
      <3> QED BY <3>2, <3>3
    <2>2. CASE DiscDeleteTable(s)
      BY <2>2 DEF DiscDeleteTable
    <2>3. CASE \/ Leave(s) \/ DiscParams(s) \/ DiscServants(s) \/ DiscMaster(s) \/ DiscRemoveLock(s)
               \/ DiscReadDoc(s) \/ DiscCheckLock(s) \/ DiscWriteFile(s)
      BY <2>3 DEF Leave, DiscParams, DiscServants, DiscMaster, DiscRemoveLock, DiscReadDoc,
           DiscCheckLock, DiscWriteFile
    <2> QED BY <2>1, <2>2, <2>3 DEF Disconnect
  <1>6. disc'[s].pc = "remove" => table.exists /\ table' = table
    <2>1. ASSUME disc'[s].pc = "remove", DiscServants(s) PROVE table.exists /\ table' = table
      <3>1. table.servants # {} /\ table' = table
        BY <2>1 DEF DiscServants, Heard, TypeOK, AtPhase, At
      <3> QED BY <3>1, ListedHaveTable DEF Heard, Listed
    <2>2. ASSUME disc'[s].pc = "remove", DiscMaster(s) PROVE table.exists /\ table' = table
      <3>1. (table.servants # {} \/ table.master # None) /\ table' = table
        BY <2>2 DEF DiscMaster, Heard, Members, Lists, TypeOK, AtPhase, At
      <3> QED BY <3>1, ListedHaveTable DEF Heard, Listed
    <2>3. Leave(s) \/ DiscParams(s) \/ DiscRemoveLock(s) \/ DiscReadDoc(s) \/ DiscCheckLock(s)
            \/ DiscWriteFile(s) \/ DiscDeleteTable(s) \/ DiscRemoveSelf(s)
          => disc'[s].pc # "remove"
      BY DEF Leave, DiscParams, DiscRemoveLock, DiscReadDoc, DiscCheckLock, DiscWriteFile,
         DiscDeleteTable, DiscRemoveSelf, Heard, TypeOK, Handler, AtPhase, At
    <2> QED BY <2>1, <2>2, <2>3 DEF Disconnect
  <1>7. /\ disc'[s].pc \in {"check", "write"} =>
             /\ table' = table /\ file' = file
             /\ disc'[s].text = table.doc
                \/ (disc[s].pc = "check" /\ disc'[s].text = disc[s].text)
        /\ file' = file \/ (disc[s].pc = "write" /\ table' = table /\ file' = disc[s].text)
    BY DEF Leave, Disconnect, DiscParams, DiscServants, DiscMaster, DiscRemoveLock, DiscReadDoc,
       DiscCheckLock, DiscWriteFile, DiscDeleteTable, DiscRemoveSelf, StoredDoc, Heard,
       TypeOK, Handler, AtPhase, At
  <1>8. Noted'
    <2>1. table'.exists => table'.doc # None
      BY <1>5 DEF Heard, AllHeard, Noted, NoTable
    <2>2. \A t \in Sockets : conn'[t].pc \in {"join", "add"} => table'.exists
      BY <1>1, <1>3, <1>4 DEF Heard, AllHeard, Noted, Connecting
    <2>3. \A t \in Sockets : disc'[t].pc = "remove" => table'.exists
      BY <1>1, <1>3, <1>4, <1>6 DEF Heard, AllHeard, Noted, Leaving
    <2> QED BY <1>1, <1>2, <2>1, <2>2, <2>3 DEF Heard, AllHeard, Noted, Pushing, Saving
  <1>9. ASSUME ~crossed' PROVE Smooth'
    <2>1. Smooth /\ ~Crossing'
      BY <1>9 DEF Note, Heard, AllHeard
    <2>2. \A p \in Sockets : ~Pushing(p)
      <3>1. CASE Disconnect(s)
        BY <1>3, <2>1, <3>1 DEF Smooth, PushesAlone
      <3>2. CASE Leave(s)
        <4>1. Leaving(s)'
          BY <1>4, <3>2 DEF Leaving
        <4> QED BY <1>1, <2>1, <4>1 DEF Crossing, Active, Pushing
      <3> QED BY <3>1, <3>2
    <2>3. PushesAlone'
      BY <1>1, <2>2 DEF PushesAlone, Pushing
    <2>4. OpensAfresh'
      <3>1. \A t \in Sockets : conn'[t].pc \in {"read", "create"} =>
               UNCHANGED <<table, file>>
        BY <1>1, <1>3, <1>4 DEF Connecting
      <3>2. table'.exists => file' \cap pushed' \subseteq table'.doc
        <4>1. CASE file' = file
          BY <1>2, <1>5, <2>1, <4>1 DEF Smooth, OpensAfresh, NoTable
        <4>2. CASE disc[s].pc = "write" /\ table' = table /\ file' = disc[s].text
          BY <1>2, <2>1, <4>2 DEF Smooth, CopiesAreFresh
        <4> QED BY <1>7, <4>1, <4>2
      <3> QED BY <1>1, <1>2, <2>1, <3>1, <3>2 DEF Smooth, OpensAfresh
    <2>5. CopiesAreFresh'
      <3>1. \A p \in Sockets : push'[p].pc # "store"
        BY <1>1, <2>2 DEF Pushing
      <3>2. ASSUME NEW t \in Sockets, disc'[t].pc \in {"check", "write"}
            PROVE  disc'[t].text = table'.doc
        <4>1. CASE t = s
          BY <1>7, <2>1, <3>2, <4>1 DEF Smooth, CopiesAreFresh
        <4>2. CASE t # s
          BY <1>1, <1>3, <1>4, <2>1, <3>2, <4>2 DEF Smooth, CopiesAreFresh, Leaving
        <4> QED BY <4>1, <4>2
      <3>3. \A r \in Requests : req[r].pc \in {"flush", "fill"} => UNCHANGED <<table, file>>
        BY <1>3, <1>4 DEF Toggling
      <3> QED BY <1>1, <1>2, <2>1, <3>1, <3>2, <3>3 DEF Smooth, CopiesAreFresh
    <2>6. NoMissedEdit(pushed)'
      <3> SUFFICES ASSUME NEW t \in Listed', view'[t] # None, table'.doc # None
                   PROVE  table'.doc \cap pushed' \subseteq view'[t] \cup Untold'
        BY DEF NoMissedEdit
      <3>1. Untold' = Untold /\ view' = view
        BY <1>1 DEF Untold
      <3>2. t \in Listed /\ table'.doc = table.doc
        BY <1>5 DEF Listed, NoTable
      <3> QED BY <1>2, <2>1, <3>1, <3>2 DEF Smooth, NoMissedEdit
    <2>7. NewcomersKnow'
      BY <1>1, <2>2 DEF NewcomersKnow, Pushing
    <2> QED BY <2>3, <2>4, <2>5, <2>6, <2>7 DEF Smooth
  <1> QED BY <1>8, <1>9 DEF AllHeard

\* A push: alone, it reads, stores and tells.
LEMMA PushExistsHeard ==
  ASSUME Heard, Note, NEW s \in Sockets, NEW edit \in Edits \ sent, PushExists(s, edit)
  PROVE  AllHeard'
  <1> USE DEF stores, handlers, history
  <1>1. /\ UNCHANGED <<file, table, conn, disc, req, view>> /\ ~Pushing(s) /\ Connected(s)
        /\ sent' = sent \cup {edit}
        /\ \A p \in Sockets \ {s} : push'[p] = push[p]
        /\ \/ push'[s] = push[s]
           \/ table.exists /\ push'[s].pc = "read" /\ push'[s].edit = edit
    BY DistinctAssumption DEF PushExists, Heard, TypeOK
  <1>2. pushed' \subseteq pushed \cup {edit}
    BY <1>1 DEF Note, BeingPushed, Active, Pushing, Heard, AllHeard, Noted
  <1>3. Pushing(s)' => edit \in pushed'
    BY <1>1 DEF Note, BeingPushed, Active, Pushing
  <1>4. ~Written(edit) /\ \A r \in Requests : ~Saved(r, edit)
    BY DistinctAssumption DEF Heard, OneFate, OneFateOf, Seen
  <1>5. pushed \subseteq pushed'
    BY DEF Note
  <1>6. Noted'
    <2>1. \A r \in Requests : Saving(r)' => req'[r].text \cap pushed' = {}
      BY <1>1, <1>2, <1>4 DEF Heard, AllHeard, Noted, Saving, Saved
    <2>2. \A p \in Sockets : Pushing(p)' => push'[p].edit \in pushed'
      BY <1>1, <1>3, <1>5 DEF Heard, AllHeard, Noted, Pushing
    <2> QED BY <1>1, <1>2, <2>1, <2>2 DEF Heard, AllHeard, Noted
  <1>7. ASSUME ~crossed' PROVE Smooth'
    <2>1. Smooth /\ ~Crossing'
      BY <1>7 DEF Note, Heard, AllHeard
    <2>2. PushesAlone'
      <3> SUFFICES ASSUME NEW p \in Sockets, Pushing(p)'
                   PROVE  /\ table'.exists /\ Connected(p)'
                          /\ \A t \in Sockets : ~Leaving(t)' /\ (Pushing(t)' => t = p)
                          /\ \A r \in Requests : ~Toggling(r)'
        BY DEF PushesAlone
      <3>1. /\ \A t \in Sockets : ~Leaving(t)' /\ (Pushing(t)' => t = p)
            /\ \A r \in Requests : ~Toggling(r)'
        BY <2>1 DEF Crossing, Active
      <3>2. table'.exists /\ Connected(p)'
        BY <1>1, <2>1 DEF Smooth, PushesAlone, Pushing, Connected
      <3> QED BY <3>1, <3>2
    <2>3. OpensAfresh'
      <3>1. file' \cap pushed' = file \cap pushed
        BY <1>1, <1>2, <1>4, <1>5 DEF Written
      <3> QED BY <1>1, <2>1, <3>1 DEF Smooth, OpensAfresh
    <2>4. CopiesAreFresh'
      <3>1. \A p \in Sockets : push'[p].pc = "store" => push'[p] = push[p]
        BY <1>1
      <3>2. file' \cap pushed' = file \cap pushed
        BY <1>1, <1>2, <1>4, <1>5 DEF Written
      <3>3. \A r \in Requests : req[r].pc = "fill" =>
               req[r].text \cap pushed' = req[r].text \cap pushed
        BY <1>2, <1>4, <1>5 DEF Written
      <3> QED BY <1>1, <2>1, <3>1, <3>2, <3>3 DEF Smooth, CopiesAreFresh
    <2>6. \A p \in Sockets : push[p].pc \in {"tell", "master"} \/ push'[p].pc \in {"tell", "master"}
             => push'[p] = push[p]
      BY <1>1 DEF Pushing
    <2>7. NewcomersKnow'
      BY <1>1, <2>1, <2>6 DEF Smooth, NewcomersKnow
    <2>5. NoMissedEdit(pushed)'
      <3>1. table.doc # None => table'.doc \cap pushed' = table.doc \cap pushed
        BY <1>1, <1>2, <1>4, <1>5 DEF Written
      <3>2. Untold' = Untold
        BY <2>6 DEF Untold
      <3>3. Listed' = Listed /\ view' = view /\ table' = table
        BY <1>1 DEF Listed
      <3> QED BY <2>1, <3>1, <3>2, <3>3 DEF Smooth, NoMissedEdit
    <2> QED BY <2>2, <2>3, <2>4, <2>5, <2>7 DEF Smooth
  <1> QED BY <1>6, <1>7 DEF AllHeard

LEMMA PushHeard ==
  ASSUME Heard, Note, NEW s \in Sockets, Push(s)
  PROVE  AllHeard'
  <1> USE DEF stores, handlers, history
  <1>1. /\ UNCHANGED <<file, conn, disc, req, sent>> /\ Pushing(s)
        /\ \A p \in Sockets \ {s} : push'[p] = push[p]
        /\ push'[s] = NoPush \/ push'[s].edit = push[s].edit
    BY DEF Push, PushNoDoc, PushMismatch, PushApply, PushStore, PushTell, PushServants,
         PushMaster, Tell, Pushing, Heard, TypeOK
  <1>2. pushed' = pushed
    BY <1>1, NothingNew DEF Heard, AllHeard, Pushing, NoPush
  <1>3. \/ ~PushStore(s) /\ table' = table
        \/ /\ PushStore(s) /\ table'.exists /\ table'.doc = push[s].text
           /\ table'.master = table.master /\ table'.servants = table.servants
    BY TableType, SetFieldExists, SetFieldDoc
       DEF Push, PushNoDoc, PushMismatch, PushApply, PushStore, PushTell, PushServants,
       PushMaster, Tell, SetField, Heard, TypeOK, Table
  <1>4. push[s].text \in Texts /\ None \notin Texts /\ push[s].edit \in pushed
    BY <1>1, DistinctAssumption DEF Heard, TypeOK, Texts, AllHeard, Noted
  <1>5. Listed' = Listed
    BY <1>3 DEF Listed
  <1>6. \A t \in Sockets : view'[t] = None <=> view[t] = None
    <2>1. CASE PushTell(s) \/ PushMaster(s)
      <3>1. \A t \in Sockets : view[t] # None => view[t] \in SUBSET Edits
        BY DEF Heard, TypeOK
      <3>2. push[s].edit \in Edits
        BY <1>4 DEF Heard, AllHeard, Noted, TypeOK
      <3>3. \A t \in Sockets : view[t] # None => view[t] \cup ({push[s].edit} \ {Clear}) # None
        BY <3>1, <3>2, DistinctAssumption DEF Texts
      <3> QED BY <2>1, <3>3 DEF PushTell, PushMaster, Tell
    <2>2. CASE ~(PushTell(s) \/ PushMaster(s))
      BY <2>2 DEF Push, PushNoDoc, PushMismatch, PushApply, PushStore, PushServants
    <2> QED BY <2>1, <2>2
  <1>7. Noted'
    <2>1. \A p \in Sockets : Pushing(p)' => push'[p].edit \in pushed'
      BY <1>1, <1>2 DEF Heard, AllHeard, Noted, Pushing, NoPush
    <2>2. \A t \in Sockets : view'[t] # None => conn'[t].pc = "done"
      BY <1>1, <1>6 DEF Heard, AllHeard, Noted
    <2>3. (table.exists => table'.exists) /\ (table'.exists => table'.doc # None)
      BY <1>3, <1>4 DEF Heard, AllHeard, Noted
    <2> QED BY <1>1, <1>2, <2>1, <2>2, <2>3 DEF Heard, AllHeard, Noted, Saving
  <1>8. ASSUME ~crossed' PROVE Smooth'
    <2>1. Smooth
      BY <1>8 DEF Note, Heard, AllHeard
    <2>2. /\ table.exists /\ table.doc # None /\ Connected(s)
          /\ \A t \in Sockets : ~Leaving(t) /\ (Pushing(t) => t = s)
          /\ \A r \in Requests : ~Toggling(r)
      BY <1>1, <2>1 DEF Smooth, PushesAlone, Heard, AllHeard, Noted
    <2>3. table'.exists
      BY <1>3, <2>2
    <2>4. PushesAlone'
      BY <1>1, <2>2, <2>3 DEF PushesAlone, Pushing, Connected, Leaving, Toggling
    <2>5. table.doc \subseteq table'.doc
      BY <1>3, <2>1 DEF PushStore, Smooth, CopiesAreFresh
    <2>6. OpensAfresh'
      BY <1>1, <1>2, <2>1, <2>2, <2>5 DEF Smooth, OpensAfresh
    <2>7. CopiesAreFresh'
      <3>1. push'[s].pc = "store" => push'[s].text = table'.doc \cup {push'[s].edit}
        <4>1. CASE PushApply(s)
          <5>1. push[s].edit # Clear /\ StoredDoc = table.doc /\ table' = table
            BY <1>4, <4>1, StoredText, DistinctAssumption
               DEF PushApply, Heard, TypeOK, AllHeard, Noted
          <5>2. push'[s].text = table.doc \cup {push[s].edit} /\ push'[s].edit = push[s].edit
            BY <4>1, <5>1 DEF PushApply, Heard, TypeOK
          <5> QED BY <5>1, <5>2
        <4>2. CASE \/ PushNoDoc(s) \/ PushMismatch(s) \/ PushStore(s) \/ PushTell(s)
                   \/ PushServants(s) \/ PushMaster(s)
          BY <4>2 DEF PushNoDoc, PushMismatch, PushStore, PushTell, PushServants, PushMaster,
               Tell, NoPush, Heard, TypeOK
        <4> QED BY <4>1, <4>2 DEF Push
      <3>2. \A p \in Sockets : push'[p].pc = "store" => p = s
        BY <1>1, <2>2 DEF Pushing
      <3>3. \A t \in Sockets : disc'[t].pc \notin {"check", "write"}
        BY <1>1, <2>2 DEF Leaving
      <3>4. \A r \in Requests : req'[r].pc \notin {"flush", "fill"}
        BY <1>1, <2>2 DEF Toggling
      <3> QED BY <3>1, <3>2, <3>3, <3>4 DEF CopiesAreFresh
    <2>8. NoMissedEdit(pushed)'
      <3> SUFFICES ASSUME NEW t \in Listed, view'[t] # None
                   PROVE  table'.doc \cap pushed \subseteq view'[t] \cup Untold'
        BY <1>2, <1>5 DEF NoMissedEdit
      <3>1. t \in Sockets /\ view[t] # None
        BY <1>6, ListedSockets DEF Heard
      <3>2. table.doc \cap pushed \subseteq view[t] \cup Untold
        BY <2>1, <2>2, <3>1 DEF Smooth, NoMissedEdit
      <3>3. Untold \subseteq {push[s].edit} /\ (Untold # {} => push[s].pc \in {"tell", "master"})
        BY <2>2 DEF Untold, Pushing
      <3>4. CASE PushStore(s)
        <4>1. Untold = {} /\ push[s].edit \in Untold' /\ view' = view
          BY <3>3, <3>4 DEF PushStore, Untold, Heard, TypeOK
        <4>2. table'.doc = table.doc \cup {push[s].edit}
          BY <1>3, <2>1, <3>4 DEF PushStore, Smooth, CopiesAreFresh
        <4> QED BY <3>2, <4>1, <4>2
      <3>7. push[s].edit # Clear
        BY <1>4, DistinctAssumption DEF Heard, AllHeard, Noted, TypeOK
      <3>5. CASE PushTell(s)
        <4>1. t \in {s} \cup table.servants
          <5>1. CASE t \notin table.servants
            <6>1. t \in Owners /\ s \in Owners
              BY <3>5, <5>1, TableType DEF Listed, Heard, TypeOK, PushTell
            <6>2. Connected(t)
              BY <2>2, <3>1 DEF Heard, Members, ListedAreConnected
            <6> QED BY <2>2, <6>1, <6>2 DEF Heard, Members, InOrder
          <5> QED BY <5>1
        <4>2. view'[t] = view[t] \cup ({push[s].edit} \ {Clear}) /\ table' = table
          BY <3>1, <3>5, <4>1 DEF PushTell, Tell
        <4> QED BY <3>2, <3>3, <3>7, <4>2
      <3>8. CASE PushServants(s)
        <4>1. UNCHANGED <<table, view>>
          BY <3>8 DEF PushServants
        <4>2. push'[s].pc = "master" /\ push'[s].edit = push[s].edit
          BY <3>8 DEF PushServants, Heard, TypeOK
        <4>3. Untold \subseteq Untold'
          BY <3>3, <4>2 DEF Untold
        <4> QED BY <3>2, <4>1, <4>3
      <3>9. CASE PushMaster(s)
        <4>1. table' = table /\ push[s].pc = "master"
          BY <3>9 DEF PushMaster, Tell
        <4>2. view[t] \subseteq view'[t]
          BY <3>1, <3>9 DEF PushMaster, Tell
        <4>3. push[s].edit \in view'[t]
          <5>1. CASE t \in table.servants \ push[s].list
            BY <2>1, <3>1, <4>1, <4>2, <5>1 DEF Smooth, NewcomersKnow
          <5>2. CASE t \notin table.servants \ push[s].list
            <6>1. t \in push[s].list \cup ({table.master} \ {None})
              BY <5>2 DEF Listed
            <6> QED BY <3>1, <3>7, <3>9, <6>1 DEF PushMaster, Tell
          <5> QED BY <5>1, <5>2
        <4> QED BY <3>2, <3>3, <4>1, <4>2, <4>3
      <3>6. CASE PushNoDoc(s) \/ PushMismatch(s) \/ PushApply(s)
        <4>1. UNCHANGED <<table, view>> /\ Untold = {}
          BY <3>3, <3>6 DEF PushNoDoc, PushMismatch, PushApply
        <4> QED BY <3>2, <4>1
      <3> QED BY <3>4, <3>5, <3>6, <3>8, <3>9 DEF Push
    <2>9. NewcomersKnow'
      <3>1. \A p \in Sockets : push'[p].pc \in {"tell", "master"} => p = s
        BY <1>1, <2>2 DEF Pushing
      <3>2. CASE PushStore(s)
        <4>1. push'[s].pc = "tell" /\ push'[s].edit = push[s].edit
          BY <3>2 DEF PushStore, Heard, TypeOK
        <4>2. push[s].edit \in table'.doc
          BY <1>3, <2>1, <3>2 DEF PushStore, Smooth, CopiesAreFresh
        <4> QED BY <3>1, <4>1, <4>2 DEF NewcomersKnow
      <3>3. CASE PushServants(s)
        <4>1. /\ push'[s].pc = "master" /\ push'[s].edit = push[s].edit
              /\ push'[s].list = table.servants /\ table' = table
          BY <3>3 DEF PushServants, Heard, TypeOK
        <4>2. push[s].edit \in table.doc
          BY <2>1, <3>3 DEF PushServants, Smooth, NewcomersKnow
        <4> QED BY <3>1, <4>1, <4>2 DEF NewcomersKnow
      <3>4. CASE \/ PushNoDoc(s) \/ PushMismatch(s) \/ PushApply(s) \/ PushTell(s)
                 \/ PushMaster(s)
        <4>1. push'[s].pc \notin {"tell", "master"}
          BY <3>4 DEF PushNoDoc, PushMismatch, PushApply, PushTell, PushMaster, Tell, NoPush,
             Heard, TypeOK
        <4> QED BY <3>1, <4>1 DEF NewcomersKnow
      <3> QED BY <3>2, <3>3, <3>4 DEF Push
    <2> QED BY <2>4, <2>6, <2>7, <2>8, <2>9 DEF Smooth
  <1> QED BY <1>7, <1>8 DEF AllHeard

\* A step that leaves the table, the sockets and what a toggle has read alone.
LEMMA BesideHeard ==
  ASSUME Heard, Note, UNCHANGED <<table, conn, push, disc, view>>, sent \subseteq sent',
         \A r \in Requests : /\ Saving(r)' => req'[r].text \cap pushed = {}
                             /\ req'[r].pc \in {"flush", "fill"} => req'[r] = req[r],
         file' = file \/ file' \cap pushed = {}
  PROVE  AllHeard'
  <1>1. pushed' = pushed
    BY NothingNew DEF Heard, AllHeard, Pushing
  <1>2. Noted'
    BY <1>1 DEF Heard, AllHeard, Noted, Pushing
  <1>3. ASSUME ~crossed' PROVE Smooth'
    <2>1. Smooth /\ ~Crossing'
      BY <1>3 DEF Note, Heard, AllHeard
    <2>2. PushesAlone'
      <3>1. \A p \in Sockets, r \in Requests : Pushing(p)' => ~Toggling(r)'
        BY <2>1 DEF Crossing, Active
      <3> QED BY <2>1, <3>1 DEF Smooth, PushesAlone, Pushing, Connected, Leaving
    <2>3. OpensAfresh' /\ CopiesAreFresh' /\ NewcomersKnow'
      BY <1>1, <2>1 DEF Smooth, OpensAfresh, CopiesAreFresh, NewcomersKnow
    <2>4. NoMissedEdit(pushed)'
      BY <1>1, <2>1 DEF Smooth, NoMissedEdit, Listed, Untold
    <2> QED BY <2>2, <2>3, <2>4 DEF Smooth
  <1> QED BY <1>2, <1>3 DEF AllHeard

LEMMA FetchHeard ==
  ASSUME Heard, Note, NEW s \in Sockets, Fetch(s)
  PROVE  AllHeard'
  <1> USE DEF stores, handlers
  <1>1. /\ UNCHANGED <<file, table, conn, push, disc, req, sent>> /\ conn[s].pc = "done"
        /\ \A t \in Sockets \ {s} : view'[t] = view[t]
    BY DEF Fetch, Heard, TypeOK
  <1>2. pushed' = pushed
    BY <1>1, NothingNew DEF Heard, AllHeard, Pushing
  <1>3. Noted'
    BY <1>1, <1>2 DEF Heard, AllHeard, Noted, Pushing, Saving
  <1>4. ASSUME ~crossed' PROVE Smooth'
    <2>1. Smooth
      BY <1>4 DEF Note, Heard, AllHeard
    <2>2. PushesAlone' /\ OpensAfresh' /\ CopiesAreFresh'
      BY <1>1, <1>2, <2>1 DEF Smooth, PushesAlone, OpensAfresh, CopiesAreFresh, Pushing,
         Connected, Leaving, Toggling
    <2>3. NoMissedEdit(pushed)'
      <3> SUFFICES ASSUME NEW t \in Listed, view'[t] # None, table.doc # None
                   PROVE  table.doc \cap pushed \subseteq view'[t] \cup Untold
        BY <1>1, <1>2 DEF NoMissedEdit, Listed, Untold
      <3>1. CASE t = s
        <4>1. pushed \subseteq Edits
          BY DEF Heard, AllHeard, Noted, TypeOK
        <4>2. StoredDoc # None => table.doc \cap Edits \subseteq view'[s]
          BY StoredText DEF Fetch, Heard, TypeOK
        <4>3. StoredDoc = None => table.doc = {}
          BY StoredText DEF Heard
        <4> QED BY <3>1, <4>1, <4>2, <4>3
      <3>2. CASE t # s
        BY <1>1, <2>1, <3>2, ListedSockets DEF Smooth, NoMissedEdit, Heard
      <3> QED BY <3>1, <3>2
    <2>4. NewcomersKnow'
      <3> SUFFICES ASSUME NEW p \in Sockets, push[p].pc = "master",
                          NEW t \in table.servants \ push[p].list, view'[t] # None
                   PROVE  push[p].edit \in view'[t]
        BY <1>1, <2>1 DEF Smooth, NewcomersKnow
      <3>1. push[p].edit \in table.doc /\ push[p].edit \in Edits
        BY <2>1 DEF Smooth, NewcomersKnow, Heard, AllHeard, Noted, TypeOK, Pushing
      <3>2. CASE t = s
        <4>1. StoredDoc # None /\ StoredDoc = table.doc
          BY <2>1, <3>1, DistinctAssumption, StoredText
             DEF StoredDoc, Smooth, PushesAlone, Pushing, Heard, AllHeard, Noted
        <4> QED BY <3>1, <3>2, <4>1 DEF Fetch, Heard, TypeOK
      <3>3. CASE t # s
        <4>1. t \in Sockets
          BY TableType DEF Heard, TypeOK, Sockets
        <4> QED BY <1>1, <2>1, <3>3, <4>1 DEF Smooth, NewcomersKnow
      <3> QED BY <3>2, <3>3
    <2> QED BY <2>2, <2>3, <2>4 DEF Smooth
  <1> QED BY <1>3, <1>4 DEF AllHeard

LEMMA RequestHeard ==
  ASSUME Heard, Note, NEW r \in Requests, Request(r)
  PROVE  AllHeard'
  <1> USE DEF stores
  <1>1. UNCHANGED <<file, table, conn, push, disc, view>> /\ sent \subseteq sent'
    BY DEF Request, ReqSave, ReqSaveRefused, ReqCreate, ReqDisable, ReqEnable, history
  <1>2. \A q \in Requests \ {r} : req'[q] = req[q]
    BY DEF Request, ReqSave, ReqSaveRefused, ReqCreate, ReqDisable, ReqEnable, Heard, TypeOK
  <1>3. req'[r].pc \notin {"flush", "fill"}
    BY DEF Request, ReqSave, ReqSaveRefused, ReqCreate, ReqDisable, ReqEnable, Heard, TypeOK,
       Handler, AtPhase, At
  <1>4. Saving(r)' => req'[r].text \cap pushed = {}
    <2>1. ASSUME NEW edit \in Edits \ sent, ReqSave(r, edit) PROVE req'[r].text \cap pushed = {}
      BY <2>1 DEF ReqSave, At, Heard, TypeOK, AllHeard, Noted
    <2>2. ASSUME NEW edit, ReqSaveRefused(r, edit) PROVE ~Saving(r)'
      BY <2>2 DEF ReqSaveRefused, Saving, Heard, TypeOK, Handler
    <2>3. ReqCreate(r) \/ ReqDisable(r) \/ ReqEnable(r) => ~Saving(r)'
      BY DEF ReqCreate, ReqDisable, ReqEnable, Saving, Heard, TypeOK, Handler
    <2> QED BY <2>1, <2>2, <2>3 DEF Request
  <1>5. \A q \in Requests : Saving(q)' => req'[q].text \cap pushed = {}
    BY <1>2, <1>4 DEF Heard, AllHeard, Noted, Saving
  <1> QED BY <1>1, <1>2, <1>3, <1>5, BesideHeard

LEMMA ServeHeard ==
  ASSUME Heard, Note, NEW r \in Requests, Serve(r)
  PROVE  AllHeard'
  <1> USE DEF stores, history
  <1>1. /\ UNCHANGED <<conn, push, disc, sent, view>>
        /\ \A q \in Requests \ {r} : req'[q] = req[q]
        /\ ~Saving(r)'
    BY DEF Serve, ReqSaveWrite, ReqMakeShare, ReqReadDoc, ReqWriteFile, ReqDeleteTable,
       ReqReadFile, ReqCreateTable, ReqCommit, Saving, Heard, TypeOK, Handler, AtPhase, At
  <1>2. pushed' = pushed
    BY <1>1, NothingNew DEF Heard, AllHeard, Pushing
  <1>3. \A q \in Requests : Saving(q)' => req'[q].text \cap pushed = {}
    BY <1>1 DEF Heard, AllHeard, Noted, Saving
  <1>4. CASE ReqSaveWrite(r) \/ ReqMakeShare(r) \/ ReqCommit(r)
    <2>1. req'[r].pc = "done" /\ table' = table
      BY <1>4 DEF ReqSaveWrite, ReqMakeShare, ReqCommit, AtPhase, At, Heard, TypeOK, Handler
    <2>2. file' = file \/ file' \cap pushed = {}
      BY <1>4 DEF ReqSaveWrite, ReqMakeShare, ReqCommit, Heard, Members, AllHeard, Noted, Saving
    <2>3. \A q \in Requests : req'[q].pc \in {"flush", "fill"} => req'[q] = req[q]
      BY <1>1, <2>1
    <2> QED BY <1>1, <1>3, <2>1, <2>2, <2>3, BesideHeard
  <1>5. CASE \/ ReqReadDoc(r) \/ ReqWriteFile(r) \/ ReqDeleteTable(r) \/ ReqReadFile(r)
             \/ ReqCreateTable(r)
    <2>1. /\ \A s \in Sockets : ~Connecting(s) /\ ~Leaving(s)
          /\ \A q \in Requests \ {r} : ~Toggling(q)
          /\ Toggling(r) /\ inBin = FALSE
      <3>1. Toggling(r)
        BY <1>5 DEF ReqReadDoc, ReqWriteFile, ReqDeleteTable, ReqReadFile, ReqCreateTable, Toggling
      <3> QED BY <3>1 DEF Heard, Members, OneAtATime
    <2>2. req[r].text \in Texts /\ None \notin Texts
      BY DistinctAssumption DEF Heard, TypeOK, Handler, Texts
    <2>3. \/ UNCHANGED <<table, file>>
          \/ table' = table /\ file' = req[r].text /\ req[r].pc = "flush"
          \/ table' = NoTable /\ file' = file
          \/ /\ table'.exists /\ table'.doc = req[r].text /\ file' = file /\ req[r].pc = "fill"
             /\ Listed' \subseteq Listed
      <3>1. CASE ReqCreateTable(r)
        <4>1. req[r].list = table.servants
          BY <3>1 DEF ReqCreateTable, Heard, Members, Lists
        <4> QED BY <3>1, <4>1 DEF ReqCreateTable, Listed
      <3>2. CASE ReqReadDoc(r) \/ ReqWriteFile(r) \/ ReqDeleteTable(r) \/ ReqReadFile(r)
        BY <2>1, <3>2 DEF ReqReadDoc, ReqWriteFile, ReqDeleteTable, ReqReadFile
      <3> QED BY <1>5, <3>1, <3>2
    <2>4. /\ req'[r].pc = "flush" => req'[r].text = table.doc /\ UNCHANGED <<table, file>>
          /\ req'[r].pc = "fill" => req'[r].text = file /\ UNCHANGED <<table, file>>
      BY <1>5 DEF ReqReadDoc, ReqWriteFile, ReqDeleteTable, ReqReadFile, ReqCreateTable,
         StoredDoc, AtPhase, At, Heard, TypeOK, Handler
    <2>5. Noted'
      <3>1. \A s \in Sockets : conn'[s].pc \notin {"join", "add"} /\ disc'[s].pc # "remove"
        BY <1>1, <2>1 DEF Connecting, Leaving
      <3>2. table'.exists => table'.doc # None
        BY <2>2, <2>3 DEF NoTable, Heard, AllHeard, Noted
      <3> QED BY <1>1, <1>2, <1>3, <3>1, <3>2 DEF Heard, AllHeard, Noted, Pushing
    <2>6. ASSUME ~crossed' PROVE Smooth'
      <3>1. Smooth
        BY <2>6 DEF Note, Heard, AllHeard
      <3>2. \A p \in Sockets : ~Pushing(p)
        BY <2>1, <3>1 DEF Smooth, PushesAlone
      <3>3. PushesAlone'
        BY <1>1, <3>2 DEF PushesAlone, Pushing
      <3>4. OpensAfresh'
        <4>1. table'.exists => file' \cap pushed \subseteq table'.doc
          BY <2>3, <3>1 DEF Smooth, OpensAfresh, CopiesAreFresh, NoTable
        <4>2. \A s \in Sockets : conn'[s].pc \notin {"read", "create"}
          BY <1>1, <2>1 DEF Connecting
        <4> QED BY <1>2, <4>1, <4>2 DEF OpensAfresh
      <3>5. CopiesAreFresh'
        <4>1. /\ \A p \in Sockets : push'[p].pc # "store"
              /\ \A s \in Sockets : disc'[s].pc \notin {"check", "write"}
              /\ \A q \in Requests \ {r} : req'[q].pc \notin {"flush", "fill"}
          BY <1>1, <2>1, <3>2 DEF Pushing, Leaving, Toggling
        <4>2. req'[r].pc = "flush" => req'[r].text = table'.doc
          BY <2>4
        <4>3. req'[r].pc = "fill" =>
                /\ file' \cap pushed' \subseteq req'[r].text
                /\ table'.exists => req'[r].text \cap pushed' \subseteq table'.doc
          BY <1>2, <2>4, <3>1 DEF Smooth, OpensAfresh
        <4> QED BY <4>1, <4>2, <4>3 DEF CopiesAreFresh
      <3>6. NoMissedEdit(pushed)'
        <4> SUFFICES ASSUME NEW s \in Listed', view'[s] # None, table'.doc # None
                     PROVE  table'.doc \cap pushed' \subseteq view'[s] \cup Untold'
          BY DEF NoMissedEdit
        <4>1. Untold' = Untold /\ view' = view
          BY <1>1 DEF Untold
        <4>2. s \in Listed
          BY <2>3 DEF Listed, NoTable
        <4>3. table.exists
          BY <4>2, ListedHaveTable DEF Heard
        <4>4. table'.doc \cap pushed \subseteq table.doc
          BY <2>3, <3>1, <4>3 DEF Smooth, CopiesAreFresh, NoTable
        <4>5. table.doc # None
          BY <4>3 DEF Heard, AllHeard, Noted
        <4> QED BY <1>2, <3>1, <4>1, <4>2, <4>4, <4>5 DEF Smooth, NoMissedEdit
      <3>7. NewcomersKnow'
        BY <1>1, <3>2 DEF NewcomersKnow, Pushing
      <3> QED BY <3>3, <3>4, <3>5, <3>6, <3>7 DEF Smooth
    <2> QED BY <2>5, <2>6 DEF AllHeard
  <1> QED BY <1>4, <1>5 DEF Serve

LEMMA InitHeard ==
  ASSUME Regime, Init, pushed = {}, crossed = FALSE
  PROVE  Heard
  <1>1. TypeOK /\ Members /\ UnsharedIsIdle /\ OneFate
    BY InitTypeOK, InitMembers, InitUnsharedIsIdle, InitOneFate
  <1>2. /\ \A s \in Sockets : /\ conn[s].pc = "idle" /\ disc[s].pc = "idle"
                             /\ push[s].pc = "idle" /\ view[s] = None
        /\ \A r \in Requests : req[r].pc = "idle"
        /\ ~table.exists /\ Listed = {}
    BY DEF Init, AtPhase, At, NoPush, NoTable, Listed
  <1>3. AllHeard
    BY <1>2 DEF AllHeard, Noted, Smooth, PushesAlone, OpensAfresh, CopiesAreFresh,
       NewcomersKnow, NoMissedEdit, Pushing, Saving
  <1> QED BY <1>1, <1>3 DEF Heard

LEMMA NextHeard ==
  ASSUME Regime, "empty" \notin Offers, Heard, [Next /\ Note]_<<vars, notes>>
  PROVE  Heard'
  <1> USE DEF stores, handlers, history, notes
  <1>1. [Next]_vars
    BY DEF notes
  <1>2. TypeOK' /\ Members' /\ UnsharedIsIdle' /\ OneFate'
    BY <1>1, StepTypeOK, NextMembers, StepUnsharedIsIdle, StepOneFate DEF Heard
  <1>3. CASE UNCHANGED <<vars, notes>>
    BY <1>2, <1>3 DEF Heard, AllHeard, Noted, Smooth, PushesAlone, OpensAfresh, CopiesAreFresh,
       NewcomersKnow, NoMissedEdit, Pushing, Saving, Leaving, Toggling, Connected, Listed, Untold, vars
  <1>4. CASE Next /\ Note
    <2>1. ASSUME NEW s \in Sockets,
                 Admit(s) \/ Connect(s) \/ Leave(s) \/ Disconnect(s) \/ Push(s) \/ Fetch(s)
          PROVE  AllHeard'
      BY <1>4, <2>1, ConnectHeard, DisconnectHeard, PushHeard, FetchHeard
    <2>2. ASSUME NEW s \in Sockets, NEW edit \in Edits \ sent, PushExists(s, edit)
          PROVE  AllHeard'
      BY <1>4, <2>2, PushExistsHeard
    <2>3. ASSUME NEW r \in Requests, Request(r) \/ Serve(r) PROVE AllHeard'
      BY <1>4, <2>3, RequestHeard, ServeHeard
    <2>4. ~MoveToBinOrBack /\ ~ExpireLock /\ ~Crash
      BY DEF Regime, MoveToBinOrBack, ExpireLock, Crash
    <2>5. CASE ExpireUserKey
      <3>1. UNCHANGED <<file, table, conn, push, disc, req, sent, view>>
        BY <2>5 DEF ExpireUserKey
      <3>2. \A r \in Requests : Saving(r)' => req'[r].text \cap pushed = {}
        BY <3>1 DEF Heard, AllHeard, Noted, Saving
      <3>3. AllHeard'
        BY <1>4, <3>1, <3>2, BesideHeard
      <3> QED BY <1>2, <3>3 DEF Heard
    <2> QED BY <1>2, <1>4, <2>1, <2>2, <2>3, <2>4, <2>5 DEF Next, Heard
  <1> QED BY <1>3, <1>4

\* Until a push runs beside a leave, a toggle or another push, a participant that
\* has fetched the text hears of every edit pushed into it, although the list of
\* those to be told is read after the change is stored.
THEOREM NoMissedEditHolds ==
  Regime /\ "empty" \notin Offers => (NotedSpec => []NoMissedEditUncrossed)
  <1> SUFFICES ASSUME Regime, "empty" \notin Offers
               PROVE  NotedSpec => []NoMissedEditUncrossed
    OBVIOUS
  <1>1. Init /\ pushed = {} /\ crossed = FALSE => Heard
    BY InitHeard
  <1>2. Heard /\ [Next /\ Note]_<<vars, notes>> => Heard'
    BY NextHeard
  <1>3. Heard => NoMissedEditUncrossed
    BY DEF Heard, AllHeard, Smooth, NoMissedEditUncrossed
  <1>4. NotedSpec =>
          Init /\ pushed = {} /\ crossed = FALSE /\ [][Next /\ Note]_<<vars, notes>>
    <2>1. [/\ Next
           /\ pushed' = pushed \cup BeingPushed'
           /\ crossed' = (crossed \/ Crossing')]_<<vars, pushed, crossed>>
          => [Next /\ Note]_<<vars, notes>>
      BY DEF Note, notes
    <2> QED BY <2>1, PTL DEF NotedSpec
  <1> QED BY <1>1, <1>2, <1>3, <1>4, PTL
=============================================================================
