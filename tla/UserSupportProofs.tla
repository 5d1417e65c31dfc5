------------------------- MODULE UserSupportProofs --------------------------
(***************************************************************************)
(* Proofs about UserSupport, for every set of users and requests, every    *)
(* size of the pool and every bound: the tables are well typed, messages   *)
(* and pictures show whole, and a closed ticket is left alone by requests  *)
(* that came later.                                                        *)
(***************************************************************************)
EXTENDS UserSupport, TLAPS

Phases == {"idle", "begin", "check", "insert", "store", "commit", "lookup", "delete", "write"}

Request == [kind : Kinds \cup {"none"}, pc : Phases, user : Users \cup {None},
            on : Tickets \cup {0}, to : Closing \cup {"none"}, file : BOOLEAN, id : Nat]

RequestsOK ==
    /\ req \in [Handlers -> Request]
    /\ \A h \in Handlers : req[h].pc # "idle" => req[h].on \in Tickets /\ req[h].user \in Users
    /\ \A h \in Handlers : req[h].kind = "update" => req[h].to \in Closing

\* A request that has the row of a message, for itself alone.
Coming(h) == req[h].kind = "message" /\ req[h].pc \in {"store", "commit"}
Checked(h) == req[h].kind = "message" /\ req[h].pc \in {"insert", "store", "commit"}
Knows(h) == req[h].kind = "unmessage" /\ req[h].pc \in {"check", "delete"}

\* The ticket of a message on its way is there and was pending meanwhile.
CheckedOK ==
    \A h \in Handlers : Checked(h) => tickets[req[h].on] # None /\ req[h].on \notin shut[h]

\* Its id is its own, and its picture is stored before the commit.
ComingOK ==
    /\ \A h \in Handlers : Coming(h) =>
         /\ req[h].id \in 1 .. given /\ req[h].id \notin Ids
         /\ req[h].pc = "commit" /\ req[h].file => req[h].id \in files
    /\ \A g, h \in Handlers : Coming(g) /\ Coming(h) /\ req[g].id = req[h].id => g = h

\* Whoever deletes a message knows its ticket, as ids do not come back.
KnownOK ==
    \A h \in Handlers : Knows(h) =>
       /\ req[h].id \in 1 .. given
       /\ \A m \in messages : m.id = req[h].id => m.ticket = req[h].on
       /\ \A g \in Handlers : Coming(g) => req[g].id # req[h].id
       /\ req[h].pc = "delete" => req[h].on \notin shut[h]

Inv == TypeOK /\ RequestsOK /\ CheckedOK /\ ComingOK /\ KnownOK /\ ImagesWhole

-----------------------------------------------------------------------------
(* Steps of a request.                                                     *)

\* Initially there is nothing, and nobody is at work.
LEMMA InitInv == Init => Inv
  BY DEF Init, Inv, TypeOK, RequestsOK, CheckedOK, ComingOK, KnownOK, ImagesWhole, Idle, Ids,
         Checked, Coming, Knows, Request, Phases, Statuses, Tickets

\* What a request may hold against: only what was shut all along.
LEMMA WatchShuts ==
  ASSUME Watch, RequestsOK, NEW h \in Handlers
  PROVE  /\ shut' \in [Handlers -> SUBSET Tickets]
         /\ req[h] # Idle => shut'[h] \subseteq shut[h]
         /\ \A t \in Tickets : Pending(t) => t \notin shut'[h]
  BY DEF Watch

\* A request on its way is not an idle one.
LEMMA BusyIsNotIdle ==
  ASSUME NEW h, Checked(h) \/ Knows(h)
  PROVE  req[h] # Idle
  BY DEF Checked, Knows, Idle

\* The tickets stay well typed, and none vanishes.
TicketsKept ==
    /\ tickets' \in [Tickets -> {None} \cup Ticket]
    /\ \A t \in Tickets : tickets[t] # None => tickets'[t] # None

\* A step that leaves messages and pictures alone, after which its request
\* knows nothing that the invariant speaks of.
LEMMA QuietStep ==
  ASSUME Inv, Watch, TicketsKept, UNCHANGED <<messages, images, files, given>>,
         NEW h \in Handlers, NEW r \in Request, req' = [req EXCEPT ![h] = r],
         r.pc # "idle" => r.on \in Tickets /\ r.user \in Users,
         r.kind = "update" => r.to \in Closing,
         ~(r.kind = "message" /\ r.pc \in {"insert", "store", "commit"}),
         ~(r.kind = "unmessage" /\ r.pc \in {"check", "delete"})
  PROVE  Inv'
<1>1. \A g \in Handlers : g # h => req'[g] = req[g]
  BY DEF Inv, RequestsOK
<1>2. req'[h] = r
  BY DEF Inv, RequestsOK
<1>3. ~Checked(h)' /\ ~Coming(h)' /\ ~Knows(h)'
  BY <1>2 DEF Checked, Coming, Knows
<1>4. \A g \in Handlers : /\ Checked(g)' => Checked(g) /\ req'[g] = req[g]
                          /\ Coming(g)' => Coming(g) /\ req'[g] = req[g]
                          /\ Knows(g)' => Knows(g) /\ req'[g] = req[g]
  BY <1>1, <1>3 DEF Checked, Coming, Knows
<1>5. TypeOK'
  BY WatchShuts DEF Inv, TypeOK, TicketsKept, Ids
<1>6. RequestsOK'
  BY <1>1, <1>2 DEF Inv, RequestsOK
<1>7. CheckedOK'
  <2> SUFFICES ASSUME NEW g \in Handlers, Checked(g)'
               PROVE  tickets'[req'[g].on] # None /\ req'[g].on \notin shut'[g]
    BY DEF CheckedOK
  <2>1. Checked(g) /\ req'[g] = req[g] /\ req[g].pc # "idle"
    BY <1>4 DEF Checked
  <2>2. req[g] # Idle
    BY <2>1, BusyIsNotIdle
  <2> QED
    BY <2>1, <2>2, WatchShuts DEF Inv, CheckedOK, RequestsOK, TicketsKept
<1>8. ComingOK'
  BY <1>4 DEF Inv, ComingOK, Ids
<1>9. KnownOK'
  <2> SUFFICES ASSUME NEW g \in Handlers, Knows(g)'
               PROVE  /\ req'[g].id \in 1 .. given'
                      /\ \A m \in messages' : m.id = req'[g].id => m.ticket = req'[g].on
                      /\ \A f \in Handlers : Coming(f)' => req'[f].id # req'[g].id
                      /\ req'[g].pc = "delete" => req'[g].on \notin shut'[g]
    BY DEF KnownOK
  <2>1. Knows(g) /\ req'[g] = req[g]
    BY <1>4
  <2>2. req[g] # Idle
    BY <2>1, BusyIsNotIdle
  <2> QED
    BY <1>4, <2>1, <2>2, WatchShuts DEF Inv, KnownOK
<1> QED
  BY <1>5, <1>6, <1>7, <1>8, <1>9 DEF Inv, ImagesWhole

\* A request that ends without having written anything.
LEMMA LeaveStep ==
  ASSUME Inv, Watch, NEW h \in Handlers, Leave(h), UNCHANGED <<rows, files, given>>
  PROVE  Inv'
<1>1. Idle \in Request /\ Idle.pc = "idle" /\ Idle.kind = "none"
  BY DEF Idle, Request, Phases
<1>2. TicketsKept
  BY DEF TicketsKept, Inv, TypeOK, rows
<1> QED
  BY <1>1, <1>2, QuietStep DEF Leave, rows

\* One that ends having written tickets only.
LEMMA TicketStep ==
  ASSUME Inv, Watch, TicketsKept, NEW h \in Handlers, Leave(h),
         UNCHANGED <<messages, images, files, given>>
  PROVE  Inv'
<1>1. Idle \in Request /\ Idle.pc = "idle" /\ Idle.kind = "none"
  BY DEF Idle, Request, Phases
<1> QED
  BY <1>1, QuietStep DEF Leave

LEMMA SendStep ==
  ASSUME Inv, Watch, NEW h \in Handlers, Send(h)
  PROVE  Inv'
<1>1. PICK r \in [kind : Kinds, pc : {"begin"}, user : Users, on : Tickets, to : Closing,
                  file : BOOLEAN, id : MessageIds] : req' = [req EXCEPT ![h] = r]
  BY DEF Send
<1>2. r \in Request /\ r.pc = "begin" /\ r.on \in Tickets /\ r.user \in Users /\ r.to \in Closing
  BY <1>1 DEF Request, Phases, MessageIds
<1>3. TicketsKept
  BY DEF TicketsKept, Inv, TypeOK, rows, Send
<1> QED
  BY <1>1, <1>2, <1>3, QuietStep DEF Send, rows

LEMMA BeginStep ==
  ASSUME Inv, Watch, NEW h \in Handlers, Begin(h)
  PROVE  Inv'
<1> DEFINE pc == CASE req[h].kind = "message" -> "check"
                   [] req[h].kind = "unmessage" -> "lookup"
                   [] OTHER -> "write"
           r == [req[h] EXCEPT !.pc = pc]
<1>1. req' = [req EXCEPT ![h] = r]
  BY DEF Begin, Goto
<1>2. pc \in {"check", "lookup", "write"} /\ (pc = "check" => req[h].kind = "message")
  OBVIOUS
<1>3. req[h] \in Request /\ req[h].on \in Tickets /\ req[h].user \in Users
  BY DEF Begin, Inv, RequestsOK
<1> HIDE DEF pc
<1>4. /\ r \in Request /\ r.on \in Tickets /\ r.user \in Users
      /\ r.kind = req[h].kind /\ r.pc = pc /\ r.to = req[h].to
  BY <1>2, <1>3 DEF Request, Phases
<1>5. TicketsKept
  BY DEF TicketsKept, Inv, TypeOK, rows, Begin
<1>6. r.kind = "update" => r.to \in Closing
  BY <1>4 DEF Inv, RequestsOK
<1> HIDE DEF r
<1> QED
  BY <1>1, <1>2, <1>4, <1>5, <1>6, QuietStep DEF Begin, rows

\* The steps on tickets: create, update, delete, delete all.
LEMMA CreateStep ==
  ASSUME Inv, Watch, NEW h \in Handlers, Create(h)
  PROVE  Inv'
<1>1. req[h].user \in Users
  BY DEF Create, At, Inv, RequestsOK, Request
<1>2. TicketsKept
  BY <1>1, NoneAssumption DEF TicketsKept, Create, Inv, TypeOK, Ticket, Statuses
<1> QED
  BY <1>2, TicketStep DEF Create
LEMMA UpdateByIdStep ==
  ASSUME Inv, Watch, NEW h \in Handlers,
         NEW row, Found(req[h].on, req[h].user) =>
                    row \in Ticket,
         req[h].pc # "idle", UpdateById(h, row)
  PROVE  Inv'
<1>1. CASE ~Found(req[h].on, req[h].user)
  BY <1>1, LeaveStep DEF UpdateById, Refuse
<1>2. CASE Found(req[h].on, req[h].user)
  <2>1. req[h].on \in Tickets
    BY DEF Inv, RequestsOK
  <2>2. TicketsKept
    BY <1>2, <2>1, NoneAssumption DEF TicketsKept, UpdateById, Inv, TypeOK, Found
  <2> QED
    BY <1>2, <2>2, TicketStep DEF UpdateById
<1> QED
  BY <1>1, <1>2

LEMMA UpdateStep ==
  ASSUME Inv, Watch, NEW h \in Handlers, Update(h)
  PROVE  Inv'
<1> DEFINE row == [tickets[req[h].on] EXCEPT !.status = req[h].to]
<1>1. req[h].pc # "idle" /\ req[h].on \in Tickets /\ req[h].to \in Closing
  BY DEF Inv, RequestsOK, Update, At
<1>2. Found(req[h].on, req[h].user) => row \in Ticket
  BY <1>1 DEF Found, Inv, TypeOK, Ticket, Statuses
<1> QED
  BY <1>1, <1>2, UpdateByIdStep DEF Update

LEMMA DeleteTicketStep ==
  ASSUME Inv, Watch, NEW h \in Handlers, DeleteTicket(h)
  PROVE  Inv'
<1> DEFINE row == [tickets[req[h].on] EXCEPT !.deleted = TRUE]
<1>1. req[h].pc # "idle" /\ req[h].on \in Tickets
  BY DEF Inv, RequestsOK, DeleteTicket, At
<1>2. Found(req[h].on, req[h].user) => row \in Ticket
  BY <1>1 DEF Found, Inv, TypeOK, Ticket
<1> QED
  BY <1>1, <1>2, UpdateByIdStep DEF DeleteTicket

LEMMA DeleteAllStep ==
  ASSUME Inv, Watch, NEW h \in Handlers, DeleteAll(h)
  PROVE  Inv'
<1>1. \A t \in Tickets : tickets[t] # None => [tickets[t] EXCEPT !.deleted = TRUE] \in Ticket
  BY DEF Inv, TypeOK, Ticket
<1>2. TicketsKept
  BY <1>1, NoneAssumption DEF TicketsKept, DeleteAll, Found, Inv, TypeOK
<1> QED
  BY <1>2, TicketStep DEF DeleteAll

\* The administrator changes a status: a ticket that is pending anew is in
\* nobody's way.
LEMMA UpdateTicketStep ==
  ASSUME Inv, Watch, NEW t \in Tickets, NEW s \in Statuses, UpdateTicket(t, s)
  PROVE  Inv'
<1>1. [tickets[t] EXCEPT !.status = s] \in Ticket
  BY DEF UpdateTicket, Inv, TypeOK, Ticket
<1>2. TicketsKept
  BY <1>1, NoneAssumption DEF TicketsKept, UpdateTicket, Inv, TypeOK
<1>3. TypeOK' /\ RequestsOK' /\ ImagesWhole'
  BY <1>2, WatchShuts
  DEF UpdateTicket, TicketsKept, Inv, TypeOK, RequestsOK, ImagesWhole, Ids, Watch
<1>4. ComingOK'
  BY DEF UpdateTicket, Inv, ComingOK, Coming, Ids
<1>5. CheckedOK'
  BY <1>2, WatchShuts, BusyIsNotIdle
  DEF UpdateTicket, TicketsKept, Inv, CheckedOK, RequestsOK, Checked
<1>6. KnownOK'
  BY WatchShuts, BusyIsNotIdle DEF UpdateTicket, Inv, KnownOK, Knows, Coming
<1> QED
  BY <1>3, <1>4, <1>5, <1>6 DEF Inv
-----------------------------------------------------------------------------
(* Messages.                                                               *)

\* The handlers other than the one that moves keep what they hold.
OthersAsBefore(h) ==
    \A g \in Handlers \ {h} :
       /\ req'[g] = req[g]
       /\ Checked(g)' <=> Checked(g)
       /\ Coming(g)' <=> Coming(g)
       /\ Knows(g)' <=> Knows(g)
       /\ Checked(g) => tickets'[req[g].on] # None /\ req[g].on \notin shut'[g]
       /\ Knows(g) /\ req[g].pc = "delete" => req[g].on \notin shut'[g]

LEMMA OthersKeep ==
  ASSUME Inv, Watch, NEW h \in Handlers, NEW r, req' = [req EXCEPT ![h] = r],
         tickets' = tickets
  PROVE  req'[h] = r /\ OthersAsBefore(h)
<1>1. /\ req'[h] = r
      /\ \A g \in Handlers \ {h} : req'[g] = req[g]
  BY DEF Inv, RequestsOK
<1>2. \A g \in Handlers \ {h} :
        Checked(g) => tickets'[req[g].on] # None /\ req[g].on \notin shut'[g]
  BY <1>1, WatchShuts, BusyIsNotIdle DEF Inv, CheckedOK, RequestsOK, Checked
<1>3. \A g \in Handlers \ {h} :
        Knows(g) /\ req[g].pc = "delete" => req[g].on \notin shut'[g]
  BY <1>1, WatchShuts, BusyIsNotIdle DEF Inv, KnownOK
<1>4. \A g \in Handlers \ {h} : /\ Checked(g)' <=> Checked(g)
                                /\ Coming(g)' <=> Coming(g)
                                /\ Knows(g)' <=> Knows(g)
  BY <1>1 DEF Checked, Coming, Knows
<1> QED
  BY <1>1, <1>2, <1>3, <1>4 DEF OthersAsBefore

\* The ticket that was just found pending is shut to nobody.
LEMMA FoundIsOpen ==
  ASSUME Inv, Watch, NEW h \in Handlers, NEW t \in Tickets, NEW u,
         ExistsAndIsNotClosed(t, u)
  PROVE  tickets[t] # None /\ t \notin shut'[h]
<1>1. Pending(t) /\ tickets[t] # None
  BY DEF ExistsAndIsNotClosed, Found, Pending
<1> QED
  BY <1>1, WatchShuts DEF Inv

LEMMA CheckStep ==
  ASSUME Inv, Watch, NEW h \in Handlers, Check(h)
  PROVE  Inv'
<1>1. CASE ~ExistsAndIsNotClosed(req[h].on, req[h].user)
  BY <1>1, LeaveStep DEF Check, Refuse
<1>2. CASE ExistsAndIsNotClosed(req[h].on, req[h].user)
  <2> DEFINE r == [req[h] EXCEPT !.pc = "insert"]
  <2>1. /\ req' = [req EXCEPT ![h] = r]
        /\ UNCHANGED <<rows, files, given>>
    BY <1>2 DEF Check, Goto
  <2>2. /\ r \in Request /\ r.kind = "message" /\ r.pc = "insert"
        /\ r.on = req[h].on /\ r.on \in Tickets /\ r.user \in Users
    BY DEF Check, At, Inv, RequestsOK, Request, Phases
  <2> HIDE DEF r
  <2>3. req'[h] = r /\ OthersAsBefore(h) /\ Checked(h)' /\ ~Coming(h)' /\ ~Knows(h)'
    BY <2>1, <2>2, OthersKeep DEF rows, Checked, Coming, Knows
  <2>4. TypeOK' /\ ImagesWhole'
    BY <2>1, WatchShuts DEF Inv, TypeOK, ImagesWhole, Ids, rows
  <2>5. RequestsOK'
    BY <2>1, <2>2, <2>3 DEF Inv, RequestsOK, OthersAsBefore
  <2>6. CheckedOK'
    BY <1>2, <2>1, <2>2, <2>3, FoundIsOpen DEF CheckedOK, OthersAsBefore, rows
  <2>7. ComingOK' /\ KnownOK'
    BY <2>1, <2>3 DEF Inv, ComingOK, KnownOK, OthersAsBefore, Ids, rows
  <2> QED
    BY <2>4, <2>5, <2>6, <2>7 DEF Inv
<1> QED
  BY <1>1, <1>2

LEMMA CheckDeleteStep ==
  ASSUME Inv, Watch, NEW h \in Handlers, CheckDelete(h)
  PROVE  Inv'
<1>1. CASE ~ExistsAndIsNotClosed(req[h].on, req[h].user)
  BY <1>1, LeaveStep DEF CheckDelete, Refuse
<1>2. CASE ExistsAndIsNotClosed(req[h].on, req[h].user)
  <2> DEFINE r == [req[h] EXCEPT !.pc = "delete"]
  <2>1. /\ req' = [req EXCEPT ![h] = r]
        /\ UNCHANGED <<rows, files, given>>
    BY <1>2 DEF CheckDelete, Goto
  <2>2. /\ r \in Request /\ r.kind = "unmessage" /\ r.pc = "delete"
        /\ r.on = req[h].on /\ r.id = req[h].id /\ r.on \in Tickets /\ r.user \in Users
    BY DEF CheckDelete, At, Inv, RequestsOK, Request, Phases
  <2> HIDE DEF r
  <2>3. req'[h] = r /\ OthersAsBefore(h) /\ ~Checked(h)' /\ ~Coming(h)' /\ Knows(h)' /\ Knows(h)
    BY <2>1, <2>2, OthersKeep DEF rows, Checked, Coming, Knows, CheckDelete, At
  <2>4. TypeOK' /\ ImagesWhole'
    BY <2>1, WatchShuts DEF Inv, TypeOK, ImagesWhole, Ids, rows
  <2>5. RequestsOK'
    BY <2>1, <2>2, <2>3 DEF Inv, RequestsOK, OthersAsBefore
  <2>6. CheckedOK' /\ ComingOK'
    BY <2>1, <2>3 DEF Inv, CheckedOK, ComingOK, OthersAsBefore, Ids, rows
  <2>7. r.on \notin shut'[h]
    BY <1>2, <2>2, FoundIsOpen
  <2>8. KnownOK'
    BY <2>1, <2>2, <2>3, <2>7 DEF Inv, KnownOK, OthersAsBefore, rows
  <2> QED
    BY <2>4, <2>5, <2>6, <2>8 DEF Inv
<1> QED
  BY <1>1, <1>2

\* The id that the INSERT takes from the sequence is nobody's.
LEMMA InsertStep ==
  ASSUME Inv, Watch, NEW h \in Handlers, Insert(h)
  PROVE  Inv'
<1> DEFINE pc == IF req[h].file THEN "store" ELSE "commit"
           r == [req[h] EXCEPT !.id = given + 1, !.pc = pc]
<1>1. /\ req' = [req EXCEPT ![h] = r]
      /\ UNCHANGED <<rows, files>> /\ given' = given + 1
  BY DEF Insert, Inv, RequestsOK
<1>2. /\ r \in Request /\ r.kind = "message" /\ r.pc \in {"store", "commit"}
      /\ r.pc = "commit" => ~r.file
      /\ r.on = req[h].on /\ r.id = given + 1 /\ r.on \in Tickets /\ r.user \in Users
  BY DEF Insert, At, Inv, RequestsOK, TypeOK, Request, Phases
<1> HIDE DEF r
<1>3. /\ req'[h] = r /\ OthersAsBefore(h)
      /\ Checked(h)' /\ Coming(h)' /\ ~Knows(h)' /\ Checked(h) /\ given \in Nat
  BY <1>1, <1>2, OthersKeep
  DEF rows, Checked, Coming, Knows, Insert, At, Inv, TypeOK
<1>4. TypeOK' /\ ImagesWhole'
  BY <1>1, <1>3, WatchShuts DEF Inv, TypeOK, ImagesWhole, Ids, rows
<1>5. RequestsOK'
  BY <1>1, <1>2, <1>3 DEF Inv, RequestsOK, OthersAsBefore
<1>6. CheckedOK'
  BY <1>1, <1>2, <1>3, WatchShuts, BusyIsNotIdle
  DEF Inv, CheckedOK, OthersAsBefore, rows
<1>7. \A g \in Handlers : Coming(g) => req[g].id <= given /\ req[g].id # given + 1
  BY <1>3 DEF Inv, ComingOK
<1>8. \A m \in messages : m.id # given + 1
  BY <1>3 DEF Inv, TypeOK
<1>9. ComingOK'
  BY <1>1, <1>2, <1>3, <1>7, <1>8 DEF Inv, ComingOK, OthersAsBefore, Ids, rows
<1>10. KnownOK'
  BY <1>1, <1>2, <1>3 DEF Inv, KnownOK, OthersAsBefore, rows
<1> QED
  BY <1>4, <1>5, <1>6, <1>9, <1>10 DEF Inv

LEMMA StoreImageStep ==
  ASSUME Inv, Watch, NEW h \in Handlers, StoreImage(h)
  PROVE  Inv'
<1> DEFINE r == [req[h] EXCEPT !.pc = "commit"]
<1>1. /\ req' = [req EXCEPT ![h] = r]
      /\ UNCHANGED <<rows, given>> /\ files' = files \cup {req[h].id}
  BY DEF StoreImage, Goto
<1>2. /\ r \in Request /\ r.kind = "message" /\ r.pc = "commit" /\ r.id = req[h].id
      /\ r.on = req[h].on /\ r.on \in Tickets /\ r.user \in Users
  BY DEF StoreImage, At, Inv, RequestsOK, Request, Phases
<1> HIDE DEF r
<1>3. /\ req'[h] = r /\ OthersAsBefore(h)
      /\ Checked(h)' /\ Coming(h)' /\ ~Knows(h)' /\ Checked(h) /\ Coming(h)
  BY <1>1, <1>2, OthersKeep DEF rows, Checked, Coming, Knows, StoreImage, At
<1>4. TypeOK' /\ ImagesWhole'
  BY <1>1, <1>3, WatchShuts DEF Inv, TypeOK, ImagesWhole, ComingOK, Ids, rows
<1>5. RequestsOK'
  BY <1>1, <1>2, <1>3 DEF Inv, RequestsOK, OthersAsBefore
<1>6. CheckedOK'
  BY <1>1, <1>2, <1>3, WatchShuts, BusyIsNotIdle
  DEF Inv, CheckedOK, OthersAsBefore, rows
<1>7. ComingOK' /\ KnownOK'
  BY <1>1, <1>2, <1>3 DEF Inv, ComingOK, KnownOK, OthersAsBefore, Ids, rows
<1> QED
  BY <1>4, <1>5, <1>6, <1>7 DEF Inv

\* A row that is new to the table, with an id that nobody else has.
LEMMA NewMessage ==
  ASSUME Inv, NEW m \in [id : Nat, ticket : Tickets, admin : BOOLEAN, file : BOOLEAN],
         messages' = messages \cup {m}, UNCHANGED tickets, tickets[m.ticket] # None,
         m.id \in 1 .. given', given' \in Nat, given <= given', m.id \notin Ids
  PROVE  /\ Ids' = Ids \cup {m.id}
         /\ messages' \subseteq [id : 1 .. given', ticket : Tickets, admin : BOOLEAN,
                                 file : BOOLEAN]
         /\ \A n, o \in messages' : n.id = o.id => n = o
         /\ \A n \in messages' : tickets'[n.ticket] # None
<1>1. given \in Nat /\ 1 .. given \subseteq 1 .. given'
  BY DEF Inv, TypeOK
<1> QED
  BY <1>1 DEF Inv, TypeOK, Ids

LEMMA CommitMessageStep ==
  ASSUME Inv, Watch, NEW h \in Handlers, CommitMessage(h)
  PROVE  Inv'
<1> DEFINE m == Message(h)
<1>1. /\ req' = [req EXCEPT ![h] = Idle]
      /\ UNCHANGED <<tickets, files, given>> /\ messages' = messages \cup {m}
      /\ images' = IF req[h].file THEN images \cup {m.id} ELSE images
  BY DEF CommitMessage, Leave, Message
<1>2. /\ m \in [id : Nat, ticket : Tickets, admin : BOOLEAN, file : BOOLEAN]
      /\ m.id = req[h].id /\ m.ticket = req[h].on /\ m.file = req[h].file
  BY DEF Message, CommitMessage, At, Inv, RequestsOK, Request
<1>3. Checked(h) /\ Coming(h)
  BY DEF Checked, Coming, CommitMessage, At
<1>4. /\ m.id \in 1 .. given /\ m.id \notin Ids /\ tickets[m.ticket] # None
      /\ req[h].file => m.id \in files
      /\ given \in Nat
  BY <1>2, <1>3 DEF Inv, ComingOK, CheckedOK, TypeOK, CommitMessage, At
<1> HIDE DEF m
<1>5. /\ Ids' = Ids \cup {m.id}
      /\ messages' \subseteq [id : 1 .. given', ticket : Tickets, admin : BOOLEAN,
                              file : BOOLEAN]
      /\ \A n, o \in messages' : n.id = o.id => n = o
      /\ \A n \in messages' : tickets'[n.ticket] # None
  BY <1>1, <1>2, <1>4, NewMessage
<1>6. /\ req'[h] = Idle /\ OthersAsBefore(h)
      /\ ~Checked(h)' /\ ~Coming(h)' /\ ~Knows(h)'
  <2>1. req'[h] = Idle /\ OthersAsBefore(h)
    BY <1>1, OthersKeep
  <2> QED
    BY <2>1 DEF Checked, Coming, Knows, Idle
<1>7. TypeOK'
  BY <1>1, <1>4, <1>5, WatchShuts DEF Inv, TypeOK
<1>8. ImagesWhole'
  BY <1>1, <1>2, <1>4 DEF Inv, ImagesWhole
<1>9. RequestsOK'
  BY <1>1, <1>6 DEF Inv, RequestsOK, OthersAsBefore, Idle, Request, Phases
<1>10. CheckedOK'
  BY <1>1, <1>6 DEF CheckedOK, OthersAsBefore
<1>11. \A g \in Handlers \ {h} : Coming(g) => req[g].id # m.id
  BY <1>2, <1>3 DEF Inv, ComingOK
<1>12. \A g \in Handlers \ {h} : Knows(g) => req[g].id # m.id
  BY <1>2, <1>3 DEF Inv, KnownOK
<1>13. ComingOK'
  BY <1>1, <1>5, <1>6, <1>11 DEF Inv, ComingOK, OthersAsBefore
<1>14. KnownOK'
  BY <1>1, <1>6, <1>12 DEF Inv, KnownOK, OthersAsBefore
<1> QED
  BY <1>7, <1>8, <1>9, <1>10, <1>13, <1>14 DEF Inv

LEMMA LookupStep ==
  ASSUME Inv, Watch, NEW h \in Handlers, Lookup(h)
  PROVE  Inv'
<1>1. CASE FoundMessages(req[h].id, req[h].user) = {} /\ Refuse(h)
  BY <1>1, LeaveStep DEF Refuse
<1>2. CASE ~(FoundMessages(req[h].id, req[h].user) = {} /\ Refuse(h))
  <2>1. PICK m \in FoundMessages(req[h].id, req[h].user) :
          /\ req' = [req EXCEPT ![h].on = m.ticket, ![h].pc = "check"]
          /\ UNCHANGED <<rows, files, given>>
    BY <1>2 DEF Lookup
  <2> DEFINE r == [req[h] EXCEPT !.on = m.ticket, !.pc = "check"]
  <2>2. req' = [req EXCEPT ![h] = r] /\ UNCHANGED <<rows, files, given>>
    BY <2>1 DEF Inv, RequestsOK
  <2>3. m \in messages /\ m.id = req[h].id /\ m.id \in 1 .. given /\ m.id \in Ids
        /\ m.ticket \in Tickets
    BY DEF FoundMessages, Inv, TypeOK, Ids
  <2>4. /\ r \in Request /\ r.kind = "unmessage" /\ r.pc = "check" /\ r.id = m.id
        /\ r.on = m.ticket /\ r.user \in Users
    <3>1. /\ req[h] \in Request /\ req[h].kind = "unmessage" /\ req[h].pc = "lookup"
          /\ req[h].user \in Users
      BY DEF Lookup, At, Inv, RequestsOK
    <3> QED
      BY <2>3, <3>1 DEF Request, Phases
  <2> HIDE DEF r
  <2>5. /\ req'[h] = r /\ OthersAsBefore(h)
        /\ ~Checked(h)' /\ ~Coming(h)' /\ Knows(h)'
    BY <2>2, <2>4, OthersKeep DEF rows, Checked, Coming, Knows
  <2>6. TypeOK' /\ ImagesWhole'
    BY <2>2, WatchShuts DEF Inv, TypeOK, ImagesWhole, Ids, rows
  <2>7. RequestsOK'
    BY <2>2, <2>3, <2>4, <2>5 DEF Inv, RequestsOK, OthersAsBefore
  <2>8. CheckedOK' /\ ComingOK'
    BY <2>2, <2>5 DEF Inv, CheckedOK, ComingOK, OthersAsBefore, Ids, rows
  <2>9. \A n \in messages : n.id = m.id => n.ticket = m.ticket
    BY <2>3 DEF Inv, TypeOK
  <2>10. \A g \in Handlers : Coming(g) => req[g].id # m.id
    BY <2>3 DEF Inv, ComingOK
  <2>11. KnownOK'
    BY <2>2, <2>3, <2>4, <2>5, <2>9, <2>10 DEF Inv, KnownOK, OthersAsBefore, rows
  <2> QED
    BY <2>6, <2>7, <2>8, <2>11 DEF Inv
<1> QED
  BY <1>1, <1>2

\* Only a message without a picture goes, so that no picture is left alone.
LEMMA DeleteMessageStep ==
  ASSUME Inv, Watch, NEW h \in Handlers, DeleteMessage(h)
  PROVE  Inv'
<1>1. CASE Refuse(h)
  BY <1>1, LeaveStep DEF Refuse
<1>2. CASE ~Refuse(h)
  <2>1. /\ req' = [req EXCEPT ![h] = Idle] /\ UNCHANGED <<tickets, images, files, given>>
        /\ req[h].id \in Ids \ images
        /\ messages' = {m \in messages : m.id # req[h].id}
    BY <1>2 DEF DeleteMessage, Leave
  <2>2. /\ req'[h] = Idle /\ OthersAsBefore(h)
        /\ ~Checked(h)' /\ ~Coming(h)' /\ ~Knows(h)'
    <3>1. req'[h] = Idle /\ OthersAsBefore(h)
      BY <2>1, OthersKeep
    <3> QED
      BY <3>1 DEF Checked, Coming, Knows, Idle
  <2>3. Ids' = Ids \ {req[h].id}
    BY <2>1 DEF Ids
  <2>4. TypeOK'
    BY <2>1, <2>3, WatchShuts DEF Inv, TypeOK
  <2>5. \A m \in messages : m.file => m.id # req[h].id
    BY <2>1 DEF Inv, ImagesWhole
  <2>6. ImagesWhole'
    BY <2>1, <2>5 DEF Inv, ImagesWhole
  <2>7. RequestsOK'
    BY <2>1, <2>2 DEF Inv, RequestsOK, OthersAsBefore, Idle, Request, Phases
  <2>8. CheckedOK' /\ ComingOK' /\ KnownOK'
    BY <2>1, <2>2, <2>3 DEF Inv, CheckedOK, ComingOK, KnownOK, OthersAsBefore
  <2> QED
    BY <2>4, <2>6, <2>7, <2>8 DEF Inv
<1> QED
  BY <1>1, <1>2

LEMMA AnswerStep ==
  ASSUME Inv, Watch, NEW h \in Handlers, Answer(h)
  PROVE  Inv'
<1>1. CASE Refuse(h)
  BY <1>1, LeaveStep DEF Refuse
<1>2. CASE ~Refuse(h)
  <2> DEFINE m == [id |-> given + 1, ticket |-> req[h].on, admin |-> TRUE, file |-> FALSE]
  <2>1. /\ req' = [req EXCEPT ![h] = Idle] /\ UNCHANGED <<tickets, images, files>>
        /\ given' = given + 1 /\ tickets[req[h].on] # None
        /\ messages' = messages \cup {m}
    BY <1>2 DEF Answer, Leave
  <2>2. /\ req'[h] = Idle /\ OthersAsBefore(h)
        /\ ~Checked(h)' /\ ~Coming(h)' /\ ~Knows(h)'
    <3>1. req'[h] = Idle /\ OthersAsBefore(h)
      BY <2>1, OthersKeep
    <3> QED
      BY <3>1 DEF Checked, Coming, Knows, Idle
  <2>3. given \in Nat /\ req[h].on \in Tickets /\ \A n \in messages : n.id # given + 1
    BY DEF Inv, TypeOK, RequestsOK, Answer, At
  <2>4. /\ m \in [id : Nat, ticket : Tickets, admin : BOOLEAN, file : BOOLEAN]
        /\ m.id = given + 1 /\ m.ticket = req[h].on /\ ~m.file
        /\ m.id \in 1 .. given' /\ given' \in Nat /\ given <= given' /\ m.id \notin Ids
    BY <2>1, <2>3 DEF Ids
  <2> HIDE DEF m
  <2>5. /\ Ids' = Ids \cup {m.id}
        /\ messages' \subseteq [id : 1 .. given', ticket : Tickets, admin : BOOLEAN,
                                file : BOOLEAN]
        /\ \A n, o \in messages' : n.id = o.id => n = o
        /\ \A n \in messages' : tickets'[n.ticket] # None
    BY <2>1, <2>4, NewMessage
  <2>6. 1 .. given \subseteq 1 .. given'
    BY <2>1, <2>3
  <2>7. TypeOK'
    BY <2>1, <2>4, <2>5, <2>6, WatchShuts DEF Inv, TypeOK
  <2>8. ImagesWhole'
    BY <2>1, <2>4 DEF Inv, ImagesWhole
  <2>9. RequestsOK'
    BY <2>1, <2>2 DEF Inv, RequestsOK, OthersAsBefore, Idle, Request, Phases
  <2>10. CheckedOK'
    BY <2>1, <2>2 DEF CheckedOK, OthersAsBefore
  <2>11. \A g \in Handlers : /\ Coming(g) => req[g].id # given + 1
                             /\ Knows(g) => req[g].id # given + 1
    BY <2>3 DEF Inv, ComingOK, KnownOK
  <2>12. ComingOK'
    BY <2>1, <2>2, <2>4, <2>5, <2>6, <2>11 DEF Inv, ComingOK, OthersAsBefore
  <2>13. KnownOK'
    BY <2>1, <2>2, <2>4, <2>6, <2>11 DEF Inv, KnownOK, OthersAsBefore
  <2> QED
    BY <2>7, <2>8, <2>9, <2>10, <2>12, <2>13 DEF Inv
<1> QED
  BY <1>1, <1>2

-----------------------------------------------------------------------------
(* The invariant, and what follows from it.                                *)

LEMMA HandleStep ==
  ASSUME Inv, Watch, NEW h \in Handlers, Handle(h)
  PROVE  Inv'
<1>1. CASE Expire(h)
  BY <1>1, LeaveStep DEF Expire
<1>2. CASE ~Expire(h)
  BY <1>2, BeginStep, CreateStep, UpdateStep, DeleteTicketStep, DeleteAllStep, CheckStep,
     InsertStep, StoreImageStep, CommitMessageStep, LookupStep, CheckDeleteStep,
     DeleteMessageStep, AnswerStep
  DEF Handle
<1> QED
  BY <1>1, <1>2

LEMMA NextInv == Inv /\ [Next]_vars => Inv'
<1> SUFFICES ASSUME Inv, [Next]_vars PROVE Inv'
  OBVIOUS
<1>1. ASSUME Watch, NEW h \in Handlers, Send(h) PROVE Inv'
  BY <1>1, SendStep
<1>2. ASSUME Watch, NEW h \in Handlers, Handle(h) PROVE Inv'
  BY <1>2, HandleStep
<1>3. ASSUME Watch, NEW h \in Handlers, Fail(h) PROVE Inv'
  BY <1>3, LeaveStep DEF Fail
<1>4. ASSUME Watch, NEW t \in Tickets, NEW s \in Statuses, UpdateTicket(t, s) PROVE Inv'
  BY <1>4, UpdateTicketStep
<1>5. CASE UNCHANGED vars
  BY <1>5 DEF vars, rows, Inv, TypeOK, RequestsOK, CheckedOK, ComingOK, KnownOK, ImagesWhole,
              Ids, Checked, Coming, Knows
<1> QED
  BY <1>1, <1>2, <1>3, <1>4, <1>5 DEF Next

\* The strengthening is an invariant of the specification.
THEOREM Invariant == Spec => []Inv
  BY InitInv, NextInv, PTL DEF Spec

\* Ids stay unique and no row refers to a missing one, whatever requests,
\* failures and changes of status overlap.
THEOREM TypeCorrect == Spec => []TypeOK
<1>1. Inv => TypeOK
  BY DEF Inv
<1> QED
  BY <1>1, Invariant, PTL

\* A message with a picture never shows without it, nor the other way round.
THEOREM ImagesWholeHolds == Spec => []ImagesWhole
<1>1. Inv => ImagesWhole
  BY DEF Inv
<1> QED
  BY <1>1, Invariant, PTL

\* What a step adds or removes comes from a request to which the ticket was
\* not shut.
LEMMA OpenOnly ==
  ASSUME Inv, Next,
         NEW m \in messages \cup messages', (m \in messages) # (m \in messages'),
         ~(m.admin /\ m \in messages')
  PROVE  \E h \in Handlers : req'[h] # req[h] /\ m.ticket \notin shut[h]
<1>1. messages' # messages
  OBVIOUS
<1>2. PICK h \in Handlers : CommitMessage(h) \/ DeleteMessage(h) \/ Answer(h)
  BY <1>1
  DEF Next, Handle, Send, Begin, Expire, Fail, Create, Update, DeleteTicket, UpdateById,
      DeleteAll, UpdateTicket, Check, Insert, StoreImage, Lookup, CheckDelete, Refuse, rows
<1>3. req[h].pc # "idle" /\ req'[h] = Idle
  BY <1>2 DEF CommitMessage, DeleteMessage, Answer, At, Leave, Refuse, Inv, RequestsOK
<1>4. req'[h] # req[h]
  BY <1>3 DEF Idle
<1>5. CASE CommitMessage(h)
  <2>1. m = Message(h)
    BY <1>5 DEF CommitMessage
  <2>2. Checked(h)
    BY <1>5 DEF CommitMessage, At, Checked
  <2> QED
    BY <1>4, <2>1, <2>2 DEF Message, Inv, CheckedOK
<1>6. CASE DeleteMessage(h)
  <2>1. m \in messages /\ m.id = req[h].id
    BY <1>1, <1>6 DEF DeleteMessage, Refuse, rows
  <2>2. Knows(h) /\ req[h].pc = "delete"
    BY <1>6 DEF DeleteMessage, At, Knows
  <2> QED
    BY <1>4, <2>1, <2>2 DEF Inv, KnownOK
<1>7. CASE Answer(h)
  BY <1>1, <1>7 DEF Answer, Refuse, rows
<1> QED
  BY <1>2, <1>5, <1>6, <1>7

\* No request that came after a ticket was closed changes its messages, for
\* any number of requests and users.
THEOREM ShutIsShutHolds == Spec => ShutIsShut
<1>1. Inv /\ [Next]_vars =>
        [\A m \in messages \cup messages' :
           (m \in messages) # (m \in messages') /\ ~(m.admin /\ m \in messages')
             => \E h \in Handlers : req'[h] # req[h] /\ m.ticket \notin shut[h]]_vars
  BY OpenOnly
<1> QED
  BY <1>1, Invariant, PTL DEF Spec, ShutIsShut

=============================================================================
