---------------------------- MODULE UserSupport -----------------------------
(***************************************************************************)
(* Support tickets: a user opens, changes and deletes tickets and writes   *)
(* messages, with or without a picture, into those that are pending; the   *)
(* administrator answers and sets the status of any of them.               *)
(*                                                                         *)
(* Every handler but the administrator's change of status runs in a        *)
(* transaction, which holds a connection of the pool from its beginning to *)
(* its end, and whose rows show to others at its commit.  A step reads     *)
(* what is committed (READ COMMITTED); an UPDATE looks at its WHERE again   *)
(* when it writes.  Titles, texts and the reading of lists are left out.   *)
(***************************************************************************)
EXTENDS Naturals, FiniteSets

CONSTANTS
    Handlers,     \* requests that may be running at once (reused)
    Users,        \* the users, without the administrator
    Closing,      \* the statuses a user may give a ticket: IGNORED, RESOLVED
    PoolSize,     \* connections to the database
    MaxTickets,   \* bound: tickets created
    MaxMessages,  \* bound: ids of messages given out
    None          \* a ticket that is not there

VARIABLES
    tickets,   \* user_support
    messages,  \* user_support_message
    images,    \* user_support_image: the messages with a row
    files,     \* the messages whose picture is on disk
    given,     \* ids of messages given out
    req,       \* the requests being handled
    shut       \* per request: tickets not pending since before it came

rows == <<tickets, messages, images>>
vars == <<rows, files, given, req, shut>>

Tickets == 1 .. MaxTickets
MessageIds == 1 .. MaxMessages
Statuses == {"PENDING"} \cup Closing
Ticket == [user : Users, status : Statuses, deleted : BOOLEAN]

ASSUME NoneAssumption == None \notin Ticket

Kinds == {"create", "update", "delete", "delete all", "message", "unmessage", "answer"}

Idle == [kind |-> "none", pc |-> "idle", user |-> None, on |-> 0, to |-> "none",
         file |-> FALSE, id |-> 0]

Init ==
    /\ tickets = [t \in Tickets |-> None] /\ messages = {} /\ images = {}
    /\ files = {} /\ given = 0
    /\ req = [h \in Handlers |-> Idle] /\ shut = [h \in Handlers |-> {}]

-----------------------------------------------------------------------------
(* Rows.                                                                   *)

Ids == {m.id : m \in messages}

\* getById: deleted tickets and those of others are not found.
Found(t, u) == tickets[t] # None /\ tickets[t].user = u /\ ~tickets[t].deleted

Pending(t) == tickets[t] # None /\ ~tickets[t].deleted /\ tickets[t].status = "PENDING"

\* Mutant: existsById is called in place of existsAndIsNotClosed.
ExistsOnly(t, u) == Found(t, u)

\* existsAndIsNotClosed.
ExistsAndIsNotClosed(t, u) == Found(t, u) /\ tickets[t].status = "PENDING"

-----------------------------------------------------------------------------
(* Transactions.                                                           *)

At(h, kind, pc) == req[h].kind = kind /\ req[h].pc = pc
Goto(h, pc) == req' = [req EXCEPT ![h].pc = pc]
Leave(h) == req' = [req EXCEPT ![h] = Idle]

\* The transactions under way each hold a connection.
Connected == {h \in Handlers : req[h].pc \notin {"idle", "begin"}}
ConnectionLeft == Cardinality(Connected) < PoolSize

\* The bounds: rows made and rows that requests under way may make.
RoomFor(kind) ==
    /\ kind = "create" =>
         Cardinality({t \in Tickets : tickets[t] # None})
           + Cardinality({g \in Handlers : req[g].kind = "create"}) < MaxTickets
    /\ kind \in {"message", "answer"} =>
         given + Cardinality({g \in Handlers : /\ req[g].kind \in {"message", "answer"}
                                               /\ req[g].pc \notin {"store", "commit"}})
           < MaxMessages

\* A request comes: on = the ticket, to = the new status, id = the message.
Send(h) ==
    /\ req[h] = Idle
    /\ \E r \in [kind : Kinds, pc : {"begin"}, user : Users, on : Tickets, to : Closing,
                 file : BOOLEAN, id : MessageIds] :
         /\ r.kind # "update" => r.to = CHOOSE s \in Closing : TRUE
         /\ r.kind \in {"create", "delete all", "unmessage"} => r.on = 1
         /\ r.kind # "unmessage" => r.id = 1
         /\ r.file => r.kind = "message"
         /\ RoomFor(r.kind)
         /\ req' = [req EXCEPT ![h] = r]
    /\ UNCHANGED <<rows, files, given>>

Begin(h) ==
    /\ req[h].pc = "begin" /\ ConnectionLeft
    /\ Goto(h, CASE req[h].kind = "message" -> "check"
                 [] req[h].kind = "unmessage" -> "lookup"
                 [] OTHER -> "write")
    /\ UNCHANGED <<rows, files, given>>

\* Mutant: a query waits for a connection as long as it takes.
ExpireNever(h) ==
    /\ req[h].pc = "begin" /\ ~ConnectionLeft
    /\ Leave(h) /\ UNCHANGED <<rows, files, given>>

\* Prisma gives up on a transaction that gets no connection (maxWait), and on
\* one that waits for another connection (timeout, pool_timeout).
Expire(h) ==
    /\ req[h].pc \in {"begin", "lookup"} /\ ~ConnectionLeft
    /\ Leave(h) /\ UNCHANGED <<rows, files, given>>

\* An error of the database: the transaction is rolled back.
Fail(h) == h \in Connected /\ Leave(h) /\ UNCHANGED <<rows, files, given>>

\* A statement that finds nothing to do: an HttpException or Prisma's P2025.
Refuse(h) == Leave(h) /\ UNCHANGED <<rows, files, given>>

-----------------------------------------------------------------------------
(* Tickets.                                                                *)

Create(h) ==
    /\ At(h, "create", "write")
    /\ \E t \in Tickets :
         /\ tickets[t] = None /\ \A s \in 1 .. t - 1 : tickets[s] # None
         /\ tickets' = [tickets EXCEPT ![t] = [user |-> req[h].user, status |-> "PENDING",
                                               deleted |-> FALSE]]
    /\ Leave(h) /\ UNCHANGED <<messages, images, files, given>>

\* updateById: the row of the ticket, if it is found, becomes the given one.
UpdateById(h, row) ==
    \/ /\ Found(req[h].on, req[h].user)
       /\ tickets' = [tickets EXCEPT ![req[h].on] = row]
       /\ Leave(h) /\ UNCHANGED <<messages, images, files, given>>
    \/ ~Found(req[h].on, req[h].user) /\ Refuse(h)

\* A status other than pending closes the ticket.
Update(h) ==
    /\ At(h, "update", "write")
    /\ UpdateById(h, [tickets[req[h].on] EXCEPT !.status = req[h].to])

DeleteTicket(h) ==
    /\ At(h, "delete", "write")
    /\ UpdateById(h, [tickets[req[h].on] EXCEPT !.deleted = TRUE])

DeleteAll(h) ==
    /\ At(h, "delete all", "write")
    /\ tickets' = [t \in Tickets |-> IF Found(t, req[h].user)
                                     THEN [tickets[t] EXCEPT !.deleted = TRUE]
                                     ELSE tickets[t]]
    /\ Leave(h) /\ UNCHANGED <<messages, images, files, given>>

\* updateTicket of the administrator: deleted tickets too, and back to pending.
UpdateTicket(t, s) ==
    /\ tickets[t] # None
    /\ tickets' = [tickets EXCEPT ![t].status = s]
    /\ UNCHANGED <<messages, images, files, given, req>>

-----------------------------------------------------------------------------
(* Messages.                                                               *)

Check(h) ==
    /\ At(h, "message", "check")
    /\ \/ /\ ExistsAndIsNotClosed(req[h].on, req[h].user)
          /\ Goto(h, "insert") /\ UNCHANGED <<rows, files, given>>
       \/ ~ExistsAndIsNotClosed(req[h].on, req[h].user) /\ Refuse(h)

Message(h) == [id |-> req[h].id, ticket |-> req[h].on, admin |-> FALSE, file |-> req[h].file]

\* Mutant: the row is written without the transaction.
InsertOutside(h) ==
    /\ At(h, "message", "insert")
    /\ given' = given + 1
    /\ req' = [req EXCEPT ![h].id = given + 1,
                          ![h].pc = IF req[h].file THEN "store" ELSE "commit"]
    /\ messages' = messages \cup {[Message(h) EXCEPT !.id = given + 1]}
    /\ UNCHANGED <<tickets, images, files>>

\* The row of the message, which the transaction keeps to itself.
Insert(h) ==
    /\ At(h, "message", "insert")
    /\ given' = given + 1
    /\ req' = [req EXCEPT ![h].id = given + 1,
                          ![h].pc = IF req[h].file THEN "store" ELSE "commit"]
    /\ UNCHANGED <<rows, files>>

\* The picture is on disk before its row is made.
StoreImage(h) ==
    /\ At(h, "message", "store")
    /\ files' = files \cup {req[h].id}
    /\ Goto(h, "commit") /\ UNCHANGED <<rows, given>>

CommitMessage(h) ==
    /\ At(h, "message", "commit")
    /\ messages' = messages \cup {Message(h)}
    /\ images' = IF req[h].file THEN images \cup {req[h].id} ELSE images
    /\ Leave(h) /\ UNCHANGED <<tickets, files, given>>

\* getById: messages belong to the ticket's user, the administrator's too.
FoundMessages(i, u) == {m \in messages : m.id = i /\ tickets[m.ticket].user = u}

\* It is called without the transaction: it takes a second connection.
Lookup(h) ==
    LET found == FoundMessages(req[h].id, req[h].user)
    IN /\ At(h, "unmessage", "lookup") /\ ConnectionLeft
       /\ \/ \E m \in found :
               /\ req' = [req EXCEPT ![h].on = m.ticket, ![h].pc = "check"]
               /\ UNCHANGED <<rows, files, given>>
          \/ found = {} /\ Refuse(h)

CheckDelete(h) ==
    /\ At(h, "unmessage", "check")
    /\ \/ /\ ExistsAndIsNotClosed(req[h].on, req[h].user)
          /\ Goto(h, "delete") /\ UNCHANGED <<rows, files, given>>
       \/ ~ExistsAndIsNotClosed(req[h].on, req[h].user) /\ Refuse(h)

\* Mutant: rows that refer to the message do not keep it.
DeleteReferred(h) ==
    /\ At(h, "unmessage", "delete")
    /\ messages' = {m \in messages : m.id # req[h].id}
    /\ Leave(h) /\ UNCHANGED <<tickets, images, files, given>>

\* A message of the administrator goes as well; a message with a picture is
\* referred to by the row of the picture, and the DELETE fails.
DeleteMessage(h) ==
    /\ At(h, "unmessage", "delete")
    /\ \/ /\ req[h].id \in Ids \ images
          /\ messages' = {m \in messages : m.id # req[h].id}
          /\ Leave(h) /\ UNCHANGED <<tickets, images, files, given>>
       \/ req[h].id \notin Ids \ images /\ Refuse(h)

\* answerTicket: whatever the ticket's status, deleted or not.
Answer(h) ==
    LET t == req[h].on
    IN /\ At(h, "answer", "write")
       /\ \/ /\ tickets[t] # None /\ tickets[t].user = req[h].user
             /\ given' = given + 1
             /\ messages' = messages \cup {[id |-> given + 1, ticket |-> t, admin |-> TRUE,
                                            file |-> FALSE]}
             /\ Leave(h) /\ UNCHANGED <<tickets, images, files>>
          \/ tickets[t] = None /\ Refuse(h)
          \/ tickets[t] # None /\ tickets[t].user # req[h].user /\ Refuse(h)

-----------------------------------------------------------------------------

Handle(h) ==
    \/ Begin(h) \/ Expire(h)
    \/ Create(h) \/ Update(h) \/ DeleteTicket(h) \/ DeleteAll(h)
    \/ Check(h) \/ Insert(h) \/ StoreImage(h) \/ CommitMessage(h)
    \/ Lookup(h) \/ CheckDelete(h) \/ DeleteMessage(h) \/ Answer(h)

Watch ==
    shut' = [h \in Handlers |->
               IF req'[h] = Idle THEN {}
               ELSE {t \in Tickets : /\ req[h] = Idle \/ t \in shut[h]
                                     /\ ~Pending(t) /\ ~Pending(t)'}]

Next ==
    /\ \/ \E h \in Handlers : Send(h) \/ Handle(h) \/ Fail(h)
       \/ \E t \in Tickets, s \in Statuses : UpdateTicket(t, s)
    /\ Watch

\* The event loop gets to every request, and Prisma's timers run out.
Spec == Init /\ [][Next]_vars /\ \A h \in Handlers : WF_vars(Handle(h) /\ Watch)

-----------------------------------------------------------------------------
(* Properties.                                                             *)

\* Ids are unique and every row refers to a row: a message to a ticket, a
\* picture to its message (message.repository.ts, schema.prisma).
TypeOK ==
    /\ tickets \in [Tickets -> {None} \cup Ticket]
    /\ messages \subseteq [id : 1 .. given, ticket : Tickets, admin : BOOLEAN, file : BOOLEAN]
    /\ \A m, n \in messages : m.id = n.id => m = n
    /\ \A m \in messages : tickets[m.ticket] # None
    /\ images \subseteq Ids /\ files \subseteq 1 .. given /\ given \in Nat
    /\ shut \in [Handlers -> SUBSET Tickets]

\* A message that was sent with a picture shows together with the picture's
\* row, and the picture is on disk: whatever fails between the message's
\* INSERT, the file and the row of the picture, no half of them is seen
\* (message.service.ts create, image.service.ts create).
ImagesWhole ==
    /\ images = {m.id : m \in {n \in messages : n.file}}
    /\ images \subseteq files

\* A ticket that was closed or deleted before a request came, and stayed so,
\* gets no message of its user from that request and loses none to it: only
\* a request that overlaps the closing slips in behind its own check
\* (message.service.ts create, deleteById; existsAndIsNotClosed).
ShutIsShut ==
    [][\A m \in messages \cup messages' :
         (m \in messages) # (m \in messages') /\ ~(m.admin /\ m \in messages')
           => \E h \in Handlers : req'[h] # req[h] /\ m.ticket \notin shut[h]]_vars

\* Every request is answered, although deleting a message asks the pool for
\* a second connection while it holds one: with the pool full of such
\* requests none of them moves before the timers run out.
Answered == \A h \in Handlers : req[h] # Idle ~> req[h] = Idle

=============================================================================
