---------------------------- MODULE AuthRequests ----------------------------
(***************************************************************************)
(* The requests that a user confirms from a mail: to verify an account, to *)
(* recover a password, to reset one.  The three kinds have tables of their *)
(* own (requests, and counts of the attempts at each) and one shape; what  *)
(* they share is the identity of the user.                                 *)
(*                                                                         *)
(* Every handler is one database transaction at READ COMMITTED: it reads   *)
(* what others have committed, its writes are its own until Commit, a row  *)
(* it has written is locked for other writers, and whatever throws rolls   *)
(* it back.  An action is one statement and the code up to the next.       *)
(* Sequences (nextId) are not rolled back.                                 *)
(*                                                                         *)
(* A token, its jti and the new password it brings are one number: they    *)
(* are made together and always written together.                          *)
(***************************************************************************)
EXTENDS Integers

CONSTANTS
    Kinds,        \* a set of "verify", "recover", "reset"
    Users,        \* users with an account
    Strict,       \* users whose identity is in strict mode
    Lockable,     \* users whom the administrator locks and unlocks
    Handlers,     \* transactions that may be open at once (reused)
    None,         \* null
    MaxAttempts,  \* MAX_ATTEMPT_COUNT
    MaxTokens     \* bound: tokens ever made, so rows ever inserted

ASSUME KindsAssumption == Kinds \subseteq {"verify", "recover", "reset"}
ASSUME UsersAssumption == Strict \subseteq Users /\ Lockable \subseteq Users
ASSUME BoundsAssumption == MaxAttempts \in Nat /\ MaxTokens \in Nat

Tokens == 1 .. MaxTokens
Ids == 1 .. MaxTokens
Dates == {"never", "today", "past"}

IdentityRow == [verified : BOOLEAN, locked : BOOLEAN, password : {0} \cup Tokens]
RequestRow == [user : Users, jti : Tokens, live : BOOLEAN]
CountRow == [request : Ids, count : 0 .. MaxAttempts, date : Dates, live : BOOLEAN]
Mail == [token : Tokens, kind : Kinds, user : Users]

ASSUME NoneAssumption == None \notin RequestRow \cup CountRow \cup IdentityRow

SendPhases == {"find", "reread", "rewrite", "create", "findCount", "newCount", "tally"}
ConfirmPhases == {"lookup", "reuse", "throw", "identity", "softDelete", "softCount"}

VARIABLES
    identity,  \* the committed rows of user_identities
    requests,  \* for each kind, the committed rows of requests by id
    counts,    \* for each kind, the committed rows of attempt counts by id
    nextId,    \* for each kind, the two sequences
    tx,        \* the handlers: where each is, what it read, what it wrote
    token,     \* the last token made
    mail,      \* the mails sent
    used,      \* history: tokens whose confirmation has committed
    sends,     \* history: for each request, sends committed since its count began
    crossed    \* history: who has had two sends of one kind open at once

tables == <<requests, counts>>
history == <<used, sends, crossed>>
vars == <<identity, requests, counts, nextId, tx, token, mail, used, sends, crossed>>

Idle == [op |-> "none", pc |-> "idle"]

Init ==
    /\ identity \in [Users -> {[verified |-> v, locked |-> FALSE, password |-> 0] : v \in BOOLEAN}]
    /\ requests = [k \in Kinds |-> [i \in Ids |-> None]]
    /\ counts = [k \in Kinds |-> [i \in Ids |-> None]]
    /\ nextId = [k \in Kinds |-> [request |-> 1, count |-> 1]]
    /\ tx = [h \in Handlers |-> Idle]
    /\ token = 0
    /\ mail = {}
    /\ used = {}
    /\ sends = [k \in Kinds |-> [i \in Ids |-> 0]]
    /\ crossed = {}

At(h, p) == tx[h].pc = p
Goto(h, p) == tx' = [tx EXCEPT ![h].pc = p]

\* An exception: the transaction is rolled back and nothing of it remains.
RollBack(h) == tx' = [tx EXCEPT ![h] = Idle]

\* A row that another open transaction has written makes a writer wait.
Running == {g \in Handlers : ~At(g, "idle")}
Open(h) == Running \ {h}
IdentityFree(h) ==
    \A g \in Open(h) : tx[g].identity = None \/ tx[g].user # tx[h].user
RequestFree(h) ==
    \A g \in Open(h) : tx[g].row = None \/ tx[g].kind # tx[h].kind \/ tx[g].request # tx[h].request
CountFree(h, i) ==
    \A g \in Open(h) : tx[g].tally = None \/ tx[g].kind # tx[h].kind \/ tx[g].count # i

\* validateUser: not locked, and verified unless verification is what is asked.
Valid(k, row) == ~row.locked /\ row.verified = (k # "verify")

Begin(op, p, k, u, t) ==
    [op |-> op, pc |-> p, kind |-> k, user |-> u, token |-> t,
     valid |-> Valid(k, identity[u]), request |-> 0, count |-> 0, seen |-> None,
     identity |-> None, row |-> None, tally |-> None]

-----------------------------------------------------------------------------
(* Sending a request.                                                      *)

\* A send that is refused at once (a locked user, a wrong old password)
\* changes nothing and is left out.
StartSend(h, k, u) ==
    /\ At(h, "idle") /\ token < MaxTokens /\ Valid(k, identity[u])
    /\ token' = token + 1
    /\ tx' = [tx EXCEPT ![h] = Begin("send", "find", k, u, token + 1)]
    /\ crossed' = IF \E g \in Open(h) : tx[g].op = "send" /\ tx[g].kind = k /\ tx[g].user = u
                    THEN crossed \cup {<<k, u>>} ELSE crossed
    /\ UNCHANGED <<identity, tables, nextId, mail, used, sends>>

\* Mutant: every send makes a request of its own.
SendFindNothing(h) ==
    /\ At(h, "find") /\ Goto(h, "create")
    /\ UNCHANGED <<identity, tables, nextId, token, mail, history>>

\* getByUserId: any live request of the user, with no order among them.
SendFind(h) ==
    /\ At(h, "find")
    /\ LET live == {i \in Ids : LET r == requests[tx[h].kind][i]
                                IN r # None /\ r.user = tx[h].user /\ r.live}
       IN \/ /\ live = {}
             /\ Goto(h, "create")
          \/ \E i \in live : tx' = [tx EXCEPT ![h].pc = "reread", ![h].request = i]
    /\ UNCHANGED <<identity, tables, nextId, token, mail, history>>

\* updateById reads the row again; the service throws when it was deleted since.
SendReread(h) ==
    /\ At(h, "reread")
    /\ IF requests[tx[h].kind][tx[h].request].live THEN Goto(h, "rewrite") ELSE RollBack(h)
    /\ UNCHANGED <<identity, tables, nextId, token, mail, history>>

\* Mutant: the rewritten row keeps the token it had.
RequestUnchanged(h) ==
    IF tx[h].request = 0 THEN [user |-> tx[h].user, jti |-> tx[h].token, live |-> TRUE]
                         ELSE [requests[tx[h].kind][tx[h].request] EXCEPT !.live = TRUE]
Request(h) == [user |-> tx[h].user, jti |-> tx[h].token, live |-> TRUE]

\* It writes back the row it read, its deletedAt of null with it.
SendRewrite(h) ==
    /\ At(h, "rewrite") /\ RequestFree(h)
    /\ tx' = [tx EXCEPT ![h].pc = "findCount", ![h].row = Request(h)]
    /\ UNCHANGED <<identity, tables, nextId, token, mail, history>>

SendCreate(h) ==
    /\ At(h, "create") /\ nextId[tx[h].kind].request \in Ids
    /\ tx' = [tx EXCEPT ![h].pc = "findCount", ![h].row = Request(h),
                        ![h].request = nextId[tx[h].kind].request]
    /\ nextId' = [nextId EXCEPT ![tx[h].kind].request = @ + 1]
    /\ UNCHANGED <<identity, tables, token, mail, history>>

CountsOf(k, i) == {c \in Ids : counts[k][c] # None /\ counts[k][c].request = i}

\* The count of the request's attempts, unless it is deleted.
SendFindCount(h) ==
    /\ At(h, "findCount")
    /\ LET k == tx[h].kind
           live == {c \in CountsOf(k, tx[h].request) : counts[k][c].live}
       IN \/ /\ live = {}
             /\ Goto(h, "newCount")
          \/ \E c \in live :
               tx' = [tx EXCEPT ![h].pc = "tally", ![h].count = c, ![h].seen = counts[k][c]]
    /\ UNCHANGED <<identity, tables, nextId, token, mail, history>>

\* The mail is handed over before the transaction commits.
SendMail(h) == mail' = mail \cup {[token |-> tx[h].token, kind |-> tx[h].kind, user |-> tx[h].user]}

\* The sequence moves on whether or not the insertion breaks the uniqueness of
\* the request's id, which a deleted count does.
SendNewCount(h) ==
    LET k == tx[h].kind
        c == nextId[k].count
        row == [request |-> tx[h].request, count |-> 0, date |-> "never", live |-> TRUE]
    IN /\ At(h, "newCount") /\ c \in Ids
       /\ nextId' = [nextId EXCEPT ![k].count = @ + 1]
       /\ IF CountsOf(k, tx[h].request) = {}
            THEN /\ tx' = [tx EXCEPT ![h].pc = "commit", ![h].count = c, ![h].tally = row]
                 /\ SendMail(h)
            ELSE RollBack(h) /\ mail' = mail
       /\ UNCHANGED <<identity, tables, token, history>>

\* Writes the count and the date, and leaves the rest of the row as it is now.
Tally(h, n) ==
    /\ CountFree(h, tx[h].count)
    /\ tx' = [tx EXCEPT ![h].pc = "commit",
                        ![h].tally = [counts[tx[h].kind][tx[h].count] EXCEPT
                                        !.count = n, !.date = "today"]]
    /\ SendMail(h)

\* Mutant: the limit is compared with <= instead of <.
SendTallyLate(h) ==
    LET seen == tx[h].seen
    IN /\ At(h, "tally")
       /\ \/ seen.count <= MaxAttempts /\ Tally(h, seen.count + 1)
          \/ seen.count > MaxAttempts /\ seen.date = "today" /\ RollBack(h) /\ mail' = mail
          \/ seen.count > MaxAttempts /\ seen.date # "today" /\ Tally(h, 0)
       /\ UNCHANGED <<identity, tables, nextId, token, history>>

\* Mutant: the count is updated outside the transaction.
SendTallyOutside(h) ==
    LET seen == tx[h].seen
        n == IF seen.count < MaxAttempts THEN seen.count + 1 ELSE 0
    IN /\ At(h, "tally")
       /\ \/ seen.count >= MaxAttempts /\ seen.date = "today" /\ RollBack(h)
             /\ mail' = mail /\ counts' = counts
          \/ /\ seen.count < MaxAttempts \/ seen.date # "today"
             /\ Tally(h, n)
             /\ counts' = [counts EXCEPT ![tx[h].kind][tx[h].count].count = n]
       /\ UNCHANGED <<identity, requests, nextId, token, history>>

\* Mutant: the tally also waits for the identity's row.
SendTallyLocksIdentity(h) ==
    LET seen == tx[h].seen
    IN /\ At(h, "tally") /\ IdentityFree(h)
       /\ \/ seen.count < MaxAttempts /\ Tally(h, seen.count + 1)
          \/ seen.count >= MaxAttempts /\ seen.date = "today" /\ RollBack(h) /\ mail' = mail
          \/ seen.count >= MaxAttempts /\ seen.date # "today" /\ Tally(h, 0)
       /\ UNCHANGED <<identity, tables, nextId, token, history>>

SendTally(h) ==
    LET seen == tx[h].seen
    IN /\ At(h, "tally")
       /\ \/ seen.count < MaxAttempts /\ Tally(h, seen.count + 1)
          \/ seen.count >= MaxAttempts /\ seen.date = "today" /\ RollBack(h) /\ mail' = mail
          \/ seen.count >= MaxAttempts /\ seen.date # "today" /\ Tally(h, 0)
       /\ UNCHANGED <<identity, tables, nextId, token, history>>

-----------------------------------------------------------------------------
(* Confirming a request from its mail.                                     *)

StartConfirm(h, m) ==
    /\ At(h, "idle")
    /\ tx' = [tx EXCEPT ![h] = Begin("confirm", "lookup", m.kind, m.user, m.token)]
    /\ UNCHANGED <<identity, tables, nextId, token, mail, history>>

Found(h) ==
    {i \in Ids : LET r == requests[tx[h].kind][i] IN r # None /\ r.jti = tx[h].token}

\* The token of a deleted request whose count is a day old or more; a count
\* that was never increased has no date, and no age.
Reused(h) ==
    \E i \in Found(h) :
       /\ ~requests[tx[h].kind][i].live
       /\ \E c \in CountsOf(tx[h].kind, i) : counts[tx[h].kind][c].date = "past"

\* getByJTI finds deleted requests too.  When the request is missing, the user
\* was not valid, the token has expired or was used (the page that says so), the
\* transaction has written nothing and ends.
ConfirmLookup(h) ==
    /\ At(h, "lookup")
    /\ \/ Reused(h) /\ tx[h].user \in Strict /\ Goto(h, "reuse")
       \/ ~(Reused(h) /\ tx[h].user \in Strict) /\ RollBack(h)
       \/ \E i \in Found(h) :
            /\ requests[tx[h].kind][i].live /\ tx[h].valid
            /\ tx' = [tx EXCEPT ![h].pc = "identity", ![h].request = i]
    /\ UNCHANGED <<identity, tables, nextId, token, mail, history>>

\* Strict mode locks the user, and then the handler throws.
ConfirmReuse(h) ==
    /\ At(h, "reuse") /\ IdentityFree(h)
    /\ tx' = [tx EXCEPT ![h].pc = "throw",
                        ![h].identity = [identity[tx[h].user] EXCEPT !.locked = TRUE]]
    /\ UNCHANGED <<identity, tables, nextId, token, mail, history>>

ConfirmReuseThrows(h) ==
    /\ At(h, "throw") /\ RollBack(h)
    /\ UNCHANGED <<identity, tables, nextId, token, mail, history>>

Confirmed(k, t, row) ==
    IF k = "verify" THEN [row EXCEPT !.verified = TRUE, !.locked = FALSE]
                    ELSE [row EXCEPT !.password = t]

ConfirmIdentity(h) ==
    /\ At(h, "identity") /\ IdentityFree(h)
    /\ tx' = [tx EXCEPT ![h].pc = "softDelete",
                        ![h].identity = Confirmed(tx[h].kind, tx[h].token, identity[tx[h].user])]
    /\ UNCHANGED <<identity, tables, nextId, token, mail, history>>

ConfirmSoftDelete(h) ==
    /\ At(h, "softDelete") /\ RequestFree(h)
    /\ tx' = [tx EXCEPT ![h].pc = "softCount",
                        ![h].row = [requests[tx[h].kind][tx[h].request] EXCEPT !.live = FALSE]]
    /\ UNCHANGED <<identity, tables, nextId, token, mail, history>>

\* The count with the id that the request has, which need not be its count;
\* when there is none, the update throws.
ConfirmSoftCount(h) ==
    LET i == tx[h].request
        old == counts[tx[h].kind][i]
    IN /\ At(h, "softCount")
       /\ IF old = None THEN RollBack(h)
          ELSE /\ CountFree(h, i)
               /\ tx' = [tx EXCEPT ![h].pc = "commit", ![h].count = i,
                                   ![h].tally = [old EXCEPT !.live = FALSE]]
       /\ UNCHANGED <<identity, tables, nextId, token, mail, history>>

-----------------------------------------------------------------------------
\* Both kinds of handler end with a request and a count written, and a
\* confirmation with the identity too.
Commit(h) ==
    LET t == tx[h]
        sent == IF t.tally.count = 0 THEN 1 ELSE sends[t.kind][t.request] + 1
    IN /\ At(h, "commit")
       /\ identity' = IF t.op = "send" THEN identity
                                       ELSE [identity EXCEPT ![t.user] = t.identity]
       /\ requests' = [requests EXCEPT ![t.kind][t.request] = t.row]
       /\ counts' = [counts EXCEPT ![t.kind][t.count] = t.tally]
       /\ used' = IF t.op = "send" THEN used ELSE used \cup {t.token}
       /\ sends' = IF t.op = "send" THEN [sends EXCEPT ![t.kind][t.request] = sent] ELSE sends
       /\ RollBack(h)
       /\ UNCHANGED <<nextId, token, mail, crossed>>

\* The database or the transaction's time limit ends it.
Fail(h) ==
    /\ h \in Running /\ RollBack(h)
    /\ UNCHANGED <<identity, tables, nextId, token, mail, history>>

\* blacklistUser, a statement that is a transaction of its own.
Blacklist(u, b) ==
    /\ \A g \in Running : tx[g].identity = None \/ tx[g].user # u
    /\ identity[u].locked # b
    /\ identity' = [identity EXCEPT ![u].locked = b]
    /\ UNCHANGED <<tables, nextId, tx, token, mail, history>>

\* A day goes by: no transaction is open as long.
DayPasses ==
    /\ Running = {}
    /\ counts' = [k \in Kinds |-> [i \in Ids |->
                    IF counts[k][i] # None /\ counts[k][i].date = "today"
                      THEN [counts[k][i] EXCEPT !.date = "past"] ELSE counts[k][i]]]
    /\ counts' # counts
    /\ UNCHANGED <<identity, requests, nextId, tx, token, mail, history>>

Send(h) ==
    \/ SendFind(h) \/ SendReread(h) \/ SendRewrite(h) \/ SendCreate(h)
    \/ SendFindCount(h) \/ SendNewCount(h) \/ SendTally(h)

Confirm(h) ==
    \/ ConfirmLookup(h) \/ ConfirmReuse(h) \/ ConfirmReuseThrows(h)
    \/ ConfirmIdentity(h) \/ ConfirmSoftDelete(h) \/ ConfirmSoftCount(h)

Step(h) == Send(h) \/ Confirm(h) \/ Commit(h)

Next ==
    \/ \E h \in Handlers :
         \/ \E k \in Kinds, u \in Users : StartSend(h, k, u)
         \/ \E m \in mail : StartConfirm(h, m)
         \/ Step(h)
         \/ Fail(h)
    \/ \E u \in Lockable, b \in BOOLEAN : Blacklist(u, b)
    \/ DayPasses

Spec == Init /\ [][Next]_vars

-----------------------------------------------------------------------------
(* Properties.                                                             *)

OpenTx ==
    [op : {"send", "confirm"}, pc : SendPhases \cup ConfirmPhases \cup {"commit"},
     kind : Kinds, user : Users, token : Tokens, valid : BOOLEAN,
     request : {0} \cup Ids, count : {0} \cup Ids, seen : CountRow \cup {None},
     identity : IdentityRow \cup {None}, row : RequestRow \cup {None},
     tally : CountRow \cup {None}]

\* Every row and every handler has its type; among others, no count of attempts
\* exceeds the limit (authentication.service.ts, the checks of MAX_ATTEMPT_COUNT).
TypeOK ==
    /\ identity \in [Users -> IdentityRow]
    /\ requests \in [Kinds -> [Ids -> RequestRow \cup {None}]]
    /\ counts \in [Kinds -> [Ids -> CountRow \cup {None}]]
    /\ nextId \in [Kinds -> [request : 1 .. MaxTokens + 1, count : 1 .. MaxTokens + 1]]
    /\ tx \in [Handlers -> OpenTx \cup {Idle}]
    /\ token \in 0 .. MaxTokens
    /\ mail \subseteq Mail
    /\ used \subseteq Tokens
    /\ sends \in [Kinds -> [Ids -> Nat]]
    /\ crossed \subseteq Kinds \X Users

\* A token that confirmed a request is no live request's token, so that it
\* never confirms again once its confirmation is over: not even when a send
\* that read the request before brings the deleted row back to life.
UsedTokenIsSpent ==
    \A k \in Kinds, i \in Ids :
       requests[k][i] # None /\ requests[k][i].live => requests[k][i].jti \notin used

\* However sends, confirmations and failures interleave, every request has one
\* count, which holds the number of its sends after the first: none is lost
\* between the reading of a count and its update, none is counted and undone.
AttemptsCounted ==
    \A k \in Kinds, i \in Ids :
       requests[k][i] # None =>
          \E c \in Ids : CountsOf(k, i) = {c} /\ counts[k][c].count = sends[k][i] - 1

\* A user whose sends of a kind never overlapped has at most one live request
\* of it, whatever confirmations and failures do meanwhile.  (Two overlapping
\* first sends both find nothing and make one each.)
OneLiveRequest ==
    \A k \in Kinds, u \in Users : <<k, u>> \notin crossed =>
       \A i, j \in {n \in Ids : requests[k][n] # None} :
          /\ requests[k][i].live /\ requests[k][i].user = u
          /\ requests[k][j].live /\ requests[k][j].user = u
          => i = j

\* Open transactions never all wait for rows that others of them have written:
\* the database never has to break a deadlock, although one that confirms may
\* take the count of another request, and so wait for another user's.
NoWaitCycle == Running # {} => \E h \in Running : ENABLED Step(h)

\* schema.prisma: "after successfull verification all column will be deleted".
\* The count of a confirmed request is deleted with it.
CountDeletedWithRequest ==
    \A k \in Kinds, i \in Ids :
       requests[k][i] # None /\ ~requests[k][i].live =>
          \A c \in CountsOf(k, i) : ~counts[k][c].live

\* authenctication-mail.service.ts: "User is blocked due to strict mode", says
\* the mail that is sent when a used token comes back.  When the handler that
\* sent it has ended, the user is locked.
StrictReuseLocks ==
    [][\A h \in Handlers : At(h, "throw") /\ tx'[h] = Idle => identity'[tx[h].user].locked]_vars

=============================================================================
