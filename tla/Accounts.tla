------------------------------ MODULE Accounts ------------------------------
(***************************************************************************)
(* Accounts and sessions: signing up, in and out, exchanging a refresh     *)
(* token, the checks that every request and every owner's socket pass,     *)
(* what the administrator does to accounts, and the requests that replace  *)
(* a picture (of the profile, and the preview of a document).              *)
(*                                                                         *)
(* A session is the pair of an access and a refresh token that one call of *)
(* genTokensAndSendResponse makes; its number stands for the jti.  An      *)
(* action is the code up to the next await where another handler or a      *)
(* failure can make a difference: a transaction that only writes rows      *)
(* shows in one action, the commit.  Tokens may expire at any time: a       *)
(* request may be refused for it whenever it may be let through.           *)
(***************************************************************************)
EXTENDS Naturals, FiniteSets, TLC

CONSTANTS
    Handlers,     \* requests that may be running at once (reused)
    Emails, Demo, \* the addresses; the one of the demo user
    MaxUsers,     \* bound: ids of users given out
    MaxSessions,  \* bound: pairs of tokens issued
    MaxPictures,  \* bound: pictures sent
    Apart,        \* pairs of kinds of request that do not come at the same time
    Failures,     \* whether handlers may fail under way
    None, Gone    \* an id not given out, and one whose user was deleted

ASSUME BoundsAssumption ==
    MaxUsers \in Nat /\ MaxSessions \in Nat /\ MaxPictures \in Nat

\* None and Gone are not rows, and None is no address.
ASSUME NullAssumption ==
    /\ None # Gone /\ None \notin Emails \cup {Demo}
    /\ \A e \in Emails \cup {Demo}, b, c, d \in BOOLEAN, n, m \in 0 .. MaxPictures :
         [email |-> e, verified |-> b, locked |-> c, requests |-> d, profile |-> n, preview |-> m]
           \notin {None, Gone}

Users == 1 .. MaxUsers
Sessions == 1 .. MaxSessions
Slots == {"profile", "preview"}

VARIABLES
    users,      \* users with their identities
    vault,      \* per user: "none", "kept" (rows and files) or "lost" (rows only)
    tokens,     \* refresh_tokens: the sessions with a row
    issuedTo,   \* the user each session was issued to, 0 while not issued
    closed,     \* sessions whose sign-out was answered
    uploads,    \* pictures on disk
    removing,   \* pictures whose deletion was issued and not awaited
    sent,       \* how many pictures were sent
    op,         \* the requests being handled
    loose       \* a user and what of theirs a failure or an overlap has hit

accounts == <<users, vault>>
sessions == <<tokens, issuedTo, closed>>
pictures == <<uploads, removing, sent>>
vars == <<accounts, sessions, pictures, op, loose>>

Idle == [kind |-> "none", pc |-> "idle", user |-> 0, ses |-> 0, email |-> None,
         seen |-> FALSE, late |-> {}, old |-> 0, new |-> 0]

Init ==
    /\ users = [u \in Users |-> None] /\ vault = [u \in Users |-> "none"]
    /\ tokens = {} /\ issuedTo = [s \in Sessions |-> 0] /\ closed = {}
    /\ uploads = {} /\ removing = {} /\ sent = 0
    /\ op = [h \in Handlers |-> Idle] /\ loose = {}

-----------------------------------------------------------------------------
(* Rows.                                                                   *)

Known == {u \in Users : users[u] \notin {None, Gone}}
ByEmail(e) == {u \in Known : users[u].email = e}
Issued == {s \in Sessions : issuedTo[s] # 0}  \* what the server has signed
TokensOf(u) == {s \in tokens : issuedTo[s] = u}

\* requests: a mailed request refers to the user, as sign-up makes one.
Account(e, verified, requests) ==
    [email |-> e, verified |-> verified, locked |-> FALSE, requests |-> requests,
     profile |-> 0, preview |-> 0]

\* Mutant: the e-mail is not unique in the table.
CreatedTwice(row) ==
    \E u \in Users :
       /\ users[u] = None /\ \A w \in 1 .. u - 1 : users[w] # None
       /\ users' = [users EXCEPT ![u] = row]

\* users.email is unique.
Created(row) ==
    /\ ByEmail(row.email) = {}
    /\ \E u \in Users :
         /\ users[u] = None /\ \A w \in 1 .. u - 1 : users[w] # None
         /\ users' = [users EXCEPT ![u] = row]

\* validateUser, with showNotVerifiedErr.
Valid(u) == u \in Known /\ ~users[u].locked /\ users[u].verified

-----------------------------------------------------------------------------
(* Requests.                                                               *)

MayStart(h, k) ==
    op[h] = Idle /\ \A g \in Handlers \ {h} : <<k, op[g].kind>> \notin Apart

At(h, k, pc) == op[h].kind = k /\ op[h].pc = pc
Open == {h \in Handlers : op[h] # Idle}
Goto(h, pc) == op' = [op EXCEPT ![h].pc = pc]
Done(h) == op' = [op EXCEPT ![h] = Idle]

Slot(h) == IF op[h].kind = "preview" THEN "preview" ELSE "profile"

\* What a request leaves behind when it ends before its commit: a picture
\* that was written, files that were deleted.
Hit(h) ==
    CASE op[h].new # 0 -> {<<op[h].user, Slot(h)>>}
      [] op[h].kind = "clear" /\ op[h].user # 0 -> {<<op[h].user, "vault">>}
      [] OTHER -> {}

Abort(h) == Done(h) /\ loose' = loose \cup Hit(h)

\* genTokensAndSendResponse: the row of the refresh token refers to a user.
IssueTo(u) ==
    \E s \in Sessions \ Issued :
       /\ 1 .. s - 1 \subseteq Issued
       /\ tokens' = tokens \cup {s} /\ issuedTo' = [issuedTo EXCEPT ![s] = u]
       /\ closed' = closed

-----------------------------------------------------------------------------
(* Signing up and in.                                                      *)

\* existsByEmail, outside the transaction.
SignUpBegin(h, e) ==
    /\ MayStart(h, "signup") /\ ByEmail(e) = {}
    /\ op' = [op EXCEPT ![h] = [Idle EXCEPT !.kind = "signup", !.pc = "create", !.email = e]]
    /\ UNCHANGED <<accounts, sessions, pictures, loose>>

\* The user, the identity, the request to verify the address and the refresh
\* token, which the unique address may refuse.
SignUpCommit(h) ==
    LET e == op[h].email
    IN /\ At(h, "signup", "create")
       /\ \/ /\ Created(Account(e, FALSE, TRUE))
             /\ \E u \in Users : users'[u] # users[u] /\ IssueTo(u)
          \/ ByEmail(e) # {} /\ UNCHANGED <<users, sessions>>
       /\ Done(h)
       /\ UNCHANGED <<vault, pictures, loose>>

\* The user is read outside the transaction, and the password compared.
SignInBegin(h, e) ==
    /\ MayStart(h, "signin")
    /\ \E u \in ByEmail(e) :
         /\ Valid(u)
         /\ op' = [op EXCEPT ![h] = [Idle EXCEPT !.kind = "signin", !.pc = "issue", !.user = u]]
    /\ UNCHANGED <<accounts, sessions, pictures, loose>>

\* Mutant: the row of a token need not refer to a user.
IssueToAnyone(h) ==
    /\ op[h].pc = "issue" /\ IssueTo(op[h].user) /\ Done(h)
    /\ UNCHANGED <<accounts, pictures, loose>>

\* The end of signing in and of an exchange.
Issue(h) ==
    LET u == op[h].user
    IN /\ op[h].pc = "issue"
       /\ \/ u \in Known /\ IssueTo(u)
          \/ u \notin Known /\ UNCHANGED sessions
       /\ Done(h)
       /\ UNCHANGED <<accounts, pictures, loose>>

-----------------------------------------------------------------------------
(* Exchanging a refresh token.  Its row stays: it can be exchanged again.  *)

\* Why a request with the session s must get nothing, as it begins.
Reasons(s) ==
    (IF s \in closed \/ users[issuedTo[s]] = Gone THEN {"over"} ELSE {})
      \cup (IF issuedTo[s] \in Known /\ users[issuedTo[s]].locked THEN {"locked"} ELSE {})

RefreshRow(h, s) ==
    /\ MayStart(h, "refresh") /\ s \in Issued
    /\ op' = [op EXCEPT ![h] = [Idle EXCEPT !.kind = "refresh", !.pc = "user", !.ses = s,
                  !.user = issuedTo[s], !.seen = s \in tokens,
                  !.late = Reasons(s)]]
    /\ UNCHANGED <<accounts, sessions, pictures, loose>>

\* Mutant: the row of the token is not asked for.
RefreshUserUnseen(h) ==
    /\ At(h, "refresh", "user")
    /\ Valid(op[h].user) /\ Goto(h, "issue")
    /\ UNCHANGED <<accounts, sessions, pictures, loose>>

\* validateRefreshToken, against the row.
Exchangeable(h) == Valid(op[h].user) /\ op[h].seen

\* A token without a row was used before: all of the user's rows are deleted
\* and, in strict mode, the account locked, in the transaction that the
\* exception then undoes.  An expired token is refused before that.
RefreshUser(h) ==
    /\ At(h, "refresh", "user")
    /\ \/ Exchangeable(h) /\ Goto(h, "issue")
       \/ Done(h)
    /\ UNCHANGED <<accounts, sessions, pictures, loose>>

-----------------------------------------------------------------------------
(* The guards: AuthGuard and VerifiedEmailGuard before every request, the  *)
(* middleware before an owner's socket, which does not ask for a lock.     *)

\* Two requests that may undo or overtake one another's change of a picture.
Overlap(k, l) == {k, l} \in {{"profile"}, {"profile", "details"}, {"preview"}}

AuthGuard(s) == s \in Issued /\ issuedTo[s] \in Known /\ ~users[issuedTo[s]].locked
VerifiedEmailGuard(s) == users[issuedTo[s]].verified

Guard(h, s, k) ==
    LET u == issuedTo[s]
        others == {g \in Open : op[g].user = u /\ Overlap(k, op[g].kind)}
    IN /\ MayStart(h, k) /\ AuthGuard(s) /\ VerifiedEmailGuard(s)
       /\ others = {} \/ loose = {}   \* bound: one overlap or failure
       /\ op' = [op EXCEPT ![h] = [Idle EXCEPT !.kind = k, !.pc = "start", !.user = u,
                     !.ses = IF k = "signout" THEN s ELSE 0,
                     !.old = IF k = "profile" THEN users[u].profile ELSE 0]]
       /\ loose' = loose \cup {<<u, IF k = "preview" THEN "preview" ELSE "profile">> : g \in others}
       /\ UNCHANGED <<accounts, sessions, pictures>>

\* The token is checked against itself, then the user is looked up.
SocketBegin(h, s) ==
    /\ MayStart(h, "socket") /\ s \in Issued
    /\ op' = [op EXCEPT ![h] = [Idle EXCEPT !.kind = "socket", !.pc = "uuid", !.user = issuedTo[s],
                  !.late = IF users[issuedTo[s]] = Gone THEN {"over"} ELSE {}]]
    /\ UNCHANGED <<accounts, sessions, pictures, loose>>

SocketUser(h) ==
    /\ At(h, "socket", "uuid")
    /\ IF op[h].user \in Known THEN Goto(h, "admitted") ELSE Done(h)
    /\ UNCHANGED <<accounts, sessions, pictures, loose>>

SocketClose(h) ==
    /\ At(h, "socket", "admitted") /\ Done(h)
    /\ UNCHANGED <<accounts, sessions, pictures, loose>>

\* deleteByJTI throws when the row is not there.
SignOut(h) ==
    LET s == op[h].ses
    IN /\ At(h, "signout", "start")
       /\ IF s \in tokens THEN tokens' = tokens \ {s} /\ closed' = closed \cup {s}
                          ELSE UNCHANGED <<tokens, closed>>
       /\ Done(h)
       /\ UNCHANGED <<accounts, issuedTo, pictures, loose>>

-----------------------------------------------------------------------------
(* Pictures.                                                               *)

\* A transaction that has updated the user's row keeps it until the commit.
RowHeld(g, u) == At(g, "profile", "commit") /\ op[g].user = u
RowFree(h, u) == \A g \in Handlers \ {h} : ~RowHeld(g, u)

\* updateById reads the whole row ...
DetailsRead(h) ==
    LET u == op[h].user
    IN /\ At(h, "details", "start")
       /\ IF u \in Known THEN op' = [op EXCEPT ![h].pc = "write", ![h].old = users[u].profile]
                         ELSE Done(h)
       /\ UNCHANGED <<accounts, sessions, pictures, loose>>

\* ... and writes it back with the changes.
DetailsWrite(h) ==
    LET u == op[h].user
    IN /\ At(h, "details", "write") /\ RowFree(h, u)
       /\ users' = IF u \in Known THEN [users EXCEPT ![u].profile = op[h].old] ELSE users
       /\ Done(h)
       /\ UNCHANGED <<vault, sessions, pictures, loose>>

\* The new picture goes to the disk first.
Written(h, old) ==
    /\ sent < MaxPictures /\ sent' = sent + 1
    /\ uploads' = uploads \cup {sent + 1} /\ removing' = removing
    /\ op' = [op EXCEPT ![h].pc = "replace", ![h].new = sent + 1, ![h].old = old]

\* The old one is what the guard read.
ProfileWrite(h) ==
    /\ At(h, "profile", "start") /\ Written(h, op[h].old)
    /\ UNCHANGED <<accounts, sessions, loose>>

\* The old one is what the document's row says.
PreviewWrite(h) ==
    LET u == op[h].user
    IN /\ At(h, "preview", "start")
       /\ IF u \in Known /\ vault[u] # "none"
            THEN Written(h, users[u].preview)
            ELSE Done(h) /\ UNCHANGED pictures
       /\ UNCHANGED <<accounts, sessions, loose>>

\* The row is updated, and the old picture, which has to be there, deleted.
ProfileReplace(h) ==
    LET u == op[h].user
        old == op[h].old
    IN /\ At(h, "profile", "replace") /\ RowFree(h, u)
       /\ IF u \in Known /\ (old = 0 \/ old \in uploads)
            THEN uploads' = uploads \ {old} /\ Goto(h, "commit") /\ loose' = loose
            ELSE uploads' = uploads /\ Abort(h)
       /\ UNCHANGED <<accounts, sessions, removing, sent>>

ProfileCommit(h) ==
    /\ At(h, "profile", "commit")
    /\ users' = [users EXCEPT ![op[h].user].profile = op[h].new]
    /\ Done(h)
    /\ UNCHANGED <<vault, sessions, pictures, loose>>

\* The old preview's deletion is issued and not awaited, then the row updated.
PreviewReplace(h) ==
    /\ At(h, "preview", "replace")
    /\ removing' = removing \cup ({op[h].old} \ {0})
    /\ Goto(h, "commit")
    /\ UNCHANGED <<accounts, sessions, uploads, sent, loose>>

\* Mutant: the row keeps the path of the old picture.
PreviewCommitKeepsOld(h) ==
    /\ At(h, "preview", "commit") /\ Done(h) /\ UNCHANGED <<accounts, sessions, pictures, loose>>

PreviewCommit(h) ==
    LET u == op[h].user
    IN /\ At(h, "preview", "commit")
       /\ IF u \in Known /\ vault[u] # "none"
            THEN users' = [users EXCEPT ![u].preview = op[h].new] /\ Done(h) /\ loose' = loose
            ELSE users' = users /\ Abort(h)
       /\ UNCHANGED <<vault, sessions, pictures>>

RemoveOld(p) ==
    /\ p \in removing
    /\ removing' = removing \ {p} /\ uploads' = uploads \ {p}
    /\ UNCHANGED <<accounts, sessions, sent, op, loose>>

-----------------------------------------------------------------------------
(* The administrator.                                                      *)

\* A request that the lock barred may get through once the lock has gone.
Unlocked(u) ==
    [h \in Handlers |-> IF op[h].user = u THEN [op[h] EXCEPT !.late = @ \ {"locked"}] ELSE op[h]]

\* blacklistUser
SetLock(u, b) ==
    /\ u \in Known /\ users[u].locked # b
    /\ users' = [users EXCEPT ![u].locked = b]
    /\ op' = IF b THEN op ELSE Unlocked(u)
    /\ UNCHANGED <<vault, sessions, pictures, loose>>

\* deleteUserInfo: tokens, requests, identity and user in one transaction, which
\* fails when files of the user are left.
DeleteUserInfo(u) ==
    /\ u \in Known /\ vault[u] = "none" /\ \A h \in Handlers : ~RowHeld(h, u)
    /\ tokens' = tokens \ TokensOf(u) /\ users' = [users EXCEPT ![u] = Gone]
    /\ UNCHANGED <<vault, issuedTo, closed, pictures, op, loose>>

\* deleteUserFsInfo, for itself or for the demo user that is made anew: the
\* directories go before the transaction commits.
ClearBegin(h, u, e) ==
    /\ MayStart(h, "clear")
    /\ u \in Known \/ (u = 0 /\ e = Demo)
    /\ e = Demo => ByEmail(Demo) = {u} \ {0}
    /\ op' = [op EXCEPT ![h] = [Idle EXCEPT !.kind = "clear", !.pc = "finish", !.user = u, !.email = e]]
    /\ vault' = [w \in Users |-> IF w = u /\ vault[u] = "kept" THEN "lost" ELSE vault[w]]
    /\ UNCHANGED <<users, sessions, pictures, loose>>

\* The previews of the documents stay on disk without a row.
Cleared(u) ==
    /\ vault' = [w \in Users |-> IF w = u THEN "none" ELSE vault[w]]
    /\ loose' = loose \cup {<<w, "preview">> : w \in {v \in {u} : v \in Known /\ users[v].preview # 0}}

ClearFinish(h) ==
    LET u == op[h].user
    IN /\ At(h, "clear", "finish") /\ op[h].email = None
       /\ IF u \in Known
            THEN Cleared(u) /\ users' = [users EXCEPT ![u].preview = 0] /\ Done(h)
            ELSE Abort(h) /\ UNCHANGED <<users, vault>>
       /\ UNCHANGED <<sessions, pictures>>

\* Mutant: the user that is there is kept, so that the address is taken.
DemoFinishKeeps(h) ==
    /\ At(h, "clear", "finish") /\ op[h].email = Demo
    /\ \/ Created(Account(Demo, TRUE, FALSE)) /\ Cleared(op[h].user)
       \/ ByEmail(Demo) # {} /\ UNCHANGED <<accounts, loose>>
    /\ Done(h)
    /\ UNCHANGED <<sessions, pictures>>

\* createDemoUser: the user that is there is deleted, which a refresh token or
\* a request of theirs forbids, and made anew.
DemoFinish(h) ==
    LET u == op[h].user
        free == u = 0 \/ (u \in Known /\ TokensOf(u) = {} /\ ~users[u].requests)
        row == Account(Demo, TRUE, FALSE)
    IN /\ At(h, "clear", "finish") /\ op[h].email = Demo
       /\ RowFree(h, u)
       /\ IF free /\ ByEmail(Demo) \subseteq {u}
            THEN /\ \E w \in Users :
                      /\ users[w] = None /\ \A v \in 1 .. w - 1 : users[v] # None
                      /\ users' = [v \in Users |-> IF v = w THEN row ELSE IF v = u THEN Gone ELSE users[v]]
                 /\ Cleared(u) /\ Done(h)
            ELSE Done(h) /\ UNCHANGED <<accounts, loose>>
       /\ UNCHANGED <<sessions, pictures>>

-----------------------------------------------------------------------------
(* The rest of the world.                                                  *)

\* accountVerificationConfirm (AuthRequests)
Verify(u) ==
    /\ u \in Known /\ ~users[u].verified
    /\ users' = [users EXCEPT ![u].verified = TRUE, ![u].locked = FALSE]
    /\ op' = Unlocked(u)
    /\ UNCHANGED <<vault, sessions, pictures, loose>>

\* The first file of a user (VaultTree).
FirstFile(s) ==
    /\ s \in Issued /\ Valid(issuedTo[s]) /\ vault[issuedTo[s]] = "none"
    /\ vault' = [vault EXCEPT ![issuedTo[s]] = "kept"]
    /\ UNCHANGED <<users, sessions, pictures, op, loose>>

\* The database, the disk or the process fails under a handler.
Fail(h) ==
    /\ Failures /\ h \in Open /\ Hit(h) # {} /\ loose = {}
    /\ Abort(h)
    /\ UNCHANGED <<accounts, sessions, pictures>>

Step(h) ==
    \/ SignUpCommit(h) \/ Issue(h) \/ RefreshUser(h) \/ SignOut(h) \/ SocketUser(h) \/ SocketClose(h)
    \/ DetailsRead(h) \/ DetailsWrite(h)
    \/ ProfileWrite(h) \/ PreviewWrite(h) \/ ProfileReplace(h) \/ ProfileCommit(h) \/ PreviewReplace(h) \/ PreviewCommit(h)
    \/ ClearFinish(h) \/ DemoFinish(h)

Start(h) ==
    \/ \E e \in Emails : SignUpBegin(h, e) \/ SignInBegin(h, e)
    \/ \E s \in Sessions : RefreshRow(h, s) \/ SocketBegin(h, s)
    \/ \E s \in Sessions, k \in Slots \cup {"signout", "details"} : Guard(h, s, k)
    \/ \E u \in Users \cup {0}, e \in {Demo, None} : ClearBegin(h, u, e)

Next ==
    \/ \E h \in Handlers : Start(h) \/ Step(h) \/ Fail(h)
    \/ \E u \in Users, b \in BOOLEAN : SetLock(u, b)
    \/ \E u \in Users : DeleteUserInfo(u) \/ Verify(u)
    \/ \E s \in Sessions : FirstFile(s)
    \/ \E p \in removing : RemoveOld(p)

Spec == Init /\ [][Next]_vars

-----------------------------------------------------------------------------
(* Properties.                                                             *)

Row == [email : Emails \cup {Demo}, verified : BOOLEAN, locked : BOOLEAN, requests : BOOLEAN,
        profile : 0 .. MaxPictures, preview : 0 .. MaxPictures]

\* The variables have their types; an address has one user; a refresh token
\* that is kept, and a directory, belong to a user that exists.
TypeOK ==
    /\ users \in [Users -> Row \cup {None, Gone}]
    /\ \A u, w \in Known : users[u].email = users[w].email => u = w
    /\ vault \in [Users -> {"none", "kept", "lost"}]
    /\ \A u \in Users : vault[u] # "none" => u \in Known
    /\ issuedTo \in [Sessions -> Users \cup {0}]
    /\ \A s \in tokens : s \in Sessions /\ issuedTo[s] \in Known
    /\ closed \subseteq Issued
    /\ sent \in 0 .. MaxPictures
    /\ uploads \subseteq 1 .. MaxPictures /\ removing \subseteq 1 .. MaxPictures

\* A request that began when its session was signed out, or its account locked
\* (and not unlocked since) or deleted, gets neither a session nor a socket.
\* Only a socket asks for no lock.
RefusedGetNothing == \A h \in Handlers : op[h].late # {} => op[h].pc \notin {"issue", "admitted"}

\* A deleted account stays deleted whatever was under way for it, and none of
\* its sessions comes back.
GoneIsGone ==
    [][\A u \in Users : users[u] = Gone =>
          /\ users'[u] = Gone /\ vault'[u] = "none"
          /\ \A s \in Sessions : issuedTo'[s] = u => issuedTo[s] = u /\ s \notin tokens']_vars

Busy(u, slot) == \E h \in Open : op[h].user = u /\ op[h].kind \in Slots /\ Slot(h) = slot
Picture(u, slot) == IF slot = "profile" THEN users[u].profile ELSE users[u].preview

\* The picture that a row names is on disk and will stay there, and when
\* nothing was hit nothing else is on disk.
PicturesInStep ==
    /\ \A u \in Known, slot \in Slots :
         <<u, slot>> \in loose \/ Busy(u, slot) \/ Picture(u, slot) \in (uploads \ removing) \cup {0}
    /\ loose = {} /\ Open = {} /\ (\A u \in Users : users[u] # Gone) =>
         uploads \ removing \subseteq {Picture(u, slot) : u \in Known, slot \in Slots}

\* The files of a user go and their rows stay only when the removal failed, or
\* when the demo user to be made anew held a refresh token or a mailed request.
LostOnlyIfHeld ==
    [][\A h \in Handlers :
          op[h].kind = "clear" /\ op'[h] = Idle =>
             \A u \in Users \cap {op[h].user} :
                vault'[u] = "lost" =>
                   \/ <<u, "vault">> \in loose'
                   \/ TokensOf(u) # {} \/ users[u].requests]_vars

=============================================================================
