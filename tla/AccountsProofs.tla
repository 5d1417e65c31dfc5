--------------------------- MODULE AccountsProofs ---------------------------
(***************************************************************************)
(* Proofs about Accounts, for every set of addresses and requests, every    *)
(* choice of what may come at the same time and every bound: the tables    *)
(* are well typed and an address has one user, whoever was refused gets     *)
(* nothing, a deleted account stays deleted, files are lost in the ways     *)
(* that are named, and pictures and rows are in step.                      *)
(***************************************************************************)
EXTENDS Accounts, TLAPS

Kinds == {"none", "signup", "signin", "refresh", "signout", "socket", "details",
          "profile", "preview", "clear"}
Phases == {"idle", "create", "issue", "user", "start", "uuid", "admitted", "write",
           "replace", "commit", "finish"}

Request == [kind : Kinds, pc : Phases, user : Users \cup {0}, ses : Sessions \cup {0},
            email : Emails \cup {Demo, None}, seen : BOOLEAN, late : SUBSET {"over", "locked"},
            old : 0 .. MaxPictures, new : 0 .. MaxPictures]

\* Who signs up has an address, and whoever has an account or a session keeps it.
RequestOK(r) ==
    /\ r \in Request
    /\ r.kind = "signup" => r.email \in Emails
    /\ r.pc = "issue" \/ r.kind \in {"profile", "preview", "details", "socket"} => r.user \in Users
    /\ r.kind = "signout" => r.ses \in Sessions
    /\ r.pc = "admitted" => r.kind = "socket"

\* The row that a transaction has updated is there until its commit (us = users).
HoldOK(us, r) == r.kind = "profile" /\ r.pc = "commit" => us[r.user] \notin {None, Gone}

GoneOrLocked(us, u) == us[u] = Gone \/ (us[u] # None /\ us[u].locked)

\* A request that must get nothing has not passed its check, and it will not.
LateOK(us, r) ==
    r.late # {} =>
       /\ r.user \in Users
       /\ \/ r.kind = "refresh" /\ r.pc = "user"
          \/ r.kind = "socket" /\ r.pc = "uuid" /\ us[r.user] = Gone
       /\ r.kind = "refresh" =>
            /\ "over" \in r.late => ~r.seen \/ us[r.user] = Gone
            /\ "locked" \in r.late => GoneOrLocked(us, r.user)

RequestsOK ==
    /\ op = [h \in Handlers |-> op[h]]
    /\ \A h \in Handlers : RequestOK(op[h]) /\ HoldOK(users, op[h]) /\ LateOK(users, op[h])

\* The row of a session that was signed out does not come back.
SignedOut == closed \cap tokens = {}

Inv == TypeOK /\ RequestsOK /\ SignedOut
-----------------------------------------------------------------------------
(* Steps that work on rows that are there.                                 *)

LEMMA InitInv == Init => Inv
<1> SUFFICES ASSUME Init PROVE Inv
  OBVIOUS
<1>1. Known = {} /\ Issued = {}
  BY DEF Init, Known, Issued
<1>2. TypeOK
  BY <1>1, BoundsAssumption DEF Init, TypeOK, Users, Sessions
<1>3. RequestOK(Idle) /\ HoldOK(users, Idle) /\ LateOK(users, Idle)
  BY BoundsAssumption DEF Idle, RequestOK, HoldOK, LateOK, Request, Kinds, Phases
<1> QED
  BY <1>2, <1>3 DEF Init, Inv, RequestsOK, SignedOut

\* Neither None nor Gone is a row.
LEMMA RowsAreThere == None \notin Row /\ Gone \notin Row /\ None # Gone
<1> SUFFICES ASSUME NEW r \in Row PROVE r \notin {None, Gone}
  BY NullAssumption
<1>1. r = [email |-> r.email, verified |-> r.verified, locked |-> r.locked,
           requests |-> r.requests, profile |-> r.profile, preview |-> r.preview]
  BY DEF Row
<1> QED
  BY <1>1, NullAssumption DEF Row

\* The users who are known have rows.
LEMMA KnownRows ==
  ASSUME Inv, NEW u \in Known
  PROVE  u \in Users /\ users[u] \in Row
  BY DEF Inv, TypeOK, Known

\* The idle request owes nothing.
LEMMA IdleOK == /\ RequestOK(Idle) /\ Idle.late = {} /\ Idle.pc = "idle"
                /\ HoldOK(users', Idle) /\ LateOK(users', Idle)
  BY BoundsAssumption DEF Idle, RequestOK, HoldOK, LateOK, Request, Kinds, Phases

\* Rows may change, but neither their keys nor their locks.
RowsKept ==
    /\ users' \in [Users -> Row \cup {None, Gone}]
    /\ \A u \in Users :
         /\ users[u] \in {None, Gone} => users'[u] = users[u]
         /\ u \in Known => /\ users'[u] \in Row /\ users'[u].email = users[u].email
                           /\ users'[u].locked = users[u].locked

LEMMA RowsKeptFacts ==
  ASSUME Inv, RowsKept
  PROVE  /\ Known' = Known
         /\ \A u, w \in Known' : users'[u].email = users'[w].email => u = w
<1>1. Known' = Known
  BY RowsAreThere DEF Known, RowsKept
<1>2. \A u \in Known : u \in Users /\ users[u] \in Row
  BY KnownRows
<1> QED
  BY <1>1, <1>2 DEF RowsKept, Inv, TypeOK

LEMMA RequestKept ==
  ASSUME Inv, RowsKept, NEW h \in Handlers
  PROVE  HoldOK(users', op[h]) /\ LateOK(users', op[h])
<1>1. RequestOK(op[h]) /\ HoldOK(users, op[h]) /\ LateOK(users, op[h])
  BY DEF Inv, RequestsOK
<1>2. \A u \in Users : GoneOrLocked(users, u) => GoneOrLocked(users', u)
  BY RowsAreThere DEF RowsKept, GoneOrLocked, Known, Inv, TypeOK
<1>3. HoldOK(users', op[h])
  BY <1>1, RowsAreThere DEF RequestOK, HoldOK, RowsKept, Known
<1>4. LateOK(users', op[h])
  BY <1>1, <1>2 DEF LateOK, RowsKept
<1> QED
  BY <1>3, <1>4

\* Nothing happened to the rows of users.
LEMMA RowsUnchanged ==
  ASSUME Inv, UNCHANGED users
  PROVE  RowsKept
  BY DEF RowsKept, Inv, TypeOK, Known

\* One row was written anew.
LEMMA RowEdited ==
  ASSUME Inv, NEW u \in Known, NEW row \in Row, users' = [users EXCEPT ![u] = row],
         row.email = users[u].email, row.locked = users[u].locked
  PROVE  RowsKept
  BY KnownRows, RowsAreThere DEF RowsKept, Inv, TypeOK, Known

PicturesTyped ==
    /\ sent' \in 0 .. MaxPictures
    /\ uploads' \subseteq 1 .. MaxPictures /\ removing' \subseteq 1 .. MaxPictures

VaultTyped ==
    /\ vault' \in [Users -> {"none", "kept", "lost"}]
    /\ \A u \in Users : vault'[u] # "none" => u \in Known'

LEMMA Untouched ==
  ASSUME Inv
  PROVE  /\ UNCHANGED pictures => PicturesTyped
         /\ UNCHANGED <<users, vault>> => VaultTyped
  BY DEF Inv, TypeOK, PicturesTyped, VaultTyped, pictures, Known

\* One request goes on, beside tables of sessions that stay.
LEMMA WorkStep ==
  ASSUME Inv, RowsKept, VaultTyped, PicturesTyped, UNCHANGED sessions,
         NEW h \in Handlers, NEW r, op' = [op EXCEPT ![h] = r],
         RequestOK(r), HoldOK(users', r), LateOK(users', r)
  PROVE  Inv'
<1>1. TypeOK'
  BY RowsKeptFacts DEF Inv, TypeOK, sessions, RowsKept, VaultTyped, PicturesTyped, Issued
<1>2. RequestsOK'
  BY RequestKept DEF Inv, RequestsOK
<1>3. SignedOut'
  BY DEF Inv, SignedOut, sessions
<1> QED
  BY <1>1, <1>2, <1>3 DEF Inv

\* A request that ends.
LEMMA DoneStep ==
  ASSUME Inv, RowsKept, VaultTyped, PicturesTyped, UNCHANGED sessions,
         NEW h \in Handlers, Done(h)
  PROVE  Inv'
  BY IdleOK, WorkStep DEF Done

\* A request that is not one of those to be refused goes on.
LEMMA GotoStep ==
  ASSUME Inv, RowsKept, VaultTyped, PicturesTyped, UNCHANGED sessions,
         NEW h \in Handlers, NEW pc \in Phases, Goto(h, pc), op[h].late = {},
         pc = "issue" => op[h].user \in Users, pc = "admitted" => op[h].kind = "socket",
         op[h].kind = "profile" /\ pc = "commit" => op[h].user \in Known
  PROVE  Inv'
<1> DEFINE r == [op[h] EXCEPT !.pc = pc]
<1>1. op' = [op EXCEPT ![h] = r]
  BY DEF Goto
<1>2. RequestOK(op[h])
  BY DEF Inv, RequestsOK
<1>3. RequestOK(r) /\ r.late = {} /\ r.kind = op[h].kind /\ r.pc = pc /\ r.user = op[h].user
  BY <1>2 DEF RequestOK, Request
<1> HIDE DEF r
<1>4. HoldOK(users', r) /\ LateOK(users', r)
  BY <1>3, RowsAreThere DEF HoldOK, LateOK, RowsKept, Known
<1> QED
  BY <1>1, <1>3, <1>4, WorkStep

\* A request that comes, with nothing held against it.
LEMMA StartStep ==
  ASSUME Inv, RowsKept, VaultTyped, PicturesTyped, UNCHANGED sessions,
         NEW h \in Handlers, NEW r, op' = [op EXCEPT ![h] = r],
         RequestOK(r), r.late = {}, r.pc # "commit"
  PROVE  Inv'
<1>1. HoldOK(users', r) /\ LateOK(users', r)
  BY DEF HoldOK, LateOK
<1> QED
  BY <1>1, WorkStep

\* What a handler knows about itself.
LEMMA OwnRequest ==
  ASSUME Inv, NEW h \in Handlers
  PROVE  /\ RequestOK(op[h]) /\ HoldOK(users, op[h]) /\ LateOK(users, op[h])
         /\ op[h].pc \notin {"user", "uuid"} => op[h].late = {}
  BY DEF Inv, RequestsOK, LateOK

-----------------------------------------------------------------------------
(* Signing up, in and out, and the exchange.                               *)

LEMMA SignUpBeginStep ==
  ASSUME Inv, NEW h \in Handlers, NEW e \in Emails, SignUpBegin(h, e)
  PROVE  Inv'
<1> DEFINE r == [Idle EXCEPT !.kind = "signup", !.pc = "create", !.email = e]
<1>1. RequestOK(r) /\ r.late = {} /\ r.pc # "commit"
  BY IdleOK DEF RequestOK, Request, Kinds, Phases
<1> HIDE DEF r
<1>2. op' = [op EXCEPT ![h] = r] /\ UNCHANGED <<accounts, sessions, pictures>>
  BY DEF SignUpBegin, r
<1> QED
  BY <1>1, <1>2, StartStep, RowsUnchanged, Untouched DEF accounts

\* A token's row that is issued to a user who is known.
LEMMA IssueTyped ==
  ASSUME Inv, NEW u \in Users, IssueTo(u)
  PROVE  /\ issuedTo' \in [Sessions -> Users \cup {0}]
         /\ \A s \in tokens' : s \in Sessions /\ (issuedTo'[s] = u \/ (s \in tokens /\ issuedTo'[s] = issuedTo[s]))
         /\ closed' \subseteq Issued' /\ SignedOut'
<1>1. PICK s \in Sessions \ Issued :
        tokens' = tokens \cup {s} /\ issuedTo' = [issuedTo EXCEPT ![s] = u] /\ closed' = closed
  BY DEF IssueTo
<1>2. closed \subseteq Issued /\ s \notin closed /\ u # 0 /\ tokens \subseteq Sessions
  BY <1>1 DEF Inv, TypeOK, Users
<1>3. issuedTo' \in [Sessions -> Users \cup {0}] /\ issuedTo'[s] = u
  BY <1>1 DEF Inv, TypeOK
<1>4. \A t \in Sessions : t # s => issuedTo'[t] = issuedTo[t]
  BY <1>1 DEF Inv, TypeOK
<1>5. closed' \subseteq Issued' /\ SignedOut'
  BY <1>1, <1>2, <1>4 DEF Issued, Inv, SignedOut
<1> QED
  BY <1>1, <1>2, <1>3, <1>4, <1>5

LEMMA IssueStep ==
  ASSUME Inv, NEW h \in Handlers, Issue(h)
  PROVE  Inv'
<1>1. CASE UNCHANGED sessions
  BY <1>1, DoneStep, RowsUnchanged, Untouched DEF Issue, accounts
<1>2. CASE op[h].user \in Known /\ IssueTo(op[h].user)
  <2>1. op' = [op EXCEPT ![h] = Idle] /\ UNCHANGED <<users, vault, sent, uploads, removing>>
    BY DEF Issue, Done, accounts, pictures
  <2>2. TypeOK' /\ SignedOut'
    BY <1>2, <2>1, IssueTyped DEF Inv, TypeOK, Known
  <2>3. RequestsOK'
    BY <2>1, IdleOK DEF Inv, RequestsOK
  <2> QED
    BY <2>2, <2>3 DEF Inv
<1> QED
  BY <1>1, <1>2 DEF Issue

\* The rows after a new one, whose address nobody had.
LEMMA CreatedTyped ==
  ASSUME Inv, NEW row \in Row, NEW us, us \in [Users -> Row \cup {None, Gone}],
         NEW u \in Users, us[u] = row, \A w \in Users \ {u} : us[w] \in {users[w], Gone},
         \A w \in Known : us[w] = users[w] => users[w].email # row.email
  PROVE  \A v, w \in {x \in Users : us[x] \notin {None, Gone}} :
            us[v].email = us[w].email => v = w
<1>1. \A w \in Users \ {u} : us[w] \notin {None, Gone} => w \in Known /\ us[w] = users[w]
  BY DEF Known
<1> QED
  BY <1>1 DEF Inv, TypeOK

LEMMA SignUpCommitStep ==
  ASSUME Inv, NEW h \in Handlers, SignUpCommit(h)
  PROVE  Inv'
<1>1. CASE UNCHANGED <<users, sessions>>
  BY <1>1, DoneStep, RowsUnchanged, Untouched DEF SignUpCommit
<1> DEFINE row == Account(op[h].email, FALSE, TRUE)
<1>2. CASE Created(row) /\ \E u \in Users : users'[u] # users[u] /\ IssueTo(u)
  <2>1. row \in Row /\ row.email = op[h].email
    BY OwnRequest, BoundsAssumption DEF Account, Row, SignUpCommit, At, RequestOK
  <2> HIDE DEF row
  <2>2. PICK u \in Users : users[u] = None /\ users' = [users EXCEPT ![u] = row]
    BY <1>2 DEF Created
  <2>3. ByEmail(row.email) = {}
    BY <1>2 DEF Created
  <2>4. IssueTo(u)
    BY <1>2, <2>2 DEF Inv, TypeOK
  <2>5. users' \in [Users -> Row \cup {None, Gone}] /\ users'[u] = row
    BY <2>1, <2>2 DEF Inv, TypeOK
  <2>6. Known' = Known \cup {u} /\ \A w \in Users : w # u => users'[w] = users[w]
    BY <2>1, <2>2, <2>5, RowsAreThere DEF Known, Inv, TypeOK
  <2>7. \A v, w \in Known' : users'[v].email = users'[w].email => v = w
    BY <2>1, <2>3, <2>5, <2>6, CreatedTyped DEF ByEmail, Known
  <2>8. op' = [op EXCEPT ![h] = Idle] /\ UNCHANGED <<vault, sent, uploads, removing>>
    BY DEF SignUpCommit, Done, pictures
  <2>9. TypeOK' /\ SignedOut'
    BY <2>4, <2>5, <2>6, <2>7, <2>8, IssueTyped DEF Inv, TypeOK
  <2>10. \A g \in Handlers : HoldOK(users', op[g]) /\ LateOK(users', op[g])
    BY <2>2, <2>6, OwnRequest, RowsAreThere DEF HoldOK, LateOK, GoneOrLocked, RequestOK
  <2>11. RequestsOK'
    BY <2>8, <2>10, IdleOK DEF Inv, RequestsOK
  <2> QED
    BY <2>9, <2>11 DEF Inv
<1> QED
  BY <1>1, <1>2 DEF SignUpCommit

LEMMA SignInBeginStep ==
  ASSUME Inv, NEW h \in Handlers, NEW e \in Emails, SignInBegin(h, e)
  PROVE  Inv'
<1>1. PICK u \in ByEmail(e) :
        op' = [op EXCEPT ![h] = [Idle EXCEPT !.kind = "signin", !.pc = "issue", !.user = u]]
  BY DEF SignInBegin
<1> DEFINE r == [Idle EXCEPT !.kind = "signin", !.pc = "issue", !.user = u]
<1>2. RequestOK(r) /\ r.late = {} /\ r.pc # "commit"
  BY IdleOK DEF RequestOK, Request, Kinds, Phases, ByEmail, Known
<1>3. op' = [op EXCEPT ![h] = r]
  BY <1>1
<1> HIDE DEF r
<1> QED
  BY <1>2, <1>3, StartStep, RowsUnchanged, Untouched DEF SignInBegin, accounts

\* The reasons to refuse a session are kept as they are found.
LEMMA RefreshRowStep ==
  ASSUME Inv, NEW h \in Handlers, NEW s \in Sessions, RefreshRow(h, s)
  PROVE  Inv'
<1> DEFINE seen == s \in tokens
           r == [Idle EXCEPT !.kind = "refresh", !.pc = "user", !.ses = s,
                             !.user = issuedTo[s], !.seen = seen, !.late = Reasons(s)]
<1>1. op' = [op EXCEPT ![h] = r]
  BY DEF RefreshRow
<1>2. issuedTo[s] \in Users
  BY DEF RefreshRow, Issued, Inv, TypeOK
<1>3. /\ Reasons(s) \subseteq {"over", "locked"}
      /\ "over" \in Reasons(s) => s \notin tokens \/ users[issuedTo[s]] = Gone
      /\ "locked" \in Reasons(s) => GoneOrLocked(users, issuedTo[s])
  BY DEF Reasons, Inv, SignedOut, GoneOrLocked, Known
<1> seen \in BOOLEAN
  OBVIOUS
<1> HIDE DEF seen
<1>4. /\ RequestOK(r) /\ r.kind = "refresh" /\ r.pc = "user" /\ r.user = issuedTo[s]
      /\ r.seen = seen /\ r.late = Reasons(s)
  BY <1>2, <1>3, IdleOK DEF RequestOK, Request, Kinds, Phases
<1> HIDE DEF r
<1>5. UNCHANGED <<accounts, sessions, pictures>> /\ UNCHANGED users
  BY DEF RefreshRow, accounts
<1>6. HoldOK(users', r) /\ LateOK(users', r)
  BY <1>2, <1>3, <1>4, <1>5 DEF HoldOK, LateOK, seen
<1> QED
  BY <1>1, <1>4, <1>5, <1>6, WorkStep, RowsUnchanged, Untouched DEF accounts

\* Nobody passes the check whom a reason bars.
LEMMA RefreshUserStep ==
  ASSUME Inv, NEW h \in Handlers, RefreshUser(h)
  PROVE  Inv'
<1>1. UNCHANGED <<accounts, sessions, pictures>> /\ UNCHANGED <<users, vault>>
  BY DEF RefreshUser, accounts
<1>2. CASE Done(h)
  BY <1>1, <1>2, DoneStep, RowsUnchanged, Untouched
<1>3. CASE Exchangeable(h) /\ Goto(h, "issue")
  <2>1. op[h].kind = "refresh" /\ op[h].pc = "user"
    BY DEF RefreshUser, At
  <2>2. op[h].late = {}
    BY <1>3, <2>1, OwnRequest, RowsAreThere
    DEF Exchangeable, Valid, Known, LateOK, GoneOrLocked, RequestOK, Request
  <2>3. op[h].user \in Users /\ "issue" \in Phases
    BY <1>3 DEF Exchangeable, Valid, Known, Phases
  <2> QED
    BY <1>1, <1>3, <2>1, <2>2, <2>3, GotoStep, RowsUnchanged, Untouched
<1> QED
  BY <1>2, <1>3 DEF RefreshUser

LEMMA GuardStep ==
  ASSUME Inv, NEW h \in Handlers, NEW s \in Sessions,
         NEW k \in Slots \cup {"signout", "details"}, Guard(h, s, k)
  PROVE  Inv'
<1> DEFINE ses == IF k = "signout" THEN s ELSE 0
           old == IF k = "profile" THEN users[issuedTo[s]].profile ELSE 0
           r == [Idle EXCEPT !.kind = k, !.pc = "start", !.user = issuedTo[s], !.ses = ses,
                             !.old = old]
<1>1. op' = [op EXCEPT ![h] = r]
  BY DEF Guard
<1>2. issuedTo[s] \in Users /\ users[issuedTo[s]].profile \in 0 .. MaxPictures
  BY KnownRows DEF Guard, AuthGuard, Known, Row
<1>3. ses \in Sessions \cup {0} /\ (k = "signout" => ses \in Sessions) /\ old \in 0 .. MaxPictures
  BY <1>2, BoundsAssumption
<1> HIDE DEF ses, old
<1>4. RequestOK(r) /\ r.late = {} /\ r.pc # "commit"
  BY <1>2, <1>3, IdleOK DEF RequestOK, Request, Kinds, Phases, Slots
<1> HIDE DEF r
<1>5. UNCHANGED <<accounts, sessions, pictures>>
  BY DEF Guard
<1> QED
  BY <1>1, <1>4, <1>5, StartStep, RowsUnchanged, Untouched DEF accounts

LEMMA SocketBeginStep ==
  ASSUME Inv, NEW h \in Handlers, NEW s \in Sessions, SocketBegin(h, s)
  PROVE  Inv'
<1> DEFINE late == IF users[issuedTo[s]] = Gone THEN {"over"} ELSE {}
           r == [Idle EXCEPT !.kind = "socket", !.pc = "uuid", !.user = issuedTo[s], !.late = late]
<1>1. op' = [op EXCEPT ![h] = r]
  BY DEF SocketBegin
<1>2. issuedTo[s] \in Users
  BY DEF SocketBegin, Issued, Inv, TypeOK
<1>3. late \subseteq {"over", "locked"} /\ (late # {} => users[issuedTo[s]] = Gone)
  OBVIOUS
<1> HIDE DEF late
<1>4. /\ RequestOK(r) /\ r.kind = "socket" /\ r.pc = "uuid" /\ r.user = issuedTo[s]
      /\ r.late = late
  BY <1>2, <1>3, IdleOK DEF RequestOK, Request, Kinds, Phases
<1> HIDE DEF r
<1>5. UNCHANGED <<accounts, sessions, pictures>> /\ UNCHANGED users
  BY DEF SocketBegin, accounts
<1>6. HoldOK(users', r) /\ LateOK(users', r)
  BY <1>2, <1>3, <1>4, <1>5 DEF HoldOK, LateOK
<1> QED
  BY <1>1, <1>4, <1>5, <1>6, WorkStep, RowsUnchanged, Untouched DEF accounts

LEMMA SocketUserStep ==
  ASSUME Inv, NEW h \in Handlers, SocketUser(h)
  PROVE  Inv'
<1>1. UNCHANGED <<accounts, sessions, pictures>> /\ UNCHANGED <<users, vault>>
  BY DEF SocketUser, accounts
<1>2. CASE Done(h)
  BY <1>1, <1>2, DoneStep, RowsUnchanged, Untouched
<1>3. CASE op[h].user \in Known /\ Goto(h, "admitted")
  <2>1. op[h].kind = "socket" /\ "admitted" \in Phases
    BY DEF SocketUser, At, Phases
  <2>2. op[h].late = {}
    BY <1>3, <2>1, OwnRequest DEF LateOK, Known
  <2> QED
    BY <1>1, <1>3, <2>1, <2>2, GotoStep, RowsUnchanged, Untouched
<1> QED
  BY <1>2, <1>3 DEF SocketUser

LEMMA SocketCloseStep ==
  ASSUME Inv, NEW h \in Handlers, SocketClose(h)
  PROVE  Inv'
  BY DoneStep, RowsUnchanged, Untouched DEF SocketClose, accounts

\* The row goes as the sign-out is answered.
LEMMA SignOutStep ==
  ASSUME Inv, NEW h \in Handlers, SignOut(h)
  PROVE  Inv'
<1>1. CASE UNCHANGED <<tokens, closed>>
  BY <1>1, DoneStep, RowsUnchanged, Untouched DEF SignOut, accounts, sessions
<1> DEFINE s == op[h].ses
<1>2. CASE s \in tokens /\ tokens' = tokens \ {s} /\ closed' = closed \cup {s}
  <2>1. op' = [op EXCEPT ![h] = Idle] /\ UNCHANGED <<users, vault, issuedTo, sent, uploads, removing>>
    BY DEF SignOut, Done, accounts, pictures
  <2>2. s \in Issued
    BY <1>2 DEF Inv, TypeOK, Issued, Known, Users
  <2>3. TypeOK' /\ SignedOut'
    BY <1>2, <2>1, <2>2 DEF Inv, TypeOK, SignedOut, Known, Issued
  <2>4. RequestsOK'
    BY <2>1, IdleOK DEF Inv, RequestsOK
  <2> QED
    BY <2>3, <2>4 DEF Inv
<1> QED
  BY <1>1, <1>2 DEF SignOut
-----------------------------------------------------------------------------
(* Pictures.                                                               *)

\* A row whose picture or preview is another is still a row.
LEMMA PictureInRow ==
  ASSUME Inv, NEW u \in Known, NEW p \in 0 .. MaxPictures
  PROVE  /\ users' = [users EXCEPT ![u].profile = p] => RowsKept
         /\ users' = [users EXCEPT ![u].preview = p] => RowsKept
<1>1. users[u] \in Row
  BY KnownRows
<1> DEFINE r == [users[u] EXCEPT !.profile = p]
           q == [users[u] EXCEPT !.preview = p]
<1>2. /\ r \in Row /\ r.email = users[u].email /\ r.locked = users[u].locked
      /\ q \in Row /\ q.email = users[u].email /\ q.locked = users[u].locked
  BY <1>1 DEF Row
<1>3. /\ users' = [users EXCEPT ![u].profile = p] => users' = [users EXCEPT ![u] = r]
      /\ users' = [users EXCEPT ![u].preview = p] => users' = [users EXCEPT ![u] = q]
  OBVIOUS
<1> HIDE DEF r, q
<1> QED
  BY <1>2, <1>3, RowEdited

\* Rows that are kept leave a directory its user.
LEMMA VaultUnchanged ==
  ASSUME Inv, RowsKept, UNCHANGED vault
  PROVE  VaultTyped
  BY RowsKeptFacts DEF Inv, TypeOK, VaultTyped

LEMMA DetailsReadStep ==
  ASSUME Inv, NEW h \in Handlers, DetailsRead(h)
  PROVE  Inv'
<1>1. UNCHANGED <<accounts, sessions, pictures>> /\ UNCHANGED <<users, vault>>
  BY DEF DetailsRead, accounts
<1>2. CASE Done(h)
  BY <1>1, <1>2, DoneStep, RowsUnchanged, Untouched
<1> DEFINE r == [op[h] EXCEPT !.pc = "write", !.old = users[op[h].user].profile]
<1>3. CASE op[h].user \in Known /\ op' = [op EXCEPT ![h] = r]
  <2>1. users[op[h].user].profile \in 0 .. MaxPictures /\ op[h].kind = "details"
    BY <1>3, KnownRows DEF Row, DetailsRead, At
  <2>2. RequestOK(op[h]) /\ op[h].late = {}
    BY OwnRequest DEF DetailsRead, At
  <2>3. RequestOK(r) /\ r.late = {} /\ r.pc # "commit"
    BY <2>1, <2>2 DEF RequestOK, Request, Phases
  <2> HIDE DEF r
  <2> QED
    BY <1>1, <1>3, <2>3, StartStep, RowsUnchanged, Untouched
<1>4. op' = [op EXCEPT ![h].pc = "write", ![h].old = users[op[h].user].profile]
        => op' = [op EXCEPT ![h] = r]
  BY DEF Inv, RequestsOK
<1> QED
  BY <1>2, <1>3, <1>4 DEF DetailsRead

LEMMA DetailsWriteStep ==
  ASSUME Inv, NEW h \in Handlers, DetailsWrite(h)
  PROVE  Inv'
<1>1. op[h].old \in 0 .. MaxPictures
  BY OwnRequest DEF RequestOK, Request
<1>2. RowsKept
  BY <1>1, PictureInRow, RowsUnchanged DEF DetailsWrite
<1> QED
  BY <1>2, DoneStep, VaultUnchanged, Untouched DEF DetailsWrite

\* A new picture: a number not given out so far.
LEMMA WrittenStep ==
  ASSUME Inv, UNCHANGED <<accounts, sessions>>, NEW h \in Handlers, NEW old \in 0 .. MaxPictures,
         op[h].pc = "start", op[h].kind \in Slots, Written(h, old)
  PROVE  Inv'
<1> DEFINE r == [op[h] EXCEPT !.pc = "replace", !.new = sent + 1, !.old = old]
<1>1. sent + 1 \in 1 .. MaxPictures /\ sent + 1 \in 0 .. MaxPictures
  BY BoundsAssumption DEF Written, Inv, TypeOK
<1>2. PicturesTyped
  BY <1>1 DEF Written, Inv, TypeOK, PicturesTyped
<1>3. RequestOK(op[h]) /\ op[h].late = {}
  BY OwnRequest
<1>4. RequestOK(r) /\ r.late = {} /\ r.pc # "commit"
  BY <1>1, <1>3 DEF RequestOK, Request, Phases, Slots
<1>5. op' = [op EXCEPT ![h] = r]
  BY DEF Written, Inv, RequestsOK
<1> HIDE DEF r
<1> QED
  BY <1>2, <1>4, <1>5, StartStep, RowsUnchanged, Untouched DEF accounts

LEMMA ProfileWriteStep ==
  ASSUME Inv, NEW h \in Handlers, ProfileWrite(h)
  PROVE  Inv'
<1>1. op[h].old \in 0 .. MaxPictures
  BY OwnRequest DEF RequestOK, Request
<1> QED
  BY <1>1, WrittenStep DEF ProfileWrite, At, Slots

LEMMA PreviewWriteStep ==
  ASSUME Inv, NEW h \in Handlers, PreviewWrite(h)
  PROVE  Inv'
<1>1. CASE Done(h) /\ UNCHANGED pictures
  BY <1>1, DoneStep, RowsUnchanged, Untouched DEF PreviewWrite, accounts
<1>2. CASE op[h].user \in Known /\ Written(h, users[op[h].user].preview)
  <2>1. users[op[h].user].preview \in 0 .. MaxPictures
    BY <1>2, KnownRows DEF Row
  <2> QED
    BY <1>2, <2>1, WrittenStep DEF PreviewWrite, At, Slots
<1> QED
  BY <1>1, <1>2 DEF PreviewWrite

\* From here on the row is held, as it was found.
LEMMA ProfileReplaceStep ==
  ASSUME Inv, NEW h \in Handlers, ProfileReplace(h)
  PROVE  Inv'
<1>1. UNCHANGED <<accounts, sessions>> /\ UNCHANGED <<users, vault>>
  BY DEF ProfileReplace, accounts
<1>2. PicturesTyped
  BY DEF ProfileReplace, Inv, TypeOK, PicturesTyped
<1>3. CASE Abort(h)
  BY <1>1, <1>2, <1>3, DoneStep, RowsUnchanged, Untouched DEF Abort
<1>4. CASE op[h].user \in Known /\ Goto(h, "commit")
  <2>1. op[h].late = {} /\ "commit" \in Phases
    BY OwnRequest DEF ProfileReplace, At, Phases
  <2> QED
    BY <1>1, <1>2, <1>4, <2>1, GotoStep, RowsUnchanged, Untouched
<1> QED
  BY <1>3, <1>4 DEF ProfileReplace

LEMMA ProfileCommitStep ==
  ASSUME Inv, NEW h \in Handlers, ProfileCommit(h)
  PROVE  Inv'
<1>1. op[h].user \in Known /\ op[h].new \in 0 .. MaxPictures
  BY OwnRequest DEF ProfileCommit, At, HoldOK, RequestOK, Request, Known
<1>2. RowsKept
  BY <1>1, PictureInRow DEF ProfileCommit
<1> QED
  BY <1>2, DoneStep, VaultUnchanged, Untouched DEF ProfileCommit

LEMMA PreviewReplaceStep ==
  ASSUME Inv, NEW h \in Handlers, PreviewReplace(h)
  PROVE  Inv'
<1>1. UNCHANGED <<accounts, sessions>> /\ UNCHANGED <<users, vault>>
  BY DEF PreviewReplace, accounts
<1>2. PicturesTyped
  <2>1. {op[h].old} \ {0} \subseteq 1 .. MaxPictures
    BY OwnRequest, BoundsAssumption DEF RequestOK, Request
  <2> QED
    BY <2>1 DEF PreviewReplace, Inv, TypeOK, PicturesTyped
<1>3. op[h].kind = "preview" /\ op[h].late = {} /\ "commit" \in Phases /\ Goto(h, "commit")
  BY OwnRequest DEF PreviewReplace, At, Phases
<1> QED
  BY <1>1, <1>2, <1>3, GotoStep, RowsUnchanged, Untouched

LEMMA PreviewCommitStep ==
  ASSUME Inv, NEW h \in Handlers, PreviewCommit(h)
  PROVE  Inv'
<1>1. op[h].new \in 0 .. MaxPictures
  BY OwnRequest DEF RequestOK, Request
<1>2. RowsKept /\ Done(h)
  BY <1>1, PictureInRow, RowsUnchanged DEF PreviewCommit, Abort
<1> QED
  BY <1>2, DoneStep, VaultUnchanged, Untouched DEF PreviewCommit

\* A step of the disk or of another module moves no request.
LEMMA StillStep ==
  ASSUME Inv, VaultTyped, PicturesTyped, UNCHANGED <<users, sessions, op>>
  PROVE  Inv'
<1>1. TypeOK'
  BY DEF Inv, TypeOK, VaultTyped, PicturesTyped, sessions, Known, Issued
<1>2. RequestsOK'
  BY DEF Inv, RequestsOK
<1> QED
  BY <1>1, <1>2 DEF Inv, SignedOut, sessions

LEMMA RemoveOldStep ==
  ASSUME Inv, NEW p, RemoveOld(p)
  PROVE  Inv'
<1>1. PicturesTyped
  BY DEF RemoveOld, Inv, TypeOK, PicturesTyped
<1> QED
  BY <1>1, StillStep, Untouched DEF RemoveOld, accounts

LEMMA FirstFileStep ==
  ASSUME Inv, NEW s \in Sessions, FirstFile(s)
  PROVE  Inv'
<1>1. VaultTyped
  BY DEF FirstFile, Valid, Inv, TypeOK, VaultTyped, Known
<1> QED
  BY <1>1, StillStep, Untouched DEF FirstFile

LEMMA FailStep ==
  ASSUME Inv, NEW h \in Handlers, Fail(h)
  PROVE  Inv'
  BY DoneStep, RowsUnchanged, Untouched DEF Fail, Abort, accounts
-----------------------------------------------------------------------------
(* The administrator.                                                      *)

\* A row whose lock may have changed.
LEMMA RowRewritten ==
  ASSUME Inv, NEW u \in Known, NEW row \in Row, users' = [users EXCEPT ![u] = row],
         row.email = users[u].email, UNCHANGED <<vault, sessions, pictures>>
  PROVE  /\ TypeOK' /\ SignedOut'
         /\ \A w \in Users : w # u => users'[w] = users[w]
         /\ \A w \in Users : users'[w] = Gone <=> users[w] = Gone
         /\ \A r : RequestOK(r) /\ HoldOK(users, r) => HoldOK(users', r)
<1>1. /\ u \in Users /\ users[u] \in Row /\ users'[u] = row
      /\ users' \in [Users -> Row \cup {None, Gone}]
      /\ \A w \in Users : w # u => users'[w] = users[w]
  BY KnownRows DEF Inv, TypeOK
<1>2. Known' = Known
  BY <1>1, RowsAreThere DEF Known
<1>3. \A v, w \in Known' : users'[v].email = users'[w].email => v = w
  BY <1>1, <1>2, KnownRows DEF Inv, TypeOK
<1>4. TypeOK' /\ SignedOut'
  BY <1>1, <1>2, <1>3 DEF Inv, TypeOK, SignedOut, sessions, pictures, Issued
<1>5. \A w \in Users : users'[w] = Gone <=> users[w] = Gone
  BY <1>1, RowsAreThere
<1>6. \A r : RequestOK(r) /\ HoldOK(users, r) => HoldOK(users', r)
  BY <1>1, RowsAreThere DEF HoldOK, RequestOK
<1> QED
  BY <1>1, <1>4, <1>5, <1>6

LEMMA UnlockedStep ==
  ASSUME Inv, NEW u \in Known, NEW row \in Row, users' = [users EXCEPT ![u] = row],
         row.email = users[u].email, UNCHANGED <<vault, sessions, pictures>>,
         op' = Unlocked(u)
  PROVE  Inv'
<1> SUFFICES ASSUME NEW h \in Handlers
             PROVE  RequestOK(op'[h]) /\ HoldOK(users', op'[h]) /\ LateOK(users', op'[h])
  BY RowRewritten DEF Inv, RequestsOK, Unlocked
<1>1. RequestOK(op[h]) /\ HoldOK(users, op[h]) /\ LateOK(users, op[h])
  BY OwnRequest
<1> DEFINE r == [op[h] EXCEPT !.late = @ \ {"locked"}]
<1>2. op'[h] = IF op[h].user = u THEN r ELSE op[h]
  BY DEF Unlocked
<1>3. CASE op[h].user # u
  <2>1. op'[h] = op[h]
    BY <1>2, <1>3
  <2>2. LateOK(users', op[h])
    BY <1>1, <1>3, RowRewritten DEF LateOK, GoneOrLocked
  <2> QED
    BY <1>1, <2>1, <2>2, RowRewritten
<1>4. CASE op[h].user = u
  <2>1. /\ RequestOK(r) /\ HoldOK(users, r) /\ r.late = op[h].late \ {"locked"}
        /\ r.user = op[h].user /\ r.kind = op[h].kind /\ r.pc = op[h].pc /\ r.seen = op[h].seen
    BY <1>1 DEF RequestOK, Request, HoldOK
  <2>2. op'[h] = r
    BY <1>2, <1>4
  <2> HIDE DEF r
  <2>3. LateOK(users', r)
    BY <1>1, <2>1, RowRewritten DEF LateOK
  <2> QED
    BY <2>1, <2>2, <2>3, RowRewritten
<1> QED
  BY <1>3, <1>4

LEMMA SetLockStep ==
  ASSUME Inv, NEW u \in Users, NEW b \in BOOLEAN, SetLock(u, b)
  PROVE  Inv'
<1> DEFINE row == [users[u] EXCEPT !.locked = b]
<1>1. row \in Row /\ row.email = users[u].email /\ row.locked = b /\ u \in Known
  BY KnownRows DEF SetLock, Row
<1>2. users' = [users EXCEPT ![u] = row] /\ UNCHANGED <<vault, sessions, pictures>>
  BY DEF SetLock
<1> HIDE DEF row
<1>3. CASE b
  <2>1. op' = op
    BY <1>3 DEF SetLock
  <2>2. users'[u] = row
    BY <1>2 DEF Inv, TypeOK
  <2>3. \A w \in Users : GoneOrLocked(users, w) => GoneOrLocked(users', w)
    BY <1>1, <1>2, <1>3, <2>2, RowRewritten, RowsAreThere DEF GoneOrLocked
  <2>4. \A h \in Handlers : HoldOK(users', op[h]) /\ LateOK(users', op[h])
    BY <1>1, <1>2, <2>3, RowRewritten, OwnRequest DEF LateOK
  <2> QED
    BY <1>1, <1>2, <2>1, <2>4, RowRewritten DEF Inv, RequestsOK
<1>4. CASE ~b
  BY <1>1, <1>2, <1>4, UnlockedStep DEF SetLock
<1> QED
  BY <1>3, <1>4

LEMMA VerifyStep ==
  ASSUME Inv, NEW u \in Users, Verify(u)
  PROVE  Inv'
<1> DEFINE row == [users[u] EXCEPT !.verified = TRUE, !.locked = FALSE]
<1>1. row \in Row /\ row.email = users[u].email /\ u \in Known
  BY KnownRows DEF Verify, Row
<1>2. users' = [users EXCEPT ![u] = row] /\ UNCHANGED <<vault, sessions, pictures>>
  BY DEF Verify, Inv, TypeOK
<1> HIDE DEF row
<1> QED
  BY <1>1, <1>2, UnlockedStep DEF Verify

\* A user is deleted whose row no transaction holds: requests to be refused
\* are refused for that from now on.
LEMMA LateWhenGone ==
  ASSUME Inv, NEW h \in Handlers, NEW us,
         \A w \in Users : us[w] = Gone \/ users[w] = None \/ us[w] = users[w],
         \A w \in Users : users[w] = Gone => us[w] = Gone
  PROVE  LateOK(us, op[h])
<1>1. LateOK(users, op[h])
  BY OwnRequest
<1>2. \A w \in Users : GoneOrLocked(users, w) => GoneOrLocked(us, w)
  BY NullAssumption DEF GoneOrLocked
<1> QED
  BY <1>1, <1>2 DEF LateOK

LEMMA DeleteUserInfoStep ==
  ASSUME Inv, NEW u \in Users, DeleteUserInfo(u)
  PROVE  Inv'
<1>1. /\ users' = [users EXCEPT ![u] = Gone] /\ tokens' = tokens \ TokensOf(u)
      /\ UNCHANGED <<vault, issuedTo, closed, sent, uploads, removing, op>>
      /\ u \in Known /\ vault[u] = "none"
  BY DEF DeleteUserInfo, pictures
<1>2. /\ users' \in [Users -> Row \cup {None, Gone}] /\ users'[u] = Gone
      /\ \A w \in Users : w # u => users'[w] = users[w]
  BY <1>1 DEF Inv, TypeOK
<1>3. Known' = Known \ {u}
  BY <1>2 DEF Known
<1>4. \A s \in tokens' : s \in tokens /\ issuedTo[s] # u
  BY <1>1 DEF TokensOf
<1>5. TypeOK' /\ SignedOut'
  BY <1>1, <1>2, <1>3, <1>4 DEF Inv, TypeOK, SignedOut, Issued
<1>6. \A h \in Handlers : HoldOK(users', op[h])
  BY <1>2, OwnRequest DEF HoldOK, RequestOK, DeleteUserInfo, RowHeld, At
<1>7. \A h \in Handlers : LateOK(users', op[h])
  BY <1>2, LateWhenGone
<1> QED
  BY <1>1, <1>5, <1>6, <1>7 DEF Inv, RequestsOK

LEMMA ClearBeginStep ==
  ASSUME Inv, NEW h \in Handlers, NEW u \in Users \cup {0}, NEW e \in {Demo, None},
         ClearBegin(h, u, e)
  PROVE  Inv'
<1> DEFINE r == [Idle EXCEPT !.kind = "clear", !.pc = "finish", !.user = u, !.email = e]
<1>1. RequestOK(r) /\ r.late = {} /\ r.pc # "commit"
  <2>1. e \in Emails \cup {Demo, None} /\ Idle \in Request /\ Idle.late = {}
    BY IdleOK DEF RequestOK
  <2>2. r \in Request
    BY <2>1 DEF Request, Kinds, Phases
  <2>3. r.kind = "clear" /\ r.pc = "finish" /\ r.late = {}
    BY <2>1 DEF Request
  <2> QED
    BY <2>2, <2>3 DEF RequestOK
<1>2. op' = [op EXCEPT ![h] = r] /\ UNCHANGED <<users, sessions, pictures>>
  BY DEF ClearBegin
<1> HIDE DEF r
<1>3. VaultTyped
  BY <1>2 DEF ClearBegin, Inv, TypeOK, VaultTyped, Known
<1> QED
  BY <1>1, <1>2, <1>3, StartStep, RowsUnchanged, Untouched

LEMMA ClearFinishStep ==
  ASSUME Inv, NEW h \in Handlers, ClearFinish(h)
  PROVE  Inv'
<1> DEFINE u == op[h].user
<1>1. CASE u \notin Known
  BY <1>1, DoneStep, RowsUnchanged, Untouched DEF ClearFinish, Abort
<1>2. CASE u \in Known
  <2>1. RowsKept
    BY <1>2, PictureInRow, BoundsAssumption DEF ClearFinish
  <2>2. VaultTyped
    BY <1>2, <2>1, RowsKeptFacts DEF ClearFinish, Cleared, Inv, TypeOK, VaultTyped
  <2> QED
    BY <1>2, <2>1, <2>2, DoneStep, Untouched DEF ClearFinish
<1> QED
  BY <1>1, <1>2

\* The demo user that is there goes, and a new one comes.
LEMMA DemoFinishStep ==
  ASSUME Inv, NEW h \in Handlers, DemoFinish(h)
  PROVE  Inv'
<1> DEFINE u == op[h].user
           row == Account(Demo, TRUE, FALSE)
<1>1. CASE Done(h) /\ UNCHANGED <<accounts, loose>>
  BY <1>1, DoneStep, RowsUnchanged, Untouched DEF DemoFinish, accounts
<1>2. CASE ~(Done(h) /\ UNCHANGED <<accounts, loose>>)
  <2>1. /\ ByEmail(Demo) \subseteq {u}
        /\ u = 0 \/ (u \in Known /\ TokensOf(u) = {})
    BY <1>2 DEF DemoFinish
  <2>2. PICK w \in Users :
          /\ users[w] = None
          /\ users' = [v \in Users |-> IF v = w THEN row ELSE IF v = u THEN Gone ELSE users[v]]
    BY <1>2 DEF DemoFinish
  <2>3. /\ op' = [op EXCEPT ![h] = Idle] /\ UNCHANGED <<tokens, issuedTo, closed, sent, uploads, removing>>
        /\ vault' = [v \in Users |-> IF v = u THEN "none" ELSE vault[v]]
        /\ RowFree(h, u)
    BY <1>2 DEF DemoFinish, Done, Cleared, sessions, pictures
  <2>4. row \in Row /\ row.email = Demo
    BY BoundsAssumption DEF Account, Row
  <2> HIDE DEF row
  <2>5. /\ users' \in [Users -> Row \cup {None, Gone}] /\ users'[w] = row
        /\ w # u /\ (u # 0 => u \in Users)
        /\ \A v \in Users : v # w => users'[v] = IF v = u THEN Gone ELSE users[v]
    BY <2>1, <2>2, <2>4, BoundsAssumption DEF Inv, TypeOK, Known, Users
  <2>6. Known' = (Known \ {u}) \cup {w}
    BY <2>2, <2>4, <2>5, RowsAreThere DEF Known
  <2>7. \A v, x \in Known' : users'[v].email = users'[x].email => v = x
    <3>1. \A x \in Known : users'[x] = users[x] => users[x].email # row.email
      BY <2>1, <2>2, <2>4, <2>5 DEF ByEmail, Known
    <3> QED
      BY <2>4, <2>5, <3>1, CreatedTyped DEF Known
  <2>8. \A s \in tokens : issuedTo[s] # u
    BY <2>1 DEF TokensOf, Inv, TypeOK, Known, Users
  <2>9. TypeOK' /\ SignedOut'
    <3>1. \A v \in Users : vault'[v] # "none" => v \in Known'
      BY <2>2, <2>3, <2>6 DEF Inv, TypeOK
    <3>2. \A s \in tokens' : s \in Sessions /\ issuedTo'[s] \in Known'
      BY <2>3, <2>6, <2>8 DEF Inv, TypeOK
    <3>3. vault' \in [Users -> {"none", "kept", "lost"}]
      BY <2>3 DEF Inv, TypeOK
    <3> QED
      BY <2>3, <2>5, <2>7, <3>1, <3>2, <3>3 DEF Inv, TypeOK, SignedOut, Issued
  <2>10. \A g \in Handlers \ {h} : HoldOK(users', op[g])
    <3> SUFFICES ASSUME NEW g \in Handlers \ {h}, op[g].kind = "profile", op[g].pc = "commit"
                 PROVE  users'[op[g].user] \notin {None, Gone}
      BY DEF HoldOK
    <3>1. users[op[g].user] \notin {None, Gone} /\ op[g].user \in Users
      BY OwnRequest DEF HoldOK, RequestOK
    <3>2. op[g].user # u
      BY <2>3 DEF RowFree, RowHeld, At
    <3> QED
      BY <2>2, <2>5, <3>1, <3>2
  <2>11. \A g \in Handlers : LateOK(users', op[g])
    BY <2>2, <2>5, LateWhenGone, NullAssumption
  <2>12. RequestsOK'
    BY <2>3, <2>10, <2>11, IdleOK DEF Inv, RequestsOK
  <2> QED
    BY <2>9, <2>12 DEF Inv
<1> QED
  BY <1>1, <1>2

-----------------------------------------------------------------------------
(* The invariant, and what follows from it.                                *)

LEMMA NextInv == Inv /\ [Next]_vars => Inv'
<1> SUFFICES ASSUME Inv, [Next]_vars PROVE Inv'
  OBVIOUS
<1>1. ASSUME NEW h \in Handlers, Start(h) PROVE Inv'
  BY <1>1, SignUpBeginStep, SignInBeginStep, RefreshRowStep, SocketBeginStep, GuardStep,
     ClearBeginStep DEF Start
<1>2. ASSUME NEW h \in Handlers, Step(h) PROVE Inv'
  BY <1>2, SignUpCommitStep, IssueStep, RefreshUserStep, SignOutStep, SocketUserStep,
     SocketCloseStep, DetailsReadStep, DetailsWriteStep, ProfileWriteStep, PreviewWriteStep,
     ProfileReplaceStep, ProfileCommitStep, PreviewReplaceStep, PreviewCommitStep,
     ClearFinishStep, DemoFinishStep DEF Step
<1>3. CASE UNCHANGED vars
  BY <1>3, StillStep, Untouched DEF vars, accounts
<1>4. CASE Next
  BY <1>1, <1>2, <1>4, FailStep, SetLockStep, DeleteUserInfoStep, VerifyStep, FirstFileStep,
     RemoveOldStep DEF Next
<1> QED
  BY <1>3, <1>4

\* The strengthening is an invariant of the specification.
THEOREM Invariant == Spec => []Inv
  BY InitInv, NextInv, PTL DEF Spec

\* However sign-ups, deletions and everything else overlap, an address has one
\* user and a kept refresh token or directory an owner that exists.
THEOREM TypeCorrect == Spec => []TypeOK
<1>1. Inv => TypeOK
  BY DEF Inv
<1> QED
  BY <1>1, Invariant, PTL

\* A request that began when its session was over or its account locked has
\* not come through and will not.
THEOREM RefusedGetNothingHolds == Spec => []RefusedGetNothing
<1>1. Inv => RefusedGetNothing
  BY DEF Inv, RequestsOK, LateOK, RefusedGetNothing
<1> QED
  BY <1>1, Invariant, PTL

\* No step writes the row of a user who is gone, ...
LEMMA GoneStays ==
  ASSUME Inv, Next, NEW u \in Users, users[u] = Gone
  PROVE  users'[u] = Gone
<1>1. u \notin Known /\ users[u] # None
  BY NullAssumption DEF Known
<1>2. CASE UNCHANGED users
  BY <1>2
<1>3. ASSUME NEW w \in Users, w \in Known \/ users[w] = None, NEW row,
             users' = [users EXCEPT ![w] = row]
      PROVE  users'[u] = Gone
  BY <1>1, <1>3 DEF Inv, TypeOK
<1>4. ASSUME NEW h \in Handlers, Step(h) PROVE users'[u] = Gone
  <2>1. CASE SignUpCommit(h)
    BY <1>2, <1>3, <2>1 DEF SignUpCommit, Created
  <2>2. CASE DetailsWrite(h)
    BY <1>2, <1>3, <2>2 DEF DetailsWrite, Known
  <2>3. CASE ProfileCommit(h)
    <3>1. op[h].user \in Known
      BY <2>3, OwnRequest DEF ProfileCommit, At, HoldOK, RequestOK, Known
    <3> QED
      BY <1>3, <2>3, <3>1 DEF ProfileCommit, Known
  <2>4. CASE PreviewCommit(h)
    BY <1>2, <1>3, <2>4 DEF PreviewCommit, Known
  <2>5. CASE ClearFinish(h)
    BY <1>2, <1>3, <2>5 DEF ClearFinish, Known
  <2>6. CASE DemoFinish(h)
    <3>1. CASE UNCHANGED users
      BY <3>1, <1>2
    <3>2. CASE ~UNCHANGED users
      <4>1. PICK w \in Users :
              /\ users[w] = None
              /\ users' = [v \in Users |-> IF v = w THEN Account(Demo, TRUE, FALSE)
                                          ELSE IF v = op[h].user THEN Gone ELSE users[v]]
        BY <2>6, <3>2 DEF DemoFinish, accounts
      <4> QED
        BY <1>1, <4>1
    <3> QED
      BY <3>1, <3>2
  <2>7. CASE UNCHANGED users
    BY <1>2, <2>7
  <2> QED
    BY <1>4, <2>1, <2>2, <2>3, <2>4, <2>5, <2>6, <2>7
    DEF Step, Issue, RefreshUser, SignOut, SocketUser, SocketClose, DetailsRead, ProfileWrite,
        PreviewWrite, ProfileReplace, PreviewReplace, accounts
<1>5. ASSUME NEW h \in Handlers, Start(h) \/ Fail(h) PROVE UNCHANGED users
  BY <1>5 DEF Start, SignUpBegin, SignInBegin, RefreshRow, SocketBegin, Guard, ClearBegin, Fail,
              accounts
<1>6. ASSUME NEW w \in Users,
             (\E b \in BOOLEAN : SetLock(w, b)) \/ DeleteUserInfo(w) \/ Verify(w)
      PROVE  users'[u] = Gone
  <2>1. w \in Known
    BY <1>6 DEF SetLock, DeleteUserInfo, Verify
  <2> QED
    BY <1>1, <1>6, <2>1 DEF SetLock, DeleteUserInfo, Verify, Inv, TypeOK
<1>7. ASSUME NEW s, FirstFile(s) \/ RemoveOld(s) PROVE UNCHANGED users
  BY <1>7 DEF FirstFile, RemoveOld, accounts
<1> QED
  BY <1>2, <1>4, <1>5, <1>6, <1>7 DEF Next

\* ... and a session changes hands only as its row is made.
LEMMA IssuedOnce ==
  ASSUME Inv, Next, NEW s \in Sessions, issuedTo'[s] # issuedTo[s]
  PROVE  s \in tokens'
<1>1. \E u : IssueTo(u)
  BY DEF Next, Start, Step, SignUpBegin, SignInBegin, RefreshRow, SocketBegin, Guard, ClearBegin,
         SignUpCommit, Issue, RefreshUser, SignOut, SocketUser, SocketClose, DetailsRead,
         DetailsWrite, ProfileWrite, PreviewWrite, ProfileReplace, ProfileCommit, PreviewReplace,
         PreviewCommit, ClearFinish, DemoFinish, Fail, SetLock, DeleteUserInfo, Verify, FirstFile,
         RemoveOld, sessions
<1>2. PICK t \in Sessions :
        tokens' = tokens \cup {t} /\ \E u : issuedTo' = [issuedTo EXCEPT ![t] = u]
  BY <1>1 DEF IssueTo
<1> QED
  BY <1>2 DEF Inv, TypeOK

\* Nothing that was under way for a deleted account brings it back, or a
\* session or directory of it, for any number of requests.
THEOREM GoneIsGoneHolds == Spec => GoneIsGone
<1>1. ASSUME Inv, Inv', Next, NEW u \in Users, users[u] = Gone
      PROVE  /\ users'[u] = Gone /\ vault'[u] = "none"
             /\ \A s \in Sessions : issuedTo'[s] = u => issuedTo[s] = u /\ s \notin tokens'
  <2>1. users'[u] = Gone
    BY <1>1, GoneStays
  <2>2. u \notin Known'
    BY <2>1 DEF Known
  <2>3. vault'[u] = "none" /\ \A s \in tokens' : issuedTo'[s] # u
    BY <1>1, <2>2 DEF Inv, TypeOK
  <2> QED
    BY <1>1, <2>1, <2>3, IssuedOnce
<1>2. Inv /\ Inv' /\ [Next]_vars =>
        [\A u \in Users : users[u] = Gone =>
            /\ users'[u] = Gone /\ vault'[u] = "none"
            /\ \A s \in Sessions : issuedTo'[s] = u => issuedTo[s] = u /\ s \notin tokens']_vars
  BY <1>1
<1> QED
  BY <1>2, Invariant, PTL DEF Spec, GoneIsGone

-----------------------------------------------------------------------------
(* The removal of a user's files.                                          *)

\* A removal under way has written no picture, and one that is to make the
\* demo user anew removes the user who had that address, or who had it until
\* it was deleted (us = users).
ClearOK(us, r) ==
    r.kind = "clear" =>
       /\ r.pc = "finish" /\ r.new = 0
       /\ r.email = Demo /\ r.user \in Users =>
            us[r.user] = Gone \/ (us[r.user] # None /\ us[r.user].email = Demo)

ClearsOK == \A h \in Handlers : ClearOK(users, op[h])

\* An address is kept as long as its user is.
LEMMA EmailStays ==
  ASSUME Inv, Next, NEW u \in Known
  PROVE  users'[u] = Gone \/ (users'[u] # None /\ users'[u].email = users[u].email)
<1>1. u \in Users /\ users[u] \in Row /\ users[u] # None
  BY KnownRows, RowsAreThere
<1>2. ASSUME RowsKept
      PROVE  users'[u] # None /\ users'[u].email = users[u].email
  BY <1>1, <1>2, RowsAreThere DEF RowsKept
<1>3. ASSUME NEW w \in Users, NEW row, users' = [users EXCEPT ![w] = row],
             row = Gone \/ users[w] = None
      PROVE  users'[u] = Gone \/ users'[u] = users[u]
  BY <1>1, <1>3 DEF Inv, TypeOK
<1>4. ASSUME NEW h \in Handlers, Step(h)
      PROVE  RowsKept \/ users'[u] = Gone \/ users'[u] = users[u]
  <2>1. CASE SignUpCommit(h)
    BY <1>3, <2>1 DEF SignUpCommit, Created
  <2>2. CASE DetailsWrite(h)
    <3>1. op[h].old \in 0 .. MaxPictures
      BY OwnRequest DEF RequestOK, Request
    <3> QED
      BY <2>2, <3>1, PictureInRow, RowsUnchanged DEF DetailsWrite
  <2>3. CASE ProfileCommit(h)
    <3>1. op[h].user \in Known /\ op[h].new \in 0 .. MaxPictures
      BY <2>3, OwnRequest DEF ProfileCommit, At, HoldOK, RequestOK, Request, Known
    <3> QED
      BY <2>3, <3>1, PictureInRow DEF ProfileCommit
  <2>4. CASE PreviewCommit(h)
    <3>1. op[h].new \in 0 .. MaxPictures
      BY OwnRequest DEF RequestOK, Request
    <3> QED
      BY <2>4, <3>1, PictureInRow, RowsUnchanged DEF PreviewCommit
  <2>5. CASE ClearFinish(h)
    BY <2>5, PictureInRow, RowsUnchanged, BoundsAssumption DEF ClearFinish
  <2>6. CASE DemoFinish(h)
    <3>1. CASE UNCHANGED users
      BY <3>1
    <3>2. CASE ~UNCHANGED users
      <4>1. PICK w \in Users :
              /\ users[w] = None
              /\ users' = [v \in Users |-> IF v = w THEN Account(Demo, TRUE, FALSE)
                                          ELSE IF v = op[h].user THEN Gone ELSE users[v]]
        BY <2>6, <3>2 DEF DemoFinish, accounts
      <4> QED
        BY <1>1, <4>1
    <3> QED
      BY <3>1, <3>2
  <2>7. CASE UNCHANGED users
    BY <2>7
  <2> QED
    BY <1>4, <2>1, <2>2, <2>3, <2>4, <2>5, <2>6, <2>7
    DEF Step, Issue, RefreshUser, SignOut, SocketUser, SocketClose, DetailsRead, ProfileWrite,
        PreviewWrite, ProfileReplace, PreviewReplace, accounts
<1>5. ASSUME NEW h \in Handlers, Start(h) \/ Fail(h) PROVE UNCHANGED users
  BY <1>5 DEF Start, SignUpBegin, SignInBegin, RefreshRow, SocketBegin, Guard, ClearBegin, Fail,
              accounts
<1>6. ASSUME NEW w \in Users, NEW b \in BOOLEAN, SetLock(w, b)
      PROVE  users'[u] # None /\ users'[u].email = users[u].email
  BY <1>1, <1>6, RowsAreThere DEF SetLock, Inv, TypeOK, Row
<1>7. ASSUME NEW w \in Users, Verify(w)
      PROVE  users'[u] # None /\ users'[u].email = users[u].email
  <2> DEFINE row == [users[u] EXCEPT !.verified = TRUE, !.locked = FALSE]
  <2>1. row \in Row /\ row.email = users[u].email
    BY <1>1 DEF Row
  <2>2. users'[u] = row \/ users'[u] = users[u]
    BY <1>1, <1>7 DEF Verify, Inv, TypeOK
  <2> HIDE DEF row
  <2> QED
    BY <1>1, <2>1, <2>2, RowsAreThere
<1>8. ASSUME NEW w \in Users, DeleteUserInfo(w)
      PROVE  users'[u] = Gone \/ users'[u] = users[u]
  BY <1>3, <1>8 DEF DeleteUserInfo
<1>9. ASSUME NEW s, FirstFile(s) \/ RemoveOld(s) PROVE UNCHANGED users
  BY <1>9 DEF FirstFile, RemoveOld, accounts
<1> QED
  BY <1>1, <1>2, <1>4, <1>5, <1>6, <1>7, <1>8, <1>9 DEF Next

\* A removal is one that was under way, and kept what it knows, or one that begins.
LEMMA ClearComes ==
  ASSUME Inv, Next, NEW h \in Handlers, op'[h].kind = "clear"
  PROVE  \/ /\ op[h].kind = "clear" /\ op'[h].pc = op[h].pc /\ op'[h].new = op[h].new
            /\ op'[h].user = op[h].user /\ op'[h].email = op[h].email
         \/ \E u \in Users \cup {0}, e \in {Demo, None} : ClearBegin(h, u, e)
<1> DEFINE Kept == /\ op[h].kind = "clear" /\ op'[h].pc = op[h].pc /\ op'[h].new = op[h].new
                   /\ op'[h].user = op[h].user /\ op'[h].email = op[h].email
<1>1. op[h] \in Request /\ op = [g \in Handlers |-> op[g]]
  BY DEF Inv, RequestsOK, RequestOK
<1>2. CASE op'[h] = op[h]
  BY <1>2
<1>3. ASSUME NEW g \in Handlers, NEW r, op' = [op EXCEPT ![g] = r], r.kind # "clear"
      PROVE  op'[h] = op[h]
  BY <1>1, <1>3
<1>4. ASSUME NEW g \in Handlers, NEW pc, Goto(g, pc), op[g].kind # "clear"
      PROVE  op'[h] = op[h]
  BY <1>1, <1>4 DEF Goto
<1>5. ASSUME NEW g \in Handlers, Done(g)
      PROVE  op'[h] = op[h]
  BY <1>1, <1>5 DEF Done, Idle
<1>6. ASSUME NEW g \in Handlers, Start(g)
      PROVE  op'[h] = op[h] \/ \E u \in Users \cup {0}, e \in {Demo, None} : ClearBegin(h, u, e)
  <2>1. CASE \E u \in Users \cup {0}, e \in {Demo, None} : ClearBegin(g, u, e)
    BY <1>1, <2>1 DEF ClearBegin
  <2>2. ASSUME NEW e \in Emails, SignUpBegin(g, e) \/ SignInBegin(g, e) PROVE op'[h] = op[h]
    BY <1>1, <2>2 DEF SignUpBegin, SignInBegin, Idle
  <2>3. ASSUME NEW s \in Sessions, RefreshRow(g, s) \/ SocketBegin(g, s) PROVE op'[h] = op[h]
    <3>1. CASE RefreshRow(g, s)
      <4> DEFINE seen == s \in tokens
                 r == [Idle EXCEPT !.kind = "refresh", !.pc = "user", !.ses = s,
                                   !.user = issuedTo[s], !.seen = seen, !.late = Reasons(s)]
      <4>1. op' = [op EXCEPT ![g] = r]
        BY <3>1 DEF RefreshRow
      <4> HIDE DEF seen
      <4>2. r.kind # "clear"
        BY DEF Idle
      <4> HIDE DEF r
      <4> QED
        BY <1>3, <4>1, <4>2
    <3>2. CASE SocketBegin(g, s)
      BY <1>1, <3>2 DEF SocketBegin, Idle
    <3> QED
      BY <2>3, <3>1, <3>2
  <2>4. ASSUME NEW s \in Sessions, NEW k \in Slots \cup {"signout", "details"}, Guard(g, s, k)
        PROVE  op'[h] = op[h]
    BY <1>1, <2>4 DEF Guard, Idle, Slots
  <2> QED
    BY <1>6, <2>1, <2>2, <2>3, <2>4 DEF Start
<1>7. ASSUME NEW g \in Handlers, Step(g) PROVE op'[h] = op[h]
  <2>1. CASE DetailsRead(g)
    <3> DEFINE r == [op[g] EXCEPT !.pc = "write", !.old = users[op[g].user].profile]
    <3>1. op[g] \in Request /\ op[g].kind = "details"
      BY <2>1, OwnRequest DEF DetailsRead, At, RequestOK
    <3>2. r.kind # "clear"
      BY <3>1 DEF Request
    <3>3. Done(g) \/ op' = [op EXCEPT ![g] = r]
      BY <1>1, <2>1 DEF DetailsRead
    <3> HIDE DEF r
    <3> QED
      BY <1>3, <1>5, <3>2, <3>3
  <2>2. CASE ProfileWrite(g) \/ PreviewWrite(g)
    <3>1. op[g] \in Request /\ op[g].kind # "clear"
      BY <2>2, OwnRequest DEF ProfileWrite, PreviewWrite, At, RequestOK
    <3>2. ASSUME NEW old, Written(g, old) PROVE op'[h] = op[h]
      <4> DEFINE r == [op[g] EXCEPT !.pc = "replace", !.new = sent + 1, !.old = old]
      <4>1. op' = [op EXCEPT ![g] = r] /\ r.kind # "clear"
        BY <1>1, <3>1, <3>2 DEF Written, Request
      <4> HIDE DEF r
      <4> QED
        BY <1>3, <4>1
    <3> QED
      BY <1>5, <2>2, <3>2 DEF ProfileWrite, PreviewWrite
  <2>3. CASE RefreshUser(g) \/ SocketUser(g) \/ ProfileReplace(g) \/ PreviewReplace(g)
    BY <1>4, <1>5, <2>3 DEF RefreshUser, SocketUser, ProfileReplace, PreviewReplace, At, Abort
  <2>4. CASE Done(g)
    BY <1>5, <2>4
  <2> QED
    BY <1>7, <2>1, <2>2, <2>3, <2>4
    DEF Step, SignUpCommit, Issue, SignOut, SocketClose, DetailsWrite, ProfileCommit,
        PreviewCommit, ClearFinish, DemoFinish, Abort
<1>8. ASSUME NEW g \in Handlers, Fail(g) PROVE op'[h] = op[h]
  BY <1>5, <1>8 DEF Fail, Abort
<1>9. ASSUME NEW u, op' = Unlocked(u) PROVE Kept
  BY <1>1, <1>9 DEF Unlocked, Request
<1>10. ASSUME NEW u \in Users, NEW b \in BOOLEAN, SetLock(u, b) PROVE Kept
  BY <1>2, <1>9, <1>10 DEF SetLock
<1>11. ASSUME NEW u \in Users, DeleteUserInfo(u) \/ Verify(u) PROVE Kept
  BY <1>2, <1>9, <1>11 DEF DeleteUserInfo, Verify
<1>12. ASSUME NEW s, FirstFile(s) \/ RemoveOld(s) PROVE Kept
  BY <1>2, <1>12 DEF FirstFile, RemoveOld
<1> QED
  BY <1>2, <1>6, <1>7, <1>8, <1>10, <1>11, <1>12 DEF Next

LEMMA ClearsStart == Init => ClearsOK
  BY DEF Init, ClearsOK, ClearOK, Idle

LEMMA ClearsGoOn == Inv /\ ClearsOK /\ [Next]_vars => ClearsOK'
<1> SUFFICES ASSUME Inv, ClearsOK, [Next]_vars, NEW h \in Handlers, op'[h].kind = "clear"
             PROVE  ClearOK(users', op'[h])
  BY DEF ClearsOK, ClearOK
<1>1. CASE UNCHANGED vars
  BY <1>1 DEF ClearsOK, vars, accounts
<1>2. ASSUME Next, op[h].kind = "clear", op'[h].pc = op[h].pc, op'[h].new = op[h].new,
             op'[h].user = op[h].user, op'[h].email = op[h].email
      PROVE  ClearOK(users', op'[h])
  <2>1. ClearOK(users, op[h])
    BY DEF ClearsOK
  <2>2. \A u \in Users : users[u] = Gone => users'[u] = Gone
    BY <1>2, GoneStays
  <2>3. \A u \in Users : users[u] \notin {None, Gone} =>
          users'[u] = Gone \/ (users'[u] # None /\ users'[u].email = users[u].email)
    BY <1>2, EmailStays DEF Known
  <2> QED
    BY <1>2, <2>1, <2>2, <2>3 DEF ClearOK
<1>3. ASSUME NEW u \in Users \cup {0}, NEW e \in {Demo, None}, ClearBegin(h, u, e)
      PROVE  ClearOK(users', op'[h])
  <2> DEFINE r == [Idle EXCEPT !.kind = "clear", !.pc = "finish", !.user = u, !.email = e]
  <2>1. r.pc = "finish" /\ r.new = 0 /\ r.user = u /\ r.email = e
    BY DEF Idle
  <2>2. op'[h] = r /\ users' = users
    BY <1>3 DEF ClearBegin, Inv, RequestsOK
  <2> HIDE DEF r
  <2>3. ASSUME e = Demo, u \in Users PROVE users[u] # None /\ users[u].email = Demo
    <3>1. u \in ByEmail(Demo)
      BY <1>3, <2>3 DEF ClearBegin, Users
    <3> QED
      BY <3>1 DEF ByEmail, Known
  <2> QED
    BY <2>1, <2>2, <2>3 DEF ClearOK
<1> QED
  BY <1>1, <1>2, <1>3, ClearComes

\* A removal ends when it is done or fails.
LEMMA ClearEnds ==
  ASSUME Inv, ClearsOK, Next, NEW h \in Handlers, op[h].kind = "clear", op'[h] = Idle
  PROVE  ClearFinish(h) \/ DemoFinish(h) \/ Fail(h)
<1>1. op[h].pc = "finish" /\ op = [g \in Handlers |-> op[g]] /\ op[h] \in Request
  BY DEF ClearsOK, ClearOK, Inv, RequestsOK, RequestOK
<1>2. op[h] # Idle /\ op'[h].kind # "clear"
  BY DEF Idle
<1>3. ASSUME NEW g \in Handlers, g # h, NEW r, op' = [op EXCEPT ![g] = r] PROVE FALSE
  BY <1>1, <1>2, <1>3
<1>4. CASE op' = op
  BY <1>2, <1>4
<1>5. ASSUME NEW u, op' = Unlocked(u) PROVE FALSE
  BY <1>1, <1>2, <1>5 DEF Unlocked, Request
<1>6. ASSUME NEW g \in Handlers, Start(g) \/ Step(g) \/ Fail(g)
      PROVE  ClearFinish(h) \/ DemoFinish(h) \/ Fail(h)
  <2>1. ASSUME g # h PROVE op'[h] = op[h]
    BY <1>1, <1>6, <2>1
    DEF Start, Step, Fail, SignUpBegin, SignInBegin, RefreshRow, SocketBegin, Guard, ClearBegin,
        SignUpCommit, Issue, RefreshUser, SignOut, SocketUser, SocketClose, DetailsRead,
        DetailsWrite, ProfileWrite, PreviewWrite, ProfileReplace, ProfileCommit, PreviewReplace,
        PreviewCommit, ClearFinish, DemoFinish, Abort, Done, Goto, Written
  <2>2. ASSUME Start(h) PROVE FALSE
    BY <1>2, <2>2 DEF Start, SignUpBegin, SignInBegin, RefreshRow, SocketBegin, Guard,
       ClearBegin, MayStart
  <2>3. ASSUME Step(h) PROVE ClearFinish(h) \/ DemoFinish(h)
    BY <1>1, <2>3
    DEF Step, SignUpCommit, Issue, RefreshUser, SignOut, SocketUser, SocketClose, DetailsRead,
        DetailsWrite, ProfileWrite, PreviewWrite, ProfileReplace, ProfileCommit, PreviewReplace,
        PreviewCommit, At
  <2> QED
    BY <1>2, <1>6, <2>1, <2>2, <2>3
<1>7. ASSUME NEW u \in Users, NEW b \in BOOLEAN, SetLock(u, b) PROVE FALSE
  BY <1>2, <1>5, <1>7 DEF SetLock
<1>8. ASSUME NEW u \in Users, DeleteUserInfo(u) \/ Verify(u) PROVE FALSE
  BY <1>2, <1>5, <1>8 DEF DeleteUserInfo, Verify
<1>9. ASSUME NEW s, FirstFile(s) \/ RemoveOld(s) PROVE FALSE
  BY <1>2, <1>9 DEF FirstFile, RemoveOld
<1> QED
  BY <1>6, <1>7, <1>8, <1>9 DEF Next

\* A removal that ends leaves rows of files without the files only if a failure
\* hit it, or if the demo user to be made anew held a refresh token or a request.
THEOREM LostOnlyIfHeldHolds == Spec => LostOnlyIfHeld
<1>1. ASSUME Inv, ClearsOK, Next, NEW h \in Handlers, op[h].kind = "clear", op'[h] = Idle,
             NEW u \in Users, u = op[h].user, vault'[u] = "lost"
      PROVE  <<u, "vault">> \in loose' \/ TokensOf(u) # {} \/ users[u].requests
  <2>1. op[h].new = 0 /\ u # 0 /\ ClearOK(users, op[h])
    BY <1>1 DEF ClearsOK, ClearOK, Users
  <2>2. vault[u] # "none" => u \in Known
    BY <1>1 DEF Inv, TypeOK
  <2>3. CASE ClearFinish(h)
    BY <1>1, <2>2, <2>3 DEF ClearFinish, Cleared
  <2>4. CASE DemoFinish(h)
    <3>1. vault' = vault /\ ~(TokensOf(u) = {} /\ ~users[u].requests /\ ByEmail(Demo) \subseteq {u}
                             /\ u \in Known)
      BY <1>1, <2>4 DEF DemoFinish, Cleared, accounts
    <3>2. u \in Known
      BY <1>1, <2>2, <3>1
    <3>3. users[u].email = Demo
      BY <1>1, <2>1, <2>4, <3>2 DEF ClearOK, DemoFinish, Known
    <3>4. ByEmail(Demo) \subseteq {u}
      <4>1. \A v, w \in Known : users[v].email = users[w].email => v = w
        BY <1>1 DEF Inv, TypeOK
      <4> QED
        BY <3>2, <3>3, <4>1 DEF ByEmail
    <3> QED
      BY <3>1, <3>2, <3>4
  <2>5. CASE Fail(h)
    BY <1>1, <2>1, <2>5 DEF Fail, Abort, Hit
  <2> QED
    BY <1>1, <2>3, <2>4, <2>5, ClearEnds
<1>2. Inv /\ ClearsOK /\ [Next]_vars =>
        [\A h \in Handlers :
            op[h].kind = "clear" /\ op'[h] = Idle =>
               \A u \in Users \cap {op[h].user} :
                  vault'[u] = "lost" =>
                     \/ <<u, "vault">> \in loose'
                     \/ TokensOf(u) # {} \/ users[u].requests]_vars
  BY <1>1
<1> QED
  BY <1>2, Invariant, ClearsStart, ClearsGoOn, PTL DEF Spec, LostOnlyIfHeld

-----------------------------------------------------------------------------
(* The pictures on disk.                                                   *)

Picturing == Slots \cup {"details"}

\* The request works on what the row of user u says about the slot.
Concerns(h, u, slot) ==
    op[h].user = u /\ (op[h].kind = slot \/ (op[h].kind = "details" /\ slot = "profile"))

\* How far a request has come, and with what (us = users).
WorkOK(us, r) ==
    /\ r.kind \in Slots => r.pc \in {"start", "replace", "commit"} /\ (r.pc = "start" <=> r.new = 0)
    /\ r.kind = "details" => r.pc \in {"start", "write"}
    /\ r.kind \notin Slots => r.new = 0
    /\ r.kind \in Picturing => us[r.user] # None
    /\ r.kind \in Slots /\ r.new # 0 => r.old < r.new

WorksOK == \A h \in Handlers : WorkOK(users, op[h])

\* The row of user u names the picture p in the slot, or a request on it does.
Named(p, u, slot) ==
    \/ u \in Known /\ Picture(u, slot) = p
    \/ \E h \in Handlers : Concerns(h, u, slot) /\ p \in {op[h].old, op[h].new}

\* Every picture was sent, and for one slot of one user; only previews wait
\* for their deletion.
Numbered ==
    /\ uploads \subseteq 1 .. sent /\ removing \subseteq 1 .. sent
    /\ \A p \in 1 .. MaxPictures, u \in Users, slot \in Slots : Named(p, u, slot) => p <= sent

OneOwner ==
    \A p \in 1 .. MaxPictures, u, w \in Users, s, t \in Slots :
       Named(p, u, s) /\ Named(p, w, t) => u = w /\ s = t

OnlyPreviewsGo == \A p \in removing, u \in Users : ~Named(p, u, "profile")

OnDisk == (uploads \ removing) \cup {0}

\* The state of a slot that nothing has hit: one request replaces the picture,
\* it knows what the row says, and the row's picture is there until that
\* request has let go of it, as is the new one until the row names it.
Settled(u, slot) ==
    /\ \A g, h \in Handlers :
         Concerns(g, u, slot) /\ Concerns(h, u, slot) /\ op[g].kind \in Slots => g = h
    /\ \A h \in Handlers : Concerns(h, u, slot) =>
         /\ op[h].kind = "profile" \/ op[h].pc # "start" => op[h].old = Picture(u, slot)
         /\ op[h].new \in OnDisk
         /\ op[h].pc = "commit" => op[h].old \notin uploads \ removing
    /\ (\A h \in Handlers : Concerns(h, u, slot) => op[h].pc # "commit") =>
         Picture(u, slot) \in OnDisk

AllSettled == \A u \in Known, slot \in Slots : <<u, slot>> \notin loose => Settled(u, slot)

\* Nothing else is on disk as long as nothing was hit.
NothingElse ==
    loose = {} /\ (\A u \in Users : users[u] # Gone) =>
       \A p \in uploads \ removing :
          \/ \E u \in Known, slot \in Slots : Picture(u, slot) = p
          \/ \E h \in Handlers : op[h].new = p

Shelf == WorksOK /\ Numbered /\ OneOwner /\ OnlyPreviewsGo /\ AllSettled /\ NothingElse

\* What every request knows of itself.
LEMMA OwnWork ==
  ASSUME Inv, Shelf, NEW h \in Handlers
  PROVE  /\ RequestOK(op[h]) /\ WorkOK(users, op[h])
         /\ op[h].old \in 0 .. MaxPictures /\ op[h].new \in 0 .. MaxPictures
  BY OwnRequest DEF Shelf, WorksOK, RequestOK, Request

\* The row of a user who is known names pictures.
LEMMA RowPictures ==
  ASSUME Inv, NEW u \in Known, NEW slot \in Slots
  PROVE  u \in Users /\ Picture(u, slot) \in 0 .. MaxPictures
  BY KnownRows DEF Picture, Row

\* Pictures keep their owners when no slot comes to name one it did not.
LEMMA NamesKept ==
  ASSUME Inv, Shelf, sent' = sent, uploads' \subseteq uploads,
         \A p \in 1 .. MaxPictures, u \in Users, s \in Slots : Named(p, u, s)' => Named(p, u, s),
         \A p \in removing' : p \in removing \/ (p \in 1 .. MaxPictures /\ \E u \in Users : Named(p, u, "preview"))
  PROVE  Numbered' /\ OneOwner' /\ OnlyPreviewsGo'
<1>1. Numbered'
  <2>1. sent \in 0 .. MaxPictures
    BY DEF Inv, TypeOK
  <2>2. \A p \in removing' : p \in 1 .. sent
    <3>1. "preview" \in Slots
      BY DEF Slots
    <3>2. \A p \in 1 .. MaxPictures, u \in Users : Named(p, u, "preview") => p <= sent
      BY <3>1 DEF Shelf, Numbered
    <3>3. \A p \in removing : p \in 1 .. sent
      BY DEF Shelf, Numbered
    <3> QED
      BY <2>1, <3>2, <3>3, BoundsAssumption
  <2> QED
    BY <2>1, <2>2 DEF Shelf, Numbered
<1>2. OneOwner'
  BY DEF Shelf, OneOwner
<1>3. removing' \subseteq 1 .. MaxPictures /\ "preview" \in Slots /\ "profile" \in Slots
  BY <1>1, BoundsAssumption DEF Numbered, Inv, TypeOK, Slots
<1>4. OnlyPreviewsGo'
  BY <1>3 DEF Shelf, OneOwner, OnlyPreviewsGo
<1> QED
  BY <1>1, <1>2, <1>4

\* The same request as far as pictures go.
SameWork(h) ==
    \/ op[h].kind \notin Picturing /\ op'[h].kind \notin Picturing /\ op'[h].new = 0
    \/ /\ op'[h].kind = op[h].kind /\ op'[h].pc = op[h].pc /\ op'[h].user = op[h].user
       /\ op'[h].old = op[h].old /\ op'[h].new = op[h].new

LEMMA SameConcerns ==
  ASSUME NEW h, SameWork(h), NEW u, NEW slot \in Slots
  PROVE  Concerns(h, u, slot)' <=> Concerns(h, u, slot)
  BY DEF SameWork, Concerns, Picturing, Slots

\* A slot that a step does not concern stays settled.
LEMMA OtherSlot ==
  ASSUME Inv, Inv', NEW u \in Known, NEW slot \in Slots, Settled(u, slot),
         \A g \in Handlers :
            /\ Concerns(g, u, slot)' <=> Concerns(g, u, slot)
            /\ Concerns(g, u, slot) =>
                 /\ op'[g].kind = op[g].kind /\ op'[g].pc = op[g].pc
                 /\ op'[g].old = op[g].old /\ op'[g].new = op[g].new,
         Picture(u, slot)' = Picture(u, slot),
         \A p \in 1 .. MaxPictures :
            Named(p, u, slot) => (p \in uploads' \ removing' <=> p \in uploads \ removing)
  PROVE  Settled(u, slot)'
<1>1. \A g \in Handlers : Concerns(g, u, slot) =>
        /\ op[g].old \in 0 .. MaxPictures /\ op[g].new \in 0 .. MaxPictures
        /\ op[g].old # 0 => (op[g].old \in uploads' \ removing' <=> op[g].old \in uploads \ removing)
        /\ op[g].new # 0 => (op[g].new \in uploads' \ removing' <=> op[g].new \in uploads \ removing)
  <2> SUFFICES ASSUME NEW g \in Handlers, Concerns(g, u, slot)
               PROVE  /\ op[g].old \in 0 .. MaxPictures /\ op[g].new \in 0 .. MaxPictures
                      /\ op[g].old # 0 => Named(op[g].old, u, slot)
                      /\ op[g].new # 0 => Named(op[g].new, u, slot)
    BY BoundsAssumption
  <2> QED
    BY OwnRequest DEF RequestOK, Request, Named
<1>2. /\ Picture(u, slot) \in 0 .. MaxPictures
      /\ Picture(u, slot) # 0 =>
           (Picture(u, slot) \in uploads' \ removing' <=> Picture(u, slot) \in uploads \ removing)
  BY RowPictures, BoundsAssumption DEF Named
<1>3. 0 \notin uploads' \ removing'
  BY DEF Inv, TypeOK
<1>4. \A g, h \in Handlers :
        Concerns(g, u, slot)' /\ Concerns(h, u, slot)' /\ op'[g].kind \in Slots => g = h
  BY DEF Settled
<1>5. ASSUME NEW h \in Handlers, Concerns(h, u, slot)'
      PROVE  /\ op'[h].kind = "profile" \/ op'[h].pc # "start" => op'[h].old = Picture(u, slot)'
             /\ op'[h].new \in OnDisk'
             /\ op'[h].pc = "commit" => op'[h].old \notin uploads' \ removing'
  BY <1>1, <1>3, <1>5 DEF Settled, OnDisk
<1>6. ASSUME \A h \in Handlers : Concerns(h, u, slot)' => op'[h].pc # "commit"
      PROVE  Picture(u, slot)' \in OnDisk'
  BY <1>2, <1>6 DEF Settled, OnDisk
<1> QED
  BY <1>4, <1>5, <1>6 DEF Settled

\* Users stay, or go for good, and a row keeps its pictures; a new one has
\* none, and one that loses its preview is noted.
RowsFollow ==
    /\ \A u \in Users : /\ users[u] # None => users'[u] # None
                        /\ users[u] = Gone => users'[u] = Gone
    /\ \A u \in Known', slot \in Slots :
         \/ users[u] = None /\ Picture(u, slot)' = 0
         \/ u \in Known /\ Picture(u, slot)' = Picture(u, slot)
         \/ u \in Known /\ <<u, slot>> \in loose' /\ Picture(u, slot)' = 0

\* Nothing happens to pictures, nor to the requests on them.
LEMMA ElsewhereStep ==
  ASSUME Inv, Inv', Shelf, UNCHANGED pictures, loose \subseteq loose', RowsFollow,
         \A h \in Handlers : SameWork(h)
  PROVE  Shelf'
<1>1. UNCHANGED <<uploads, removing, sent>>
  BY DEF pictures
<1>2. \A h \in Handlers, u \in Users, slot \in Slots : Concerns(h, u, slot)' <=> Concerns(h, u, slot)
  BY SameConcerns
<1>3. \A h \in Handlers, u \in Users, slot \in Slots : Concerns(h, u, slot) =>
        /\ op'[h].kind = op[h].kind /\ op'[h].pc = op[h].pc
        /\ op'[h].old = op[h].old /\ op'[h].new = op[h].new
  BY DEF Concerns, SameWork, Picturing, Slots
<1>4. \A p \in 1 .. MaxPictures, u \in Users, slot \in Slots :
        Named(p, u, slot)' => Named(p, u, slot)
  <2> SUFFICES ASSUME NEW p \in 1 .. MaxPictures, NEW u \in Users, NEW slot \in Slots,
                      Named(p, u, slot)'
               PROVE  Named(p, u, slot)
    OBVIOUS
  <2>1. CASE u \in Known' /\ Picture(u, slot)' = p
    <3>1. p # 0
      BY BoundsAssumption
    <3>2. u \in Known /\ Picture(u, slot) = p
      BY <2>1, <3>1 DEF RowsFollow
    <3> QED
      BY <3>2 DEF Named
  <2>2. CASE \E h \in Handlers : Concerns(h, u, slot)' /\ p \in {op'[h].old, op'[h].new}
    BY <1>2, <1>3, <2>2 DEF Named
  <2> QED
    BY <2>1, <2>2 DEF Named
<1>5. Numbered' /\ OneOwner' /\ OnlyPreviewsGo'
  BY <1>1, <1>4, NamesKept
<1>6. WorksOK'
  <2> SUFFICES ASSUME NEW h \in Handlers PROVE WorkOK(users', op'[h])
    BY DEF WorksOK
  <2>1. SameWork(h) /\ WorkOK(users, op[h]) /\ RequestOK(op[h])
    BY OwnWork
  <2> QED
    BY <2>1 DEF SameWork, WorkOK, RowsFollow, Picturing, Slots, RequestOK
<1>7. AllSettled'
  <2> SUFFICES ASSUME NEW u \in Known', NEW slot \in Slots, <<u, slot>> \notin loose'
               PROVE  Settled(u, slot)'
    BY DEF AllSettled
  <2>1. u \in Users
    BY DEF Known
  <2>2. CASE users[u] = None
    <3>1. \A h \in Handlers : ~Concerns(h, u, slot)
      BY <2>1, <2>2, OwnWork DEF WorkOK, Concerns, Picturing, Slots
    <3>2. Picture(u, slot)' = 0
      BY <2>2 DEF RowsFollow, Known
    <3> QED
      BY <1>2, <2>1, <3>1, <3>2 DEF Settled, OnDisk
  <2>3. CASE u \in Known /\ Picture(u, slot)' = Picture(u, slot)
    <3>1. Settled(u, slot)
      BY <2>3 DEF Shelf, AllSettled
    <3> QED
      BY <1>1, <1>2, <1>3, <2>1, <2>3, <3>1, OtherSlot
  <2> QED
    BY <2>2, <2>3 DEF RowsFollow
<1>8. NothingElse'
  <2> SUFFICES ASSUME loose' = {}, \A u \in Users : users'[u] # Gone,
                      NEW p \in uploads \ removing
               PROVE  \/ \E u \in Known', slot \in Slots : Picture(u, slot)' = p
                      \/ \E h \in Handlers : op'[h].new = p
    BY <1>1 DEF NothingElse
  <2>1. loose = {} /\ p # 0 /\ \A u \in Users : users[u] # Gone
    BY DEF RowsFollow, Inv, TypeOK
  <2>2. \A u \in Known : u \in Known'
    BY DEF RowsFollow, Known
  <2>3. CASE \E u \in Known, slot \in Slots : Picture(u, slot) = p
    <3>1. PICK u \in Known, slot \in Slots : Picture(u, slot) = p
      BY <2>3
    <3>2. Picture(u, slot)' = p
      BY <2>2, <3>1 DEF RowsFollow, Known
    <3> QED
      BY <2>2, <3>2
  <2>4. CASE \E h \in Handlers : op[h].new = p
    BY <2>1, <2>4, OwnWork DEF SameWork, WorkOK, Picturing
  <2> QED
    BY <2>1, <2>3, <2>4 DEF Shelf, NothingElse
<1> QED
  BY <1>5, <1>6, <1>7, <1>8 DEF Shelf

\* A request ends that has written no picture, or that is noted.
LEMMA EndsStep ==
  ASSUME Inv, Inv', Shelf, UNCHANGED <<users, pictures>>, NEW h \in Handlers, Done(h),
         loose \subseteq loose',
         op[h].new # 0 => <<op[h].user, Slot(h)>> \in loose',
         op[h].kind \in Slots /\ op[h].new = 0 => op[h].pc = "start"
  PROVE  Shelf'
<1>1. /\ UNCHANGED <<uploads, removing, sent, users, Known>>
      /\ \A u, slot : Picture(u, slot)' = Picture(u, slot)
  BY DEF pictures, Known, Picture
<1>2. /\ op'[h] = Idle /\ \A g \in Handlers \ {h} : op'[g] = op[g]
      /\ \A u \in Users, slot \in Slots : ~Concerns(h, u, slot)'
      /\ \A g \in Handlers \ {h} : \A u, slot : Concerns(g, u, slot)' <=> Concerns(g, u, slot)
  BY DEF Done, Idle, Inv, RequestsOK, Concerns, Slots
<1>3. \A p \in 1 .. MaxPictures, u \in Users, slot \in Slots :
        Named(p, u, slot)' => Named(p, u, slot)
  BY <1>1, <1>2 DEF Named
<1>4. Numbered' /\ OneOwner' /\ OnlyPreviewsGo'
  BY <1>1, <1>3, NamesKept
<1>5. WorksOK'
  BY <1>1, <1>2, OwnWork DEF WorksOK, WorkOK, Idle, Slots, Picturing
<1>6. AllSettled'
  <2> SUFFICES ASSUME NEW u \in Known, NEW slot \in Slots, <<u, slot>> \notin loose'
               PROVE  Settled(u, slot)'
    BY <1>1 DEF AllSettled
  <2>1. Settled(u, slot) /\ u \in Users
    BY DEF Shelf, AllSettled, Known
  <2>2. Concerns(h, u, slot) => op[h].pc # "commit"
    BY OwnWork DEF Concerns, WorkOK, Slots, Slot
  <2> QED
    BY <1>1, <1>2, <2>1, <2>2 DEF Settled, OnDisk
<1>7. NothingElse'
  <2>1. loose' = {} => op[h].new = 0 /\ loose = {}
    OBVIOUS
  <2>2. \A p \in uploads : p # 0
    BY DEF Inv, TypeOK
  <2> QED
    BY <1>1, <1>2, <2>1, <2>2 DEF Shelf, NothingElse
<1> QED
  BY <1>4, <1>5, <1>6, <1>7 DEF Shelf

\* The process, the disk or the database fails.
LEMMA AbortStep ==
  ASSUME Inv, Inv', Shelf, UNCHANGED <<users, pictures>>, NEW h \in Handlers, Abort(h),
         op[h].new # 0 \/ op[h].kind \notin Slots
  PROVE  Shelf'
<1>1. op[h].new # 0 => op[h].kind # "clear"
  BY OwnWork DEF WorkOK, Slots
<1>2. op[h].new # 0 => Hit(h) = {<<op[h].user, Slot(h)>>}
  BY <1>1 DEF Hit
<1>3. Done(h) /\ loose' = loose \cup Hit(h)
  BY DEF Abort
<1> QED
  BY <1>2, <1>3, EndsStep

\* A picture that waits for its deletion goes.
LEMMA RemovedStep ==
  ASSUME Inv, Inv', Shelf, NEW p, RemoveOld(p)
  PROVE  Shelf'
<1>1. /\ p \in removing /\ removing' = removing \ {p} /\ uploads' = uploads \ {p}
      /\ UNCHANGED <<users, sent, op, loose, Known>>
      /\ \A u, slot : Picture(u, slot)' = Picture(u, slot)
      /\ \A g, u, slot : Concerns(g, u, slot)' <=> Concerns(g, u, slot)
  BY DEF RemoveOld, accounts, Known, Picture, Concerns
<1>2. \A q \in 1 .. MaxPictures, u \in Users, slot \in Slots :
        Named(q, u, slot)' => Named(q, u, slot)
  BY <1>1 DEF Named
<1>3. Numbered' /\ OneOwner' /\ OnlyPreviewsGo'
  BY <1>1, <1>2, NamesKept
<1>4. uploads' \ removing' = uploads \ removing
  BY <1>1
<1>5. WorksOK'
  BY <1>1 DEF Shelf, WorksOK
<1>6. AllSettled'
  BY <1>1, <1>4, OtherSlot DEF Shelf, AllSettled, Known
<1>7. NothingElse'
  BY <1>1, <1>4 DEF Shelf, NothingElse
<1> QED
  BY <1>3, <1>5, <1>6, <1>7 DEF Shelf

\* A request that works on one slot leaves the others settled.
LEMMA OneSlotStep ==
  ASSUME Inv, Inv', Shelf, NEW h \in Handlers, NEW u0 \in Users, NEW s0 \in Slots,
         \A g \in Handlers \ {h} : op'[g] = op[g],
         \A u \in Users, s \in Slots : <<u, s>> # <<u0, s0>> =>
            ~Concerns(h, u, s) /\ ~Concerns(h, u, s)',
         Known' = Known,
         \A u \in Known, s \in Slots : <<u, s>> # <<u0, s0>> => Picture(u, s)' = Picture(u, s),
         loose \subseteq loose',
         \A p \in 1 .. MaxPictures, u \in Users, s \in Slots :
            Named(p, u, s) /\ <<u, s>> # <<u0, s0>> =>
               (p \in uploads' \ removing' <=> p \in uploads \ removing),
         u0 \in Known /\ <<u0, s0>> \notin loose' => Settled(u0, s0)'
  PROVE  AllSettled'
<1> SUFFICES ASSUME NEW u \in Known, NEW s \in Slots, <<u, s>> \notin loose',
                    <<u, s>> # <<u0, s0>>
             PROVE  Settled(u, s)'
  BY DEF AllSettled
<1>1. Settled(u, s) /\ u \in Users
  BY DEF Shelf, AllSettled, Known
<1>2. \A g \in Handlers :
        /\ Concerns(g, u, s)' <=> Concerns(g, u, s)
        /\ Concerns(g, u, s) => op'[g] = op[g]
  BY <1>1 DEF Concerns
<1> QED
  BY <1>1, <1>2, OtherSlot

\* Rows that stay where they are, as far as requests can tell.
LEMMA WorksKept ==
  ASSUME Inv, Shelf, NEW h \in Handlers, \A g \in Handlers \ {h} : op'[g] = op[g],
         \A u \in Users : users[u] # None => users'[u] # None, WorkOK(users', op'[h])
  PROVE  WorksOK'
<1> SUFFICES ASSUME NEW g \in Handlers \ {h} PROVE WorkOK(users', op[g])
  BY DEF WorksOK
<1> QED
  BY OwnWork DEF WorkOK, Picturing, Slots, RequestOK

\* The slot on which a request of this kind works.
SlotOf(k) == IF k = "preview" THEN "preview" ELSE "profile"

LEMMA ConcernsOne ==
  ASSUME NEW h, NEW u, NEW s \in Slots
  PROVE  Concerns(h, u, s) <=> /\ op[h].kind \in Picturing
                              /\ u = op[h].user /\ s = SlotOf(op[h].kind)
  BY DEF Concerns, Picturing, Slots, SlotOf

LEMMA ConcernsOneNext ==
  ASSUME NEW h, NEW u, NEW s \in Slots
  PROVE  Concerns(h, u, s)' <=> /\ op'[h].kind \in Picturing
                               /\ u = op'[h].user /\ s = SlotOf(op'[h].kind)
  BY DEF Concerns, Picturing, Slots, SlotOf

\* A request on a picture begins: whoever it overlaps with is noted.
LEMMA BeginsStep ==
  ASSUME Inv, Inv', Shelf, UNCHANGED <<users, pictures>>, NEW h \in Handlers, op[h] = Idle,
         NEW r, op' = [op EXCEPT ![h] = r],
         r.kind \in Picturing, r.pc = "start", r.new = 0, r.user \in Known,
         r.old = IF r.kind = "profile" THEN users[r.user].profile ELSE 0,
         loose \subseteq loose',
         \A g \in Handlers \ {h} :
            op[g].user = r.user /\ Overlap(r.kind, op[g].kind) =>
               <<r.user, SlotOf(r.kind)>> \in loose'
  PROVE  Shelf'
<1> DEFINE u0 == r.user
           s0 == SlotOf(r.kind)
<1>1. /\ UNCHANGED <<uploads, removing, sent, users, Known>>
      /\ \A u, slot : Picture(u, slot)' = Picture(u, slot)
      /\ op'[h] = r /\ \A g \in Handlers \ {h} : op'[g] = op[g]
      /\ u0 \in Users /\ s0 \in Slots /\ users[u0] # None
  BY DEF pictures, Known, Picture, Inv, RequestsOK, SlotOf, Slots
<1>2. \A u \in Users, s \in Slots :
        /\ ~Concerns(h, u, s)
        /\ Concerns(h, u, s)' <=> u = u0 /\ s = s0
  BY <1>1, ConcernsOne, ConcernsOneNext DEF Idle, Picturing, Slots
<1>3. \A g \in Handlers \ {h} : \A u, s : Concerns(g, u, s)' <=> Concerns(g, u, s)
  BY <1>1 DEF Concerns
<1>4. r.old = 0 \/ (r.kind = "profile" /\ r.old = Picture(u0, s0))
  BY DEF SlotOf, Picture
<1>5. \A p \in 1 .. MaxPictures, u \in Users, s \in Slots : Named(p, u, s)' => Named(p, u, s)
  <2> SUFFICES ASSUME NEW p \in 1 .. MaxPictures, NEW u \in Users, NEW s \in Slots,
                      NEW g \in Handlers, Concerns(g, u, s)', p \in {op'[g].old, op'[g].new}
               PROVE  Named(p, u, s)
    BY <1>1 DEF Named
  <2>1. CASE g = h
    BY <1>1, <1>2, <1>4, <2>1, BoundsAssumption DEF Named
  <2>2. CASE g # h
    BY <1>1, <1>3, <2>2 DEF Named
  <2> QED
    BY <2>1, <2>2
<1>6. Numbered' /\ OneOwner' /\ OnlyPreviewsGo'
  BY <1>1, <1>5, NamesKept
<1>7. WorksOK'
  <2>1. WorkOK(users', r)
    BY <1>1 DEF WorkOK, Picturing, Slots
  <2> QED
    BY <1>1, <2>1, WorksKept
<1>8. ASSUME <<u0, s0>> \notin loose' PROVE Settled(u0, s0)'
  <2>1. Settled(u0, s0)
    BY <1>8, <1>1 DEF Shelf, AllSettled
  <2>2. \A g \in Handlers \ {h} : Concerns(g, u0, s0) =>
          ~Overlap(r.kind, op[g].kind) /\ op[g].kind \in Picturing /\ s0 = SlotOf(op[g].kind)
    BY <1>1, <1>8, ConcernsOne
  <2>3. \A g \in Handlers \ {h} : Concerns(g, u0, s0) =>
          r.kind = "details" /\ op[g].kind = "details"
    BY <2>2 DEF Overlap, SlotOf, Picturing, Slots
  <2> HIDE DEF u0, s0
  <2>4. \A g \in Handlers \ {h} : Concerns(g, u0, s0) => op[g].pc # "commit"
    BY <2>3, OwnWork DEF WorkOK
  <2>5. Picture(u0, s0) \in OnDisk
    BY <1>1, <1>2, <2>1, <2>4 DEF Settled
  <2>6. \A g, i \in Handlers :
          Concerns(g, u0, s0)' /\ Concerns(i, u0, s0)' /\ op'[g].kind \in Slots => g = i
    BY <1>1, <1>2, <1>3, <2>3 DEF Slots
  <2>7. ASSUME NEW g \in Handlers, Concerns(g, u0, s0)'
        PROVE  /\ op'[g].kind = "profile" \/ op'[g].pc # "start" => op'[g].old = Picture(u0, s0)
               /\ op'[g].new \in OnDisk /\ op'[g].pc # "commit"
    <3>1. CASE g = h
      BY <1>1, <3>1 DEF OnDisk, u0, s0, Picture, SlotOf
    <3>2. CASE g # h
      BY <1>1, <1>3, <2>1, <2>4, <2>7, <3>2 DEF Settled
    <3> QED
      BY <3>1, <3>2
  <2> QED
    BY <1>1, <2>5, <2>6, <2>7 DEF Settled, OnDisk
<1>9. AllSettled'
  <2> HIDE DEF u0, s0
  <2>1. \A u \in Users, s \in Slots : <<u, s>> # <<u0, s0>> =>
          ~Concerns(h, u, s) /\ ~Concerns(h, u, s)'
    BY <1>2
  <2> QED
    BY <1>1, <1>8, <2>1, OneSlotStep
<1>10. NothingElse'
  BY <1>1 DEF Shelf, NothingElse, Idle, Inv, TypeOK
<1> QED
  BY <1>6, <1>7, <1>9, <1>10 DEF Shelf

\* One picture of one row is replaced.
LEMMA PictureSet ==
  ASSUME Inv, NEW u \in Known, NEW q \in 0 .. MaxPictures, NEW slot \in Slots,
         users' = IF slot = "profile" THEN [users EXCEPT ![u].profile = q]
                                      ELSE [users EXCEPT ![u].preview = q]
  PROVE  /\ Known' = Known /\ Picture(u, slot)' = q
         /\ \A w \in Known, s \in Slots : <<w, s>> # <<u, slot>> => Picture(w, s)' = Picture(w, s)
         /\ \A w \in Users : /\ users[w] # None => users'[w] # None
                             /\ users[w] = Gone => users'[w] = Gone
                             /\ users'[w] = Gone => users[w] = Gone
<1>1. users[u] \in Row /\ u \in Users /\ users \in [Users -> Row \cup {None, Gone}]
  BY KnownRows DEF Inv, TypeOK
<1> DEFINE row == IF slot = "profile" THEN [users[u] EXCEPT !.profile = q]
                                      ELSE [users[u] EXCEPT !.preview = q]
<1>2. /\ row \in Row
      /\ slot = "profile" => row.profile = q /\ row.preview = users[u].preview
      /\ slot # "profile" => row.preview = q /\ row.profile = users[u].profile
  BY <1>1 DEF Row
<1>3. users' = [users EXCEPT ![u] = row]
  BY <1>1
<1> HIDE DEF row
<1>4. users'[u] = row /\ \A w \in Users : w # u => users'[w] = users[w]
  BY <1>1, <1>3
<1>5. Known' = Known
  BY <1>1, <1>2, <1>4, RowsAreThere DEF Known
<1>6. Picture(u, slot)' = q
  BY <1>2, <1>4 DEF Picture
<1>7. ASSUME NEW w \in Known, NEW s \in Slots, <<w, s>> # <<u, slot>>
      PROVE  Picture(w, s)' = Picture(w, s)
  <2>1. CASE w # u
    BY <1>4, <2>1 DEF Picture, Known
  <2>2. CASE w = u
    <3>1. s # slot
      BY <1>7, <2>2
    <3> QED
      BY <1>2, <1>4, <2>2, <3>1 DEF Picture, Slots
  <2> QED
    BY <2>1, <2>2
<1> QED
  BY <1>1, <1>2, <1>4, <1>5, <1>6, <1>7, RowsAreThere

\* A request stays with its user, its slot and its pictures, or knows the one
\* that the row names.
LEMMA GoesOnStep ==
  ASSUME Inv, Inv', Shelf, UNCHANGED <<users, sent>>, NEW h \in Handlers,
         op[h].kind \in Picturing, NEW r, op' = [op EXCEPT ![h] = r],
         r.kind = op[h].kind, r.user = op[h].user, r.new = op[h].new, WorkOK(users, r),
         r.old = op[h].old \/ (op[h].user \in Known /\ r.old = Picture(op[h].user, SlotOf(op[h].kind))),
         loose \subseteq loose', uploads' \subseteq uploads,
         \A p \in removing' : p \in removing \/ (p = op[h].old /\ op[h].kind = "preview" /\ p # 0),
         \A p \in uploads \ removing : p \notin uploads' \ removing' => p = op[h].old,
         uploads' \ removing' \subseteq uploads \ removing,
         r.user \in Known /\ <<r.user, SlotOf(r.kind)>> \notin loose' =>
            Settled(r.user, SlotOf(r.kind))'
  PROVE  Shelf'
<1> DEFINE u0 == r.user
           s0 == SlotOf(r.kind)
<1>1. /\ UNCHANGED Known /\ \A u, slot : Picture(u, slot)' = Picture(u, slot)
      /\ op'[h] = r /\ \A g \in Handlers \ {h} : op'[g] = op[g]
      /\ u0 \in Users /\ s0 \in Slots
  BY OwnWork DEF Known, Picture, Inv, RequestsOK, RequestOK, SlotOf, Slots, Picturing
<1>2. \A u \in Users, s \in Slots :
        /\ Concerns(h, u, s) <=> u = u0 /\ s = s0
        /\ Concerns(h, u, s)' <=> u = u0 /\ s = s0
  BY <1>1, ConcernsOne, ConcernsOneNext
<1>3. \A g \in Handlers \ {h} : \A u, s : Concerns(g, u, s)' <=> Concerns(g, u, s)
  BY <1>1 DEF Concerns
<1>4. /\ op[h].old \in 0 .. MaxPictures
      /\ op[h].old # 0 => Named(op[h].old, u0, s0)
  BY <1>1, <1>2, OwnWork DEF Named
<1> HIDE DEF u0, s0
<1>5. \A p \in 1 .. MaxPictures, u \in Users, s \in Slots : Named(p, u, s)' => Named(p, u, s)
  <2> SUFFICES ASSUME NEW p \in 1 .. MaxPictures, NEW u \in Users, NEW s \in Slots,
                      NEW g \in Handlers, Concerns(g, u, s)', p \in {op'[g].old, op'[g].new}
               PROVE  Named(p, u, s)
    BY <1>1 DEF Named
  <2>1. CASE g = h
    BY <1>1, <1>2, <2>1 DEF Named, u0, s0
  <2>2. CASE g # h
    BY <1>1, <1>3, <2>2 DEF Named
  <2> QED
    BY <2>1, <2>2
<1>6. Numbered' /\ OneOwner' /\ OnlyPreviewsGo'
  <2>1. op[h].kind = "preview" => s0 = "preview"
    BY DEF s0, SlotOf
  <2>2. \A p \in removing' :
          p \in removing \/ (p \in 1 .. MaxPictures /\ \E u \in Users : Named(p, u, "preview"))
    BY <1>1, <1>4, <2>1, BoundsAssumption
  <2> QED
    BY <1>5, <2>2, NamesKept
<1>7. WorksOK'
  BY <1>1, WorksKept
<1>8. AllSettled'
  <2>1. \A u \in Users, s \in Slots : <<u, s>> # <<u0, s0>> =>
          ~Concerns(h, u, s) /\ ~Concerns(h, u, s)'
    BY <1>2
  <2>2. \A p \in 1 .. MaxPictures, u \in Users, s \in Slots :
          Named(p, u, s) /\ <<u, s>> # <<u0, s0>> =>
            (p \in uploads' \ removing' <=> p \in uploads \ removing)
    <3>1. \A p \in 1 .. MaxPictures, u \in Users, s \in Slots :
            Named(p, u, s) /\ Named(p, u0, s0) => u = u0 /\ s = s0
      BY <1>1 DEF Shelf, OneOwner
    <3> QED
      BY <1>4, <3>1, BoundsAssumption
  <2>3. u0 \in Known /\ <<u0, s0>> \notin loose' => Settled(u0, s0)'
    BY DEF u0, s0
  <2>4. /\ Known' = Known /\ u0 \in Users /\ s0 \in Slots
        /\ \A g \in Handlers \ {h} : op'[g] = op[g]
        /\ \A u \in Known, s \in Slots : <<u, s>> # <<u0, s0>> => Picture(u, s)' = Picture(u, s)
    BY <1>1
  <2> QED
    BY <2>1, <2>2, <2>3, <2>4, OneSlotStep
<1>9. NothingElse'
  BY <1>1 DEF Shelf, NothingElse
<1> QED
  BY <1>6, <1>7, <1>8, <1>9 DEF Shelf

\* The details read the row ...
LEMMA DetailsReadShelf ==
  ASSUME Inv, Inv', Shelf, NEW h \in Handlers, DetailsRead(h)
  PROVE  Shelf'
<1>1. /\ op[h].kind = "details" /\ op[h].pc = "start"
      /\ UNCHANGED <<users, pictures, loose, uploads, removing, sent>>
  BY DEF DetailsRead, At, accounts, pictures
<1>2. WorkOK(users, op[h]) /\ RequestOK(op[h])
  BY OwnWork
<1>3. CASE Done(h)
  BY <1>1, <1>2, <1>3, EndsStep DEF WorkOK, Slots
<1>4. CASE ~Done(h)
  <2>1. PICK r : r = [op[h] EXCEPT !.pc = "write", !.old = users[op[h].user].profile]
    OBVIOUS
  <2>2. op' = [op EXCEPT ![h] = r] /\ op[h].user \in Known
    BY <1>4, <2>1 DEF DetailsRead, Inv, RequestsOK
  <2>3. /\ r.kind = "details" /\ r.pc = "write" /\ r.user = op[h].user /\ r.new = op[h].new
        /\ r.old = users[op[h].user].profile
    BY <1>1, <1>2, <2>1 DEF RequestOK, Request
  <2>4. WorkOK(users, r) /\ SlotOf(r.kind) = "profile" /\ r.old = Picture(r.user, "profile")
    BY <1>1, <1>2, <2>3 DEF WorkOK, Slots, Picturing, SlotOf, Picture
  <2>5. ASSUME <<r.user, "profile">> \notin loose
        PROVE  Settled(r.user, "profile")'
    <3>1. Settled(r.user, "profile") /\ Concerns(h, r.user, "profile")
      BY <1>1, <2>2, <2>3, <2>5 DEF Shelf, AllSettled, Slots, Concerns
    <3>2. /\ op'[h] = r /\ \A g \in Handlers \ {h} : op'[g] = op[g]
          /\ \A g \in Handlers : Concerns(g, r.user, "profile")' <=> Concerns(g, r.user, "profile")
          /\ Picture(r.user, "profile")' = Picture(r.user, "profile")
      BY <1>1, <2>2, <2>3 DEF Inv, RequestsOK, Concerns, Picture
    <3> QED
      BY <1>1, <2>3, <2>4, <3>1, <3>2 DEF Settled, OnDisk, Slots
  <2> QED
    BY <1>1, <2>2, <2>3, <2>4, <2>5, GoesOnStep DEF Picturing
<1> QED
  BY <1>3, <1>4

\* ... and write it back, which changes the picture only beside another request.
LEMMA RowSettledStep ==
  ASSUME Inv, Inv', Shelf, UNCHANGED <<pictures, loose>>, NEW h \in Handlers, Done(h),
         NEW u0 \in Known, NEW s0 \in Slots, Concerns(h, u0, s0),
         NEW q \in {op[h].old, op[h].new}, q \in 0 .. MaxPictures,
         users' = IF s0 = "profile" THEN [users EXCEPT ![u0].profile = q]
                                    ELSE [users EXCEPT ![u0].preview = q],
         op[h].kind \in Slots => op[h].pc = "commit" /\ q = op[h].new,
         op[h].kind = "details" => op[h].pc = "write" /\ q = op[h].old
  PROVE  Shelf'
<1>1. /\ UNCHANGED <<uploads, removing, sent, Known>> /\ u0 \in Users
      /\ op'[h] = Idle /\ \A g \in Handlers \ {h} : op'[g] = op[g]
      /\ Picture(u0, s0)' = q
      /\ \A w \in Known, s \in Slots : <<w, s>> # <<u0, s0>> => Picture(w, s)' = Picture(w, s)
      /\ \A w \in Users : /\ users[w] # None => users'[w] # None
                          /\ users'[w] = Gone => users[w] = Gone
  <2>1. /\ UNCHANGED <<uploads, removing, sent>> /\ u0 \in Users
        /\ op'[h] = Idle /\ \A g \in Handlers \ {h} : op'[g] = op[g]
    BY DEF pictures, Done, Inv, RequestsOK, Known
  <2>2. /\ Known' = Known /\ Picture(u0, s0)' = q
        /\ \A w \in Known, s \in Slots : <<w, s>> # <<u0, s0>> => Picture(w, s)' = Picture(w, s)
        /\ \A w \in Users : /\ users[w] # None => users'[w] # None
                            /\ users[w] = Gone => users'[w] = Gone
                            /\ users'[w] = Gone => users[w] = Gone
    <3> HIDE DEF Inv, Shelf
    <3> QED
      BY PictureSet
  <2> QED
    BY <2>1, <2>2
<1>2. \A u \in Users, s \in Slots :
        /\ Concerns(h, u, s) <=> u = u0 /\ s = s0
        /\ ~Concerns(h, u, s)'
  BY <1>1, ConcernsOne, ConcernsOneNext DEF Idle, Picturing, Slots
<1>3. \A g \in Handlers \ {h} : \A u, s : Concerns(g, u, s)' <=> Concerns(g, u, s)
  BY <1>1 DEF Concerns
<1>4. q # 0 => Named(q, u0, s0)
  BY DEF Named
<1>5. \A p \in 1 .. MaxPictures, u \in Users, s \in Slots : Named(p, u, s)' => Named(p, u, s)
  <2> SUFFICES ASSUME NEW p \in 1 .. MaxPictures, NEW u \in Users, NEW s \in Slots, Named(p, u, s)'
               PROVE  Named(p, u, s)
    OBVIOUS
  <2>1. CASE u \in Known' /\ Picture(u, s)' = p
    <3>1. CASE <<u, s>> = <<u0, s0>>
      BY <1>1, <1>4, <2>1, <3>1, BoundsAssumption
    <3>2. CASE <<u, s>> # <<u0, s0>>
      BY <1>1, <2>1, <3>2 DEF Named
    <3> QED
      BY <3>1, <3>2
  <2>2. ASSUME NEW g \in Handlers, Concerns(g, u, s)', p \in {op'[g].old, op'[g].new}
        PROVE  Named(p, u, s)
    <3>1. g # h
      BY <1>2, <2>2
    <3> QED
      BY <1>1, <1>3, <2>2, <3>1 DEF Named
  <2> QED
    BY <2>1, <2>2 DEF Named
<1>6. Numbered' /\ OneOwner' /\ OnlyPreviewsGo'
  BY <1>1, <1>5, NamesKept
<1>7. WorksOK'
  <2>1. WorkOK(users', Idle)
    BY DEF WorkOK, Idle, Slots, Picturing
  <2> QED
    BY <1>1, <2>1, WorksKept
<1>8. ASSUME <<u0, s0>> \notin loose
      PROVE  /\ Settled(u0, s0)'
             /\ Picture(u0, s0)' = Picture(u0, s0) \/ (Picture(u0, s0) \notin uploads \ removing /\ q = op[h].new)
  <2>1. Settled(u0, s0)
    BY <1>8 DEF Shelf, AllSettled
  <2>2. CASE op[h].kind \in Slots
    <3>1. \A g \in Handlers : ~Concerns(g, u0, s0)'
      <4>1. \A i \in Handlers : Concerns(i, u0, s0) => i = h
        BY <2>1, <2>2 DEF Settled
      <4> QED
        BY <1>1, <1>2, <1>3, <4>1, KnownRows
    <3>2. q \in OnDisk /\ op[h].old \notin uploads \ removing /\ op[h].old = Picture(u0, s0)
      BY <2>1, <2>2 DEF Settled
    <3> QED
      BY <1>1, <2>2, <3>1, <3>2 DEF Settled, OnDisk
  <2>3. CASE op[h].kind = "details"
    <3>1. q = Picture(u0, s0)
      BY <2>1, <2>3 DEF Settled
    <3> QED
      BY <1>1, <1>2, <1>3, <2>1, <2>3, <3>1 DEF Settled, OnDisk
  <2> QED
    BY <2>2, <2>3 DEF Concerns
<1>9. AllSettled'
  <2>1. \A u \in Users, s \in Slots : <<u, s>> # <<u0, s0>> =>
          ~Concerns(h, u, s) /\ ~Concerns(h, u, s)'
    BY <1>2
  <2> QED
    BY <1>1, <1>8, <2>1, OneSlotStep
<1>10. NothingElse'
  <2> SUFFICES ASSUME loose = {}, \A u \in Users : users[u] # Gone, NEW p \in uploads \ removing
               PROVE  \/ \E u \in Known, s \in Slots : Picture(u, s)' = p
                      \/ \E g \in Handlers : op'[g].new = p
    BY <1>1, GoneStays DEF NothingElse, Known
  <2>1. CASE \E u \in Known, s \in Slots : Picture(u, s) = p
    BY <1>1, <1>8, <2>1
  <2>2. CASE \E g \in Handlers \ {h} : op[g].new = p
    BY <1>1, <2>2
  <2>3. CASE op[h].new = p
    <3>1. p # 0 /\ op[h].kind \in Slots
      BY <2>3, OwnWork DEF Inv, TypeOK, WorkOK
    <3> QED
      BY <1>1, <2>3, <3>1
  <2> QED
    BY <2>1, <2>2, <2>3 DEF Shelf, NothingElse
<1> QED
  BY <1>6, <1>7, <1>9, <1>10 DEF Shelf

LEMMA DetailsWriteShelf ==
  ASSUME Inv, Inv', Shelf, NEW h \in Handlers, DetailsWrite(h)
  PROVE  Shelf'
<1>1. /\ op[h].kind = "details" /\ op[h].pc = "write" /\ Done(h)
      /\ UNCHANGED <<pictures, loose>>
  BY DEF DetailsWrite, At
<1>2. WorkOK(users, op[h]) /\ op[h].old \in 0 .. MaxPictures
  BY OwnWork
<1>3. CASE UNCHANGED users
  BY <1>1, <1>2, <1>3, EndsStep DEF WorkOK, Slots
<1>4. CASE ~UNCHANGED users
  <2>1. op[h].user \in Known /\ users' = [users EXCEPT ![op[h].user].profile = op[h].old]
    BY <1>4 DEF DetailsWrite
  <2>2. Concerns(h, op[h].user, "profile") /\ "profile" \in Slots
    BY <1>1 DEF Concerns, Slots
  <2>3. PICK u0 \in Known, q \in {op[h].old, op[h].new} : u0 = op[h].user /\ q = op[h].old
    BY <2>1
  <2>4. users' = IF "profile" = "profile" THEN [users EXCEPT ![u0].profile = q]
                                          ELSE [users EXCEPT ![u0].preview = q]
    BY <2>1, <2>3
  <2>5. Concerns(h, u0, "profile") /\ q \in 0 .. MaxPictures
    BY <1>2, <2>2, <2>3
  <2>6. /\ op[h].kind \in Slots => op[h].pc = "commit" /\ q = op[h].new
        /\ op[h].kind = "details" => op[h].pc = "write" /\ q = op[h].old
    BY <1>1, <2>3 DEF Slots
  <2> QED
    BY <1>1, <2>2, <2>4, <2>5, <2>6, RowSettledStep
<1> QED
  BY <1>3, <1>4

\* The new picture has a number of its own.
LEMMA WrittenShelf ==
  ASSUME Inv, Inv', Shelf, UNCHANGED <<users, loose>>, NEW h \in Handlers, NEW k \in Slots,
         At(h, k, "start"), NEW u0 \in Users, op[h].user = u0, NEW old \in 0 .. MaxPictures,
         Written(h, old),
         old = 0 \/ Named(old, u0, k),
         u0 \in Known /\ <<u0, k>> \notin loose => old = Picture(u0, k)
  PROVE  Shelf'
<1>1. PICK n : n = sent + 1
  OBVIOUS
<1>2. PICK r : r = [op[h] EXCEPT !.pc = "replace", !.new = n, !.old = old]
  OBVIOUS
<1>3. WorkOK(users, op[h]) /\ RequestOK(op[h]) /\ op[h].kind = k /\ op[h].pc = "start"
  BY OwnWork DEF At
<1>4. /\ sent' = n /\ uploads' = uploads \cup {n} /\ removing' = removing
      /\ n \in 1 .. MaxPictures /\ sent \in 0 .. MaxPictures /\ n = sent + 1
      /\ uploads \subseteq 1 .. sent /\ removing \subseteq 1 .. sent
      /\ n \notin uploads /\ n \notin removing
  BY <1>1, BoundsAssumption DEF Written, Inv, TypeOK, Shelf, Numbered
<1>5. op' = [op EXCEPT ![h] = r]
  BY <1>1, <1>2 DEF Written, Inv, RequestsOK
<1>6. r.kind = k /\ r.pc = "replace" /\ r.user = u0 /\ r.new = n /\ r.old = old
  BY <1>2, <1>3 DEF RequestOK, Request
<1>7. /\ UNCHANGED <<users, Known>> /\ \A u, slot : Picture(u, slot)' = Picture(u, slot)
      /\ op'[h] = r /\ \A g \in Handlers \ {h} : op'[g] = op[g]
  BY <1>5 DEF Known, Picture, Inv, RequestsOK
<1>9. \A u \in Users, s \in Slots :
        /\ Concerns(h, u, s) <=> u = u0 /\ s = k
        /\ Concerns(h, u, s)' <=> u = u0 /\ s = k
  BY <1>3, <1>6, <1>7 DEF Concerns, Slots
<1>10. \A g \in Handlers \ {h} : \A u, s : Concerns(g, u, s)' <=> Concerns(g, u, s)
  BY <1>7 DEF Concerns
<1>11. \A p \in 1 .. MaxPictures, u \in Users, s \in Slots :
         Named(p, u, s)' => Named(p, u, s) \/ (p = n /\ u = u0 /\ s = k)
  <2> SUFFICES ASSUME NEW p \in 1 .. MaxPictures, NEW u \in Users, NEW s \in Slots,
                      NEW g \in Handlers, Concerns(g, u, s)', p \in {op'[g].old, op'[g].new}
               PROVE  Named(p, u, s) \/ (p = n /\ u = u0 /\ s = k)
    BY <1>7 DEF Named
  <2>1. CASE g = h
    BY <1>6, <1>7, <1>9, <2>1, BoundsAssumption
  <2>2. CASE g # h
    BY <1>7, <1>10, <2>2 DEF Named
  <2> QED
    BY <2>1, <2>2
<1>12. \A p \in 1 .. MaxPictures, u \in Users, s \in Slots : Named(p, u, s) => p <= sent /\ p # n
  BY <1>4, BoundsAssumption DEF Shelf, Numbered
<1>13. Numbered'
  <2>1. uploads' \subseteq 1 .. sent' /\ removing' \subseteq 1 .. sent'
    BY <1>4, BoundsAssumption
  <2>2. \A p \in 1 .. MaxPictures, u \in Users, s \in Slots : Named(p, u, s)' => p <= sent'
    BY <1>4, <1>11, <1>12, BoundsAssumption
  <2> QED
    BY <2>1, <2>2 DEF Numbered
<1>14. OneOwner'
  BY <1>11, <1>12 DEF Shelf, OneOwner
<1>15. OnlyPreviewsGo'
  <2>1. \A p \in removing : p \in 1 .. MaxPictures /\ p # n
    BY <1>4 DEF Inv, TypeOK
  <2>2. \A p \in removing, u \in Users : ~Named(p, u, "profile") /\ "profile" \in Slots
    BY DEF Shelf, OnlyPreviewsGo, Slots
  <2>3. \A p \in removing, u \in Users : ~Named(p, u, "profile")'
    BY <1>11, <2>1, <2>2
  <2> QED
    BY <1>4, <2>3 DEF OnlyPreviewsGo
<1>16. old < n
  BY <1>4, <1>12, BoundsAssumption
<1>17. WorksOK'
  <2>1. WorkOK(users', r)
    BY <1>3, <1>4, <1>6, <1>7, <1>16 DEF WorkOK, Slots, Picturing
  <2> QED
    BY <1>7, <2>1, WorksKept
<1>18. ASSUME u0 \in Known, <<u0, k>> \notin loose'
       PROVE  Settled(u0, k)'
  <2>1. Settled(u0, k) /\ <<u0, k>> \notin loose
    BY <1>18 DEF Shelf, AllSettled
  <2>2. \A g \in Handlers : Concerns(g, u0, k) => g = h
    BY <1>3, <1>9, <2>1 DEF Settled
  <2>3. \A g \in Handlers : Concerns(g, u0, k)' => g = h
    BY <1>10, <2>2
  <2>4. Picture(u0, k) \in OnDisk
    BY <1>3, <2>1, <2>2 DEF Settled
  <2>5. old = Picture(u0, k) /\ n \in OnDisk' /\ Picture(u0, k) \in OnDisk'
    BY <1>4, <1>18, <2>1, <2>4 DEF OnDisk
  <2> QED
    BY <1>6, <1>7, <2>3, <2>5 DEF Settled
<1>19. AllSettled'
  <2>1. \A u \in Users, s \in Slots : <<u, s>> # <<u0, k>> =>
          ~Concerns(h, u, s) /\ ~Concerns(h, u, s)'
    BY <1>9
  <2>2. \A p \in 1 .. MaxPictures, u \in Users, s \in Slots :
          Named(p, u, s) => (p \in uploads' \ removing' <=> p \in uploads \ removing)
    BY <1>4, <1>12
  <2> QED
    BY <1>7, <1>18, <2>1, <2>2, OneSlotStep
<1>20. NothingElse'
  <2> SUFFICES ASSUME loose = {}, \A u \in Users : users[u] # Gone,
                      NEW p \in uploads' \ removing'
               PROVE  \/ \E u \in Known, s \in Slots : Picture(u, s) = p
                      \/ \E g \in Handlers : op'[g].new = p
    BY <1>7 DEF NothingElse
  <2>1. CASE p = n
    BY <1>6, <1>7, <2>1
  <2>2. CASE p \in uploads \ removing
    <3>1. p # 0 /\ op[h].new = 0
      BY <1>3, <2>2 DEF WorkOK, Inv, TypeOK
    <3> QED
      BY <1>7, <2>2, <3>1 DEF Shelf, NothingElse
  <2> QED
    BY <1>4, <2>1, <2>2
<1> QED
  BY <1>13, <1>14, <1>15, <1>17, <1>19, <1>20 DEF Shelf

LEMMA WritesShelf ==
  ASSUME Inv, Inv', Shelf, NEW h \in Handlers, ProfileWrite(h) \/ PreviewWrite(h)
  PROVE  Shelf'
<1>1. PICK u0 : u0 = op[h].user
  OBVIOUS
<1>2. WorkOK(users, op[h]) /\ RequestOK(op[h]) /\ op[h].old \in 0 .. MaxPictures
  BY OwnWork
<1>3. UNCHANGED <<users, loose>>
  BY DEF ProfileWrite, PreviewWrite, accounts
<1>4. CASE ProfileWrite(h)
  <2>1. At(h, "profile", "start") /\ Written(h, op[h].old) /\ "profile" \in Slots
    BY <1>4 DEF ProfileWrite, Slots
  <2>2. u0 \in Users /\ Concerns(h, u0, "profile")
    BY <1>1, <1>2, <2>1 DEF RequestOK, At, Concerns
  <2>3. Named(op[h].old, u0, "profile")
    BY <2>2 DEF Named
  <2>4. u0 \in Known /\ <<u0, "profile">> \notin loose => op[h].old = Picture(u0, "profile")
    BY <2>1, <2>2 DEF Shelf, AllSettled, Settled, At
  <2>5. PICK old \in 0 .. MaxPictures : old = op[h].old
    BY <1>2
  <2>6. Written(h, old)
    BY <2>1, <2>5
  <2> QED
    BY <1>1, <1>3, <2>1, <2>2, <2>3, <2>4, <2>5, <2>6, WrittenShelf
<1>5. CASE PreviewWrite(h) /\ u0 \in Known /\ vault[u0] # "none"
  <2>1. /\ At(h, "preview", "start") /\ Written(h, users[op[h].user].preview) /\ "preview" \in Slots
    BY <1>1, <1>5 DEF PreviewWrite, Slots
  <2>2. u0 \in Users /\ Picture(u0, "preview") = users[u0].preview
    BY <1>5 DEF Known, Picture
  <2>3. Picture(u0, "preview") \in 0 .. MaxPictures /\ Named(Picture(u0, "preview"), u0, "preview")
    BY <1>5, <2>1, RowPictures DEF Named
  <2>4. PICK old \in 0 .. MaxPictures : old = Picture(u0, "preview")
    BY <2>3
  <2>5. Written(h, old)
    BY <1>1, <2>1, <2>2, <2>4
  <2> QED
    BY <1>1, <1>3, <2>1, <2>2, <2>3, <2>4, <2>5, WrittenShelf
<1>6. CASE PreviewWrite(h) /\ ~(u0 \in Known /\ vault[u0] # "none")
  <2>1. Done(h) /\ UNCHANGED pictures /\ op[h].kind = "preview" /\ op[h].pc = "start"
    BY <1>1, <1>6 DEF PreviewWrite, At
  <2> QED
    BY <1>2, <1>3, <2>1, EndsStep DEF WorkOK, Slots
<1> QED
  BY <1>4, <1>5, <1>6

\* The request lets go of the old picture, which the row still names.
LEMMA ReplacesShelf ==
  ASSUME Inv, Inv', Shelf, NEW h \in Handlers, ProfileReplace(h) \/ PreviewReplace(h)
  PROVE  Shelf'
<1>1. /\ WorkOK(users, op[h]) /\ RequestOK(op[h])
      /\ op[h].kind \in Slots /\ op[h].pc = "replace" /\ op[h].new # 0
      /\ op[h].old \in 0 .. MaxPictures /\ op[h].new \in 0 .. MaxPictures /\ op[h].old # op[h].new
  BY OwnWork DEF ProfileReplace, PreviewReplace, At, WorkOK, Slots
<1>2. UNCHANGED <<users, sent>>
  BY DEF ProfileReplace, PreviewReplace, accounts
<1>3. CASE ProfileReplace(h) /\ Abort(h)
  <2>1. CASE UNCHANGED uploads
    BY <1>1, <1>2, <1>3, <2>1, AbortStep DEF ProfileReplace, pictures
  <2>2. CASE ~UNCHANGED uploads
    <3>1. Goto(h, "commit") /\ Done(h)
      BY <1>3, <2>2 DEF ProfileReplace, Abort
    <3>2. op'[h].kind = op[h].kind /\ op'[h] = Idle
      BY <1>1, <3>1 DEF Goto, Done, Inv, RequestsOK, RequestOK, Request
    <3> QED
      BY <1>1, <3>2 DEF Idle, Slots
  <2> QED
    BY <2>1, <2>2
<1>4. CASE Goto(h, "commit") /\ loose' = loose
  <2>1. PICK r : r = [op[h] EXCEPT !.pc = "commit"]
    OBVIOUS
  <2>2. op' = [op EXCEPT ![h] = r]
    BY <1>4, <2>1 DEF Goto
  <2>3. /\ r.kind = op[h].kind /\ r.user = op[h].user /\ r.new = op[h].new /\ r.old = op[h].old
        /\ r.pc = "commit"
    BY <1>1, <2>1 DEF RequestOK, Request
  <2>4. WorkOK(users, r) /\ op[h].kind \in Picturing
    BY <1>1, <2>3 DEF WorkOK, Slots, Picturing
  <2>5. \/ op[h].kind = "profile" /\ uploads' = uploads \ {op[h].old} /\ removing' = removing
        \/ op[h].kind = "preview" /\ uploads' = uploads /\ removing' = removing \cup ({op[h].old} \ {0})
    <3>1. CASE PreviewReplace(h)
      BY <3>1 DEF PreviewReplace, At
    <3>2. CASE ProfileReplace(h) /\ uploads' = uploads \ {op[h].old}
      BY <3>2 DEF ProfileReplace, At
    <3>3. CASE ProfileReplace(h) /\ Abort(h)
      <4>1. op'[h].kind = op[h].kind /\ op'[h] = Idle
        BY <1>1, <1>4, <3>3 DEF Goto, Abort, Done, Inv, RequestsOK, RequestOK, Request
      <4> QED
        BY <1>1, <4>1 DEF Idle, Slots
    <3> QED
      BY <3>1, <3>2, <3>3 DEF ProfileReplace
  <2>6. 0 \notin uploads
    BY DEF Inv, TypeOK
  <2>7. ASSUME r.user \in Known, <<r.user, SlotOf(r.kind)>> \notin loose
        PROVE  Settled(r.user, SlotOf(r.kind))'
    <3>1. PICK u0 \in Known, s0 \in Slots : u0 = r.user /\ s0 = SlotOf(r.kind)
      BY <2>7 DEF SlotOf, Slots
    <3>2. Settled(u0, s0)
      BY <2>7, <3>1 DEF Shelf, AllSettled
    <3>3. Concerns(h, u0, s0)
      BY <1>1, <2>3, <3>1 DEF Concerns, SlotOf, Slots
    <3>4. \A g \in Handlers : Concerns(g, u0, s0) => g = h
      BY <1>1, <3>2, <3>3 DEF Settled
    <3>5. /\ op'[h] = r /\ \A g \in Handlers \ {h} : op'[g] = op[g]
          /\ \A g \in Handlers : Concerns(g, u0, s0)' <=> Concerns(g, u0, s0)
          /\ Picture(u0, s0)' = Picture(u0, s0)
      BY <1>2, <2>2, <2>3 DEF Inv, RequestsOK, Concerns, Picture
    <3>6. /\ op[h].old = Picture(u0, s0) /\ op[h].new \in OnDisk' /\ op[h].old \notin uploads' \ removing'
      BY <1>1, <2>5, <2>6, <3>2, <3>3 DEF Settled, OnDisk
    <3>7. Settled(u0, s0)'
      BY <2>3, <3>3, <3>4, <3>5, <3>6 DEF Settled
    <3> QED
      BY <3>1, <3>7
  <2> QED
    BY <1>2, <1>4, <2>2, <2>3, <2>4, <2>5, <2>6, <2>7, GoesOnStep
<1> QED
  BY <1>3, <1>4 DEF ProfileReplace, PreviewReplace

\* The row names the new picture.
LEMMA CommitsShelf ==
  ASSUME Inv, Inv', Shelf, NEW h \in Handlers, ProfileCommit(h) \/ PreviewCommit(h)
  PROVE  Shelf'
<1>1. /\ WorkOK(users, op[h]) /\ RequestOK(op[h]) /\ HoldOK(users, op[h])
      /\ op[h].kind \in Slots /\ op[h].pc = "commit" /\ op[h].new # 0
      /\ op[h].old \in 0 .. MaxPictures /\ op[h].new \in 0 .. MaxPictures
  BY OwnWork, OwnRequest DEF ProfileCommit, PreviewCommit, At, WorkOK, Slots
<1>2. UNCHANGED pictures
  BY DEF ProfileCommit, PreviewCommit
<1>3. CASE Abort(h) /\ UNCHANGED users
  BY <1>1, <1>2, <1>3, AbortStep
<1>4. CASE /\ op[h].user \in Known /\ Done(h) /\ loose' = loose
           /\ users' = IF op[h].kind = "profile" THEN [users EXCEPT ![op[h].user].profile = op[h].new]
                                                 ELSE [users EXCEPT ![op[h].user].preview = op[h].new]
  <2>1. PICK u0 \in Known, s0 \in Slots, q \in {op[h].old, op[h].new} :
          u0 = op[h].user /\ s0 = op[h].kind /\ q = op[h].new
    BY <1>1, <1>4
  <2>2. users' = IF s0 = "profile" THEN [users EXCEPT ![u0].profile = q]
                                   ELSE [users EXCEPT ![u0].preview = q]
    BY <1>4, <2>1
  <2>3. Concerns(h, u0, s0) /\ q \in 0 .. MaxPictures
    BY <1>1, <2>1 DEF Concerns
  <2>4. /\ op[h].kind \in Slots => op[h].pc = "commit" /\ q = op[h].new
        /\ op[h].kind = "details" => op[h].pc = "write" /\ q = op[h].old
    BY <1>1, <2>1 DEF Slots
  <2> QED
    BY <1>2, <1>4, <2>2, <2>3, <2>4, RowSettledStep
<1>5. CASE ProfileCommit(h)
  BY <1>1, <1>4, <1>5 DEF ProfileCommit, At, HoldOK, RequestOK, Known
<1>6. CASE PreviewCommit(h)
  BY <1>3, <1>4, <1>6 DEF PreviewCommit, At
<1> QED
  BY <1>5, <1>6

\* Requests that have nothing to do with pictures come, go on and go.
LEMMA OneElsewhere ==
  ASSUME Inv, Shelf, NEW h \in Handlers, op[h].kind \notin Picturing,
         \/ \E r : op' = [op EXCEPT ![h] = r] /\ r.kind \notin Picturing /\ r.new = 0
         \/ \E pc : Goto(h, pc)
         \/ Done(h)
  PROVE  \A g \in Handlers : SameWork(g)
<1>1. op = [g \in Handlers |-> op[g]] /\ RequestOK(op[h]) /\ WorkOK(users, op[h])
  BY OwnWork DEF Inv, RequestsOK
<1>2. Idle.kind \notin Picturing /\ Idle.new = 0
  BY DEF Idle, Picturing, Slots
<1>3. ASSUME NEW r, op' = [op EXCEPT ![h] = r], r.kind \notin Picturing, r.new = 0
      PROVE  \A g \in Handlers : SameWork(g)
  BY <1>1, <1>3 DEF SameWork
<1>4. ASSUME NEW pc, Goto(h, pc) PROVE \A g \in Handlers : SameWork(g)
  <2>1. PICK r : r = [op[h] EXCEPT !.pc = pc]
    OBVIOUS
  <2>2. op' = [op EXCEPT ![h] = r]
    BY <1>4, <2>1 DEF Goto
  <2>3. r.kind = op[h].kind /\ r.new = op[h].new
    BY <1>1, <2>1 DEF RequestOK, Request
  <2> QED
    BY <1>1, <1>3, <2>2, <2>3 DEF WorkOK, Picturing
<1> QED
  BY <1>2, <1>3, <1>4 DEF Done

LEMMA AllSame ==
  ASSUME Inv
  PROVE  /\ UNCHANGED op => \A g \in Handlers : SameWork(g)
         /\ \A u : op' = Unlocked(u) => \A g \in Handlers : SameWork(g)
<1>1. \A g \in Handlers : op[g] \in Request
  BY DEF Inv, RequestsOK, RequestOK
<1>2. ASSUME NEW u, op' = Unlocked(u), NEW g \in Handlers PROVE SameWork(g)
  <2>1. op'[g] = IF op[g].user = u THEN [op[g] EXCEPT !.late = @ \ {"locked"}] ELSE op[g]
    BY <1>2 DEF Unlocked
  <2> QED
    BY <1>1, <2>1 DEF SameWork, Request
<1> QED
  BY <1>2 DEF SameWork

LEMMA RowsStill ==
  ASSUME UNCHANGED users
  PROVE  RowsFollow
  BY DEF RowsFollow, Known, Picture

LEMMA StartShelf ==
  ASSUME Inv, Inv', Shelf, NEW h \in Handlers, Start(h)
  PROVE  Shelf'
<1>1. op[h] = Idle /\ op[h].kind \notin Picturing
  <2>1. op[h] = Idle
    BY DEF Start, SignUpBegin, SignInBegin, RefreshRow, SocketBegin, Guard, ClearBegin, MayStart
  <2>2. Idle.kind \notin Picturing
    BY DEF Idle, Picturing, Slots
  <2> QED
    BY <2>1, <2>2
<1>2. UNCHANGED <<users, pictures>> /\ RowsFollow /\ loose \subseteq loose'
  BY RowsStill DEF Start, SignUpBegin, SignInBegin, RefreshRow, SocketBegin, Guard, ClearBegin,
                   accounts
<1>3. ASSUME NEW r, op' = [op EXCEPT ![h] = r], r.kind \notin Picturing, r.new = 0 PROVE Shelf'
  BY <1>1, <1>2, <1>3, OneElsewhere, ElsewhereStep
<1>4. ASSUME NEW e \in Emails, SignUpBegin(h, e) \/ SignInBegin(h, e) PROVE Shelf'
  <2>1. CASE SignUpBegin(h, e)
    <3>1. PICK r : r = [Idle EXCEPT !.kind = "signup", !.pc = "create", !.email = e]
      OBVIOUS
    <3>2. op' = [op EXCEPT ![h] = r]
      BY <2>1, <3>1 DEF SignUpBegin
    <3>3. r.kind \notin Picturing /\ r.new = 0
      BY <3>1 DEF Idle, Picturing, Slots
    <3> QED
      BY <1>3, <3>2, <3>3
  <2>2. CASE SignInBegin(h, e)
    <3>1. PICK u : op' = [op EXCEPT ![h] = [Idle EXCEPT !.kind = "signin", !.pc = "issue", !.user = u]]
      BY <2>2 DEF SignInBegin
    <3>2. PICK r : r = [Idle EXCEPT !.kind = "signin", !.pc = "issue", !.user = u]
      OBVIOUS
    <3>3. r.kind \notin Picturing /\ r.new = 0
      BY <3>2 DEF Idle, Picturing, Slots
    <3> QED
      BY <1>3, <3>1, <3>2, <3>3
  <2> QED
    BY <1>4, <2>1, <2>2
<1>5. ASSUME NEW s \in Sessions, RefreshRow(h, s) PROVE Shelf'
  <2>1. PICK seen, late, u : seen = (s \in tokens) /\ late = Reasons(s) /\ u = issuedTo[s]
    OBVIOUS
  <2>2. PICK r : r = [Idle EXCEPT !.kind = "refresh", !.pc = "user", !.ses = s,
                                  !.user = u, !.seen = seen, !.late = late]
    OBVIOUS
  <2>3. op' = [op EXCEPT ![h] = r]
    BY <1>5, <2>1, <2>2 DEF RefreshRow
  <2>4. r.kind \notin Picturing /\ r.new = 0
    BY <2>2 DEF Idle, Picturing, Slots
  <2> QED
    BY <1>3, <2>3, <2>4
<1>6. ASSUME NEW s \in Sessions, SocketBegin(h, s) PROVE Shelf'
  <2>1. PICK u, late : u = issuedTo[s] /\ late = (IF users[issuedTo[s]] = Gone THEN {"over"} ELSE {})
    OBVIOUS
  <2>2. PICK r : r = [Idle EXCEPT !.kind = "socket", !.pc = "uuid", !.user = u, !.late = late]
    OBVIOUS
  <2>3. op' = [op EXCEPT ![h] = r]
    BY <1>6, <2>1, <2>2 DEF SocketBegin
  <2>4. r.kind \notin Picturing /\ r.new = 0
    BY <2>2 DEF Idle, Picturing, Slots
  <2> QED
    BY <1>3, <2>3, <2>4
<1>7. ASSUME NEW u \in Users \cup {0}, NEW e \in {Demo, None}, ClearBegin(h, u, e) PROVE Shelf'
  <2>1. PICK r : r = [Idle EXCEPT !.kind = "clear", !.pc = "finish", !.user = u, !.email = e]
    OBVIOUS
  <2>2. op' = [op EXCEPT ![h] = r]
    BY <1>7, <2>1 DEF ClearBegin
  <2>3. r.kind \notin Picturing /\ r.new = 0
    BY <2>1 DEF Idle, Picturing, Slots
  <2> QED
    BY <1>3, <2>2, <2>3
<1>8. ASSUME NEW s \in Sessions, NEW k \in Slots \cup {"signout", "details"}, Guard(h, s, k)
      PROVE  Shelf'
  <2>1. PICK u, ses, old :
          /\ u = issuedTo[s] /\ ses = (IF k = "signout" THEN s ELSE 0)
          /\ old = (IF k = "profile" THEN users[u].profile ELSE 0)
    OBVIOUS
  <2>2. PICK r : r = [Idle EXCEPT !.kind = k, !.pc = "start", !.user = u, !.ses = ses, !.old = old]
    OBVIOUS
  <2>3. op' = [op EXCEPT ![h] = r]
    BY <1>8, <2>1, <2>2 DEF Guard
  <2>4. r.kind = k /\ r.pc = "start" /\ r.new = 0 /\ r.user = u /\ r.old = old
    BY <2>2 DEF Idle
  <2>5. u \in Known
    BY <1>8, <2>1 DEF Guard, AuthGuard
  <2>6. CASE k = "signout"
    BY <1>3, <2>3, <2>4, <2>6 DEF Picturing, Slots
  <2>7. CASE k \in Picturing
    <3>1. \A g \in Handlers \ {h} : op[g].user = u /\ Overlap(k, op[g].kind) => op[g] # Idle
      BY DEF Overlap, Idle
    <3>2. \A g \in Handlers \ {h} :
            op[g].user = u /\ Overlap(k, op[g].kind) => <<u, SlotOf(k)>> \in loose'
      BY <1>8, <2>1, <3>1 DEF Guard, Open, SlotOf
    <3> QED
      BY <1>1, <1>2, <2>1, <2>3, <2>4, <2>5, <2>7, <3>2, BeginsStep
  <2> QED
    BY <2>6, <2>7 DEF Picturing
<1> QED
  BY <1>4, <1>5, <1>6, <1>7, <1>8 DEF Start

\* The rest of the steps of a request.
LEMMA SignUpShelf ==
  ASSUME Inv, Inv', Shelf, NEW h \in Handlers, SignUpCommit(h)
  PROVE  Shelf'
<1>1. op[h].kind \notin Picturing /\ Done(h) /\ UNCHANGED <<pictures, loose>>
  BY DEF SignUpCommit, At, Picturing, Slots
<1>2. RowsFollow
  <2>1. CASE UNCHANGED users
    BY <2>1, RowsStill
  <2>2. CASE ~UNCHANGED users
    <3>1. PICK row : row = Account(op[h].email, FALSE, TRUE)
      OBVIOUS
    <3>2. PICK u \in Users : users[u] = None /\ users' = [users EXCEPT ![u] = row]
      BY <2>2, <3>1 DEF SignUpCommit, Created
    <3>3. row.profile = 0 /\ row.preview = 0
      BY <3>1 DEF Account
    <3>4. row \in Row
      BY <3>1, OwnRequest, BoundsAssumption DEF Account, Row, SignUpCommit, At, RequestOK
    <3>5. users'[u] = row /\ \A w \in Users : w # u => users'[w] = users[w]
      BY <3>2 DEF Inv, TypeOK
    <3> QED
      BY <3>2, <3>3, <3>4, <3>5, RowsAreThere DEF RowsFollow, Known, Picture
  <2> QED
    BY <2>1, <2>2
<1> QED
  BY <1>1, <1>2, OneElsewhere, ElsewhereStep

LEMMA ClearShelf ==
  ASSUME Inv, Inv', Shelf, NEW h \in Handlers, ClearFinish(h)
  PROVE  Shelf'
<1>1. op[h].kind = "clear" /\ op[h].kind \notin Picturing /\ op[h].kind \notin Slots /\ UNCHANGED pictures
  BY DEF ClearFinish, At, Picturing, Slots
<1>2. CASE op[h].user \notin Known
  BY <1>1, <1>2, AbortStep DEF ClearFinish
<1>3. CASE op[h].user \in Known
  <2>1. PICK u \in Known : u = op[h].user
    BY <1>3
  <2>2. /\ users' = [users EXCEPT ![u].preview = 0] /\ Done(h)
        /\ loose' = loose \cup {<<w, "preview">> : w \in {v \in {u} : v \in Known /\ users[v].preview # 0}}
    BY <1>3, <2>1 DEF ClearFinish, Cleared
  <2>3. "preview" \in Slots /\ 0 \in 0 .. MaxPictures
    BY BoundsAssumption DEF Slots
  <2>4. users' = IF "preview" = "profile" THEN [users EXCEPT ![u].profile = 0]
                                          ELSE [users EXCEPT ![u].preview = 0]
    BY <2>2
  <2>5. /\ Known' = Known /\ Picture(u, "preview")' = 0
        /\ \A w \in Known, s \in Slots : <<w, s>> # <<u, "preview">> => Picture(w, s)' = Picture(w, s)
        /\ \A w \in Users : /\ users[w] # None => users'[w] # None
                            /\ users[w] = Gone => users'[w] = Gone
                            /\ users'[w] = Gone => users[w] = Gone
    BY <2>3, <2>4, PictureSet
  <2>6. Picture(u, "preview") = 0 \/ <<u, "preview">> \in loose'
    BY <2>2 DEF Picture
  <2>7. RowsFollow
    BY <2>5, <2>6 DEF RowsFollow
  <2> QED
    BY <1>1, <2>2, <2>7, OneElsewhere, ElsewhereStep
<1> QED
  BY <1>2, <1>3

LEMMA DemoShelf ==
  ASSUME Inv, Inv', Shelf, NEW h \in Handlers, DemoFinish(h)
  PROVE  Shelf'
<1>1. op[h].kind \notin Picturing /\ Done(h) /\ UNCHANGED pictures /\ loose \subseteq loose'
  BY DEF DemoFinish, At, Picturing, Slots, Cleared
<1>2. RowsFollow
  <2>1. CASE UNCHANGED users
    BY <2>1, RowsStill
  <2>2. CASE ~UNCHANGED users
    <3>1. PICK row : row = Account(Demo, TRUE, FALSE)
      OBVIOUS
    <3>2. PICK w \in Users :
            /\ users[w] = None
            /\ users' = [v \in Users |-> IF v = w THEN row ELSE IF v = op[h].user THEN Gone ELSE users[v]]
      BY <2>2, <3>1 DEF DemoFinish, accounts
    <3>3. row.profile = 0 /\ row.preview = 0
      BY <3>1 DEF Account
    <3>4. row \in Row /\ None # Gone
      BY <3>1, BoundsAssumption, RowsAreThere DEF Account, Row
    <3>5. users'[w] = row /\ \A v \in Users : v # w => users'[v] \in {users[v], Gone}
      BY <3>2
    <3>6. \A v \in Users : v # w /\ users[v] = None => users'[v] = None \/ users'[v] = Gone
      BY <3>5
    <3> QED
      BY <3>2, <3>3, <3>4, <3>5, RowsAreThere DEF RowsFollow, Known, Picture
  <2> QED
    BY <2>1, <2>2
<1> QED
  BY <1>1, <1>2, OneElsewhere, ElsewhereStep

LEMMA StepShelf ==
  ASSUME Inv, Inv', Shelf, NEW h \in Handlers, Step(h)
  PROVE  Shelf'
<1>1. CASE Issue(h)
  <2>1. op[h].kind \notin Picturing
    BY <1>1, OwnWork DEF Issue, WorkOK, Picturing, Slots
  <2>2. UNCHANGED <<users, pictures, loose>> /\ Done(h)
    BY <1>1 DEF Issue, accounts
  <2> QED
    BY <2>1, <2>2, RowsStill, OneElsewhere, ElsewhereStep
<1>2. CASE RefreshUser(h) \/ SignOut(h) \/ SocketUser(h) \/ SocketClose(h)
  <2>1. op[h].kind \notin Picturing
    BY <1>2 DEF RefreshUser, SignOut, SocketUser, SocketClose, At, Picturing, Slots
  <2>2. UNCHANGED <<users, pictures, loose>> /\ (Done(h) \/ \E pc : Goto(h, pc))
    BY <1>2 DEF RefreshUser, SignOut, SocketUser, SocketClose, accounts
  <2> QED
    BY <2>1, <2>2, RowsStill, OneElsewhere, ElsewhereStep
<1> QED
  BY <1>1, <1>2, SignUpShelf, DetailsReadShelf, DetailsWriteShelf, WritesShelf, ReplacesShelf,
     CommitsShelf, ClearShelf, DemoShelf DEF Step

\* The steps of the administrator and of the rest of the world.
LEMMA FailShelf ==
  ASSUME Inv, Inv', Shelf, NEW h \in Handlers, Fail(h)
  PROVE  Shelf'
<1>1. Abort(h) /\ UNCHANGED <<users, pictures>> /\ Hit(h) # {}
  BY DEF Fail, accounts
<1>2. op[h].new # 0 \/ op[h].kind \notin Slots
  BY <1>1 DEF Hit, Slots
<1> QED
  BY <1>1, <1>2, AbortStep

LEMMA LockShelf ==
  ASSUME Inv, Inv', Shelf, NEW u \in Users, Verify(u) \/ \E b \in BOOLEAN : SetLock(u, b)
  PROVE  Shelf'
<1>1. u \in Known /\ UNCHANGED <<pictures, loose>> /\ (UNCHANGED op \/ op' = Unlocked(u))
  BY DEF Verify, SetLock
<1>2. PICK row : /\ users' = [users EXCEPT ![u] = row] /\ row \in Row
                 /\ row.profile = users[u].profile /\ row.preview = users[u].preview
  <2>1. users[u] \in Row
    BY <1>1, KnownRows
  <2>2. CASE Verify(u)
    <3>1. PICK r : r = [users[u] EXCEPT !.verified = TRUE, !.locked = FALSE]
      OBVIOUS
    <3>2. users' = [users EXCEPT ![u] = r]
      BY <2>2, <3>1 DEF Verify, Inv, TypeOK
    <3>3. r \in Row /\ r.profile = users[u].profile /\ r.preview = users[u].preview
      BY <2>1, <3>1 DEF Row
    <3> QED
      BY <3>2, <3>3
  <2>3. ASSUME NEW b \in BOOLEAN, SetLock(u, b)
        PROVE  \E r : /\ users' = [users EXCEPT ![u] = r] /\ r \in Row
                      /\ r.profile = users[u].profile /\ r.preview = users[u].preview
    <3>1. PICK r : r = [users[u] EXCEPT !.locked = b]
      OBVIOUS
    <3>2. users' = [users EXCEPT ![u] = r]
      BY <2>3, <3>1 DEF SetLock
    <3>3. r \in Row /\ r.profile = users[u].profile /\ r.preview = users[u].preview
      BY <2>1, <3>1 DEF Row
    <3> QED
      BY <3>2, <3>3
  <2> QED
    BY <2>2, <2>3
<1>3. users'[u] = row /\ \A w \in Users : w # u => users'[w] = users[w]
  BY <1>1, <1>2 DEF Inv, TypeOK
<1>4. RowsFollow
  BY <1>1, <1>2, <1>3, RowsAreThere DEF RowsFollow, Known, Picture
<1> QED
  BY <1>1, <1>4, AllSame, ElsewhereStep

LEMMA WorldShelf ==
  ASSUME Inv, Inv', Shelf, \/ \E u \in Users : DeleteUserInfo(u)
                           \/ \E s \in Sessions : FirstFile(s)
                           \/ UNCHANGED vars
  PROVE  Shelf'
<1>1. UNCHANGED <<pictures, op, loose>>
  BY DEF DeleteUserInfo, FirstFile, vars
<1>2. RowsFollow
  <2>1. ASSUME NEW u \in Users, DeleteUserInfo(u) PROVE RowsFollow
    <3>1. users'[u] = Gone /\ \A w \in Users : w # u => users'[w] = users[w]
      BY <2>1 DEF DeleteUserInfo, Inv, TypeOK
    <3> QED
      BY <3>1, NullAssumption DEF RowsFollow, Known, Picture
  <2>2. CASE UNCHANGED users
    BY <2>2, RowsStill
  <2> QED
    BY <2>1, <2>2 DEF FirstFile, vars, accounts
<1> QED
  BY <1>1, <1>2, AllSame, ElsewhereStep

LEMMA ShelfStart == Init => Shelf
<1> SUFFICES ASSUME Init PROVE Shelf
  OBVIOUS
<1>1. Known = {} /\ \A h \in Handlers : op[h] = Idle
  BY DEF Init, Known
<1>2. \A h \in Handlers, u \in Users, s \in Slots : ~Concerns(h, u, s)
  BY <1>1 DEF Concerns, Idle, Slots
<1>3. \A p \in 1 .. MaxPictures, u \in Users, s \in Slots : ~Named(p, u, s)
  BY <1>1, <1>2 DEF Named
<1>4. WorksOK
  BY <1>1 DEF WorksOK, WorkOK, Idle, Slots, Picturing
<1>5. Numbered /\ OneOwner /\ OnlyPreviewsGo
  BY <1>3, BoundsAssumption DEF Init, Numbered, OneOwner, OnlyPreviewsGo
<1>6. AllSettled /\ NothingElse
  BY <1>1 DEF Init, AllSettled, NothingElse
<1> QED
  BY <1>4, <1>5, <1>6 DEF Shelf

LEMMA ShelfGoesOn == Inv /\ Inv' /\ Shelf /\ [Next]_vars => Shelf'
  BY StartShelf, StepShelf, FailShelf, LockShelf, WorldShelf, RemovedStep DEF Next

\* Whatever replaces pictures and changes rows at once: the picture that a row
\* names is there and stays there unless requests overlapped or failed on it,
\* and without that nothing is left on disk that no row names.
THEOREM PicturesInStepHolds == Spec => []PicturesInStep
<1>1. Inv /\ Shelf => PicturesInStep
  <2> SUFFICES ASSUME Inv, Shelf PROVE PicturesInStep
    OBVIOUS
  <2>1. ASSUME NEW u \in Known, NEW s \in Slots, <<u, s>> \notin loose, ~Busy(u, s)
        PROVE  Picture(u, s) \in (uploads \ removing) \cup {0}
    <3>1. Settled(u, s)
      BY <2>1 DEF Shelf, AllSettled
    <3>2. ASSUME NEW h \in Handlers, Concerns(h, u, s) PROVE op[h].pc # "commit"
      <4>1. op[h] # Idle
        BY <3>2 DEF Concerns, Idle, Slots
      <4>2. op[h].kind \notin Slots
        BY <2>1, <3>2, <4>1 DEF Busy, Open, Concerns, Slot, Slots
      <4> QED
        BY <3>2, <4>2, OwnWork DEF Concerns, WorkOK
    <3> QED
      BY <3>1, <3>2 DEF Settled, OnDisk
  <2>2. ASSUME loose = {}, Open = {}, \A u \in Users : users[u] # Gone,
               NEW p \in uploads \ removing
        PROVE  p \in {Picture(u, s) : u \in Known, s \in Slots}
    <3>1. p # 0 /\ \A h \in Handlers : op[h].new = 0
      BY <2>2 DEF Inv, TypeOK, Open, Idle
    <3> QED
      BY <2>2, <3>1 DEF Shelf, NothingElse
  <2> QED
    BY <2>1, <2>2 DEF PicturesInStep
<1> QED
  BY <1>1, Invariant, ShelfStart, ShelfGoesOn, PTL DEF Spec
=============================================================================
