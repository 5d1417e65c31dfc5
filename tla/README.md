# Verification of the vault API

TLA+ models of the server in `src/` (NestJS, Prisma over PostgreSQL, Redis, files on
disk), checked with TLC on small instances, with theorems checked by TLAPS.

## 1. The system

| Component | Source (`src/modules/…`) | State it keeps | Operations |
|---|---|---|---|
| Document collaboration | `@global/socket/document` | per file: an edit lock and a hash table (`doc`, `masterSocketId`, `servants`) in Redis | connect, disconnect, push a change set, ask for the whole document |
| Public share | `file-structure-public-share` | one row per shared file (`isDisabled`) | create, disable, enable, is it enabled |
| Vault tree | `file-structure`, `file-structure-bin`, `file-structure-encryption` | rows of files and folders (parent, root parent, path, `isInBin`), bin rows, encryption rows, files under a user's content and bin directories | upload (plain and encrypted), make folder, set its colour, replace text, replace a preview, to the bin, restore, delete for ever, empty everything, download |
| Authentication | `authentication` and its `modules` | users and identities, refresh tokens, three kinds of mailed request (account verification, recover, reset password) with a count of attempts each | sign up, in, out, refresh, send a request, confirm it |
| JWT and guards | `@global/jwt`, `authentication/guard` | none | sign and validate tokens, let requests in |
| Users | `user`, `user-identity` | a row and an identity per user, a picture on disk | create, change details, replace the picture |
| Administration | `admin` | none of its own | lock and unlock, delete a user or their files, make the demo user anew, answer and set tickets |
| User support | `user-support`, `user-support-message`, `user-support-image` | tickets, messages, rows and files of pictures | open, change, delete tickets; write and delete messages |
| Legal documents, feedback | the modules of those names | single rows | CRUD (feedback's `create` always throws) |
| Infrastructure | `@global/{env,mail,cookie,prisma,event-emitter,redis}`, `common` | none of its own | configuration, transactions, mail, Redis commands |

How they interact:

- A socket is admitted by a middleware (a token for the owner, an enabled public share
  for a participant, called *servant*); then `handleConnection` sets the edit lock and
  opens or joins the table, which it fills from the file on disk.
- `handleDisconnect` of the last one to leave removes the lock, writes the table's text
  to disk through `FileStructureService.replaceText`, and deletes the table.
- HTTP requests reach the same state: `replaceText` refuses while the lock is set unless
  told not to look; the public share's `updateById` saves and deletes, or makes, the table
  inside a database transaction; `moveToBin` and `restoreFromBin` make the file
  unfindable and findable again and look at no lock.
- An upload, restoring and deleting for ever run in a database transaction and move files
  meanwhile; making a folder and moving to the bin do the same without one.
- Every HTTP request passes `AuthGuard` and `VerifiedEmailGuard` with an access token; the
  owner's socket passes the middleware, which asks for less. The administrator locks and deletes
  what these have just let through, and deletes a user's files beside the vault's handlers.
- `transaction.handle` takes a connection of the pool for as long as its handler runs; a handler
  that queries outside its transaction takes a second one.
- Events (`document.pull.doc.full`, `document.share.disabled`) only send notifications.
  The first is sent to the value of the owner's session key, which is the user's id and
  no socket's, so that it reaches nobody.

Hard behaviours: every handler is an `async` function, and all of them interleave at each
`await`; Redis, PostgreSQL and the disk are three stores with no common transaction; the
lock and the table carry no owner or version; lists are read, changed and written back;
handlers fail half-way and the server restarts; `HSET` revives a deleted table; an empty
text is falsy. PROJECT.json lists each of these, at its line, under `hazards`.

What makes each component correct:

- *Collaboration*: what participants see survives the session; nobody who left stays
  listed; the lock is set while somebody edits and goes away afterwards; everybody hears of
  every change; a refused change leaves no trace; the file is never emptied.
- *Public share*: no table for a file nobody shares; disabling saves first.
- *Vault tree*: a row in the bin has its file in the bin directory and the reverse, a
  restored subtree keeps its shape and paths, deletion leaves neither row nor file, the
  storage limit holds, names under one folder differ.
- *Authentication*: a token confirms at most once, every attempt is counted, who is signed out,
  locked or deleted gets no new session, a lock is undone by an administrator only.
- *Users and administration*: an address has one user; the picture a row names is on disk; what
  was deleted stays deleted; files and rows go together.
- *User support*: a message shows whole; a closed ticket is left alone; every request is answered.

## 2. Modules

| Module | What it is |
|---|---|
| `DocCollab` | collaboration on one text file, with the public share and the text on disk |
| `CollabSession` | what a session promises its users: the abstract specification |
| `MCDocCollab`, `MCDocMembership` | the regimes (below) and the symmetry set for TLC; the second notes which edits were pushed, and whether a push has run beside a leave, a toggle or another push |
| `DocCollabProofs` | theorems about `DocCollab` that need no regime |
| `DocMembershipProofs`, `DocSessionProofs` | theorems about `DocCollab` under `MembershipMutex`, and its refinement of `CollabSession` under `SessionMutex` |
| `AuthRequests` | the mailed requests of the three kinds, their attempt counts, and the identities they change |
| `MCAuthRequests` | the symmetry set for TLC |
| `AuthRequestsProofs` | theorems about `AuthRequests` |
| `VaultTree` | one user's vault: rows, bin, the two directories on disk, the storage limit |
| `FileNames` | how a title is numbered when both files are kept; `VaultTree` extends it |
| `MCVaultTree` | names and the symmetry set for TLC |
| `VaultTreeProofs` | theorems about the vault's tree, its limit, numbering and replacement |
| `VaultDiskProofs` | theorems about the vault's two directories: all is where the rows say, and nothing else is there |
| `Accounts` | users, sessions, guards, the administrator, and pictures |
| `MCAccounts` | which requests do not come together, and the symmetry set |
| `AccountsProofs` | theorems about `Accounts` |
| `UserSupport` | tickets, messages, pictures and the pool of connections |
| `UserSupportProofs` | theorems about `UserSupport` |

The modules are not composed into one: what one component needs of another is in its own model, in the
smallest form that the code shows. `DocCollab` has the bin as one flag of its file, `Accounts` has
the vault as `none`, `kept` or `lost` and confirmations as `Verify`, `AuthRequests` has the
administrator's lock.

### DocCollab

One file, its owner and any number of sockets and requests. The stores are variables
(`share`, `inBin`, `file`, `lock`, `userKey`, `table`, `stray`); each handler is a function
from its socket or request to a phase and the local variables that survive an `await`
(`list` is the `activeServants` read earlier, `text` the document read earlier). An action
is the code from one `await` to the next; every error path leads to a phase of its own
(`failed`, or `done` without the rest).

| Code | Actions |
|---|---|
| `AuthWsMiddleware`, `handleConnection` | `Admit`, then `ConnSetLock`, `ConnIsEnabled`, `ConnExists`, `ConnReadFile`, `ConnCreateTable`, `ConnSetMaster`, `ConnReadServants`, `ConnAddServant` |
| `handleDisconnect` | `Leave`, then `DiscParams`, `DiscServants`, `DiscMaster`, `DiscRemoveLock`, `DiscReadDoc`, `DiscCheckLock`, `DiscWriteFile`, `DiscDeleteTable`, or `DiscRemoveSelf` |
| `handlePushUpdates` | `PushExists`, `PushNoDoc`, `PushMismatch`, `PushApply`, `PushStore`, then `PushTell` for an owner, `PushServants` and `PushMaster` for a servant |
| `getDocumentTextById`, `getDocumentTextByIdPublic` | `Fetch` |
| `replaceText` over HTTP | `ReqSave`, `ReqSaveRefused`, `ReqSaveWrite` |
| public share `create` | `ReqCreate`, `ReqMakeShare` |
| public share `updateById` | `ReqDisable` or `ReqEnable`, `ReqReadDoc`, `ReqWriteFile`, `ReqDeleteTable`, `ReqReadFile`, `ReqCreateTable`, `ReqCommit` |
| environment | `MoveToBinOrBack`, `ExpireLock`, `ExpireUserKey`, `Crash` |

Abstractions, and why they are sound for the properties:

- A text is the *set* of edits in it (`{}` is `''`). No property depends on the order of
  characters; a change set that cannot be applied is `PushMismatch`, chosen freely, since
  it depends on lengths; one that deletes everything is the edit `Clear`.
- `setLock` and the sharing check run under one `Promise.all`. `SET` is sent to Redis
  before any other command, so that only the owner's row, which is in PostgreSQL, can be
  read before it: that is what the phases `lockThenExists` and `lockThenDone` are for.
- `replaceText` looks the file up, then writes it and updates the row; the model does
  this in one step, in which a binned file is refused. `create` likewise reads and writes
  the row in one step (the column is unique).
- The session key of a servant's socket is never read and is left out. So are
  `masterUserId` and `updates`, which nothing reads.
- A socket runs one push at a time; pushes of different sockets overlap.
- `create` makes its table under a random hash: `stray` only remembers that it exists.
- The `bin` offer stands for what moving the file or a parent does to this file.

### Regimes

The code has no mutex. The constant `Exclusive` names pairs of kinds of handler (connect,
disconnect, push, save, toggle) that the *environment* does not let overlap; with `{}`
only the bound `MaxRunning` limits them. A property is checked in the weakest regime it
holds in, which says what the code relies on. `Offers` names what else may happen. Its
members are `save`, `force`, `create`, `disable`, `enable`, `again`, `empty`, `fetch`, `tabs`, `bin`,
`crash`, `expire` (of the lock), `expireUser` (of the owner's session key).

| Regime | What does not overlap | What holds, and what makes it fail outside |
|---|---|---|
| `NoMutex` | nothing is excluded | types, `TableImpliesShare`, `RefusedLeavesNoTrace`, `NeverEmptied` |
| `MembershipMutex` | joins, leaves and toggles with one another | `ListedAreConnected`, `LockFreed`, `TableLocked`, and `NoMissedEdit` of the edits pushed until a push has run beside a leave, a toggle or another push (beside the first two a push can revive a table that is then recreated, and who was listed in the old one misses an edit; of pushes that overlap, one may lose a change and another bring it back after everybody was told of it). Two participants who leave together each see the other listed and nobody removes the lock; a stale list brings a ghost back. The last leaver deletes the lock that a newcomer has set meanwhile. Also false with two owner tabs at once (`TableLocked`), with a restart or a binned file (`LockFreed`, `ListedAreConnected`: only the TTL frees the lock) and with an expired lock (`TableLocked`), so that these are not offered |
| `SessionMutex` | all but pushes with joins, pushes with saves, saves with saves | `ImplementsSession`. It fails with two pushes at once (one change is lost), a checked save overlapping a join, a push overlapping the last leave, an enabling request (which opens a table without a lock), and an emptied document (which is taken for a missing one) |

### CollabSession

`disk`, `open`, `text`: open on the text on disk, edit, flush, close once the text is on
disk, save while closed. `ImplementsSession` maps `disk` to the file, `open` to the table's
existence and `text` to the table's document, or the file when there is none.

### AuthRequests

`authentication.service.ts` has the same pair of handlers three times, for the kinds
`verify`, `recover` and `reset`: one *sends* a request (makes or rewrites the user's row,
counts the attempt, mails a token), one *confirms* it (changes the identity, soft-deletes
the request and its count). The model has one copy with the kind as a parameter; the map
in PROJECT.json points at each of the three.

Each handler is one transaction of Prisma (`transaction.handle`) at PostgreSQL's default
level, READ COMMITTED. `tx[h]` is such a transaction: a phase, what it has read, and what it
has written but not committed (`identity`, `row`, `tally`). An action is one statement and
the code up to the next; `Commit` publishes the writes, and an exception at any place
(`Fail` where the database causes it) drops them. `IdentityFree`, `RequestFree` and
`CountFree` are the row locks: a writer waits while another open transaction has written the
row. The sequences (`nextId`) are advanced at once and not rolled back, as PostgreSQL does.

| Code | Actions |
|---|---|
| `resetPasswordSend`, `recoverPasswordSend`, `accountVerifySend` | `StartSend`, `SendFind`, then `SendReread`, `SendRewrite` or `SendCreate`, `SendFindCount`, `SendNewCount` or `SendTally`, `Commit` |
| `resetPasswordConfirm`, `recoverPasswordConfirm`, `accountVerificationConfirm` | `StartConfirm`, `ConfirmLookup`, then `ConfirmIdentity`, `ConfirmSoftDelete`, `ConfirmSoftCount`, `Commit`, or `ConfirmReuse`, `ConfirmReuseThrows` |
| `blacklistUser` of the administrator | `Blacklist` |
| environment | `Fail`, `DayPasses` |

Abstractions, and why they are sound for the properties:

- Token, `jti` and the new password are made together and always written together: one
  number stands for the three.
- Dates are `never`, `today`, `past`: the code only asks whether a day is over. No
  transaction stays open for a day (Prisma ends it after seconds).
- The three updates of a confirmation are issued by one `Promise.all`; a transaction has one
  connection, which runs them in the order they were issued.
- A send that is refused before it writes (locked user, wrong old password) does nothing and
  is left out. So is the first mail at sign-up, which is a send to a user just made, and
  `isBlocked`, which no code sets.
- `ConfirmLookup` may end the transaction in any state: the token may have expired.

What the model shows to be *false*, besides the two claims below: two overlapping first sends
make two live requests (hence `crossed` in `OneLiveRequest`). Once the sequences of requests and
counts have drifted apart, a confirmation deletes another user's count, and that user's sends all
fail from then on: no live count is found, and the unique column refuses a second one. A
send that waits for a confirmation to commit then writes its request back undeleted; if the
confirmation deleted the request's own count, the send fails at the same column and is rolled back,
otherwise the request lives again with a new token. A confirmation that overlaps a newer
send deletes the request under the newer token. `UsedTokenIsSpent` says what survives all that.

### VaultTree and FileNames

`rows` is `file_structure`, `bins` is `file_structure_bin`, `content` and `trash` are the two
directories as functions from paths to what lies there. A path is the sequence of names from the user's
directory down, a name a title and an extension, a file the id of the row it was sent for. `op[h]` is a
request: its phase, what it read, and what its transaction has written (`writes`, `unbin`), which
`Commit` or `Insert` publishes and `Abort` drops; what it did to the disk stays done.

| Code | Actions |
|---|---|
| `uploadFile` | `UploadBegin`, `UploadQuota`, then `Match`, `Number` or `UploadFind`, `UploadReplace`, then `UploadWrite`, `UploadCommit` |
| `createFolder` (no transaction) | `FolderBegin`, `Match`, `Number`, or `FolderFind`, `FolderDelete`, `FolderRemove`, `FolderWrite`, `FolderCommit` |
| `uploadEncryptedFile` | `EncryptBegin`, `EncryptIssue`, `EncryptWrite`, `Commit`; `RemoveOld` is the deletion nobody awaits |
| `moveToBin` (no transaction) | `BinBegin`, `BinFlip`, `BinMove`, `BinInsert` |
| `restoreFromBin` | `RestoreBegin`, `RestoreMove`, `Commit` |
| `deleteForeverFromBin` | `ForgetBegin`, `ForgetMove`, `Commit` |
| `cleanUpSpace` | `CleanUp`, `Commit` |
| `validateParentRootParentStructure` | `Creation`, with which an upload or a new folder begins |
| `increaseFileNameNumber` | its two queries are `Match` and `Number`, its result `NextTitle` (`FileNames`) |
| `getDuplicateStatus` | `HasDuplicate` |
| environment | `Fail` |

Abstractions, and why they are sound for the properties:

- A title is the sequence of its words, each a text and the number in brackets it ends with. That is
  what `split(' ')` and the patterns of `file-structure.helper.ts` tell apart, if different texts do
  not begin one another. `extractNumber` reads a number as a double: from `Exact` (2^53) on `Succ` gives the number itself.
- `child.path.replace(fs.path, newPath)` expands `$$`, `$&`, `` $` `` and `$'` in the new path, which no check of
  names forbids. `Expansions` says what a name that has one may come out as, `Readings` what a path may, and `Moved` puts
  one of these where the old path is first found. `garbled` notes that this has happened to something restored with a
  folder; it stays set.
- Sizes are 1, and 2 for an encrypted file, whose row keeps its old size and adds the new one.
- Several statements of a transaction with nothing but its own writes between them are one action.
- A request that a check refuses before it changes anything is left out, but for the storage limit (`UploadQuota`).
- The look at the parent, the limit, the title and its numbers are four awaits, between which other requests come:
  what the parent was at the first is what a request goes by. Until it knows its title it is taken to be bound for the parent's
  directory (`Aim`).
- In `uploadEncryptedFile` the new file is written beside the rows, and also when these are refused (`EncryptWrite` in the phase `throw`).
- The foreign key of `parent_id` is part of the model, as PostgreSQL keeps it for the schema: deleting a row writes null to
  the `parent_id` of what hangs under it, so that nobody else writes those rows until it commits (`Attached`); it waits
  for who is writing to them or is hanging a row there (`Unhung`); and a row that would hang under one that is being
  deleted waits (`Stands`) and then fails (`Insert`, `RestoreMove`).
- Public shares, which also keep a row from being deleted, are left out (`Referred`).
- `Offers` without `"late"`: the un-awaited deletion of `uploadEncryptedFile` runs before another
  request begins, but at any point of its own request. If it may come later, it deletes what another
  upload has put at the path meanwhile, and `DataInPlace` is false.

`astray` names rows that a failure or a clash of two requests over a path may have cost their place (`Abort`,
`Clash`, `Odd`, which takes all that lies under a path that two rows share), and `dirty` that a request failed half-way. They make the properties
say which rows are damaged: everything *else* must be in place. When every kind of request may overlap
every other, `DataInPlace` is false: `cleanUpSpace` empties the directory between an upload's write and
its commit. `TreeShape`, `KeepBothIsFresh` and `ReplacedIsTold` are false too: a restoration or an encryption writes the path
that it read. So `Overlapping` keeps all but uploads and new folders apart. `TypeOK`
and `QuotaNearlyHeld` need no such regime (section 4).

What the model shows of the code: what is restored with a folder named `a$$b`, or under one, is given a path under `a$b`, while its
files go to `a$$b` (`restore_claim`); from then on rows name paths at which nothing lies or somebody else's
file does, so that all five properties about paths ask that nothing be `garbled`. An upload that keeps both files looks its parent up, a
folder request replaces that folder, and another upload puts a file in the new one: the first then numbers under an id that is gone, finds
nothing, is given the path of that file, overwrites it, and fails at the foreign key. `KeepBothIsFresh` asks therefore that the
parent be still there when the path is given, and `Clash` notes the file in `astray`. A folder whose name has a dot is replaced, with everything in it,
although `getDuplicateStatus` announced nothing (`path.parse` takes what follows the dot for an
extension); a folder request that fails between deleting the rows of the folder it replaces
and removing its directory lets a request for a file in that folder go on into a folder of the same path
made meanwhile, whose duplicates the client was not told of (hence the condition of `ReplacedIsTold`
that the parent the request names is still there); what is restored under a folder of the top level has a parent but no root parent, which
`validateParentRootParentStructure` refuses of clients; and what was binned on its own before its folder
comes back with the folder, while its own bin row stays.

### Accounts

A session is the pair of tokens that one call of `genTokensAndSendResponse` makes. `users` holds a
row with its identity per id, `tokens` the refresh tokens with a row, `op[h]` a request. A transaction
that only writes rows is one action, its commit.

| Code | Actions |
|---|---|
| `signUpWithToken`, `signInWithToken` | `SignUpBegin`, `SignUpCommit`; `SignInBegin`, `Issue` |
| `refreshToken` | `RefreshRow`, `RefreshUser`, `Issue` |
| `AuthGuard`, `VerifiedEmailGuard`, `signOut` | `Guard`, `SignOut` |
| `AuthWsMiddleware` for an owner | `SocketBegin`, `SocketUser`, `SocketClose` |
| `update`, `updateUserProfile` | `DetailsRead`, `DetailsWrite`; `ProfileWrite`, `ProfileReplace`, `ProfileCommit` |
| `uploadDocumentImagePreviewPath` | `PreviewWrite`, `PreviewReplace`, `PreviewCommit`, `RemoveOld` |
| `blacklistUser`, `deleteUserInfo`, `deleteUserFsInfo`, `createDemoUser` | `SetLock`, `DeleteUserInfo`, `ClearBegin`, `ClearFinish`, `DemoFinish` |
| the other modules | `Verify`, `FirstFile` |
| environment | `Fail` |

Abstractions: a password is right or the request is left out; a token may expire at any time, so that
every check of one may also refuse; previews are one per user (of one document). `late` notes why a request
must get nothing, as it begins; `loose` the pictures and files that a failure or an overlap has hit.

What the model shows of the code: a refresh token that was exchanged keeps its row and can be exchanged again;
the deletions and the lock that reuse asks for are rolled back by the exception that reports it
(`authentication.service.ts:202-217`), and the branch for an expired token (226-234) is not reached,
since the check of the signature also checks the expiry; the owner's socket is admitted while the
account is locked; no route is exempt from the verified address, so that a new user cannot even sign out; changing
the details beside a new picture brings back the path of the old one, which is deleted; `createDemoUser`
deletes the demo user's files and then fails when a refresh token or a mailed request is left.

### UserSupport

`tickets`, `messages` and `images` are the tables as committed, `files` the pictures on disk. Every handler
but `updateTicket` holds a connection from `Begin` on. `shut[h]` notes the tickets that were closed or
deleted before `h` came and have stayed so.

| Code | Actions |
|---|---|
| `UserSupportService` | `Create`, `Update`, `DeleteTicket`, `DeleteAll` |
| `UserSupportMessageService.create`, `UserSupportImageService.create` | `Check`, `Insert`, `StoreImage`, `CommitMessage` |
| `UserSupportMessageService.deleteById` | `Lookup`, `CheckDelete`, `DeleteMessage` |
| `answerTicket`, `updateTicket` | `Answer`, `UpdateTicket` |
| `transaction.handle`, the pool | `Begin`, `Expire`, `Fail` |

What the model shows of the code: the check that a ticket is open and the insertion are two statements, so that a
message slips in behind a closing that overlaps it; a message with a picture can never be deleted (the
picture's row refers to it); a user may delete the administrator's messages; the administrator answers and
reopens deleted tickets; a message that is rolled back leaves its picture on disk; `deleteById` looks its
message up outside its transaction (`user-support-message.service.ts:83`), so that as many of these as
the pool has connections wait for one another until Prisma's timers end them.

## 3. Runs

| Run | Bounds | Shows |
|---|---|---|
| `overlap` | 1 owner, 1 servant, 1 request, 1 edit, 3 handlers at once, no mutex; save, force, create, disable, enable, empty, bin, restart, expired lock; 4.1 million states, 3 to 4 minutes | safety that needs no regime, and that a refused edit leaves no trace |
| `membership` | 1 owner, 2 servants, 2 requests, 2 edits, 2 at once; save, create, disable, enable, again, fetch; clients' copies tracked until a push crosses something; 1.0 million states | the list, the lock and the table agree, and nobody misses an edit until a push crosses a leave, a toggle or another push |
| `session` | 2 owner tabs, 2 servants, 2 requests, 2 edits, 3 at once; save, create, disable, fetch, expired session key; 350,000 states; states that differ in clients' copies alone are one | refinement of `CollabSession` |
| `flush_claim` | 1 owner, 1 servant, 1 edit, 2 at once | counterexample to "must be after saving fs" |
| `toggle_claim` | one handler at a time | counterexample to "if true then collab exists" |
| `auth_requests` | kind recover, 2 users, both strict, one of whom the administrator locks, 2 transactions at once, 3 tokens, `MaxAttempts` 1 | used tokens stay spent, attempts are counted, one live request, no cycle of waits |
| `count_claim` | kind verify, 2 users, 2 transactions, 2 tokens | counterexample to "all column will be deleted" |
| `vault` | 2 requests at once, 3 rows, 2 moves to the bin, one file name, two folder names (the file's, and `a$$b`, which comes out as `a$b`), limit 2, numbers exact up to 3; at most one failure; 630,000 states | the tree, its files, the limit, numbering, announced replacement |
| `restore_claim` | 1 request at a time, 3 rows, the folder name `a$$b`, no failure | counterexample to "replace old parent path with new path" |
| `accounts` | 2 requests at once, the demo address, 2 users one after another, 2 sessions, 2 pictures; at most one failure or overlap of pictures | refusals, deletions, pictures, files of the demo user |
| `support` | 2 requests, 2 users, 1 ticket, 2 messages, 2 connections | whole messages, closed tickets, every request answered |
| `strict_claim` | 1 strict user, 1 transaction | counterexample to "User is blocked due to strict mode" |

Why the bounds are enough: the races are between two handlers on the same key, and a third
handler is what it takes to recreate what the first deletes under the second (`overlap`). A
second servant is needed for a stale list and for somebody to be told; a second owner
socket for a second tab; a second request to enable what the first disabled. Every edit is sent once, so that a text that holds it tells where it
came from. Symmetry is over servants, edits and requests, which the specification never
tells apart. Sockets and requests are used once each, so a run ends: `CHECK_DEADLOCK FALSE`.

In `auth_requests` the three kinds share nothing but identities, and the three properties of
tables speak of one kind: one kind is checked (`recover`, which differs from `reset` in nothing the
model sees; `verify` differs in `Valid` and `Confirmed`). The races are between two transactions; handlers are
reused, so that a third transaction may follow. Three tokens allow two requests and a rewrite of one
of them, sequences that drift apart after a rollback, and a count at its limit of 1 with a third
send refused or, a day later, resetting it. Symmetry is over handlers. When all tokens are spent
and a confirmation's lock stays, nothing may be left to do: `CHECK_DEADLOCK FALSE`; that open
transactions never block one another for good is `NoWaitCycle`.

In `vault`, three rows make a folder, a file in it and what replaces either; two keys make a nested bin, a file
binned before its folder. A name that a file and a folder share is needed for the two kinds to clash, one with a `$` pattern for `garbled`, and the
limit of two for two uploads to pass it together. The two requests that may overlap are what it takes to
race over a path; one failure is what `dirty` and `astray` have to tell from the rest. In `accounts`, one
address is enough for two users to compete for it, and the demo address is the only one the administrator makes
anew; a second user follows a deletion. `Apart` keeps kinds apart that write no row in common. Two
sessions make an exchange after a sign-out or beside a lock; two pictures make a replacement. In `support`, two
requests with a pool of two are what exhausts it, and a second message tells the deleted from
the one that stays. All three runs reuse their handlers, so that a third and a fourth request may follow.
`vault` and `accounts` run out of ids: `CHECK_DEADLOCK FALSE`; `support` checks deadlock too.

Fairness (`support`): weak fairness of each request's own steps together, of which `Expire` is one: the
event loop runs every continuation, and `maxWait` (2 s), `timeout` (5 s) and `pool_timeout` end
what waits for a connection. Nothing obliges the administrator, a failure or a new request. Without
`Expire` two deletions that hold both connections wait for ever.

### Disagreements between comments and code

- `document-socket.gateway.ts:141`, "must be after saving fs": the `DEL` is after a save,
  but of the text read earlier. A push stored in between is deleted (`flush_claim`).
- `file-structure-public-share.service.ts:153`, "if true then collab exists": after
  `create`, which makes a table under a random hash, or after the last leaver, none does;
  the request then fails and the share cannot be disabled (`toggle_claim`).
- `prisma/schema.prisma:177`, "after successfull verification all column will be deleted":
  the count that is deleted is the one whose *id* is the request's id (`count_claim`).
- `mail/authenctication-mail.service.ts:6`, "User is blocked due to strict mode": the lock is
  written in the transaction that the handler then aborts by throwing (`strict_claim`).
- `file-structure.service.ts:1024`, "replace old parent path with new path": the new path is a replacement
  pattern, in which `$$` stands for `$`; the folder's files are moved to the path itself (`restore_claim`).

## 4. Proofs

`DocCollabProofs` proves, for every set of sockets, requests and edits, every bound and
every regime (no proof opens `Exclusive`, `MaxRunning` or `Offers`; the only assumption
used is `DistinctAssumption`: the two kinds of socket differ, and the nulls are no sockets, edits or texts):

- `TypeCorrect`: `Spec => []TypeOK`. Types are inductive as they stand; the phases, texts
  and tables are kept opaque behind lemmas (`Phases`, `AtType`, `PhaseSet`, `TextOps`,
  `SetDocType`, …), and the step lemma has one case per action.
- `NeverEmptiedHolds`: `Spec => NeverEmptied`. The strengthening `WritesAreNotEmpty` says
  that no handler stands before a write with an empty text; it holds because `hget` turns
  `''` into null and both savers turn null down, and because a saved text is not empty.
- `TableImpliesShareHolds`: `Spec => []TableImpliesShare`. The property is not inductive:
  a late `HSET` could revive the table of an unshared file. `UnsharedIsIdle` adds that
  before the row exists no handler is at a step that touches the table and no list read
  from one is pending (`UnsharedStaysIdle`), that the row never goes away again
  (`RowStays`), and that a table that does not exist has no fields (`TableWhole`).
- `RefusedLeavesNoTraceHolds`: `Spec => []RefusedLeavesNoTrace`. `OneFate` says of each edit
  that what is refused is in no store and in no copy that a handler will write (`Written`), that
  an edit on its way waits in one handler only and is in neither, and that an edit nobody sent is nowhere;
  without the last two a refused edit could have a twin.

`DocMembershipProofs` proves the properties of the run `membership` for every number of sockets, requests
and edits that may run at once, under `Regime`: joins, leaves and toggles do not overlap, and several
tabs of the owner, the bin, a restart and an expired lock, with which the properties are false, are not offered.

- `ListedAreConnectedHolds`, `LockFreedHolds`, `TableLockedHolds`, by the inductive invariant `Members`: at most
  one of the three kinds runs (`OneAtATime`), a socket joins before it leaves (`InOrder`), the list that
  a handler holds is still the table's (`Lists`), who takes the lock away is the last one listed and who
  does not leaves another behind (`LastOne`), a join sets the lock before it touches the table, and a lock that is set
  has somebody who will see to it (`Locks`).
- `NoMissedEditHolds`: `NotedSpec => []NoMissedEditUncrossed`, also without the change set that deletes all
  the text. `Heard` puts `Members`, `UnsharedIsIdle` and `OneFate` together with what holds until a push
  has crossed something: who pushes does so alone and inside the session (`PushesAlone`), a session opens on a table
  that is not there, with the edits that are on disk (`OpensAfresh`), the copies that handlers hold are the
  table's text (`CopiesAreFresh`), and who joins between a push's reading of the servants and of the master finds the
  edit in the text (`NewcomersKnow`). Without the third, a stale copy brings back an edit that was told long ago.

`DocSessionProofs` proves `ImplementsSessionHolds`, that `Spec` implements `CollabSession` under `SessionRegime`: the
exclusions of `SessionMutex`, and of the offers only saves, creating and disabling the share, fetching, second tabs and an expired session key.
`InSession` says who runs beside whom (`Apart`), that a session is open behind the lock until the last leaver has
taken it (`OpenIsLocked`), that whether there is a table does not change under a handler that relies on it
(`TableIsThere`), and that the copies handlers hold are the text and what was written is on disk
(`CopiesAreTheText`). There is one lemma per action, which names the abstract step it is, or that it is none.

`AuthRequestsProofs` proves, for every set of kinds, users and handlers and every bound:

- `TypeCorrect`: `Spec => []TypeOK`, which includes that no count exceeds the limit. It is not
  inductive alone: `Commit` writes what the transaction holds, so `Shape` adds which of its fields are
  set in which phase (a `rewrite` has a request, a `commit` has a row and a count, a `tally` has read
  a count), and that a request once inserted stays a row.
- `UsedTokenIsSpentHolds`: `Spec => []UsedTokenIsSpent`. The strengthening `Spent` says that tokens
  in tables, transactions and history were made (`Bounded`); that at most one row holds a token (`HeldOnce`); that an open send's token is unused
  and in no row, and that no row but the one it found holds the token of a confirmation past its
  lookup, which will delete that row (`Sound`); and that a send shares its token with no other open transaction of these (`Apart`).
  A confirmation therefore deletes the only row that holds its token, and whoever revives that
  row later writes a token of its own.
- `AttemptsCountedHolds`: `Spec => []AttemptsCounted`. `Counted` adds that rows have ids below their sequences (`Filed`),
  in which order a transaction takes its rows (`Orderly`), that what it has read of the count is still so and that it will write
  the next number (`Counting`), and that no two open transactions have written one
  row (`Disjoint`): so the count a send has read is the one it writes back.
- `OneLiveRequestHolds`: `Spec => []OneLiveRequest`. `Alone` adds that what a send found (or did not find) stays the
  user's only live request until it commits, and that two open sends of one user and kind are in `crossed`.
- `SomeoneGoesOn`: while transactions are open, one of them waits for no row of another. It is
  `NoWaitCycle` with `Waiting` spelled out in place of ENABLED, and follows from `Orderly`: identity, request, count.

`AccountsProofs` proves, for every set of addresses and requests, every `Apart` and every bound (from
`BoundsAssumption`, that the bounds are numbers, and `NullAssumption`, that the two nulls are no rows):

- `TypeCorrect`, `RefusedGetNothingHolds`, `GoneIsGoneHolds`. The invariant `Inv` adds to `TypeOK` the types of
  requests and, per request, `HoldOK`: the row that a transaction has updated is there until its commit,
  because `DeleteUserInfo` and `DemoFinish` wait for the row (without it a commit would revive a deleted user); and
  `LateOK`: a request with a reason to get nothing is still before its check, and the check will see the
  reason (a row that was not there, a user who is gone, an account that is locked, for as long as
  `Unlocked` has not withdrawn it). `SignedOut`: a session that was signed out has no row, which is
  what makes `seen` false for it for ever. There is one lemma per action, and frames for the requests that a step leaves alone.
- `LostOnlyIfHeldHolds`: `Spec => LostOnlyIfHeld`. `ClearsOK` adds that a removal of the demo user's files removes
  the files of the user who had the address when it began, or of one who is gone.
- `PicturesInStepHolds`: `Spec => []PicturesInStep`, for every `Apart` and any number of `Failures`. `Shelf` adds, per slot
  (a user's profile or preview) that nothing has hit, that one request replaces its picture, that this request knows
  what the row says, and that the row's picture is on disk until the request lets go of it as is the new one until the
  row names it (`Settled`); that no picture has two owners (`OneOwner`); and that only previews wait for their deletion.
  What has been hit is in `loose`, which is why no exclusion is needed.

`UserSupportProofs` proves, for every set of users and requests, every size of the pool and every bound (from
`NoneAssumption`, that null is no ticket):

- `TypeCorrect`, `ImagesWholeHolds`, `ShutIsShutHolds`. The invariant adds to `TypeOK` and `ImagesWhole`: `CheckedOK`
  (the ticket of a message on its way was pending at some time since the request came, so that it is in
  no `shut`), `ComingOK` (the id of such a message is its own, and its picture is stored before its
  commit) and `KnownOK` (a deletion knows the ticket of its message, as ids do not come back).

`VaultTreeProofs` begins with `NextTitleIsNew`: for every set of titles whose numbers are bounded, `NextTitle`
returns a title that none of them has, if its number is exact. `LargestIs` finds the largest number (by well-foundedness of
the naturals), and `NumberAdded` shows that the new title would itself be found by the search for the
base, so that if it were there its number could not exceed all those found. It needs no property of the
texts; that the code's search looks under the right parent is `KeepBothIsFreshHolds`, below.

It then proves, for every set of requests and of names sent, every limit and every bound (from
`BoundsAssumption`, that the bounds are numbers; `HandlersAssumption`, that requests are finitely many; `NullAssumption`, that
null is no row; `ExactAssumption` and `ExpansionsAssumption`, that `Exact` is a positive number and what a name comes out as is a path; `NamesAssumption`, that names sent have a title that is not empty, and that texts and the
extension of encrypted files are strings). Sums over the table and what is under a row are recursive functions;
`SumGrows` and `ReachIs` say of them all that is needed, by induction over sets of numbers (`Induction`, from the library's
minimal elements). Every action is first shown to be one of a dozen kinds of step (`Works`), by what it does
to the rows and to its request, and what follows is proved of the kinds. Whichever kinds of request overlap:

- `AlwaysTyped` and `AlwaysLedger`. `Typed` is inductive as it stands; it knows what a transaction may have written.
  `Ledger` says that the numbers requests gave out for rows to come are their own, that what a transaction has
  written is locked for the others and still there, and that a row of the bin refers to a row.
- `QuotaNearlyHeldHolds`: `Spec => []QuotaNearlyHeld`. `checkStorageLimit` looks at what is stored already, so that
  requests which look together all pass. `Quota` counts what they will add: the total and the requests that add are
  together within the bound. It rests on `Ledger`, which says that a step makes no row larger but its own, by 1 at most.
- `TypeOKHolds`: `Spec => []TypeOK`. That bin rows refer to rows is in `Ledger`. That the parents of rows are there is not
  inductive: a transaction may publish a row under a parent that has been deleted since. `Parented` adds that what
  a transaction has written hangs under rows that are there and that no other transaction deletes; each kind of step
  keeps it by one of the rules of the foreign key (`Stands`, `Attached`, `Unhung`), and `WithoutParented` says that deleting
  leaves no row behind under what it deleted.

When only uploads and new folders overlap, as in the run (`Regime`, a hypothesis of the theorems; outside it the
properties are false, see section 2):

- `TreeShapeHolds`. As long as nothing is `garbled`, the invariant `Shape` holds (`KeptShape`; likewise `KeptDisk` and `KeptLed` below): a
  path without a pattern has one reading, which is itself, so that `Moves` has one member. `TreeShape` is about the rows; `Shape` adds what the requests that will write rows know:
  an upload or a new folder has the path and depth of its parent's row, or the parent is gone and the insertion will
  fail (`MakerOK`); an encryption writes the row that it found (`EncryptOK`); restoring writes everything in the bin under
  its row, with the part of the path above it exchanged (`RestoreOK`, by the lemmas about `Above`, `Rest` and `Moved`);
  deleting for ever deletes whole trees of the bin (`GoneOK`); and these requests are alone (`Alone`).
- `KeepBothIsFreshHolds` and `ReplacedIsToldHolds`. Two live rows at one path, and all under them, are in `astray` (`OddNoted`), so that
  whatever lies sound at the path of a request has the parent which the request names (`SoundUnder`); for the
  first, `NextTitleIsNew` does the rest, at the moment of the last query: what came between the look at the parent and
  that moment does not matter, if the parent is still there.

`VaultDiskProofs` proves `DataInPlaceHolds`, that `Spec` implies `[]DataInPlace` under `Orderly`: `Regime`, and `Offers` without `"late"`, as
in the run. `DataInPlace` says nothing of what a request has in hand, and so is far from inductive. `Disk` adds:

- where everything lies that no request has in hand, folders as well as files: a live row at its path (`LiveThere`), a row of
  the bin in the directory of some row above it with a row of the bin table, below which there is no other on the way
  (`BinThere`; `Chain` is that way, and says which of several nested moves took the row). `ChainCarrier` then finds this row to be
  the one that `DataInPlace` names;
- that two rows of the bin table have two keys, and no key is used that was not given out (`Keyed`), without which one insertion could
  cover another's directory;
- what each request has done to the directories by its phase: the file that an upload has written for a row not yet
  inserted (`UploadDisk`), the encrypted file beside the one it replaces (`EncryptDisk`), the directory moved under a key whose row of the
  bin is to come, for rows already flagged (`BinDisk`), the tree that is moved back for rows still in the bin (`RestoreDisk`),
  the directory that is gone for rows that are about to go (`GoneDisk`); and that a path waits for a deletion nobody awaits only
  while the encryption that asked for it is open (`RemovedSoon`).

What a step does to the rows of others follows from `HeldStill` and `HeldOutside` (the way up to the bin row stays when no row
on it is touched), and to the trees from `TakenHas`, `CutLeaves`, `PutLeaves` and `LaidIs`; that whatever it does touch is in
`risk`, and in `astray` if it fails or clashes, is the substance of each step.

The converse is `NothingLeftBehindHolds`, under `Orderly` as well: what is on disk, something accounts for. `NothingLeftBehind` speaks of the
times at which no request is under way; `Led` says what accounts for it at all times. As long as nothing
failed, clashed, or is bound to (`Clean`: a request that restores what has another bin row in it, `Nested`, will leave live
rows with a bin row, and name them in `astray`):

- every path in the user's directory is that of a live row, or is waiting for a deletion nobody awaits, or belongs to what a
  request does in its present phase (`ContentLed`, `Covers`): the file written for a row to come, what is under a folder whose rows
  are deleted but not its directory, the directories made on the way to a new folder, the files of rows that went to the
  bin a step before them, the tree laid out for rows still in the bin;
- every path in the directory of a key belongs to a row that went to the bin with the row of that key, by a chain as in `Disk` (`TrashLed`,
  `Carried`), or to one that a request is bringing (`Brings`);
- an emptied directory of the bin is gone (`Trees`), for which the property asks.

`JobLed` adds what holds whether or not anything failed: a request that accounts for something has `touched` set, so that giving
up sets `dirty` (`AbortLed`: this is what makes the failure paths inductive), the rows that an upload replaces have its path, the old
file of an encryption is gone or about to go, and there is nothing on disk when an emptied vault's rows go. `ContentLedStep` and `TrashLedStep` reduce a
step to its own part, as `DiskStep` does for `Disk`. Where a step deletes live rows (`ThinnedLed`), a path that led to one of them must be
accounted for by the request; where it takes a subtree (`BinMoveLed`, `RestoreMoveLed`, `ForgetMoveLed`), `Disk`'s chains show that what it takes
belongs to the rows it will change and to no others (`CarriedWith`, `EmptiedLed`).

The attempt to prove `DataInPlaceHolds` corrected the model: `Odd` took only the rows that share a path or kept a bin row, and what lies under them
was found by its ancestors in the tables, when the property asked. A folder binned on its own, and back with the folder above it,
is such a row, and its directory is still in the bin. But a folder in it can then be binned and restored elsewhere: it has other
ancestors, and what is in it has a path where nothing lies. With five rows and three keys TLC finds that history. `Odd` now takes
everything under the path when the step is taken, and `astray` keeps it.

`TypeOKHolds` corrected the model too: without the rules of the foreign key that `Unhung` and `RestoreMove` now have, restoring
beside a deletion could hang a row under one that was gone, which the database refuses.
`ReplacedIsTold` came out of its proof with one more condition: the attempt found a history in which it failed, described in section 2, that
the run's bounds (three rows, and two keys) do not reach. With five rows and one failure, TLC finds that history in the
property without the condition and nothing in the property with it.

Only model-checked: `NoWaitCycle` as it stands, which is about ENABLED (`SomeoneGoesOn` is what is proved of it); and liveness
(`Answered`), which the prover cannot do. The regimes of `DocMembershipProofs`,
`DocSessionProofs`, `VaultTreeProofs` and `VaultDiskProofs` are hypotheses of their theorems, since the properties are false outside.

## 5. Not modelled, and the plan

Left in the plan:

1. Public shares in `VaultTree` (they keep rows from being deleted), and `cleanUpSpace` beside uploads, with
   what `DataInPlace` and `NothingLeftBehind` still say then.
2. The two theorems about the disk with `"late"` in `Offers`: a deletion that comes after its request clashes with whatever was put at the
   path meanwhile, and `Clash` would have to name that when it is put there.

Not modelled, and why: `downloadById` builds a zip for one response and deletes it when the response
closes; the colour of a folder and the reading of lists change nothing that a property is about; legal documents are single
rows written by the administrator; feedback's `create` always throws; tokens' cryptography, mail, cookies,
configuration and the validation of requests are I/O or library calls.
