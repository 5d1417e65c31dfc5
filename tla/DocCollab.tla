----------------------------- MODULE DocCollab -----------------------------
(***************************************************************************)
(* Collaborative editing of one text file of the vault.                    *)
(*                                                                         *)
(* The text lives in two places: on disk, and, while people edit it        *)
(* together, in a Redis hash table.  Sockets of the owner and of invited   *)
(* participants ("servants") join, push changes and leave; HTTP requests   *)
(* of the owner save the text or switch sharing on and off.  Every handler *)
(* is an async function: it is interrupted at each await, and the handlers *)
(* of all the sockets and requests interleave there.  Here a handler is a  *)
(* phase and its local variables, and one action is the code between two   *)
(* awaits that touches shared state.                                       *)
(***************************************************************************)
EXTENDS Naturals, FiniteSets

CONSTANTS
    Owners,     \* sockets (browser tabs, reloads) of the file's owner
    Servants,   \* sockets opened through the public link
    Requests,   \* HTTP requests of the owner
    Edits,      \* change sets and saved texts, each sent once
    Original,   \* the text that was uploaded, if it was not empty
    Clear,      \* a change set that deletes the whole text
    None,       \* null
    Exclusive,  \* pairs of kinds of handler that never overlap
    MaxRunning, \* bound: handlers running at the same time
    Offers      \* what the environment may do, apart from joining and pushing

Sockets == Owners \cup Servants

\* Kinds of handler, for Exclusive.
Kinds == {"connect", "disconnect", "push", "save", "toggle"}

\* "save"/"force": the owner saves over HTTP, with or without the lock check;
\* "create"/"disable"/"enable": sharing is switched; "again": it is switched to
\* the state it is in already; "empty": a change set may delete all the text;
\* "fetch": the clients' copies are tracked; "tabs": the owner opens the file in
\* several tabs at once, and not only one after another; "bin", "crash": the file goes
\* to the bin and back, the server restarts; "expire", "expireUser": the lock or the
\* owner's session key reaches its TTL.
AllOffers ==
    {"save", "force", "create", "disable", "enable", "again", "empty",
     "fetch", "tabs", "bin", "crash", "expire", "expireUser"}

ASSUME DistinctAssumption ==
    /\ Owners \cap Servants = {}
    /\ None \notin Sockets \cup Edits
    /\ \A text \in SUBSET (Edits \cup {Original}) : text # None
    /\ Original \notin Edits /\ Clear \notin Edits \cup {Original, None}
    /\ Exclusive \subseteq {{k, l} : k \in Kinds, l \in Kinds}
    /\ Offers \subseteq AllOffers

VARIABLES
    share,    \* the public share row: "none", "enabled" or "disabled"
    inBin,    \* FileStructure.isInBin
    file,     \* the text on disk
    lock,     \* the edit lock: the socket that set it last, or None
    userKey,  \* whether the owner's "user is in session" key exists
    table,    \* the collaboration hash table
    stray,    \* a table was created under a hash that belongs to no file
    conn,     \* handleConnection of each socket
    push,     \* handlePushUpdates of each socket
    disc,     \* handleDisconnect of each socket
    req,      \* the HTTP requests
    sent,     \* edits used so far
    refused,  \* edits the server turned down or ignored
    view      \* edits each client knows of, None before its first fetch

stores == <<share, inBin, file, lock, userKey, table, stray>>
handlers == <<conn, push, disc, req>>
history == <<sent, refused, view>>
vars == <<stores, handlers, history>>

----------------------------------------------------------------------------
\* Texts, the hash table and the handlers' local state.

\* A text is the set of what was written into it; the empty set is ''.
Texts == SUBSET (Edits \cup {Original})

Table ==
    [exists : BOOLEAN, doc : Texts \cup {None},
     master : Owners \cup {None}, servants : SUBSET Servants]

NoTable == [exists |-> FALSE, doc |-> None, master |-> None, servants |-> {}]

\* What RedisService.hget returns for 'doc': '' is falsy and comes back null.
StoredDoc == IF table.doc = {} THEN None ELSE table.doc

\* The sockets the table lists.
Listed == table.servants \cup ({table.master} \ {None})

\* A field set by HSET brings a deleted table back, with that field alone.
SetField(field, value) == [table EXCEPT !.exists = TRUE, ![field] = value]

At(pc, list, text) == [pc |-> pc, list |-> list, text |-> text]
AtPhase(pc) == At(pc, {}, {})

ConnPhases ==
    {"idle", "lock", "share", "lockThenExists", "lockThenDone", "exists", "read",
     "create", "join", "add", "failed", "done"}
DiscPhases ==
    {"idle", "params", "servants", "master", "unlock", "text", "check", "write",
     "delete", "remove", "done"}
PushPhases == {"idle", "read", "store", "tell", "master"}
ReqPhases ==
    {"idle", "save", "make", "text", "flush", "drop", "read", "fill",
     "disabling", "enabling", "done"}

Handler(phases) == [pc : phases, list : SUBSET Servants, text : Texts]

NoPush == [pc |-> "idle", edit |-> Clear, list |-> {}, text |-> {}]

TypeOK ==
    /\ share \in {"none", "enabled", "disabled"}
    /\ inBin \in BOOLEAN
    /\ file \in Texts
    /\ lock \in Sockets \cup {None}
    /\ userKey \in BOOLEAN
    /\ table \in Table
    /\ stray \in BOOLEAN
    /\ conn \in [Sockets -> Handler(ConnPhases)]
    /\ push \in [Sockets -> [pc : PushPhases, edit : Edits \cup {Clear},
                             list : SUBSET Servants, text : Texts]]
    /\ disc \in [Sockets -> Handler(DiscPhases)]
    /\ req \in [Requests -> Handler(ReqPhases)]
    /\ sent \subseteq Edits
    /\ refused \in Texts
    /\ view \in [Sockets -> (SUBSET Edits) \cup {None}]

Init ==
    /\ share \in {"none", "enabled", "disabled"}
    /\ file \in {{}, {Original}}
    /\ inBin = FALSE
    /\ lock = None
    /\ userKey = FALSE
    /\ table = NoTable
    /\ stray = FALSE
    /\ conn = [s \in Sockets |-> AtPhase("idle")]
    /\ push = [s \in Sockets |-> NoPush]
    /\ disc = [s \in Sockets |-> AtPhase("idle")]
    /\ req = [r \in Requests |-> AtPhase("idle")]
    /\ sent = {}
    /\ refused = {}
    /\ view = [s \in Sockets |-> None]

----------------------------------------------------------------------------
\* Which handlers run, and when the environment starts another.

Connecting(s) == conn[s].pc \notin {"idle", "failed", "done"}
Leaving(s) == disc[s].pc \notin {"idle", "done"}
Pushing(s) == push[s].pc # "idle"
Saving(r) == req[r].pc = "save"
Toggling(r) == req[r].pc \notin {"idle", "save", "done"}

\* A socket is connected from its admission until it leaves or is thrown out.
Connected(s) == conn[s].pc # "idle" /\ disc[s].pc = "idle"

Active(kind) ==
    CASE kind = "connect" -> {s \in Sockets : Connecting(s)}
      [] kind = "disconnect" -> {s \in Sockets : Leaving(s)}
      [] kind = "push" -> {s \in Sockets : Pushing(s)}
      [] kind = "save" -> {r \in Requests : Saving(r)}
      [] kind = "toggle" -> {r \in Requests : Toggling(r)}

HandlersRunning ==
    Cardinality(Active("connect")) + Cardinality(Active("disconnect"))
    + Cardinality(Active("push")) + Cardinality(Active("save"))
    + Cardinality(Active("toggle"))

\* The code takes no mutex: with Exclusive = {} only the bound limits it.
MayStart(kind) ==
    /\ \A other \in Kinds : {kind, other} \in Exclusive => Active(other) = {}
    /\ HandlersRunning < MaxRunning

----------------------------------------------------------------------------
\* handleConnection.  The key of a servant's socket is never read and is left
\* out; the notifications to the other participants change no state.

\* The middleware lets a servant in while the share is enabled.
Admitted(s) == s \in Servants => share = "enabled"

\* A socket is admitted; the owner's session key is set at once.
Admit(s) ==
    /\ conn[s].pc = "idle"
    /\ MayStart("connect")
    /\ Admitted(s)
    /\ s \in Owners /\ "tabs" \notin Offers => \A o \in Owners : ~Connected(o)
    /\ userKey' = (userKey \/ s \in Owners)
    /\ conn' = [conn EXCEPT ![s].pc = "lock"]
    /\ UNCHANGED <<share, inBin, file, lock, table, stray, push, disc, req, history>>

\* setLock: SET overrides whatever lock there is.  It is sent before the other
\* commands to Redis, but an owner's row may be read from the database before it.
AfterLock(s) ==
    CASE conn[s].pc = "lockThenExists" -> "exists"
      [] conn[s].pc = "lockThenDone" -> "done"
      [] OTHER -> IF s \in Owners THEN "share" ELSE "exists"

ConnSetLock(s) ==
    /\ conn[s].pc \in {"lock", "lockThenExists", "lockThenDone"}
    /\ lock' = s
    /\ conn' = [conn EXCEPT ![s].pc = AfterLock(s)]
    /\ UNCHANGED <<share, inBin, file, userKey, table, stray, push, disc, req, history>>

\* Mutant: the row is not looked at.
ConnIsEnabledUnchecked(s) ==
    /\ s \in Owners /\ conn[s].pc \in {"lock", "share"}
    /\ conn' = [conn EXCEPT ![s].pc =
                  IF conn[s].pc = "share" THEN "exists" ELSE "lockThenExists"]
    /\ UNCHANGED <<stores, push, disc, req, history>>

ConnIsEnabled(s) ==
    /\ s \in Owners /\ conn[s].pc \in {"lock", "share"}
    /\ LET locked == conn[s].pc = "share"
           next == IF share = "enabled"
                   THEN IF locked THEN "exists" ELSE "lockThenExists"
                   ELSE IF locked THEN "done" ELSE "lockThenDone"
       IN  conn' = [conn EXCEPT ![s].pc = next]
    /\ UNCHANGED <<stores, push, disc, req, history>>

ConnExists(s) ==
    /\ conn[s].pc = "exists"
    /\ conn' = [conn EXCEPT ![s].pc = IF table.exists THEN "join" ELSE "read"]
    /\ UNCHANGED <<stores, push, disc, req, history>>


\* A file that has gone to the bin cannot be read: the client is disconnected.
ConnReadFile(s) ==
    /\ conn[s].pc = "read"
    /\ conn' = [conn EXCEPT ![s] =
                  IF inBin THEN AtPhase("failed") ELSE At("create", {}, file)]
    /\ UNCHANGED <<stores, push, disc, req, history>>

\* Mutant: whoever makes the table becomes its master.
ConnCreateTableAsMaster(s) ==
    /\ conn[s].pc = "create"
    /\ table' = [exists |-> TRUE, doc |-> conn[s].text, master |-> s, servants |-> {}]
    /\ conn' = [conn EXCEPT ![s] = AtPhase("done")]
    /\ UNCHANGED <<share, inBin, file, lock, userKey, stray, push, disc, req, history>>

ConnCreateTable(s) ==
    /\ conn[s].pc = "create"
    /\ table' = [exists |-> TRUE, doc |-> conn[s].text,
                 master |-> IF s \in Owners THEN s ELSE None,
                 servants |-> IF s \in Servants THEN {s} ELSE {}]
    /\ conn' = [conn EXCEPT ![s] = AtPhase("done")]
    /\ UNCHANGED <<share, inBin, file, lock, userKey, stray, push, disc, req, history>>

ConnSetMaster(s) ==
    /\ conn[s].pc = "join" /\ s \in Owners
    /\ table' = SetField("master", s)
    /\ conn' = [conn EXCEPT ![s].pc = "done"]
    /\ UNCHANGED <<share, inBin, file, lock, userKey, stray, push, disc, req, history>>

\* addServant reads the list, and writes it back one step later.
ConnReadServants(s) ==
    /\ conn[s].pc = "join" /\ s \in Servants
    /\ conn' = [conn EXCEPT ![s] =
                  IF s \in table.servants THEN AtPhase("done")
                  ELSE At("add", table.servants, {})]
    /\ UNCHANGED <<stores, push, disc, req, history>>

ConnAddServant(s) ==
    /\ conn[s].pc = "add" /\ s \in Servants
    /\ table' = SetField("servants", conn[s].list \cup {s})
    /\ conn' = [conn EXCEPT ![s] = AtPhase("done")]
    /\ UNCHANGED <<share, inBin, file, lock, userKey, stray, push, disc, req, history>>

Connect(s) ==
    \/ ConnSetLock(s) \/ ConnIsEnabled(s) \/ ConnExists(s) \/ ConnReadFile(s)
    \/ ConnCreateTable(s) \/ ConnSetMaster(s) \/ ConnReadServants(s)
    \/ ConnAddServant(s)

----------------------------------------------------------------------------
\* handleDisconnect.

\* The client closes, at any time after it was admitted, or is thrown out after
\* its connection failed; the owner's session key goes first.
Leave(s) ==
    /\ Connected(s)
    /\ MayStart("disconnect")
    /\ userKey' = (userKey /\ s \notin Owners)
    /\ disc' = [disc EXCEPT ![s].pc = "params"]
    /\ UNCHANGED <<share, inBin, file, lock, table, stray, conn, push, req, history>>

\* getDisconnectParams: a file in the bin is not found, and the handler returns.
DiscParams(s) ==
    /\ disc[s].pc = "params"
    /\ disc' = [disc EXCEPT ![s].pc = IF inBin THEN "done" ELSE "servants"]
    /\ UNCHANGED <<stores, conn, push, req, history>>

\* An owner decides on the servants alone, a servant asks for the master too.
DiscServants(s) ==
    /\ disc[s].pc = "servants"
    /\ disc' = [disc EXCEPT ![s] =
                  IF s \in Servants THEN At("master", table.servants, {})
                  ELSE IF table.servants = {} THEN AtPhase("unlock")
                  ELSE AtPhase("remove")]
    /\ UNCHANGED <<stores, conn, push, req, history>>

\* Mutant: a missing master counts as a person (no filter(Boolean)).
DiscMasterNullCounts(s) ==
    /\ disc[s].pc = "master"
    /\ disc' = [disc EXCEPT ![s] = At("remove", disc[s].list \ {s}, {})]
    /\ UNCHANGED <<stores, conn, push, req, history>>

\* Mutant: a servant decides on the servants alone, as an owner does.
DiscMasterIgnored(s) ==
    /\ disc[s].pc = "master"
    /\ LET others == disc[s].list \ {s}
       IN  disc' = [disc EXCEPT ![s] =
                      IF others = {} THEN AtPhase("unlock") ELSE At("remove", others, {})]
    /\ UNCHANGED <<stores, conn, push, req, history>>

DiscMaster(s) ==
    /\ disc[s].pc = "master"
    /\ LET others == disc[s].list \ {s}
       IN  disc' = [disc EXCEPT ![s] =
                      IF table.master = None /\ others = {} THEN AtPhase("unlock")
                      ELSE At("remove", others, {})]
    /\ UNCHANGED <<stores, conn, push, req, history>>

\* removeLock deletes the key, whoever set it.
DiscRemoveLock(s) ==
    /\ disc[s].pc = "unlock"
    /\ lock' = None
    /\ disc' = [disc EXCEPT ![s].pc = "text"]
    /\ UNCHANGED <<share, inBin, file, userKey, table, stray, conn, push, req, history>>

\* Mutant: the empty text is saved too (no `!text` guard).
DiscReadDocUnguarded(s) ==
    /\ disc[s].pc = "text"
    /\ disc' = [disc EXCEPT ![s] =
                  IF table.doc = None THEN AtPhase("delete")
                  ELSE At("check", {}, table.doc)]
    /\ UNCHANGED <<stores, conn, push, req, history>>

\* Mutant: the table is deleted and never saved.
DiscReadDocUnsaved(s) ==
    /\ disc[s].pc = "text"
    /\ disc' = [disc EXCEPT ![s] = AtPhase("delete")]
    /\ UNCHANGED <<stores, conn, push, req, history>>

\* saveFileStructure: without a text there is nothing to save.
DiscReadDoc(s) ==
    /\ disc[s].pc = "text"
    /\ disc' = [disc EXCEPT ![s] =
                  IF StoredDoc = None THEN AtPhase("delete")
                  ELSE At("check", {}, StoredDoc)]
    /\ UNCHANGED <<stores, conn, push, req, history>>

\* replaceText refuses a file that is being edited: the error ends the handler.
DiscCheckLock(s) ==
    /\ disc[s].pc = "check"
    /\ disc' = [disc EXCEPT ![s] =
                  IF lock # None THEN AtPhase("done") ELSE [@ EXCEPT !.pc = "write"]]
    /\ UNCHANGED <<stores, conn, push, req, history>>

DiscWriteFile(s) ==
    /\ disc[s].pc = "write"
    /\ file' = IF inBin THEN file ELSE disc[s].text
    /\ disc' = [disc EXCEPT ![s] = AtPhase(IF inBin THEN "done" ELSE "delete")]
    /\ UNCHANGED <<share, inBin, lock, userKey, table, stray, conn, push, req, history>>

DiscDeleteTable(s) ==
    /\ disc[s].pc = "delete"
    /\ table' = NoTable
    /\ disc' = [disc EXCEPT ![s].pc = "done"]
    /\ UNCHANGED <<share, inBin, file, lock, userKey, stray, conn, push, req, history>>

\* Mutant: the leaver stays in the list it writes back.
DiscRemoveSelfKept(s) ==
    /\ disc[s].pc = "remove"
    /\ table' = IF s \in Servants THEN SetField("servants", disc[s].list \cup {s})
                ELSE SetField("master", None)
    /\ disc' = [disc EXCEPT ![s] = AtPhase("done")]
    /\ UNCHANGED <<share, inBin, file, lock, userKey, stray, conn, push, req, history>>

\* removeServant writes back the list read before; removeMasterSocketId clears
\* the field whoever it names.
DiscRemoveSelf(s) ==
    /\ disc[s].pc = "remove"
    /\ table' = IF s \in Servants THEN SetField("servants", disc[s].list)
                ELSE SetField("master", None)
    /\ disc' = [disc EXCEPT ![s] = AtPhase("done")]
    /\ UNCHANGED <<share, inBin, file, lock, userKey, stray, conn, push, req, history>>

Disconnect(s) ==
    \/ DiscParams(s) \/ DiscServants(s) \/ DiscMaster(s) \/ DiscRemoveLock(s)
    \/ DiscReadDoc(s) \/ DiscCheckLock(s) \/ DiscWriteFile(s) \/ DiscDeleteTable(s)
    \/ DiscRemoveSelf(s)

----------------------------------------------------------------------------
\* handlePushUpdates, one change set of a socket at a time.

Refuse(edit) == refused' = refused \cup ({edit} \ {Clear})

\* The change arrives; without a table it is ignored.
PushExists(s, edit) ==
    /\ Connected(s) /\ conn[s].pc # "failed" /\ ~Pushing(s)
    /\ MayStart("push")
    /\ sent' = sent \cup ({edit} \ {Clear})
    /\ IF table.exists
       THEN /\ push' = [push EXCEPT ![s].pc = "read", ![s].edit = edit]
            /\ UNCHANGED refused
       ELSE UNCHANGED push /\ Refuse(edit)
    /\ UNCHANGED <<stores, conn, disc, req, view>>

\* A table without a text: everybody is told to reconnect.
PushNoDoc(s) ==
    /\ push[s].pc = "read"
    /\ StoredDoc = None
    /\ Refuse(push[s].edit)
    /\ push' = [push EXCEPT ![s] = NoPush]
    /\ UNCHANGED <<stores, conn, disc, req, sent, view>>

\* ChangeSet.apply throws when the change was made to a text of another length.
PushMismatch(s) ==
    /\ push[s].pc = "read"
    /\ StoredDoc # None
    /\ Refuse(push[s].edit)
    /\ push' = [push EXCEPT ![s] = NoPush]
    /\ UNCHANGED <<stores, conn, disc, req, sent, view>>

PushApply(s) ==
    /\ push[s].pc = "read"
    /\ StoredDoc # None
    /\ LET newDoc == IF push[s].edit = Clear THEN {} ELSE StoredDoc \cup {push[s].edit}
       IN  push' = [push EXCEPT ![s].pc = "store", ![s].text = newDoc]
    /\ UNCHANGED <<stores, conn, disc, req, history>>

PushStore(s) ==
    /\ push[s].pc = "store"
    /\ table' = SetField("doc", push[s].text)
    /\ push' = [push EXCEPT ![s].pc = "tell", ![s].text = {}]
    /\ UNCHANGED <<share, inBin, file, lock, userKey, stray, conn, disc, req, history>>

\* Those who have fetched the text and hear of the change know of it.
Tell(s, told) ==
    /\ view' = [c \in Sockets |->
                  IF c \in {s} \cup told /\ view[c] # None
                  THEN view[c] \cup ({push[s].edit} \ {Clear})
                  ELSE view[c]]
    /\ push' = [push EXCEPT ![s] = NoPush]
    /\ UNCHANGED <<stores, conn, disc, req, sent, refused>>

\* An owner's change goes to the servants, and not to the owner's other tabs.
PushTell(s) ==
    /\ push[s].pc = "tell" /\ s \in Owners
    /\ Tell(s, table.servants)

\* For a servant's the master is asked for after the servants.
PushServants(s) ==
    /\ push[s].pc = "tell" /\ s \in Servants
    /\ push' = [push EXCEPT ![s].pc = "master", ![s].list = table.servants]
    /\ UNCHANGED <<stores, conn, disc, req, history>>

\* Mutant: the master is not told of a servant's change.
PushMasterUntold(s) ==
    /\ push[s].pc = "master"
    /\ Tell(s, push[s].list)

PushMaster(s) ==
    /\ push[s].pc = "master"
    /\ Tell(s, push[s].list \cup ({table.master} \ {None}))

Push(s) ==
    \/ PushNoDoc(s) \/ PushMismatch(s) \/ PushApply(s) \/ PushStore(s)
    \/ PushTell(s) \/ PushServants(s) \/ PushMaster(s)

\* A client told to pull the whole document fetches it over HTTP, from the table
\* if it has a text there, and keeps what it has heard meanwhile.
Fetch(s) ==
    /\ "fetch" \in Offers
    /\ Connected(s) /\ conn[s].pc = "done" /\ ~inBin
    /\ LET text == IF StoredDoc = None THEN file ELSE StoredDoc
           known == IF view[s] = None THEN {} ELSE view[s]
       IN  view' = [view EXCEPT ![s] = known \cup (text \cap Edits)]
    /\ UNCHANGED <<stores, handlers, sent, refused>>

----------------------------------------------------------------------------
\* HTTP requests.

Begin(r, kind) == req[r].pc = "idle" /\ MayStart(kind)

\* replaceText with checkEditMode, and without it.
ReqSave(r, edit) ==
    /\ Begin(r, "save")
    /\ \/ "save" \in Offers /\ lock = None
       \/ "force" \in Offers
    /\ sent' = sent \cup {edit}
    /\ req' = [req EXCEPT ![r] = At("save", {}, {edit})]
    /\ UNCHANGED <<stores, conn, push, disc, refused, view>>

\* Mutant: the refusal is not thrown.
ReqSaveNotThrown(r, edit) ==
    /\ Begin(r, "save")
    /\ "save" \in Offers /\ lock # None
    /\ sent' = sent \cup {edit}
    /\ Refuse(edit)
    /\ req' = [req EXCEPT ![r] = At("save", {}, {edit})]
    /\ UNCHANGED <<stores, conn, push, disc, view>>

ReqSaveRefused(r, edit) ==
    /\ Begin(r, "save")
    /\ "save" \in Offers /\ lock # None
    /\ sent' = sent \cup {edit}
    /\ Refuse(edit)
    /\ req' = [req EXCEPT ![r].pc = "done"]
    /\ UNCHANGED <<stores, conn, push, disc, view>>

ReqSaveWrite(r) ==
    /\ req[r].pc = "save"
    /\ IF inBin
       THEN refused' = refused \cup req[r].text /\ UNCHANGED file
       ELSE file' = req[r].text /\ UNCHANGED refused
    /\ req' = [req EXCEPT ![r] = AtPhase("done")]
    /\ UNCHANGED <<share, inBin, lock, userKey, table, stray, conn, push, disc, sent, view>>

\* create: only for an owner in session.
ReqCreate(r) ==
    /\ "create" \in Offers
    /\ Begin(r, "toggle")
    /\ req' = [req EXCEPT ![r].pc = IF userKey THEN "make" ELSE "done"]
    /\ UNCHANGED <<stores, conn, push, disc, history>>

\* The row is made, and a table under a fresh random hash, not the file's.
ReqMakeShare(r) ==
    /\ req[r].pc = "make"
    /\ LET shareable == share = "none" /\ ~inBin
       IN  /\ share' = IF shareable THEN "enabled" ELSE share
           /\ stray' = (stray \/ shareable)
    /\ req' = [req EXCEPT ![r].pc = "done"]
    /\ UNCHANGED <<inBin, file, lock, userKey, table, conn, push, disc, history>>

\* The transaction that toggles the row holds the row's lock until it ends.
RowLocked == \E r \in Requests : Toggling(r) /\ req[r].pc # "make"

ReqDisable(r) ==
    /\ "disable" \in Offers
    /\ Begin(r, "toggle") /\ ~RowLocked
    /\ share = "enabled" \/ (share = "disabled" /\ "again" \in Offers)
    /\ req' = [req EXCEPT ![r].pc = IF inBin THEN "done" ELSE "text"]
    /\ UNCHANGED <<stores, conn, push, disc, history>>

\* "if true then collab exists": otherwise the request fails and is rolled back.
ReqReadDoc(r) ==
    /\ req[r].pc = "text"
    /\ req' = [req EXCEPT ![r] =
                 IF StoredDoc = None THEN AtPhase("done") ELSE At("flush", {}, StoredDoc)]
    /\ UNCHANGED <<stores, conn, push, disc, history>>

ReqWriteFile(r) ==
    /\ req[r].pc = "flush"
    /\ file' = IF inBin THEN file ELSE req[r].text
    /\ req' = [req EXCEPT ![r] = AtPhase(IF inBin THEN "done" ELSE "drop")]
    /\ UNCHANGED <<share, inBin, lock, userKey, table, stray, conn, push, disc, history>>

ReqDeleteTable(r) ==
    /\ req[r].pc = "drop"
    /\ table' = NoTable
    /\ req' = [req EXCEPT ![r].pc = "disabling"]
    /\ UNCHANGED <<share, inBin, file, lock, userKey, stray, conn, push, disc, history>>

ReqEnable(r) ==
    /\ "enable" \in Offers
    /\ Begin(r, "toggle") /\ ~RowLocked
    /\ share = "disabled" \/ (share = "enabled" /\ "again" \in Offers)
    /\ req' = [req EXCEPT ![r].pc = IF inBin THEN "done" ELSE "read"]
    /\ UNCHANGED <<stores, conn, push, disc, history>>

ReqReadFile(r) ==
    /\ req[r].pc = "read"
    /\ req' = [req EXCEPT ![r] =
                 IF inBin THEN AtPhase("done") ELSE At("fill", table.servants, file)]
    /\ UNCHANGED <<stores, conn, push, disc, history>>

ReqCreateTable(r) ==
    /\ req[r].pc = "fill"
    /\ table' = [exists |-> TRUE, doc |-> req[r].text, master |-> None,
                 servants |-> req[r].list]
    /\ req' = [req EXCEPT ![r] = AtPhase("enabling")]
    /\ UNCHANGED <<share, inBin, file, lock, userKey, stray, conn, push, disc, history>>

\* The row changes for the others when the transaction commits, at the very end.
ReqCommit(r) ==
    /\ req[r].pc \in {"disabling", "enabling"}
    /\ share' = IF req[r].pc = "disabling" THEN "disabled" ELSE "enabled"
    /\ req' = [req EXCEPT ![r].pc = "done"]
    /\ UNCHANGED <<inBin, file, lock, userKey, table, stray, conn, push, disc, history>>

Serve(r) ==
    \/ ReqSaveWrite(r) \/ ReqMakeShare(r) \/ ReqReadDoc(r) \/ ReqWriteFile(r)
    \/ ReqDeleteTable(r) \/ ReqReadFile(r) \/ ReqCreateTable(r) \/ ReqCommit(r)

Request(r) ==
    \/ \E edit \in Edits \ sent : ReqSave(r, edit) \/ ReqSaveRefused(r, edit)
    \/ ReqCreate(r) \/ ReqDisable(r) \/ ReqEnable(r)

----------------------------------------------------------------------------
\* What happens to the file and the server.

\* moveToBin and restoreFromBin, neither of which looks at the lock.
MoveToBinOrBack ==
    /\ "bin" \in Offers
    /\ inBin' = ~inBin
    /\ UNCHANGED <<share, file, lock, userKey, table, stray, handlers, history>>

\* The lock and the session key are set with a TTL of two days.
ExpireLock ==
    /\ "expire" \in Offers
    /\ lock # None
    /\ lock' = None
    /\ UNCHANGED <<share, inBin, file, userKey, table, stray, handlers, history>>

ExpireUserKey ==
    /\ "expireUser" \in Offers
    /\ userKey
    /\ userKey' = FALSE
    /\ UNCHANGED <<share, inBin, file, lock, table, stray, handlers, history>>

\* The server stops and starts again: the sockets and the handlers are gone, the
\* open transaction is rolled back, Redis and the disk keep what they have.
Crash ==
    /\ "crash" \in Offers
    /\ conn' = [s \in Sockets |->
                  IF conn[s].pc = "idle" THEN conn[s] ELSE AtPhase("done")]
    /\ disc' = [s \in Sockets |->
                  IF conn[s].pc = "idle" THEN disc[s] ELSE AtPhase("done")]
    /\ push' = [s \in Sockets |-> NoPush]
    /\ req' = [r \in Requests |->
                 IF req[r].pc = "idle" THEN req[r] ELSE AtPhase("done")]
    /\ UNCHANGED <<stores, history>>

----------------------------------------------------------------------------
Next ==
    \/ \E s \in Sockets :
         \/ Admit(s) \/ Connect(s) \/ Leave(s) \/ Disconnect(s)
         \/ Push(s) \/ Fetch(s)
         \/ \E edit \in Edits \ sent : PushExists(s, edit)
         \/ "empty" \in Offers /\ PushExists(s, Clear)
    \/ \E r \in Requests : Request(r) \/ Serve(r)
    \/ MoveToBinOrBack \/ ExpireLock \/ ExpireUserKey \/ Crash

Spec == Init /\ [][Next]_vars


----------------------------------------------------------------------------
\* Safety that holds whatever overlaps.

\* Only checkSharing and a toggle make the file's hash table, both behind the
\* share row, and the row is never deleted: a file nobody shared has no table,
\* not even one that a late HSET of a leaving or pushing socket brings back.
TableImpliesShare == table.exists => share # "none"

\* What makes it inductive: before there is a row, no handler is at a step that
\* would touch the table, and no list of servants was read from one.
UnsharedIsIdle ==
    /\ table.exists \/ table = NoTable
    /\ share = "none" =>
         /\ table = NoTable
         /\ \A o \in Owners : conn[o].pc \in
              {"idle", "lock", "share", "lockThenDone", "failed", "done"}
         /\ \A s \in Servants : conn[s].pc \in {"idle", "failed", "done"}
         /\ \A s \in Sockets :
              push[s].pc = "idle" /\ disc[s].pc # "remove" /\ disc[s].list = {}
         /\ \A r \in Requests : req[r].pc \in {"idle", "save", "make", "done"}

\* A change that the server ignored, answered with "retry" or could not apply,
\* and a save it refused, is found neither on disk nor in the table, whatever
\* stale copies the handlers write back.
RefusedLeavesNoTrace ==
    refused \cap (file \cup IF table.doc = None THEN {} ELSE table.doc) = {}

\* A text on disk is never replaced by an empty one: every path that writes it
\* (the last leaver, disabling, an HTTP save) turns the empty text down.
NeverEmptied == [][file # {} => file' # {}]_vars

\* What makes it inductive: no handler is about to write an empty text to disk.
WritesAreNotEmpty ==
    /\ \A s \in Sockets : disc[s].pc \in {"check", "write"} => disc[s].text # {}
    /\ \A r \in Requests : req[r].pc \in {"save", "flush"} => req[r].text # {}

----------------------------------------------------------------------------
\* Who is in the session, and the lock, when joins, leaves and toggles do not
\* overlap each other.

\* Everybody the table lists is still there: nobody waits for a ghost, and the
\* last one to leave finds the list empty.
ListedAreConnected == \A s \in Listed : Connected(s) \/ Leaving(s)

\* When all the sockets have gone the lock is free, and saves pass again.
LockFreed ==
    (\A s \in Sockets : ~Connected(s) /\ ~Leaving(s) /\ ~Connecting(s)) => lock = None

\* While a listed participant is connected the lock is set, so that a checked
\* save cannot write under the session.
TableLocked == (\E s \in Listed : Connected(s)) => lock # None

\* Changes that are stored and not yet told to the others.
Untold == {push[p].edit : p \in {q \in Sockets : push[q].pc \in {"tell", "master"}}}

\* A listed participant that has fetched the text misses none of these edits in
\* it, when it was listed before it fetched, and a change is stored before the
\* list of those to be told is read.
NoMissedEdit(edits) ==
    \A s \in Listed :
        view[s] # None /\ table.doc # None =>
            table.doc \cap edits \subseteq view[s] \cup Untold

----------------------------------------------------------------------------
\* The session as its users see it.

Session == INSTANCE CollabSession WITH
    disk <- file,
    open <- table.exists,
    text <- IF table.doc = None THEN file ELSE table.doc

\* Tables, locks and handlers together implement a session on the text, when
\* pushes overlap only joins and saves, and nothing else overlaps.
ImplementsSession == Session!Spec

----------------------------------------------------------------------------
\* What comments of the code say, and the code does not do.

\* "must be after saving fs": when the last leaver deletes the table, what the
\* table held is on disk.
SavedBeforeDelete ==
    [][(\E s \in Sockets : disc[s].pc = "delete" /\ disc'[s].pc = "done")
         /\ table.doc # None => file = table.doc]_vars

\* "if true then collab exists": a request to disable sharing finds the table.
DisableFindsTable == \A r \in Requests : req[r].pc = "text" => table.exists
============================================================================
