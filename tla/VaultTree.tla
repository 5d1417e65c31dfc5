----------------------------- MODULE VaultTree -----------------------------
(***************************************************************************)
(* One user's vault: the rows of files and folders, the rows of the bin,   *)
(* and the two directories on disk.  Uploads, restoring and deleting are   *)
(* database transactions (what they write is in "writes" and "unbin" until *)
(* they commit); making a folder and moving to the bin are not, and the    *)
(* disk never is.  An action is the code up to the next await where another *)
(* handler or a failure can make a difference: what a transaction writes   *)
(* and its next effect on the disk are one action, since nobody sees the   *)
(* one before the other.                                                   *)
(*                                                                         *)
(* A path is the sequence of names from the user's directory down.  The    *)
(* contents of a file are the id of the row they were sent for.            *)
(***************************************************************************)
EXTENDS FileNames, FiniteSets

CONSTANTS
    Handlers,     \* requests that may be running at once (reused)
    MaxRows,      \* bound: rows ever asked for
    MaxKeys,      \* bound: files ever moved to the bin
    FileNamesSent,    \* names that uploads bring
    FolderNamesSent,  \* names that new folders are given
    MaxStorage,   \* MAX_STORAGE_PER_USER_IN_BYTES, in sizes of a file
    Overlapping,  \* the kinds of request that come while others are handled
    Offers,       \* what else may happen: "encrypt", "fail", "late"
    Expansions,   \* what a name with a `$` pattern comes out as in a replacement
    None          \* null

Ids == 1 .. MaxRows
Keys == 1 .. MaxKeys

Word == [text : STRING, n : Nat]
FullName == [title : Seq(Word), ext : STRING]
Row == [file : BOOLEAN, path : Seq(FullName), depth : Int, parent : 0 .. MaxRows,
        root : 0 .. MaxRows, inBin : BOOLEAN, size : Nat, enc : BOOLEAN]

ASSUME BoundsAssumption == MaxRows \in Nat /\ MaxKeys \in Nat /\ MaxStorage \in Nat
ASSUME HandlersAssumption == IsFiniteSet(Handlers) /\ Handlers # {}
ASSUME NullAssumption == None \notin Row

\* Names are strings, and what a client sends has a title ('' is <<Blank>>).
ASSUME NamesAssumption ==
    /\ NoText \in STRING /\ "enc" \in STRING
    /\ \A n \in FileNamesSent \cup FolderNamesSent : n \in FullName /\ n.title # <<>>

\* "$$" in a name makes one name of it, "$&" may make several; an empty string is
\* the name with the title <<Blank>>.
ASSUME ExpansionsAssumption ==
    \A n \in DOMAIN Expansions :
       \A p \in Expansions[n] :
          /\ p \in Seq(FullName) /\ Len(p) > 0
          /\ \A k \in DOMAIN p : p[k].title # <<>>

VARIABLES
    rows,      \* file_structure
    bins,      \* file_structure_bin: the key of the row's directory, 0 for no row
    content,   \* user-content: what is at each path
    trash,     \* user-bin: what is under each key, by path from there
    removing,  \* deletions on disk that nobody awaits
    nextRow, nextKey,
    op,        \* the requests being handled
    astray,    \* rows that may have lost their place on disk to a failure or a clash
    dirty,     \* a handler failed after it had changed something
    garbled    \* a `$` pattern has got into the paths of what was restored

vars == <<rows, bins, content, trash, removing, nextRow, nextKey, op, astray, dirty, garbled>>
disk == <<content, trash, removing>>
aside == <<nextRow, nextKey, garbled>>

Nothing == [x \in {} |-> 0]
Dir == [of |-> 0, enc |-> FALSE]
File(i) == [of |-> i, enc |-> FALSE]
Idle == [kind |-> "none", pc |-> "idle", fs |-> 0, parent |-> 0, root |-> 0, path |-> <<>>,
         extra |-> 0, keep |-> FALSE, victim |-> 0, key |-> 0, old |-> <<>>, depth |-> 0,
         writes |-> Nothing, unbin |-> {}, risk |-> {}, touched |-> FALSE]

Init ==
    /\ rows = [i \in Ids |-> None] /\ bins = [i \in Ids |-> 0]
    /\ content = Nothing /\ trash = [k \in Keys |-> Nothing] /\ removing = {}
    /\ nextRow = 1 /\ nextKey = 1
    /\ op = [h \in Handlers |-> Idle]
    /\ astray = {} /\ dirty = FALSE /\ garbled = FALSE

-----------------------------------------------------------------------------
(* Rows.                                                                   *)

Present == {i \in Ids : rows[i] # None}
Live == {i \in Present : ~rows[i].inBin}
Folder(i) == ~rows[i].file
Name(i) == Last(rows[i].path)

\* The recursive queries: A and, among the rows of S, what is under it.
Reach(A, S) ==
    LET reach[n \in 0 .. MaxRows] ==
            IF n = 0 THEN A
            ELSE reach[n - 1] \cup {j \in S : rows[j].parent \in reach[n - 1]}
    IN reach[MaxRows]

\* i and what is under it, along rows with the flag b.
Tree(i, b) ==
    LET flagged == {j \in Present : rows[j].inBin = b}
    IN Reach({i} \cap flagged, flagged)

\* All that is under i, whatever its flag.
Family(i) == Reach({i}, Present)

\* getByFsId, which throws when there is none.
BinRow(i) == bins[i] # 0

\* A row that a bin row or an encryption row refers to is not deleted.  (Nor is
\* one that has a public share: shares are left out here.)
Referred(i) == BinRow(i) \/ rows[i].enc

\* The rows after those of D are deleted: ON DELETE SET NULL of parent_id.
Without(R, D) ==
    [i \in Ids |-> IF i \in D \/ R[i] = None THEN None
                   ELSE IF R[i].parent \in D THEN [R[i] EXCEPT !.parent = 0] ELSE R[i]]

Total ==
    LET sum[n \in 0 .. MaxRows] ==
            IF n = 0 THEN 0
            ELSE sum[n - 1] + (IF rows[n] = None THEN 0 ELSE rows[n].size)
    IN sum[MaxRows]

\* Mutant: only what is stored already is compared.
WithinLimitBefore(extra) == Total <= MaxStorage

WithinLimit(extra) == Total + extra <= MaxStorage

\* No other transaction has written to the row, nor does one delete its parent,
\* which writes null to its parent_id.
Unlocked(h, i) == \A g \in Handlers \ {h} : i \notin DOMAIN op[g].writes
Doomed(g, p) == p \in DOMAIN op[g].writes /\ op[g].writes[p] = None
Stands(h, p) == \A g \in Handlers \ {h} : ~Doomed(g, p)
Attached(h, i) == i \in Present => Stands(h, rows[i].parent)
Free(h, i) == Unlocked(h, i) /\ Attached(h, i)

\* Deleting the rows of D writes null to what hangs under them, and waits for who
\* is writing to that, or is hanging a row there.
Unhung(h, D) ==
    \A g \in Handlers \ {h} :
       LET w == op[g].writes
       IN \A j \in DOMAIN w :
             /\ rows[j] # None => rows[j].parent \notin D
             /\ w[j] # None => w[j].parent \notin D

-----------------------------------------------------------------------------
(* Directories.                                                            *)

Above(p, q) == Len(p) <= Len(q) /\ SubSeq(q, 1, Len(p)) = p
Rest(p, q) == SubSeq(q, Len(p) + 1, Len(q))
IsDir(p) == p = <<>> \/ (p \in DOMAIN content /\ content[p] = Dir)
Exists(p) == p = <<>> \/ p \in DOMAIN content

\* Mutant: a directory is deleted without what is in it.
CutOne(p) == [q \in DOMAIN content \ {p} |-> content[q]]

Cut(p) == [q \in {x \in DOMAIN content : ~Above(p, x)} |-> content[q]]
Taken(p) == [q \in {Rest(p, x) : x \in {y \in DOMAIN content : Above(p, y)}} |-> content[p \o q]]
Put(p, entry) == [q \in DOMAIN content \cup {p} |-> IF q = p THEN entry ELSE content[q]]
Laid(p, tree) ==
    LET new == {p \o x : x \in DOMAIN tree}
    IN [q \in DOMAIN content \cup new |-> IF q \in new THEN tree[Rest(p, q)] ELSE content[q]]

-----------------------------------------------------------------------------
(* Requests.                                                               *)

At(h, k, pc) == op[h].kind = k /\ op[h].pc = pc
Open == {h \in Handlers : op[h] # Idle}
MayStart(h, k) ==
    /\ op[h] = Idle
    /\ removing = {} \/ "late" \in Offers
    /\ \A g \in Open : {k, op[g].kind} \subseteq Overlapping
Goto(h, pc) == op' = [op EXCEPT ![h].pc = pc]
Done(h) == op' = [op EXCEPT ![h] = Idle]

\* An exception, of the code or from below: the transaction's writes are lost.
Abort(h) ==
    /\ Done(h)
    /\ astray' = astray \cup op[h].risk
    /\ dirty' = (dirty \/ op[h].touched)

\* Where a new file or folder goes; as long as it may get another name, the
\* directory it goes to.
Aim(g) == IF op[g].pc \in {"quota", "match", "number"} THEN Front(op[g].path) ELSE op[g].path

\* What else lies at p, or will: live rows but those of V, and rows of
\* requests under way.
Clash(h, p, V) ==
    LET others == {g \in Open \ {h} : op[g].kind \in {"upload", "folder"} /\ Above(p, Aim(g))}
        hit == {i \in Live \ V : Above(p, rows[i].path)} \cup {op[g].fs : g \in others}
    IN IF hit = {} THEN {} ELSE hit \cup {op[h].fs}

\* Live rows that share a path, and live rows that still have a bin row, with the
\* live rows that lie under the path of one.
Odd(R, B) ==
    LET live == {i \in Ids : R[i] # None /\ ~R[i].inBin}
        odd == {i \in live : B[i] # 0 \/ \E j \in live \ {i} : R[i].path = R[j].path}
    IN {i \in live : \E j \in odd : Above(R[j].path, R[i].path)}

Store(R, B) == rows' = R /\ bins' = B /\ astray' = astray \cup Odd(R, B)

\* The row with the rows above it: rootParentId as clients send it.
RootOf(p) == IF p = 0 THEN 0 ELSE IF rows[p].root = 0 THEN p ELSE rows[p].root
PathOf(p) == IF p = 0 THEN <<>> ELSE rows[p].path

-----------------------------------------------------------------------------
(* Uploading a file.                                                       *)

\* Files are compared by title, folders by their whole name; without a parent
\* the query looks into every folder.
TitlesSeen(p, file) ==
    {Name(i).title : i \in {j \in Live : /\ rows[j].file = file
                                         /\ p = 0 \/ rows[j].parent = p
                                         /\ file \/ Name(j).ext = ""}}

\* getDuplicateStatus, which clients ask before they send.  It takes what
\* follows a dot for the extension, in the names of folders as well.
HasDuplicate(p, file, name) ==
    \E j \in Live : /\ rows[j].file = file /\ rows[j].parent = p
                    /\ Name(j) = [name EXCEPT !.ext = IF file THEN @ ELSE ""]

Titled(p, t) == Front(p) \o <<[Last(p) EXCEPT !.title = t]>>

ParentOk(p) == p = 0 \/ (p \in Live /\ Folder(p))

\* validateParentRootParentStructure: what the parent is now is what the request
\* goes by from here on.  A request that it refuses is left out.
Creation(h, kind, pc, p, name, keep, extra) ==
    /\ MayStart(h, kind) /\ nextRow \in Ids /\ ParentOk(p)
    /\ op' = [op EXCEPT ![h] = [Idle EXCEPT
                 !.kind = kind, !.pc = pc, !.fs = nextRow, !.parent = p, !.root = RootOf(p),
                 !.path = PathOf(p) \o <<name>>,
                 !.depth = IF p = 0 THEN 0 ELSE rows[p].depth + 1,
                 !.extra = extra, !.keep = keep]]
    /\ nextRow' = nextRow + 1
    /\ UNCHANGED <<rows, bins, disk, nextKey, astray, dirty, garbled>>

UploadBegin(h, p, name, keep) == Creation(h, "upload", "quota", p, name, keep, 1)

\* Both files are kept under different titles, or one replaces the other.
Naming(keep) == IF keep THEN "match" ELSE "find"

\* checkStorageLimit
UploadQuota(h) ==
    /\ At(h, "upload", "quota")
    /\ IF WithinLimit(1) THEN Goto(h, Naming(op[h].keep)) ELSE Done(h)
    /\ UNCHANGED <<rows, bins, disk, aside, astray, dirty>>

Asked(h) == Last(op[h].path).title
Seen(h) == TitlesSeen(op[h].parent, op[h].kind = "upload")

\* The first query of increaseFileNameNumber: is there one of the title asked for?
Match(h, kind) ==
    /\ At(h, kind, "match")
    /\ Goto(h, IF Asked(h) \in Seen(h) THEN "number" ELSE "write")
    /\ UNCHANGED <<rows, bins, disk, aside, astray, dirty>>

\* The second, for the titles that begin like it.
Number(h, kind) ==
    /\ At(h, kind, "number")
    /\ op' = [op EXCEPT ![h].pc = "write", ![h].path = Titled(@, NextTitle(Seen(h), Asked(h)))]
    /\ UNCHANGED <<rows, bins, disk, aside, astray, dirty>>

\* replaceFileStructure: a live row of the same kind at the path.
Find(h, kind, after) ==
    LET same == {i \in Live : rows[i].file = (kind = "upload") /\ rows[i].path = op[h].path}
    IN /\ At(h, kind, "find")
       /\ \/ same = {} /\ Goto(h, "write")
          \/ \E v \in same : op' = [op EXCEPT ![h].victim = v, ![h].pc = after]
       /\ UNCHANGED <<rows, bins, disk, aside, astray, dirty>>

UploadFind(h) == Find(h, "upload", "replace")

\* The file goes from the disk at once, the row only when the upload commits.
UploadReplace(h) ==
    LET p == op[h].path
        v == op[h].victim
    IN /\ At(h, "upload", "replace") /\ Unhung(h, {v}) /\ Free(h, v)
       /\ IF v \in Live /\ ~Referred(v) /\ Exists(Front(p))
            THEN /\ content' = Cut(p)
                 /\ op' = [op EXCEPT ![h].pc = "write", ![h].writes = [x \in {v} |-> None],
                                     ![h].risk = {v}, ![h].touched = TRUE]
                 /\ astray' = astray \cup Clash(h, p, {v})
                 /\ dirty' = dirty
            ELSE Abort(h) /\ content' = content
       /\ UNCHANGED <<rows, bins, trash, removing, aside>>

UploadWrite(h) ==
    LET p == op[h].path
    IN /\ At(h, "upload", "write")
       /\ IF IsDir(Front(p)) /\ ~IsDir(p)
            THEN /\ content' = Put(p, File(op[h].fs))
                 /\ op' = [op EXCEPT ![h].pc = "commit", ![h].touched = TRUE]
                 /\ astray' = astray \cup Clash(h, p, {op[h].victim})
                 /\ dirty' = dirty
            ELSE Abort(h) /\ content' = content
       /\ UNCHANGED <<rows, bins, trash, removing, aside>>

NewRow(h, file) ==
    [file |-> file, path |-> op[h].path, depth |-> op[h].depth, parent |-> op[h].parent,
     root |-> op[h].root, inBin |-> FALSE, size |-> op[h].extra, enc |-> FALSE]

\* The row is inserted, which the foreign key of its parent may refuse, or wait
\* with until it is known whether the parent is deleted.
Insert(h, file) ==
    LET p == op[h].parent
    IN /\ Stands(h, p)
       /\ IF p \in (Present \ DOMAIN op[h].writes) \cup {0}
            THEN /\ Store([Without(rows, DOMAIN op[h].writes) EXCEPT ![op[h].fs] = NewRow(h, file)],
                          bins)
                 /\ Done(h) /\ dirty' = dirty
            ELSE Abort(h) /\ UNCHANGED <<rows, bins>>
       /\ UNCHANGED <<disk, aside>>

UploadCommit(h) == At(h, "upload", "commit") /\ Insert(h, TRUE)

-----------------------------------------------------------------------------
(* Making a folder: no transaction.                                        *)

FolderBegin(h, p, name, keep) ==
    /\ keep => name.ext = ""
    /\ Creation(h, "folder", Naming(keep), p, name, keep, 0)

FolderFind(h) == Find(h, "folder", "delete")

\* recursiveDelete of the live rows under the folder that is replaced.
FolderDelete(h) ==
    LET D == Tree(op[h].victim, FALSE)
    IN /\ At(h, "folder", "delete") /\ Unhung(h, D) /\ \A i \in D : Free(h, i)
       /\ IF \E i \in D : Referred(i)
            THEN Abort(h) /\ UNCHANGED <<rows, bins>>
            ELSE /\ Store(Without(rows, D), bins)
                 /\ op' = [op EXCEPT ![h].pc = "remove", ![h].touched = TRUE]
                 /\ dirty' = dirty
       /\ UNCHANGED <<disk, aside>>

FolderRemove(h) ==
    LET p == op[h].path
    IN /\ At(h, "folder", "remove")
       /\ IF Exists(p)
            THEN /\ content' = Cut(p) /\ Goto(h, "write")
                 /\ astray' = astray \cup Clash(h, p, {})
                 /\ dirty' = dirty
            ELSE Abort(h) /\ content' = content
       /\ UNCHANGED <<rows, bins, trash, removing, aside>>

\* checkDirOrCreate: whatever is at the path will do; otherwise the directory
\* is made with those above it.
FolderWrite(h) ==
    LET p == op[h].path
        made == {SubSeq(p, 1, n) : n \in 1 .. Len(p)}
    IN /\ At(h, "folder", "write")
       /\ IF Exists(p) \/ \A q \in made : Exists(q) => IsDir(q)
            THEN /\ content' = IF Exists(p) THEN content
                             ELSE [q \in DOMAIN content \cup made |->
                                     IF q \in DOMAIN content THEN content[q] ELSE Dir]
                 /\ op' = [op EXCEPT ![h].pc = "commit", ![h].touched = TRUE]
                 /\ UNCHANGED <<astray, dirty>>
            ELSE Abort(h) /\ content' = content
       /\ UNCHANGED <<rows, bins, trash, removing, aside>>

FolderCommit(h) == At(h, "folder", "commit") /\ Insert(h, FALSE)

-----------------------------------------------------------------------------
(* Putting an encrypted file in the place of a file.                       *)

Encrypted(p) == Front(p) \o <<[Last(p) EXCEPT !.ext = "enc"]>>

EncryptBegin(h, i) ==
    /\ "encrypt" \in Offers /\ MayStart(h, "encrypt")
    /\ i \in Live /\ ~Folder(i) /\ ~rows[i].enc /\ WithinLimit(1)
    /\ \A j \in Live : ~Folder(j) => rows[j].path # Encrypted(rows[i].path)
    /\ Exists(Front(rows[i].path))
    /\ op' = [op EXCEPT ![h] = [Idle EXCEPT !.kind = "encrypt", !.pc = "issue", !.fs = i,
                                            !.path = Encrypted(rows[i].path), !.old = rows[i].path,
                                            !.extra = rows[i].size + 1]]
    /\ UNCHANGED <<rows, bins, disk, aside, astray, dirty>>

\* The old file's deletion is issued and not awaited; the row and the
\* encryption row are written in the transaction, which is rolled back if one of
\* them cannot be.
EncryptIssue(h) ==
    LET i == op[h].fs
    IN /\ At(h, "encrypt", "issue") /\ Free(h, i)
       /\ removing' = removing \cup {op[h].old}
       /\ op' = [op EXCEPT
                   ![h].pc = IF i \in Live /\ ~rows[i].enc THEN "write" ELSE "throw",
                   ![h].risk = {i}, ![h].touched = TRUE,
                   ![h].writes = IF i \notin Live \/ rows[i].enc THEN Nothing
                                 ELSE [x \in {i} |-> [rows[i] EXCEPT !.enc = TRUE, !.size = op[h].extra,
                                                                    !.path = op[h].path]]]
       /\ UNCHANGED <<rows, bins, content, trash, aside, astray, dirty>>

\* The new file is written beside these, also when they are rolled back.
EncryptWrite(h) ==
    LET p == op[h].path
    IN /\ op[h].kind = "encrypt" /\ op[h].pc \in {"write", "throw"}
       /\ IF IsDir(Front(p)) /\ ~IsDir(p)
            THEN /\ content' = Put(p, [of |-> op[h].fs, enc |-> TRUE])
                 /\ IF op[h].pc = "write" THEN Goto(h, "commit") ELSE Done(h)
                 /\ astray' = astray \cup Clash(h, p, {}) \cup IF op[h].pc = "write" THEN {} ELSE op[h].risk
                 /\ dirty' = (dirty \/ op[h].pc = "throw")
            ELSE Abort(h) /\ content' = content
       /\ UNCHANGED <<rows, bins, trash, removing, aside>>

Merged(h) ==
    LET w == op[h].writes
    IN Without([i \in Ids |-> IF i \in DOMAIN w THEN w[i] ELSE rows[i]],
               {i \in DOMAIN w : w[i] = None})

\* transaction.handle: what the transaction wrote is there for all to see.
Commit(h) ==
    /\ op[h].kind \notin {"upload", "folder"} /\ op[h].pc = "commit"
    /\ Store(Merged(h), [i \in Ids |-> IF i \in op[h].unbin THEN 0 ELSE bins[i]])
    /\ Done(h)
    /\ UNCHANGED <<disk, aside, dirty>>

\* The deletion that nobody awaits happens some time; what has been put at the
\* path since goes with it.
RemoveOld(p) ==
    LET lost == {content[q] : q \in {x \in DOMAIN content : Above(p, x)}} \ {Dir}
        wanted(f) == ~(rows[f.of] # None /\ rows[f.of].enc # f.enc)
                     /\ \A h \in Open : ~(op[h].kind = "encrypt" /\ op[h].fs = f.of)
    IN /\ p \in removing
       /\ removing' = removing \ {p}
       /\ content' = Cut(p)
       /\ astray' = astray \cup {f.of : f \in {g \in lost : wanted(g)}}
       /\ UNCHANGED <<rows, bins, trash, aside, op, dirty>>

-----------------------------------------------------------------------------
(* To the bin: no transaction.                                             *)

BinBegin(h, i) ==
    /\ MayStart(h, "bin") /\ i \in Live /\ nextKey \in Keys
    /\ op' = [op EXCEPT ![h] = [Idle EXCEPT !.kind = "bin", !.pc = "flip", !.fs = i,
                                            !.path = rows[i].path, !.keep = rows[i].file,
                                            !.key = nextKey]]
    /\ nextKey' = nextKey + 1
    /\ UNCHANGED <<rows, bins, disk, nextRow, astray, dirty, garbled>>

\* recursiveUpdateIsInBin
BinFlip(h) ==
    LET T == Tree(op[h].fs, FALSE)
    IN /\ At(h, "bin", "flip") /\ \A i \in T : Free(h, i)
       /\ Store([i \in Ids |-> IF i \in T THEN [rows[i] EXCEPT !.inBin = TRUE] ELSE rows[i]], bins)
       /\ op' = [op EXCEPT ![h].pc = "move", ![h].risk = T, ![h].touched = TRUE]
       /\ UNCHANGED <<disk, aside, dirty>>

\* A directory of the new name is made for a folder, which only a directory
\* can then replace.
BinMove(h) ==
    LET p == op[h].path
    IN /\ At(h, "bin", "move")
       /\ IF Exists(p) /\ (op[h].keep \/ IsDir(p))
            THEN /\ content' = Cut(p)
                 /\ trash' = [trash EXCEPT ![op[h].key] = Taken(p)]
                 /\ Goto(h, "insert")
                 /\ dirty' = (dirty \/ \E q \in removing : Above(p, q))
                 /\ astray' = astray
            ELSE Abort(h) /\ UNCHANGED <<content, trash>>
       /\ UNCHANGED <<rows, bins, removing, aside>>

BinInsert(h) ==
    LET i == op[h].fs
    IN /\ At(h, "bin", "insert") /\ Free(h, i)
       /\ IF i \in Present /\ bins[i] = 0
            THEN /\ Store(rows, [bins EXCEPT ![i] = op[h].key])
                 /\ Done(h) /\ dirty' = dirty
            ELSE Abort(h) /\ UNCHANGED <<rows, bins>>
       /\ UNCHANGED <<disk, aside>>

-----------------------------------------------------------------------------
(* Restoring from the bin under q, or at the top for 0.                    *)

RestoreBegin(h, i, q) ==
    LET p == PathOf(q) \o <<Name(i)>>
    IN /\ MayStart(h, "restore")
       /\ i \in Present \ Live /\ BinRow(i) /\ ParentOk(q)
       /\ \A j \in Live : ~(rows[j].parent = q /\ rows[j].path = p)
       /\ op' = [op EXCEPT ![h] = [Idle EXCEPT
                    !.kind = "restore", !.pc = "move", !.fs = i, !.parent = q,
                    !.root = IF q = 0 THEN 0 ELSE rows[q].root,
                    !.path = p, !.old = rows[i].path, !.key = bins[i], !.keep = rows[i].file,
                    !.depth = IF q = 0 THEN 0 ELSE rows[q].depth + 1]]
       /\ UNCHANGED <<rows, bins, disk, aside, astray, dirty>>

\* What a name, and a path, may come out as when String.replace puts it in.
Turns(name) == IF name \in DOMAIN Expansions THEN Expansions[name] ELSE {<<name>>}
Readings(p) ==
    LET read[n \in 0 .. Len(p)] ==
            IF n = 0 THEN {<<>>}
            ELSE UNION {{q \o r : r \in Turns(p[n])} : q \in read[n - 1]}
    IN read[Len(p)]

Patterned(p) == \E n \in 1 .. Len(p) : p[n] \in DOMAIN Expansions

\* Mutant: the paths of what is under the row are left as they were.
MovedNot(h, p) == {p}

\* child.path.replace(fs.path, newPath): the first place where the old path is
\* found.
Moved(h, p) ==
    LET old == op[h].old
        found == {k \in 0 .. Len(p) - Len(old) : SubSeq(p, k + 1, k + Len(old)) = old}
        k == CHOOSE k \in found : \A m \in found : k <= m
    IN IF found = {} THEN {p}
       ELSE {SubSeq(p, 1, k) \o q \o SubSeq(p, k + Len(old) + 1, Len(p)) : q \in Readings(op[h].path)}

\* The new paths of the rows of S.
Moves(h, S) ==
    {new \in [S -> UNION {Moved(h, rows[j].path) : j \in S}] :
       \A j \in S : new[j] \in Moved(h, rows[j].path)}

\* Mutant: the row stays under the parent it had.
RestoredParentKept(h, T, new) ==
    [j \in T |->
       [rows[j] EXCEPT !.inBin = FALSE, !.path = IF j = op[h].fs THEN op[h].path ELSE new[j],
                       !.depth = @ + op[h].depth - rows[op[h].fs].depth]]

\* Mutant: only the row's own depth is set.
RestoredDepthKept(h, T, new) ==
    LET i == op[h].fs
        q == op[h].parent
        childRoot == IF q = 0 THEN i ELSE IF op[h].root # 0 THEN op[h].root ELSE q
    IN [j \in T |->
          IF j = i THEN [rows[i] EXCEPT !.inBin = FALSE, !.path = op[h].path,
                             !.depth = op[h].depth, !.parent = q, !.root = op[h].root]
          ELSE [rows[j] EXCEPT !.inBin = FALSE, !.path = new[j], !.root = childRoot]]

\* The row goes under the new parent, and all that is in the bin under it with
\* it, which is also what was moved to the bin before it and has a bin row.
Restored(h, T, new) ==
    LET i == op[h].fs
        q == op[h].parent
        childRoot == IF q = 0 THEN i ELSE IF op[h].root # 0 THEN op[h].root ELSE q
    IN [j \in T |->
          IF j = i THEN [rows[i] EXCEPT !.inBin = FALSE, !.path = op[h].path,
                             !.depth = op[h].depth, !.parent = q, !.root = op[h].root]
          ELSE [rows[j] EXCEPT !.inBin = FALSE, !.path = new[j],
                    !.depth = @ + op[h].depth - rows[i].depth, !.root = childRoot]]

\* rename replaces a file by a file, or an empty directory by a directory.
Fits(p, tree) ==
    IF tree[<<>>] = Dir THEN \A q \in DOMAIN content : Above(p, q) => q = p /\ IsDir(q)
                        ELSE ~IsDir(p)

\* The foreign key of its parent may refuse the row.  The move is the last thing in
\* the transaction, which may still fail.
RestoreMove(h) ==
    LET i == op[h].fs
        T == IF op[h].keep THEN {i} ELSE Tree(i, TRUE)
        p == op[h].path
        q == op[h].parent
        tree == trash[op[h].key]
    IN /\ At(h, "restore", "move") /\ Stands(h, q) /\ \A j \in T \cup {i} : Free(h, j)
       /\ IF /\ i \in Present \ Live /\ bins[i] = op[h].key /\ q \in Present \cup {0}
             /\ tree # Nothing /\ IsDir(Front(p)) /\ Fits(p, tree)
            THEN /\ content' = Laid(p, tree)
                 /\ trash' = [trash EXCEPT ![op[h].key] = Nothing]
                 /\ \E new \in Moves(h, T \ {i}) :
                      op' = [op EXCEPT ![h].pc = "commit", ![h].writes = Restored(h, T, new),
                                       ![h].unbin = {i}, ![h].risk = T, ![h].touched = TRUE]
                 /\ garbled' = (garbled \/ (T # {i} /\ Patterned(p)))
                 /\ astray' = astray \cup Clash(h, p, {}) /\ dirty' = dirty
            ELSE Abort(h) /\ UNCHANGED <<content, trash, garbled>>
       /\ UNCHANGED <<rows, bins, removing, nextRow, nextKey>>

-----------------------------------------------------------------------------
(* Deleting for ever, and emptying the vault.                              *)

ForgetBegin(h, i) ==
    /\ MayStart(h, "forget") /\ i \in Present \ Live /\ BinRow(i)
    /\ op' = [op EXCEPT ![h] = [Idle EXCEPT !.kind = "forget", !.pc = "move", !.fs = i,
                                            !.key = bins[i], !.keep = rows[i].file]]
    /\ UNCHANGED <<rows, bins, disk, aside, astray, dirty>>

\* To the directory of what is deleted for ever, which nothing reads.
ForgetMove(h) ==
    LET i == op[h].fs
        k == op[h].key
        D == IF op[h].keep THEN {i} ELSE Tree(i, TRUE)
    IN /\ At(h, "forget", "move") /\ Unhung(h, D) /\ \A j \in D : Free(h, j)
       /\ IF /\ i \in Present \ Live /\ bins[i] = k /\ trash[k] # Nothing
             /\ \A j \in D : IF j = i THEN ~rows[i].enc ELSE ~Referred(j)
            THEN /\ trash' = [trash EXCEPT ![k] = Nothing]
                 /\ op' = [op EXCEPT ![h].pc = "commit", ![h].unbin = {i}, ![h].risk = D,
                                     ![h].writes = [j \in D |-> None], ![h].touched = TRUE]
                 /\ UNCHANGED <<astray, dirty>>
            ELSE Abort(h) /\ trash' = trash
       /\ UNCHANGED <<rows, bins, content, removing, aside>>

\* Mutant: the rows of the bin are not emptied.
CleanUpKeepsBin(h) ==
    /\ MayStart(h, "clean") /\ Present # {}
    /\ \A i \in Present : Free(h, i)
    /\ content' = Nothing /\ trash' = [k \in Keys |-> Nothing]
    /\ op' = [op EXCEPT ![h] = [Idle EXCEPT !.kind = "clean", !.pc = "commit",
                                            !.writes = [i \in Present |-> None],
                                            !.risk = Present, !.touched = TRUE]]
    /\ UNCHANGED <<rows, bins, removing, aside, astray, dirty>>

\* All bin rows, encryption rows and rows, and both directories.
CleanUp(h) ==
    /\ MayStart(h, "clean") /\ Present # {}
    /\ \A i \in Present : Free(h, i)
    /\ content' = Nothing /\ trash' = [k \in Keys |-> Nothing]
    /\ op' = [op EXCEPT ![h] = [Idle EXCEPT !.kind = "clean", !.pc = "commit", !.unbin = Ids,
                                            !.writes = [i \in Present |-> None],
                                            !.risk = Present, !.touched = TRUE]]
    /\ UNCHANGED <<rows, bins, removing, aside, astray, dirty>>

-----------------------------------------------------------------------------
(* The rest of the world.                                                  *)

\* The database, the disk or the process fails under a handler.
Fail(h) ==
    /\ \/ "fail" \in Offers /\ ~dirty /\ astray = {} /\ op[h].touched
       \/ op[h].pc = "throw"
    /\ h \in Open /\ Abort(h)
    /\ UNCHANGED <<rows, bins, disk, aside>>

Upload(h) ==
    \/ UploadQuota(h) \/ Match(h, "upload") \/ Number(h, "upload")
    \/ UploadFind(h) \/ UploadReplace(h) \/ UploadWrite(h) \/ UploadCommit(h)
MakeFolder(h) ==
    \/ Match(h, "folder") \/ Number(h, "folder")
    \/ FolderFind(h) \/ FolderDelete(h) \/ FolderRemove(h) \/ FolderWrite(h) \/ FolderCommit(h)
Encrypt(h) == EncryptIssue(h) \/ EncryptWrite(h)
ToBin(h) == BinFlip(h) \/ BinMove(h) \/ BinInsert(h)

Step(h) ==
    Upload(h) \/ MakeFolder(h) \/ Encrypt(h) \/ ToBin(h) \/ RestoreMove(h) \/ ForgetMove(h)
    \/ Commit(h)

Next ==
    \/ \E h \in Handlers :
         \/ \E p \in 0 .. MaxRows, keep \in BOOLEAN :
              \/ \E n \in FileNamesSent : UploadBegin(h, p, n, keep)
              \/ \E n \in FolderNamesSent : FolderBegin(h, p, n, keep)
         \/ \E i \in Ids :
              \/ EncryptBegin(h, i) \/ BinBegin(h, i) \/ ForgetBegin(h, i)
              \/ \E q \in 0 .. MaxRows : RestoreBegin(h, i, q)
         \/ CleanUp(h)
         \/ Step(h)
         \/ Fail(h)
    \/ \E p \in removing : RemoveOld(p)

Spec == Init /\ [][Next]_vars

-----------------------------------------------------------------------------
(* Properties.                                                             *)

Entry == [of : 0 .. MaxRows, enc : BOOLEAN]
IsTree(t) == \A p \in DOMAIN t : p \in Seq(FullName) /\ t[p] \in Entry

\* The tables and directories have their types, and what refers to a row by its
\* id refers to one that is there: bin rows, and the parents of rows.
TypeOK ==
    /\ rows \in [Ids -> Row \cup {None}]
    /\ bins \in [Ids -> Keys \cup {0}]
    /\ \A i \in Ids : bins[i] # 0 => i \in Present
    /\ \A i \in Present : i < nextRow /\ rows[i].parent \in Present \cup {0}
    /\ IsTree(content) /\ \A k \in Keys : IsTree(trash[k])
    /\ \A p \in removing : p \in Seq(FullName)
    /\ nextRow \in 1 .. MaxRows + 1 /\ nextKey \in 1 .. MaxKeys + 1
    /\ astray \subseteq Ids /\ dirty \in BOOLEAN /\ garbled \in BOOLEAN

AtRisk == UNION {op[h].risk : h \in Handlers}

\* The rows that nothing has happened to by which they might lose their place.
Sound == Present \ astray

\* Every row lies under its parent: its path and depth go on from the parent's,
\* the parent is a folder, and live if the row is; live rows without a parent
\* are at the top.  So it is until something is restored under a path with a `$`
\* pattern.
TreeShape ==
    ~garbled =>
    \A i \in Present :
       LET p == rows[i].parent
       IN IF p = 0
            THEN i \in Live => Len(rows[i].path) = 1 /\ rows[i].depth = 0
            ELSE /\ p \in Present /\ Folder(p)
                 /\ rows[i].path = Append(rows[p].path, Name(i))
                 /\ rows[i].depth = rows[p].depth + 1
                 /\ i \in Live => p \in Live

\* "Replace old parent path with new path": what is restored with a folder is found
\* under the folder's path.
ChildrenFollow ==
    \A i \in Live \cap Sound :
       rows[i].parent # 0 => rows[i].path = Append(rows[rows[i].parent].path, Name(i))

\* The row whose move to the bin took i with it.
Carrier(i) ==
    CHOOSE b \in Present :
       /\ bins[b] # 0 /\ i \in Family(b)
       /\ \A c \in Present : bins[c] # 0 /\ i \in Family(c) => b \in Family(c)

InPlace(i) ==
    LET file == [of |-> i, enc |-> rows[i].enc]
        b == Carrier(i)
        rest == Rest(rows[b].path, rows[i].path)
    IN IF i \in Live
         THEN rows[i].path \in DOMAIN content /\ content[rows[i].path] = file
         ELSE /\ \E c \in Present : bins[c] # 0 /\ i \in Family(c)
              /\ rest \in DOMAIN trash[bins[b]] /\ trash[bins[b]][rest] = file

\* The file of every row lies where the rows say.
DataInPlace == ~garbled => \A i \in Sound \ AtRisk : rows[i].file => InPlace(i)

\* When no request failed half-way and none clashed, nothing is on disk that no
\* row leads to.
NothingLeftBehind ==
    Open = {} /\ ~dirty /\ astray = {} /\ ~garbled =>
       /\ \A p \in DOMAIN content \ removing : \E i \in Live : rows[i].path = p
       /\ \A k \in Keys : trash[k] # Nothing => \E i \in Present : bins[i] = k

QuotaNearlyHeld == Total <= MaxStorage + Cardinality(Handlers) - 1

\* A request that keeps both files takes a path that no sound row of its kind has,
\* if the parent it names is still there, and numbers are exact.
KeepBothIsFresh ==
    [][\A h \in Handlers :
          LET new == op'[h].path
          IN op[h].pc \in {"match", "number"} /\ op'[h].pc = "write" /\ ~garbled
             /\ op[h].parent \in Present \cup {0} /\ Last(Last(new).title).n < Exact =>
                \A i \in Live \cap Sound :
                   rows[i].file = (op[h].kind = "upload") => rows[i].path # new]_vars

\* What a new file or folder replaces, getDuplicateStatus has a duplicate for:
\* it asks by parent, title and type, and replaceFileStructure goes by the path.
\* (Not for a folder with a dot in its name, see HasDuplicate, nor when the
\* parent that the request names is gone, and one like it is in its place.)
ReplacedIsTold ==
    [][\A h \in Handlers :
          LET v == op'[h].victim
          IN op[h].victim = 0 /\ v # 0 /\ v \in Sound /\ (rows[v].file \/ Name(v).ext = "")
             /\ op[h].parent \in Present \cup {0} /\ ~garbled =>
                HasDuplicate(op[h].parent, rows[v].file, Last(op[h].path))]_vars

=============================================================================
