--------------------------- MODULE VaultDiskProofs ---------------------------
(***************************************************************************)
(* Proofs about VaultTree: what lies on disk.  The file of every row that  *)
(* nothing happened to is where the rows say: the rows that are not in the *)
(* bin by their path, those of the bin under the key of the row whose move *)
(* took them there.  And nothing else lies there, when all went well.      *)
(***************************************************************************)
EXTENDS VaultTreeProofs

\* What the module supposes: other kinds of request than uploads and new folders
\* come one at a time, and a file whose deletion nobody awaits is gone before the
\* next request comes.
Orderly == Regime /\ "late" \notin Offers

-----------------------------------------------------------------------------
(* Which row of the bin has another in its directory.                      *)

Binned == Present \ Live

\* In S is the way up from i to b, all of it in the bin, and without a row of the
\* bin table before b.
Chain(b, i, S) ==
    /\ S \subseteq Binned /\ b \in S /\ i \in S
    /\ \A j \in S \ {b} : bins[j] = 0 /\ rows[j].parent \in S

\* i went to the bin with b, and no request has its hands on that.
Held(b, i, S) == bins[b] # 0 /\ Chain(b, i, S) /\ S \cap AtRisk = {}

Has(tree, p, f) == p \in DOMAIN tree /\ tree[p] = f
FileOf(i) == [of |-> i, enc |-> rows[i].enc]

\* The file of i is in the directory of the row it went to the bin with.
Shelved(i) ==
    \E b \in Ids, S \in SUBSET Ids :
       Held(b, i, S) /\ Has(trash[bins[b]], Rest(rows[b].path, rows[i].path), FileOf(i))

\* Every row of the bin and its path.
LEMMA BinnedIs ==
  ASSUME Typed, NEW i \in Binned
  PROVE  /\ i \in Ids /\ i # 0 /\ i \in Present /\ i \notin Live /\ rows[i] \in FullRow
         /\ rows[i].path \in Seq(Names) /\ Len(rows[i].path) \in Nat /\ Len(rows[i].path) > 0
<1>1. i \in Present /\ i \notin Live /\ i \in Ids /\ i # 0
  BY DEF Binned, Present, Ids
<1>2. rows[i] \in FullRow
  BY <1>1, RowsAre DEF Typed
<1>3. rows[i].path \in Paths
  BY <1>2 DEF FullRow
<1> QED
  BY <1>1, <1>2, <1>3, LenProperties DEF Paths

\* A row that hangs under another has one name more in its path.
LEMMA OneDown ==
  ASSUME Typed, Shape, NEW i \in Present, rows[i].parent # 0
  PROVE  /\ rows[i].parent \in Present
         /\ rows[i].path = Append(rows[rows[i].parent].path, Name(i)) /\ Name(i) \in Names
         /\ rows[rows[i].parent].path \in Seq(Names) /\ Len(rows[rows[i].parent].path) \in Nat
         /\ Len(rows[i].path) = Len(rows[rows[i].parent].path) + 1
<1>1. PICK p : p = rows[i].parent
  OBVIOUS
<1>2. /\ p \in Present /\ rows[i].path = Append(rows[p].path, Name(i))
      /\ rows[p].path \in Seq(Names) /\ Name(i) \in Names
  BY <1>1, HangsUnder
<1>3. /\ rows[p].path \o <<Name(i)>> = Append(rows[p].path, Name(i))
      /\ Len(rows[p].path \o <<Name(i)>>) = Len(rows[p].path) + 1
  BY <1>2, OneMore
<1>4. Len(rows[p].path) \in Nat
  BY <1>2, LenProperties
<1> QED
  BY <1>1, <1>2, <1>3, <1>4

\* Going up from row to row comes to an end: paths get shorter.
LEMMA NoDescent ==
  ASSUME Typed, Shape, NEW X \in SUBSET Present, \A j \in X : rows[j].parent \in X
  PROVE  X = {}
<1> SUFFICES ASSUME NEW i \in X PROVE FALSE
  OBVIOUS
<1>1. \A j \in X : Len(rows[j].path) \in Nat /\ j # 0
  <2>1. \A j \in Present : rows[j].path \in Paths /\ j # 0
    BY RowsAre DEF Typed, FullRow, Present, Ids
  <2> QED
    BY <2>1, LenProperties DEF Paths
<1>2. ASSUME NEW j \in X
      PROVE  Len(rows[j].path) = Len(rows[rows[j].parent].path) + 1
  <2>1. j \in Present /\ rows[j].parent # 0
    BY <1>1
  <2> QED
    BY <2>1, OneDown
<1> DEFINE Longer == {n \in Nat : \A j \in X : Len(rows[j].path) > n}
<1>3. 0 \in Longer
  BY <1>1, <1>2
<1>4. ASSUME NEW n \in Nat, n \in Longer PROVE n + 1 \in Longer
  <2>1. ASSUME NEW j \in X PROVE Len(rows[j].path) > n + 1
    <3>1. rows[j].parent \in X
      OBVIOUS
    <3>2. Len(rows[rows[j].parent].path) > n
      BY <1>4, <3>1
    <3> QED
      BY <1>1, <1>2, <3>1, <3>2
  <2> QED
    BY <2>1
<1> HIDE DEF Longer
<1>5. Len(rows[i].path) \in Longer
  BY <1>1, <1>3, <1>4, Induction
<1> QED
  BY <1>1, <1>5 DEF Longer

\* Going up a chain one comes to its top.
LEMMA ChainTop ==
  ASSUME Typed, Shape, NEW b, NEW i, NEW S, Chain(b, i, S),
         NEW X \in SUBSET S, i \in X, \A j \in X \ {b} : rows[j].parent \in X
  PROVE  b \in X
<1> SUFFICES ASSUME b \notin X PROVE FALSE
  OBVIOUS
<1>1. X \in SUBSET Present /\ \A j \in X : rows[j].parent \in X
  BY DEF Chain, Binned
<1> QED
  BY <1>1, NoDescent

\* What is above a path with one name more is above the path.
LEMMA AboveLess ==
  ASSUME NEW p \in Seq(Names), NEW n \in Names, NEW q \in Seq(Names), Above(Append(p, n), q)
  PROVE  Above(p, q)
<1> DEFINE r == Rest(Append(p, n), q)
<1>1. <<n>> \in Seq(Names) /\ Append(p, n) = p \o <<n>> /\ Append(p, n) \in Seq(Names)
  BY OneMore, PathOps, EmptySeq DEF Paths
<1>2. r \in Seq(Names) /\ q = Append(p, n) \o r
  BY <1>1, PathOps
<1> HIDE DEF r
<1>3. q = p \o (<<n>> \o r) /\ <<n>> \o r \in Seq(Names)
  BY <1>1, <1>2, ConcatThree, PathOps
<1> QED
  BY <1>3, RestOf

\* The top of a chain lies above its end.
LEMMA ChainAbove ==
  ASSUME Typed, Shape, NEW b, NEW i, NEW S, Chain(b, i, S)
  PROVE  Above(rows[b].path, rows[i].path)
<1> DEFINE X == {j \in S : Above(rows[j].path, rows[i].path)}
<1>1. \A j \in S : j \in Binned
  BY DEF Chain
<1>2. i \in X
  BY <1>1, BinnedIs, MovedSelf DEF Chain
<1>3. ASSUME NEW j \in X \ {b} PROVE rows[j].parent \in X
  <2>1. rows[j].parent \in S /\ rows[j].parent # 0 /\ j \in Present
    <3>1. j \in S \ {b}
      BY <1>3
    <3>2. rows[j].parent \in S
      BY <3>1 DEF Chain
    <3> QED
      BY <1>1, <3>1, <3>2, BinnedIs
  <2>2. /\ rows[j].path = Append(rows[rows[j].parent].path, Name(j)) /\ Name(j) \in Names
        /\ rows[rows[j].parent].path \in Seq(Names)
    BY <2>1, OneDown
  <2>3. rows[i].path \in Seq(Names) /\ Above(rows[j].path, rows[i].path)
    BY <1>1, BinnedIs DEF Chain
  <2> QED
    BY <2>1, <2>2, <2>3, AboveLess
<1> HIDE DEF X
<1>4. X \in SUBSET S
  BY DEF X
<1>5. b \in X
  BY <1>2, <1>3, <1>4, ChainTop
<1> QED
  BY <1>5 DEF X

\* What is cut off below leaves the rest of a chain as it was.
LEMMA ChainCut ==
  ASSUME Typed, Shape, NEW b, NEW i, NEW S, Chain(b, i, S), NEW T, i \notin T,
         \A x \in Binned : rows[x].parent \in T => x \in T
  PROVE  Chain(b, i, S \ T)
<1> DEFINE X == S \ T
<1>1. X \in SUBSET S /\ i \in X
  BY DEF Chain
<1>2. \A j \in X \ {b} : rows[j].parent \in X
  BY DEF Chain
<1> HIDE DEF X
<1>3. b \in X
  BY <1>1, <1>2, ChainTop
<1> QED
  BY <1>1, <1>2, <1>3 DEF Chain, X

\* The top of a chain from within a tree is in the tree, if the top of the tree
\* has a row of the bin itself.
LEMMA ChainWithin ==
  ASSUME Typed, Shape, NEW b, NEW i, NEW S, Chain(b, i, S), NEW f, bins[f] # 0, NEW T, i \in T,
         \A x \in T : x # f => rows[x].parent \in T
  PROVE  b \in T
<1> DEFINE X == S \cap T
<1>1. X \in SUBSET S /\ i \in X
  BY DEF Chain
<1>2. \A j \in X \ {b} : rows[j].parent \in X
  BY DEF Chain
<1> HIDE DEF X
<1>3. b \in X
  BY <1>1, <1>2, ChainTop
<1> QED
  BY <1>3 DEF X

-----------------------------------------------------------------------------
(* The carrier of a row.                                                   *)

\* All that is under a row, from both sides.
LEMMA FamilyIs ==
  ASSUME NEW c \in Ids
  PROVE  /\ c \in Family(c)
         /\ \A j \in Present : rows[j].parent \in Family(c) => j \in Family(c)
         /\ \A j \in Family(c) \ {c} : j \in Present /\ rows[j].parent \in Family(c)
         /\ \A X : c \in X /\ (\A j \in Present : rows[j].parent \in X => j \in X) => Family(c) \subseteq X
<1>1. {c} \in SUBSET Ids /\ Present \in SUBSET Ids
  BY DEF Present
<1>2. /\ {c} \subseteq Reach({c}, Present) /\ Reach({c}, Present) \subseteq {c} \cup Present
      /\ \A j \in Present : rows[j].parent \in Reach({c}, Present) => j \in Reach({c}, Present)
      /\ \A j \in Reach({c}, Present) \ {c} : rows[j].parent \in Reach({c}, Present)
      /\ \A X : {c} \subseteq X /\ (\A j \in Present : rows[j].parent \in X => j \in X)
                => Reach({c}, Present) \subseteq X
  BY <1>1, ReachIs
<1> QED
  BY <1>2 DEF Family

\* What is under a row has a longer path.
LEMMA FamilyLonger ==
  ASSUME Typed, Shape, NEW c \in Present, NEW j \in Family(c), j # c
  PROVE  j \in Present /\ Len(rows[j].path) > Len(rows[c].path)
<1> DEFINE X == {c} \cup {x \in Present : Len(rows[x].path) > Len(rows[c].path)}
<1>1. c \in Ids /\ \A x \in Present : Len(rows[x].path) \in Nat
  <2>1. \A x \in Present : rows[x].path \in Paths /\ x \in Ids
    BY RowsAre DEF Typed, FullRow
  <2> QED
    BY <2>1, LenProperties DEF Paths
<1>2. ASSUME NEW x \in Present, rows[x].parent \in X PROVE x \in X
  <2>1. rows[x].parent \in Present /\ 0 \notin Present /\ rows[x].parent # 0
    BY <1>2 DEF Present, Ids
  <2>2. Len(rows[x].path) = Len(rows[rows[x].parent].path) + 1
    BY <2>1, OneDown
  <2> QED
    BY <1>1, <1>2, <2>1, <2>2
<1> HIDE DEF X
<1>3. c \in X
  BY DEF X
<1>4. Family(c) \subseteq X
  BY <1>1, <1>2, <1>3, FamilyIs
<1> QED
  BY <1>4 DEF X

\* The row at the top of a chain, when it has a row of the bin, is the carrier of
\* the row at its end.
LEMMA ChainCarrier ==
  ASSUME Typed, Shape, NEW b, NEW i, NEW S, Chain(b, i, S), bins[b] # 0
  PROVE  Carrier(i) = b /\ b \in Present /\ i \in Family(b)
<1> DEFINE Carries(c) == /\ bins[c] # 0 /\ i \in Family(c)
                         /\ \A d \in Present : bins[d] # 0 /\ i \in Family(d) => c \in Family(d)
<1>1. \A j \in S : j \in Present /\ j \in Ids
  BY BinnedIs DEF Chain
<1>2. b \in Present /\ b \in Ids /\ i \in S
  BY <1>1 DEF Chain
<1>3. i \in Family(b)
  <2> DEFINE X == {j \in S : j \notin Family(b)}
  <2>1. /\ b \in Family(b)
        /\ \A j \in Present : rows[j].parent \in Family(b) => j \in Family(b)
    BY <1>2, FamilyIs
  <2>2. \A j \in X \ {b} : rows[j].parent \in X
    BY <1>1, <2>1 DEF Chain
  <2>3. b \notin X /\ X \in SUBSET S
    BY <2>1
  <2>4. i \in X => b \in X
    <3> HIDE DEF X
    <3> QED
      BY <2>2, <2>3, ChainTop
  <2> QED
    BY <1>2, <2>3, <2>4
<1>4. ASSUME NEW d \in Present, bins[d] # 0, i \in Family(d) PROVE b \in Family(d)
  <2> DEFINE X == {j \in S : j \in Family(d)}
  <2>1. d \in Ids
    BY DEF Present
  <2>2. \A j \in Family(d) \ {d} : rows[j].parent \in Family(d)
    BY <2>1, FamilyIs
  <2>3. \A j \in X \ {b} : rows[j].parent \in X
    BY <1>4, <2>2 DEF Chain
  <2>4. i \in X /\ X \in SUBSET S
    BY <1>2, <1>4
  <2>5. b \in X
    <3> HIDE DEF X
    <3> QED
      BY <2>3, <2>4, ChainTop
  <2> QED
    BY <2>5
<1>5. Carries(b)
  BY <1>3, <1>4
<1>6. ASSUME NEW c \in Present, Carries(c) PROVE c = b
  <2>1. c \in Family(b) /\ b \in Family(c)
    BY <1>2, <1>3, <1>4, <1>6
  <2> SUFFICES ASSUME c # b PROVE FALSE
    OBVIOUS
  <2>2. Len(rows[c].path) > Len(rows[b].path) /\ Len(rows[b].path) > Len(rows[c].path)
    BY <1>2, <2>1, FamilyLonger
  <2>3. Len(rows[c].path) \in Nat /\ Len(rows[b].path) \in Nat
    <3>1. \A x \in Present : rows[x].path \in Paths
      BY RowsAre DEF Typed, FullRow
    <3> QED
      BY <1>2, <3>1, LenProperties DEF Paths
  <2> QED
    BY <2>2, <2>3
<1>7. Carrier(i) = CHOOSE c \in Present : Carries(c)
  BY DEF Carrier
<1> HIDE DEF Carries
<1>8. Carrier(i) = b
  BY <1>2, <1>5, <1>6, <1>7
<1> QED
  BY <1>2, <1>3, <1>8

-----------------------------------------------------------------------------
(* The invariant: what lies where, at rest and while requests are under way. *)

LiveThere ==
    \A i \in Live \ (astray \cup AtRisk) : rows[i].file => Has(content, rows[i].path, FileOf(i))

BinThere == \A i \in Binned \ (astray \cup AtRisk) : rows[i].file => Shelved(i)

\* A key belongs to one row.
Keyed ==
    /\ \A i \in Ids : bins[i] < nextKey
    /\ \A i, j \in Ids : bins[i] # 0 /\ bins[i] = bins[j] => i = j

\* A file whose deletion nobody awaits is gone when the next request comes.
RemovedSoon == removing # {} => \A g \in Handlers : op[g].kind \in {"none", "encrypt"}

\* The phases in which a request does not know yet whether it replaces something.
Before == {"quota", "match", "number", "find"}

\* The file that an upload replaces is at risk, and the new one is at its path.
UploadDisk(j) ==
    /\ j.kind = "upload" =>
          /\ j.risk = DOMAIN j.writes /\ j.risk \subseteq Live
          /\ j.pc \in Before \cup {"replace", "write", "commit"}
          /\ j.pc \in Before => j.victim = 0
          /\ j.pc \in Before \cup {"replace"} => j.risk = {}
          /\ j.pc \in {"write", "commit"} /\ j.victim # 0 => j.victim \in j.risk
          /\ j.pc = "commit" /\ j.fs \notin astray => Has(content, j.path, File(j.fs))
    /\ j.kind = "folder" => j.risk = {} /\ (j.pc \in Before => j.victim = 0)

\* The encrypted file lies beside the one whose deletion is under way.
EncryptDisk(j) ==
    j.kind = "encrypt" =>
       /\ j.pc \in {"issue", "write", "throw", "commit"} /\ j.unbin = {}
       /\ j.fs \in Live /\ rows[j.fs].path = j.old
       /\ removing \subseteq {j.old} /\ ~Above(j.old, j.path)
       /\ j.pc = "issue" => removing = {} /\ j.risk = {}
       /\ j.pc # "issue" => j.risk = {j.fs}
       /\ j.pc \in {"write", "commit"} => DOMAIN j.writes = {j.fs} /\ j.writes[j.fs].enc = TRUE
       /\ j.pc = "commit" /\ j.fs \notin astray => Has(content, j.path, [of |-> j.fs, enc |-> TRUE])

\* What is on its way to the bin: first it lies where it was, then under the key.
BinDisk(j) ==
    j.kind = "bin" =>
       /\ j.pc \in {"flip", "move", "insert"} /\ j.fs \in Present /\ j.path = rows[j.fs].path
       /\ j.key < nextKey /\ \A i \in Ids : bins[i] # j.key
       /\ j.pc = "flip" => j.fs \in Live /\ j.risk = {}
       /\ j.pc # "flip" =>
             /\ j.fs \in j.risk /\ j.risk \subseteq Binned
             /\ \A i \in j.risk \ astray : \E S \in SUBSET Ids : Chain(j.fs, i, S)
       /\ j.pc = "move" =>
             /\ \A i \in j.risk \ astray : rows[i].file => Has(content, rows[i].path, FileOf(i))
             /\ \A i \in Live \ astray : ~Above(j.path, rows[i].path)
       /\ j.pc = "insert" =>
             \A i \in j.risk \ astray :
                rows[i].file => Has(trash[j.key], Rest(j.path, rows[i].path), FileOf(i))

\* What is restored lies where it is to go, but for what was in the bin on its own
\* account, which will be in astray.
RestoreDisk(j) ==
    j.kind = "restore" =>
       /\ j.pc \in {"move", "commit"} /\ j.key = bins[j.fs]
       /\ j.pc = "move" => j.risk = {}
       /\ j.pc = "commit" =>
             /\ j.fs \in j.risk /\ j.risk = DOMAIN j.writes /\ j.unbin = {j.fs}
             /\ \A x \in j.risk : j.writes[x].enc = rows[x].enc /\ j.writes[x].file = rows[x].file
             /\ \A x \in j.risk \ astray : rows[x].file =>
                   \/ Has(content, j.writes[x].path, FileOf(x))
                   \/ \E b \in j.risk \ {j.fs} :
                         bins[b] # 0 /\ Above(j.writes[b].path, j.writes[x].path)

\* What is deleted for ever is at risk until it is.
GoneDisk(j) ==
    /\ j.kind = "forget" =>
          /\ j.pc \in {"move", "commit"} /\ j.key = bins[j.fs]
          /\ j.pc = "move" => j.risk = {} /\ j.keep = rows[j.fs].file
          /\ j.pc = "commit" =>
                /\ j.fs \in j.risk /\ j.risk = DOMAIN j.writes /\ j.unbin = {j.fs}
    /\ j.kind = "clean" => j.risk = DOMAIN j.writes

JobDisk(g) ==
    /\ UploadDisk(op[g]) /\ EncryptDisk(op[g]) /\ BinDisk(op[g]) /\ RestoreDisk(op[g])
    /\ GoneDisk(op[g]) /\ (op[g].kind = "none" => op[g] = Idle)

Disk == LiveThere /\ BinThere /\ Keyed /\ RemovedSoon /\ \A g \in Handlers : JobDisk(g)

-----------------------------------------------------------------------------
(* What a step has to spare.                                               *)

\* The rows of the bin but those of T are as they were, and so are their files.
Spares(T) ==
    \A j \in Binned \ T :
       /\ j \in Binned' /\ bins'[j] = bins[j]
       /\ rows'[j].path = rows[j].path /\ rows'[j].enc = rows[j].enc /\ rows'[j].file = rows[j].file
       /\ rows'[j].parent = rows[j].parent \/ rows[j].parent \notin Binned \ T
       /\ j \in AtRisk' => j \in AtRisk
       /\ bins[j] # 0 => trash'[bins[j]] = trash[bins[j]]

\* A chain that has nothing of T is as it was.
LEMMA HeldStill ==
  ASSUME NEW b, NEW i, NEW S, Held(b, i, S), NEW T, S \cap T = {}, Spares(T)
  PROVE  Held(b, i, S)' /\ bins'[b] = bins[b] /\ b \in Binned \ T /\ i \in Binned \ T
<1>1. S \subseteq Binned \ T /\ b \in S /\ i \in S
  BY DEF Held, Chain
<1>2. S \subseteq Binned' /\ S \cap AtRisk' = {} /\ \A j \in S : bins'[j] = bins[j]
  BY <1>1 DEF Spares, Held
<1>3. ASSUME NEW j \in S \ {b} PROVE bins'[j] = 0 /\ rows'[j].parent \in S
  BY <1>1 DEF Spares, Held, Chain
<1> QED
  BY <1>1, <1>2, <1>3 DEF Held, Chain

\* Such a chain there is for every row outside T, if T is a tree or at risk.
LEMMA HeldOutside ==
  ASSUME Typed, Shape, NEW b, NEW i, NEW S \in SUBSET Ids, Held(b, i, S), NEW T, i \notin T,
         (\A x \in Binned : rows[x].parent \in T => x \in T) \/ T \subseteq AtRisk
  PROVE  \E R \in SUBSET Ids : Held(b, i, R) /\ R \cap T = {}
<1>1. CASE T \subseteq AtRisk
  BY <1>1 DEF Held
<1>2. CASE \A x \in Binned : rows[x].parent \in T => x \in T
  <2>1. Chain(b, i, S \ T)
    BY <1>2, ChainCut DEF Held
  <2>2. Held(b, i, S \ T) /\ S \ T \in SUBSET Ids /\ (S \ T) \cap T = {}
    BY <2>1 DEF Held
  <2> QED
    BY <2>2
<1> QED
  BY <1>1, <1>2

\* What is in the bin outside T stays where it lies.
LEMMA ShelvedStill ==
  ASSUME Typed, Shape, NEW i, Shelved(i), NEW T, i \notin T, Spares(T),
         (\A x \in Binned : rows[x].parent \in T => x \in T) \/ T \subseteq AtRisk
  PROVE  Shelved(i)'
<1>1. PICK b \in Ids, S0 \in SUBSET Ids :
        Held(b, i, S0) /\ Has(trash[bins[b]], Rest(rows[b].path, rows[i].path), FileOf(i))
  BY DEF Shelved
<1>2. PICK S \in SUBSET Ids : Held(b, i, S) /\ S \cap T = {}
  BY <1>1, HeldOutside
<1>3. Held(b, i, S)' /\ bins'[b] = bins[b] /\ b \in Binned \ T /\ i \in Binned \ T
  BY <1>2, HeldStill
<1>4. bins[b] # 0
  BY <1>2 DEF Held
<1>5. trash'[bins[b]] = trash[bins[b]] /\ rows'[b].path = rows[b].path
      /\ rows'[i].path = rows[i].path /\ rows'[i].enc = rows[i].enc
  BY <1>3, <1>4 DEF Spares
<1>6. Has(trash[bins[b]], Rest(rows[b].path, rows[i].path), FileOf(i))'
  BY <1>1, <1>3, <1>5 DEF Has, Rest, FileOf
<1> QED
  BY <1>3, <1>6 DEF Shelved

\* The bin after a step, if it spares all but T and what is new has its place.
LEMMA BinStill ==
  ASSUME Typed, Shape, BinThere, astray \subseteq astray', NEW T, Spares(T),
         (\A x \in Binned : rows[x].parent \in T => x \in T) \/ T \subseteq AtRisk,
         \A i \in Binned' : i \notin astray' /\ i \notin AtRisk' =>
            (i \in Binned /\ i \notin T /\ i \notin AtRisk) \/ (rows'[i].file => Shelved(i)')
  PROVE  BinThere'
<1> SUFFICES ASSUME NEW i \in Binned', i \notin astray', i \notin AtRisk', rows'[i].file
             PROVE  Shelved(i)'
  BY DEF BinThere
<1>1. CASE i \in Binned /\ i \notin T /\ i \notin AtRisk
  <2>1. rows[i].file /\ i \notin astray
    BY <1>1 DEF Spares
  <2>2. Shelved(i)
    BY <1>1, <2>1 DEF BinThere
  <2> QED
    BY <1>1, <2>2, ShelvedStill
<1> QED
  BY <1>1

\* The files at the paths of rows and of uploads about to commit are as they were,
\* but for those at risk now and those that are named in astray.
SparesLive(h) ==
    /\ \A i \in Live : i \notin astray' /\ i \notin op'[h].risk /\ rows[i].file
                          /\ Has(content, rows[i].path, FileOf(i)) =>
          Has(content', rows[i].path, FileOf(i))
    /\ \A g \in Handlers \ {h} :
          LET j == op[g]
          IN j.kind = "upload" /\ j.pc = "commit" /\ j.fs \notin astray'
             /\ Has(content, j.path, File(j.fs)) => Has(content', j.path, File(j.fs))

\* So it is when all that changes is at p and below, and the clash is noted.
LEMMA ClashSpares ==
  ASSUME NEW h \in Handlers, NEW p, NEW V, Clash(h, p, V) \subseteq astray',
         V \cap Live \subseteq op'[h].risk,
         \A q \in DOMAIN content : ~Above(p, q) => q \in DOMAIN content' /\ content'[q] = content[q]
  PROVE  SparesLive(h)
<1>1. ASSUME NEW i \in Live, i \notin astray', i \notin op'[h].risk,
             Has(content, rows[i].path, FileOf(i))
      PROVE  Has(content', rows[i].path, FileOf(i))
  <2>1. i \in Live \ V
    BY <1>1
  <2>2. ~Above(p, rows[i].path)
    BY <1>1, <2>1 DEF Clash
  <2> QED
    BY <1>1, <2>2 DEF Has
<1>2. ASSUME NEW g \in Handlers \ {h}, op[g].kind = "upload", op[g].pc = "commit", op[g].fs \notin astray',
             Has(content, op[g].path, File(op[g].fs))
      PROVE  Has(content', op[g].path, File(op[g].fs))
  <2>1. g \in Open
    BY <1>2 DEF Open, Idle
  <2>2. ~Above(p, op[g].path)
    BY <1>2, <2>1 DEF Clash, Aim
  <2> QED
    BY <1>2, <2>2 DEF Has
<1> QED
  BY <1>1, <1>2 DEF SparesLive

\* Who is at risk after a step of h.
LEMMA RiskStep ==
  ASSUME NEW h \in Handlers, Others(h)
  PROVE  /\ op'[h].risk \subseteq AtRisk' /\ op[h].risk \subseteq AtRisk
         /\ \A i : i \in AtRisk' => i \in AtRisk \/ i \in op'[h].risk
         /\ \A i : i \in AtRisk => i \in AtRisk' \/ i \in op[h].risk
BY DEF AtRisk, Others

-----------------------------------------------------------------------------
(* The other requests in a step of h.                                      *)

\* The request is under way, or it begins.
Active(h) == op[h].kind # "none" \/ MayStart(h, op'[h].kind)

\* Beside a request that runs, or begins, there are none that must run alone; and
\* none at all, if it must itself.
LEMMA Company ==
  ASSUME Orderly, Alone, NEW h \in Handlers, Active(h), NEW g \in Handlers \ {h}
  PROVE  /\ ~Lone(op[g])
         /\ Lone(op[h]) => op[g].kind = "none"
         /\ op[h].kind = "none" /\ Lone(op'[h]) => op[g] = Idle
         /\ op[h].kind = "none" => removing = {}
<1>1. CASE op[h].kind # "none"
  BY <1>1 DEF Alone, Lone
<1>2. CASE op[h].kind = "none"
  <2>1. MayStart(h, op'[h].kind) /\ "late" \notin Offers
    BY <1>2 DEF Active, Orderly
  <2>2. op[g] = Idle \/ {op'[h].kind, op[g].kind} \subseteq {"upload", "folder"}
    BY <2>1 DEF MayStart, Open, Orderly, Regime
  <2>3. removing = {}
    BY <2>1 DEF MayStart
  <2>4. Idle.kind = "none"
    BY DEF Idle
  <2> QED
    BY <1>2, <2>2, <2>3, <2>4 DEF Lone
<1> QED
  BY <1>1, <1>2

\* They find everything as they left it.
LEMMA OthersDisk ==
  ASSUME Orderly, Typed, Ledger, Shape, Ledger', NEW h \in Handlers, Others(h), Works(h), Active(h),
         astray \subseteq astray', SparesLive(h), NEW g \in Handlers \ {h}, JobDisk(g)
  PROVE  JobDisk(g)'
<1>1. op'[g] = op[g] /\ op[g].kind \in Kinds
  BY JobIs DEF Others
<1>2. ~Lone(op[g]) /\ (Lone(op[h]) => op[g].kind = "none")
  BY Company DEF Shape
<1>3. CASE op[g].kind = "none"
  <2>1. op'[g] = Idle /\ op'[g].kind = "none"
    BY <1>1, <1>3 DEF JobDisk
  <2> QED
    BY <2>1 DEF JobDisk, UploadDisk, EncryptDisk, BinDisk, RestoreDisk, GoneDisk
<1>4. CASE op[g].kind = "folder"
  BY <1>1, <1>4 DEF JobDisk, UploadDisk, EncryptDisk, BinDisk, RestoreDisk, GoneDisk
<1>5. CASE op[g].kind = "upload"
  <2>1. Stays(h)
    BY <1>2, <1>5, StaysIs
  <2>2. PICK j : j = op[g]
    OBVIOUS
  <2>3. /\ j.risk = DOMAIN j.writes /\ j.risk \subseteq Live
        /\ j.pc \in Before \cup {"replace", "write", "commit"}
        /\ j.pc \in Before => j.victim = 0
        /\ j.pc \in Before \cup {"replace"} => j.risk = {}
        /\ j.pc \in {"write", "commit"} /\ j.victim # 0 => j.victim \in j.risk
        /\ j.pc = "commit" /\ j.fs \notin astray => Has(content, j.path, File(j.fs))
    BY <1>5, <2>2 DEF JobDisk, UploadDisk
  <2>4. j.risk \subseteq Live'
    <3> SUFFICES ASSUME NEW x \in DOMAIN j.writes PROVE x \in Live'
      BY <2>3
    <3>1. x \in Present'
      BY <1>1, <2>2 DEF Ledger, LocksOf
    <3>2. x \in Present /\ x \in Live
      BY <2>3 DEF Live
    <3>3. ~(Maker(op[h]) /\ x = op[h].fs)
      BY <3>2 DEF Ledger, NumbersOf
    <3>4. rows'[x].inBin = rows[x].inBin
      BY <2>1, <3>1, <3>3 DEF Stays
    <3> QED
      BY <3>1, <3>2, <3>4 DEF Live
  <2>5. j.pc = "commit" /\ j.fs \notin astray' => Has(content', j.path, File(j.fs))
    BY <1>5, <2>2, <2>3 DEF SparesLive
  <2>6. op'[g] = j /\ j.kind = "upload"
    BY <1>1, <1>5, <2>2
  <2>7. UploadDisk(j)'
    BY <2>3, <2>4, <2>5, <2>6 DEF UploadDisk, File
  <2>8. UploadDisk(op[g])'
    BY <2>6, <2>7 DEF UploadDisk, File
  <2> QED
    BY <2>6, <2>8 DEF JobDisk, EncryptDisk, BinDisk, RestoreDisk, GoneDisk
<1> QED
  BY <1>1, <1>2, <1>3, <1>4, <1>5 DEF Lone, Kinds

\* A step of h, when the parts that are its own hold after it.
LEMMA DiskStep ==
  ASSUME Orderly, Typed, Ledger, Shape, Disk, Ledger', NEW h \in Handlers,
         Others(h), Works(h), Active(h), astray \subseteq astray', SparesLive(h),
         LiveThere', BinThere', Keyed', JobDisk(h)', removing' = removing \/ op[h].kind = "encrypt"
  PROVE  Disk'
<1>1. \A g \in Handlers \ {h} : JobDisk(g)'
  BY OthersDisk DEF Disk
<1>2. RemovedSoon'
  <2> SUFFICES ASSUME removing' # {}, NEW g \in Handlers PROVE op'[g].kind \in {"none", "encrypt"}
    BY DEF RemovedSoon
  <2>1. op[h].kind # "none" => op'[h].kind \in {op[h].kind, "none"}
    <3>1. Ends(h) => op'[h].kind = "none"
      BY DEF Ends, Idle
    <3> QED
      BY <3>1, Phase
  <2>2. CASE op[h].kind = "encrypt"
    <3>1. \A k \in Handlers \ {h} : op[k].kind = "none"
      BY <2>2 DEF Shape, Alone, Lone
    <3> QED
      BY <2>1, <2>2, <3>1 DEF Others
  <2>3. CASE op[h].kind # "encrypt"
    <3>1. removing # {} /\ \A k \in Handlers : op[k].kind \in {"none", "encrypt"}
      BY <2>3 DEF Disk, RemovedSoon
    <3>2. op[h].kind = "none"
      BY <2>3, <3>1
    <3>3. MayStart(h, op'[h].kind)
      BY <3>2 DEF Active
    <3> QED
      BY <3>1, <3>3 DEF MayStart, Orderly
  <2> QED
    BY <2>2, <2>3
<1> QED
  BY <1>1, <1>2 DEF Disk

\* A step of h that leaves the rows and the directories of the bin alone, and puts
\* rows at risk that are not in the bin, if any.
LEMMA ContentStep ==
  ASSUME Orderly, Typed, Ledger, Shape, Disk, Ledger', NEW h \in Handlers,
         Others(h), Works(h), Active(h), astray \subseteq astray', SparesLive(h),
         UNCHANGED <<rows, bins, trash>>, nextKey <= nextKey', nextKey' \in Nat,
         op[h].risk \subseteq op'[h].risk \cup astray', op'[h].risk \subseteq op[h].risk \cup Live,
         JobDisk(h)', removing' = removing \/ op[h].kind = "encrypt"
  PROVE  Disk'
<1>1. Live' = Live /\ Binned' = Binned
  BY DEF Live, Binned, Present
<1>2. /\ op'[h].risk \subseteq AtRisk' /\ op[h].risk \subseteq AtRisk
      /\ \A i : i \in AtRisk' => i \in AtRisk \/ i \in op'[h].risk
      /\ \A i : i \in AtRisk => i \in AtRisk' \/ i \in op[h].risk
  BY RiskStep
<1>3. LiveThere'
  <2> SUFFICES ASSUME NEW i \in Live, i \notin astray', i \notin AtRisk', rows[i].file
               PROVE  Has(content', rows[i].path, FileOf(i))
    BY <1>1 DEF LiveThere, FileOf
  <2>1. i \notin astray /\ i \notin AtRisk /\ i \notin op'[h].risk
    BY <1>2
  <2>2. Has(content, rows[i].path, FileOf(i))
    BY <2>1 DEF Disk, LiveThere
  <2> QED
    BY <2>1, <2>2 DEF SparesLive
<1>4. Spares({})
  <2> SUFFICES ASSUME NEW j \in Binned, j \in AtRisk' PROVE j \in AtRisk
    BY <1>1 DEF Spares
  <2>1. j \notin Live
    BY DEF Binned
  <2> QED
    BY <1>2, <2>1
<1>5. BinThere'
  <2>1. \A i \in Binned' : i \notin astray' /\ i \notin AtRisk' =>
           i \in Binned /\ i \notin {} /\ i \notin AtRisk
    BY <1>1, <1>2
  <2>2. BinThere
    BY DEF Disk
  <2> QED
    BY <1>4, <2>1, <2>2, BinStill
<1>6. Keyed'
  <2>1. \A i \in Ids : bins[i] \in Int /\ nextKey \in Int
    BY BoundsAssumption DEF Typed, TablesOK
  <2> QED
    BY <2>1 DEF Disk, Keyed
<1> QED
  BY <1>3, <1>5, <1>6, DiskStep

\* A step of h that touches nothing on disk either.
LEMMA QuietStep ==
  ASSUME Orderly, Typed, Ledger, Shape, Disk, Ledger', NEW h \in Handlers,
         Others(h), Works(h), Active(h), astray \subseteq astray',
         UNCHANGED <<rows, bins, content, trash>>, nextKey <= nextKey', nextKey' \in Nat,
         op[h].risk \subseteq op'[h].risk \cup astray', op'[h].risk \subseteq op[h].risk \cup Live,
         JobDisk(h)', removing' = removing \/ op[h].kind = "encrypt"
  PROVE  Disk'
<1>1. SparesLive(h)
  BY DEF SparesLive
<1> QED
  BY <1>1, ContentStep

\* A request that gives up notes what it leaves behind.
LEMMA AbortDisk ==
  ASSUME Orderly, Typed, Ledger, Shape, Disk, Ledger', NEW h \in Handlers,
         op[h].kind # "none", Abort(h), UNCHANGED <<rows, bins, disk, aside>>
  PROVE  Disk'
<1>1. Others(h) /\ Works(h)
  BY AbortWorks DEF aside
<1>2. op'[h] = Idle /\ op'[h].kind = "none" /\ op'[h].risk = {} /\ astray' = astray \cup op[h].risk
  <2>1. op'[h] = Idle /\ astray' = astray \cup op[h].risk
    BY DoneStep DEF Abort, Typed
  <2> QED
    BY <2>1 DEF Idle
<1>3. JobDisk(h)'
  BY <1>2 DEF JobDisk, UploadDisk, EncryptDisk, BinDisk, RestoreDisk, GoneDisk
<1>4. UNCHANGED <<content, trash, removing, nextKey>> /\ nextKey \in Nat
  BY BoundsAssumption DEF disk, aside, Typed
<1> QED
  BY <1>1, <1>2, <1>3, <1>4, QuietStep DEF Active

-----------------------------------------------------------------------------
(* Uploads and new folders, until they commit.                             *)

\* What a request keeps when it goes on to another phase.
SameJob(h) ==
    LET j == op[h]
        k == op'[h]
    IN /\ k.kind = j.kind /\ k.fs = j.fs /\ k.path = j.path /\ k.old = j.old /\ k.key = j.key
       /\ k.parent = j.parent /\ k.victim = j.victim /\ k.writes = j.writes /\ k.unbin = j.unbin
       /\ k.risk = j.risk

LEMMA JobMoved ==
  ASSUME Typed, NEW h \in Handlers, NEW pc, NEW touched,
         op' = [op EXCEPT ![h].pc = pc, ![h].touched = touched] \/ Goto(h, pc)
  PROVE  SameJob(h) /\ op'[h].pc = pc
<1>1. op[h] \in Job
  BY JobIs
<1>2. CASE op' = [op EXCEPT ![h].pc = pc, ![h].touched = touched]
  <2>1. PICK r : r = [op[h] EXCEPT !.pc = pc, !.touched = touched]
    OBVIOUS
  <2>2. op'[h] = r
    <3>1. op' = [op EXCEPT ![h] = r]
      BY <1>2, <2>1
    <3> QED
      BY <3>1, Only DEF Typed
  <2>3. /\ r.kind = op[h].kind /\ r.fs = op[h].fs /\ r.path = op[h].path /\ r.old = op[h].old
        /\ r.key = op[h].key /\ r.parent = op[h].parent /\ r.victim = op[h].victim
        /\ r.writes = op[h].writes /\ r.unbin = op[h].unbin /\ r.risk = op[h].risk /\ r.pc = pc
    BY <1>1, <2>1 DEF Job
  <2> QED
    BY <2>2, <2>3 DEF SameJob
<1>3. CASE Goto(h, pc)
  <2>1. PICK r : r = [op[h] EXCEPT !.pc = pc]
    OBVIOUS
  <2>2. op'[h] = r
    BY <1>3, <2>1, Only DEF Goto, Typed
  <2>3. /\ r.kind = op[h].kind /\ r.fs = op[h].fs /\ r.path = op[h].path /\ r.old = op[h].old
        /\ r.key = op[h].key /\ r.parent = op[h].parent /\ r.victim = op[h].victim
        /\ r.writes = op[h].writes /\ r.unbin = op[h].unbin /\ r.risk = op[h].risk /\ r.pc = pc
    BY <1>1, <2>1 DEF Job
  <2> QED
    BY <2>2, <2>3 DEF SameJob
<1> QED
  BY <1>2, <1>3

\* A key not given out yet is a number.
LEMMA KeyIs ==
  ASSUME Typed
  PROVE  nextKey \in Nat /\ nextKey + 1 \in Nat /\ nextKey <= nextKey + 1 /\ nextKey <= nextKey
BY BoundsAssumption DEF Typed

\* Beginning an upload or a new folder.
LEMMA CreationDisk ==
  ASSUME Orderly, Typed, Ledger, Shape, Disk, Ledger', NEW h \in Handlers,
         NEW kind \in {"upload", "folder"}, NEW pc \in Before, NEW p, NEW name, NEW keep \in BOOLEAN, NEW extra,
         Creation(h, kind, pc, p, name, keep, extra), Others(h), Works(h)
  PROVE  Disk'
<1>2. PICK path : path = PathOf(p) \o <<name>>
  OBVIOUS
<1>3. PICK depth : depth = IF p = 0 THEN 0 ELSE rows[p].depth + 1
  OBVIOUS
<1>5. PICK r : r = [Idle EXCEPT !.kind = kind, !.pc = pc, !.fs = nextRow, !.parent = p, !.root = RootOf(p),
                                !.path = path, !.depth = depth, !.extra = extra, !.keep = keep]
  OBVIOUS
<1>6. op' = [op EXCEPT ![h] = r]
  BY <1>2, <1>3, <1>5 DEF Creation
<1>7. op'[h] = r
  BY <1>6, Only DEF Typed
<1>8. r.kind = kind /\ r.pc = pc /\ r.victim = 0 /\ r.risk = {} /\ r.writes = Nothing
  BY <1>5 DEF Idle
<1>9. DOMAIN r.writes = {}
  BY <1>8, WritesAre
<1>10. UploadDisk(r)'
  BY <1>8, <1>9 DEF UploadDisk, Before
<1>11. JobDisk(h)'
  BY <1>7, <1>8, <1>10 DEF JobDisk, EncryptDisk, BinDisk, RestoreDisk, GoneDisk
<1>12. /\ MayStart(h, kind) /\ UNCHANGED <<rows, bins, content, trash, removing, nextKey>> /\ astray' = astray
       /\ op[h].risk = {}
  <2>1. op[h] = Idle
    BY DEF Creation, MayStart
  <2> QED
    BY <2>1 DEF Creation, disk, Idle
<1> QED
  BY <1>7, <1>8, <1>11, <1>12, KeyIs, QuietStep DEF Active

\* What may come of the storage limit and of the number of a title.
LEMMA EarlyStep ==
  ASSUME Typed, NEW h \in Handlers, NEW kind \in {"upload", "folder"},
         UploadQuota(h) \/ Match(h, kind) \/ Number(h, kind)
  PROVE  /\ op[h].kind \in {"upload", "folder"} /\ op[h].pc \in {"quota", "match", "number"}
         /\ UNCHANGED <<rows, bins, content, trash, removing, nextKey, astray, dirty>>
         /\ Others(h) /\ Works(h)
         /\ \/ op'[h] = Idle
            \/ /\ op'[h].kind = op[h].kind /\ op'[h].risk = op[h].risk /\ op'[h].writes = op[h].writes
               /\ op'[h].victim = op[h].victim /\ op'[h].pc \in {"match", "number", "find", "write"}
<1>1. /\ op[h].kind \in {"upload", "folder"} /\ op[h].pc \in {"quota", "match", "number"}
      /\ UNCHANGED <<rows, bins, content, trash, removing, nextKey, astray, dirty>>
  BY DEF UploadQuota, Match, Number, At, disk, aside
<1>2. Others(h) /\ Works(h)
  BY UploadQuotaWorks, MatchWorks, NumberWorks
<1>3. ASSUME NEW pc \in {"match", "number", "find", "write"}, Goto(h, pc)
      PROVE  /\ op'[h].kind = op[h].kind /\ op'[h].risk = op[h].risk /\ op'[h].writes = op[h].writes
             /\ op'[h].victim = op[h].victim /\ op'[h].pc \in {"match", "number", "find", "write"}
  BY <1>3, JobMoved DEF SameJob
<1>4. CASE UploadQuota(h)
  <2>1. CASE Done(h)
    BY <1>1, <1>2, <2>1, DoneStep DEF Typed
  <2>2. CASE Goto(h, Naming(op[h].keep))
    <3>1. PICK pc : pc = Naming(op[h].keep)
      OBVIOUS
    <3>2. pc \in {"match", "number", "find", "write"} /\ Goto(h, pc)
      BY <2>2, <3>1 DEF Naming
    <3> QED
      BY <1>1, <1>2, <1>3, <3>2
  <2> QED
    BY <1>4, <2>1, <2>2 DEF UploadQuota
<1>5. CASE Match(h, kind)
  <2>1. PICK pc : pc = IF Asked(h) \in Seen(h) THEN "number" ELSE "write"
    OBVIOUS
  <2>2. pc \in {"match", "number", "find", "write"} /\ Goto(h, pc)
    BY <1>5, <2>1 DEF Match
  <2> QED
    BY <1>1, <1>2, <1>3, <2>2
<1>6. CASE Number(h, kind)
  <2>1. PICK p : p = Titled(op[h].path, NextTitle(Seen(h), Asked(h)))
    OBVIOUS
  <2>2. PICK r : r = [op[h] EXCEPT !.pc = "write", !.path = p]
    OBVIOUS
  <2>3. op'[h] = r
    BY <1>6, <2>1, <2>2, NumberStep
  <2>4. /\ r.kind = op[h].kind /\ r.risk = op[h].risk /\ r.writes = op[h].writes
        /\ r.victim = op[h].victim /\ r.pc = "write"
    BY <2>2, JobIs DEF Job
  <2> QED
    BY <1>1, <1>2, <2>3, <2>4
<1> QED
  BY <1>4, <1>5, <1>6

\* Neither touches what is on disk.
LEMMA EarlyDisk ==
  ASSUME Orderly, Typed, Ledger, Shape, Disk, Ledger', NEW h \in Handlers, NEW kind \in {"upload", "folder"},
         UploadQuota(h) \/ Match(h, kind) \/ Number(h, kind)
  PROVE  Disk'
<1>1. /\ op[h].kind \in {"upload", "folder"} /\ op[h].pc \in {"quota", "match", "number"}
      /\ UNCHANGED <<rows, bins, content, trash, removing, nextKey, astray, dirty>>
      /\ Others(h) /\ Works(h)
  BY EarlyStep
<1>2. PICK j, k : j = op[h] /\ k = op'[h]
  OBVIOUS
<1>3. j.risk = {} /\ j.victim = 0 /\ (j.kind = "upload" => DOMAIN j.writes = {})
  BY <1>1, <1>2 DEF Disk, JobDisk, UploadDisk, Before
<1>4. CASE k = Idle
  <2>1. k.kind = "none" /\ k.risk = {}
    BY <1>4 DEF Idle
  <2>2. JobDisk(h)'
    BY <1>2, <1>4, <2>1 DEF JobDisk, UploadDisk, EncryptDisk, BinDisk, RestoreDisk, GoneDisk
  <2> QED
    BY <1>1, <1>2, <1>3, <2>1, <2>2, KeyIs, QuietStep DEF Active
<1>5. CASE /\ k.kind = j.kind /\ k.risk = j.risk /\ k.writes = j.writes
           /\ k.victim = j.victim /\ k.pc \in {"match", "number", "find", "write"}
  <2>1. UploadDisk(k)'
    BY <1>1, <1>2, <1>3, <1>5 DEF UploadDisk, Before
  <2>2. JobDisk(h)'
    BY <1>1, <1>2, <1>5, <2>1 DEF JobDisk, EncryptDisk, BinDisk, RestoreDisk, GoneDisk
  <2> QED
    BY <1>1, <1>2, <1>3, <1>5, <2>2, KeyIs, QuietStep DEF Active
<1> QED
  BY <1>2, <1>4, <1>5, EarlyStep

\* Looking for what is at the path.
LEMMA FindDisk ==
  ASSUME Orderly, Typed, Ledger, Shape, Disk, Ledger', NEW h \in Handlers,
         UploadFind(h) \/ FolderFind(h), Others(h), Works(h)
  PROVE  Disk'
<1>1. PICK kind \in {"upload", "folder"}, after \in {"replace", "delete"} :
        Find(h, kind, after) /\ (kind = "upload" => after = "replace")
  BY DEF UploadFind, FolderFind
<1>2. /\ op[h].kind = kind /\ op[h].pc = "find" /\ astray' = astray
      /\ UNCHANGED <<rows, bins, content, trash, removing, nextKey>>
  BY <1>1 DEF Find, At, disk, aside
<1>3. PICK k : k = op'[h]
  OBVIOUS
<1>4. /\ k.kind = op[h].kind /\ k.risk = op[h].risk /\ k.writes = op[h].writes
      /\ \/ k.pc = "write" /\ k.victim = op[h].victim
         \/ k.pc = after
  <2>1. CASE Goto(h, "write")
    BY <1>3, <2>1, JobMoved DEF SameJob
  <2>2. ASSUME NEW v, op' = [op EXCEPT ![h].victim = v, ![h].pc = after]
        PROVE  k.kind = op[h].kind /\ k.risk = op[h].risk /\ k.writes = op[h].writes /\ k.pc = after
    <3>1. PICK r : r = [op[h] EXCEPT !.victim = v, !.pc = after]
      OBVIOUS
    <3>2. r = k
      <4>1. op' = [op EXCEPT ![h] = r]
        BY <2>2, <3>1
      <4> QED
        BY <1>3, <4>1, Only DEF Typed
    <3>3. op[h] \in Job
      BY JobIs
    <3>4. r.kind = op[h].kind /\ r.risk = op[h].risk /\ r.writes = op[h].writes /\ r.pc = after
      BY <3>1, <3>3 DEF Job
    <3> QED
      BY <3>2, <3>4
  <2> QED
    BY <1>1, <2>1, <2>2 DEF Find
<1>5. UploadDisk(op[h])
  BY DEF Disk, JobDisk
<1>6. UploadDisk(k)'
  <2>1. Live' = Live
    BY <1>2 DEF Live, Present
  <2>2. CASE kind = "folder"
    BY <1>1, <1>2, <1>4, <1>5, <2>2 DEF UploadDisk, Before
  <2>3. CASE kind = "upload"
    <3>1. k.pc \in {"write", "replace"} /\ (k.pc = "write" => k.victim = 0)
      BY <1>1, <1>2, <1>4, <1>5, <2>3 DEF UploadDisk, Before
    <3> QED
      BY <1>2, <1>4, <1>5, <2>1, <2>3, <3>1 DEF UploadDisk, Before
  <2> QED
    BY <2>2, <2>3
<1>7. JobDisk(h)'
  BY <1>2, <1>3, <1>4, <1>6 DEF JobDisk, EncryptDisk, BinDisk, RestoreDisk, GoneDisk
<1> QED
  BY <1>2, <1>3, <1>4, <1>7, KeyIs, QuietStep DEF Active

\* What is left when a path is cut, or gets an entry.
LEMMA CutLeaves ==
  ASSUME NEW p
  PROVE  \A q \in DOMAIN content : ~Above(p, q) => q \in DOMAIN Cut(p) /\ Cut(p)[q] = content[q]
BY DEF Cut

LEMMA PutLeaves ==
  ASSUME NEW p \in Seq(Names), NEW f
  PROVE  /\ \A q \in DOMAIN content : ~Above(p, q) => q \in DOMAIN Put(p, f) /\ Put(p, f)[q] = content[q]
         /\ Has(Put(p, f), p, f)
<1>1. Above(p, p)
  BY MovedSelf, EmptySeq
<1> QED
  BY <1>1 DEF Put, Has

\* Deleting the file that an upload replaces.
LEMMA UploadReplaceDisk ==
  ASSUME Orderly, Typed, Ledger, Shape, Disk, Ledger', NEW h \in Handlers, UploadReplace(h)
  PROVE  Disk'
<1> DEFINE p == op[h].path
           v == op[h].victim
<1>1. /\ op[h].kind = "upload" /\ op[h].pc = "replace" /\ Others(h) /\ Works(h)
      /\ UNCHANGED <<rows, bins, trash, removing, nextRow, nextKey>>
  BY UploadReplaceWorks DEF UploadReplace, At, aside
<1>2. CASE v \in Live /\ ~Referred(v) /\ Exists(Front(p))
  <2>1. content' = Cut(p) /\ astray' = astray \cup Clash(h, p, {v})
    BY <1>2 DEF UploadReplace
  <2>2. PICK r : r = [op[h] EXCEPT !.pc = "write", !.writes = [x \in {v} |-> None], !.risk = {v}, !.touched = TRUE]
    OBVIOUS
  <2>3. op'[h] = r
    <3>1. op' = [op EXCEPT ![h] = r]
      BY <1>2, <2>2 DEF UploadReplace
    <3> QED
      BY <3>1, Only DEF Typed
  <2>4. /\ r.kind = "upload" /\ r.pc = "write" /\ r.risk = {v} /\ r.victim = v
        /\ r.writes = [x \in {v} |-> None]
    BY <1>1, <2>2, JobIs DEF Job
  <2>5. Live' = Live /\ DOMAIN r.writes = {v}
    BY <1>1, <2>4 DEF Live, Present
  <2>6. UploadDisk(r)'
    BY <1>2, <2>4, <2>5 DEF UploadDisk, Before
  <2>7. JobDisk(h)'
    BY <2>3, <2>4, <2>6 DEF JobDisk, EncryptDisk, BinDisk, RestoreDisk, GoneDisk
  <2>8. SparesLive(h)
    <3>1. Clash(h, p, {v}) \subseteq astray' /\ {v} \cap Live \subseteq op'[h].risk
      BY <2>1, <2>3, <2>4
    <3> QED
      BY <2>1, <3>1, CutLeaves, ClashSpares
  <2>9. op[h].risk \subseteq op'[h].risk \cup astray' /\ op'[h].risk \subseteq op[h].risk \cup Live
    <3>1. op[h].risk = {}
      BY <1>1, <1>2 DEF Disk, JobDisk, UploadDisk
    <3> QED
      BY <1>2, <2>3, <2>4, <3>1
  <2> QED
    BY <1>1, <2>1, <2>3, <2>7, <2>8, <2>9, KeyIs, ContentStep DEF Active
<1>3. CASE ~(v \in Live /\ ~Referred(v) /\ Exists(Front(p)))
  <2>1. Abort(h) /\ UNCHANGED <<rows, bins, disk, aside>>
    BY <1>3 DEF UploadReplace, disk
  <2> QED
    BY <1>1, <2>1, AbortDisk
<1> QED
  BY <1>2, <1>3

\* Writing the uploaded file.
LEMMA UploadWriteDisk ==
  ASSUME Orderly, Typed, Ledger, Shape, Disk, Ledger', NEW h \in Handlers, UploadWrite(h)
  PROVE  Disk'
<1> DEFINE p == op[h].path
           v == op[h].victim
<1>1. /\ op[h].kind = "upload" /\ op[h].pc = "write" /\ Others(h) /\ Works(h)
      /\ UNCHANGED <<rows, bins, trash, removing, nextRow, nextKey>>
  BY DiskWorks DEF UploadWrite, At, aside
<1>2. CASE IsDir(Front(p)) /\ ~IsDir(p)
  <2>1. /\ content' = Put(p, File(op[h].fs)) /\ astray' = astray \cup Clash(h, p, {v})
        /\ op' = [op EXCEPT ![h].pc = "commit", ![h].touched = TRUE]
    BY <1>2 DEF UploadWrite
  <2>2. SameJob(h) /\ op'[h].pc = "commit"
    BY <2>1, JobMoved
  <2>3. p \in Seq(Names)
    BY JobIs
  <2>4. /\ \A q \in DOMAIN content : ~Above(p, q) => q \in DOMAIN content' /\ content'[q] = content[q]
        /\ Has(content', p, File(op[h].fs))
    BY <2>1, <2>3, PutLeaves
  <2>5. UploadDisk(op[h])
    BY DEF Disk, JobDisk
  <2>6. Live' = Live
    BY <1>1 DEF Live, Present
  <2>7. UploadDisk(op[h])'
    <3>1. op'[h].kind = "upload" /\ op'[h].risk = DOMAIN op'[h].writes /\ op'[h].risk \subseteq Live'
          /\ (op'[h].victim # 0 => op'[h].victim \in op'[h].risk)
      BY <1>1, <2>2, <2>5, <2>6 DEF UploadDisk, SameJob
    <3>2. Has(content', op'[h].path, File(op'[h].fs))
      BY <2>2, <2>4 DEF SameJob
    <3> QED
      BY <2>2, <3>1, <3>2 DEF UploadDisk, File, Before
  <2>8. JobDisk(h)'
    BY <1>1, <2>2, <2>7 DEF JobDisk, EncryptDisk, BinDisk, RestoreDisk, GoneDisk, SameJob
  <2>9. SparesLive(h)
    <3>1. v \in Live => v # 0 /\ v \in op[h].risk
      BY <1>1, <2>5 DEF UploadDisk, Live, Present, Ids
    <3>2. Clash(h, p, {v}) \subseteq astray' /\ {v} \cap Live \subseteq op'[h].risk
      BY <2>1, <2>2, <3>1 DEF SameJob
    <3> QED
      BY <2>4, <3>2, ClashSpares
  <2> QED
    BY <1>1, <2>1, <2>2, <2>8, <2>9, KeyIs, ContentStep DEF Active, SameJob
<1>3. CASE ~(IsDir(Front(p)) /\ ~IsDir(p))
  <2>1. Abort(h) /\ UNCHANGED <<rows, bins, disk, aside>>
    BY <1>3 DEF UploadWrite, disk
  <2> QED
    BY <1>1, <2>1, AbortDisk
<1> QED
  BY <1>2, <1>3

\* Deleting from the disk what is at the path of a new folder.
LEMMA FolderRemoveDisk ==
  ASSUME Orderly, Typed, Ledger, Shape, Disk, Ledger', NEW h \in Handlers, FolderRemove(h)
  PROVE  Disk'
<1> DEFINE p == op[h].path
<1>1. /\ op[h].kind = "folder" /\ Others(h) /\ Works(h)
      /\ UNCHANGED <<rows, bins, trash, removing, nextRow, nextKey>>
  BY DiskWorks DEF FolderRemove, At, aside
<1>2. CASE Exists(p)
  <2>1. content' = Cut(p) /\ astray' = astray \cup Clash(h, p, {}) /\ Goto(h, "write")
    BY <1>2 DEF FolderRemove
  <2>2. SameJob(h) /\ op'[h].pc = "write"
    BY <2>1, JobMoved
  <2>3. JobDisk(h)'
    BY <1>1, <2>2
    DEF SameJob, Disk, JobDisk, UploadDisk, EncryptDisk, BinDisk, RestoreDisk, GoneDisk, Before
  <2>4. SparesLive(h)
    <3>1. Clash(h, p, {}) \subseteq astray' /\ {} \cap Live \subseteq op'[h].risk
      BY <2>1
    <3> QED
      BY <2>1, <3>1, CutLeaves, ClashSpares
  <2> QED
    BY <1>1, <2>1, <2>2, <2>3, <2>4, KeyIs, ContentStep DEF Active, SameJob
<1>3. CASE ~Exists(p)
  <2>1. Abort(h) /\ UNCHANGED <<rows, bins, disk, aside>>
    BY <1>3 DEF FolderRemove, disk
  <2> QED
    BY <1>1, <2>1, AbortDisk
<1> QED
  BY <1>2, <1>3

\* Making the directory of a new folder, which keeps what there is.
LEMMA FolderWriteDisk ==
  ASSUME Orderly, Typed, Ledger, Shape, Disk, Ledger', NEW h \in Handlers, FolderWrite(h)
  PROVE  Disk'
<1> DEFINE p == op[h].path
           made == {SubSeq(p, 1, n) : n \in 1 .. Len(p)}
<1>1. /\ op[h].kind = "folder" /\ Others(h) /\ Works(h)
      /\ UNCHANGED <<rows, bins, trash, removing, nextRow, nextKey>>
  BY DiskWorks DEF FolderWrite, At, aside
<1>2. CASE Exists(p) \/ \A q \in made : Exists(q) => IsDir(q)
  <2>1. /\ content' = IF Exists(p) THEN content
                    ELSE [q \in DOMAIN content \cup made |->
                            IF q \in DOMAIN content THEN content[q] ELSE Dir]
        /\ op' = [op EXCEPT ![h].pc = "commit", ![h].touched = TRUE] /\ astray' = astray
    BY <1>2 DEF FolderWrite
  <2>2. SameJob(h) /\ op'[h].pc = "commit"
    BY <2>1, JobMoved
  <2>3. JobDisk(h)'
    BY <1>1, <2>2
    DEF SameJob, Disk, JobDisk, UploadDisk, EncryptDisk, BinDisk, RestoreDisk, GoneDisk, Before
  <2>4. \A q \in DOMAIN content : q \in DOMAIN content' /\ content'[q] = content[q]
    <3> HIDE DEF made
    <3> QED
      BY <2>1
  <2>5. SparesLive(h)
    BY <2>4 DEF SparesLive, Has
  <2> QED
    BY <1>1, <2>1, <2>2, <2>3, <2>5, KeyIs, ContentStep DEF Active, SameJob
<1>3. CASE ~(Exists(p) \/ \A q \in made : Exists(q) => IsDir(q))
  <2>1. Abort(h) /\ UNCHANGED <<rows, bins, disk, aside>>
    BY <1>3 DEF FolderWrite, disk
  <2> QED
    BY <1>1, <2>1, AbortDisk
<1> QED
  BY <1>2, <1>3

-----------------------------------------------------------------------------
(* Rows that come and go.                                                  *)

\* Deleting rows that are not in the bin, and adding others than were there.
LEMMA Thinned ==
  ASSUME Typed, NEW D, D \subseteq Live, NEW N, N \cap Present = {},
         \A i \in Ids : i \notin N => rows'[i] = Without(rows, D)[i],
         UNCHANGED <<bins, trash>>, \A i : i \in AtRisk' => i \in AtRisk
  PROVE  /\ Spares({})
         /\ \A i \in Live' : i \notin N => /\ i \in Live /\ i \notin D /\ rows'[i].path = rows[i].path
                                           /\ rows'[i].enc = rows[i].enc /\ rows'[i].file = rows[i].file
         /\ \A i \in Binned' : i \notin N => i \in Binned
<1>1. \A i \in Ids : LET r == Without(rows, D)[i]
                     IN /\ rows[i] = None \/ i \in D => r = None
                        /\ rows[i] # None /\ i \notin D =>
                              /\ r # None /\ r.file = rows[i].file /\ r.size = rows[i].size
                              /\ r.enc = rows[i].enc /\ r.path = rows[i].path
                              /\ r.inBin = rows[i].inBin /\ r.depth = rows[i].depth
                              /\ r.parent = IF rows[i].parent \in D THEN 0 ELSE rows[i].parent
  BY WithoutKept
<1>2. ASSUME NEW i \in Ids, i \notin N
      PROVE  /\ i \in Present' <=> i \in Present /\ i \notin D
             /\ i \in Present' => /\ rows'[i].path = rows[i].path /\ rows'[i].enc = rows[i].enc
                                  /\ rows'[i].file = rows[i].file /\ rows'[i].inBin = rows[i].inBin
                                  /\ rows'[i].parent = IF rows[i].parent \in D THEN 0 ELSE rows[i].parent
  BY <1>1, <1>2 DEF Present
<1>3. \A i \in Present' : i \in Ids
  BY DEF Present
<1>4. \A i \in Live' : i \notin N => /\ i \in Live /\ i \notin D /\ rows'[i].path = rows[i].path
                                     /\ rows'[i].enc = rows[i].enc /\ rows'[i].file = rows[i].file
  BY <1>2, <1>3 DEF Live
<1>5. \A i \in Binned' : i \notin N => i \in Binned
  BY <1>2, <1>3 DEF Live, Binned
<1>6. ASSUME NEW j \in Binned
      PROVE  /\ j \in Binned' /\ rows'[j].path = rows[j].path /\ rows'[j].enc = rows[j].enc
             /\ rows'[j].file = rows[j].file
             /\ rows'[j].parent = rows[j].parent \/ rows[j].parent \notin Binned \ {}
  <2>1. j \in Ids /\ j \in Present /\ j \notin Live /\ j \notin N /\ j \notin D
    BY BinnedIs
  <2>2. j \in Present' /\ j \notin Live'
    BY <1>2, <2>1 DEF Live
  <2>3. \A x \in D : x \notin Binned
    BY DEF Binned
  <2> QED
    BY <1>2, <2>1, <2>2, <2>3 DEF Binned
<1>7. Spares({})
  BY <1>6 DEF Spares
<1> QED
  BY <1>4, <1>5, <1>7

\* A step that does that, and leaves the disk alone.
LEMMA ThinnedStep ==
  ASSUME Orderly, Typed, Ledger, Shape, Disk, Ledger', NEW h \in Handlers, Others(h), Works(h), Active(h),
         NEW D, D \subseteq Live, op[h].risk \subseteq D, op'[h].risk = {}, NEW N, N \cap Present = {},
         \A i \in Ids : i \notin N => rows'[i] = Without(rows, D)[i],
         UNCHANGED <<bins, content, trash, removing, nextKey>>, astray \subseteq astray', JobDisk(h)',
         \A i \in Present' : i \in N =>
            i \in Live' /\ (rows'[i].file => i \in astray' \/ Has(content, rows'[i].path, FileOf(i)'))
  PROVE  Disk'
<1>1. /\ \A i : i \in AtRisk' => i \in AtRisk
      /\ \A i : i \in AtRisk => i \in AtRisk' \/ i \in D
  BY RiskStep
<1>2. /\ Spares({})
      /\ \A i \in Live' : i \notin N => /\ i \in Live /\ i \notin D /\ rows'[i].path = rows[i].path
                                        /\ rows'[i].enc = rows[i].enc /\ rows'[i].file = rows[i].file
      /\ \A i \in Binned' : i \notin N => i \in Binned
  BY <1>1, Thinned
<1>3. LiveThere'
  <2> SUFFICES ASSUME NEW i \in Live', i \notin astray', i \notin AtRisk', rows'[i].file
               PROVE  Has(content', rows'[i].path, FileOf(i)')
    BY DEF LiveThere
  <2>1. CASE i \in N
    BY <2>1 DEF Live
  <2>2. CASE i \notin N
    <3>1. i \in Live /\ i \notin astray /\ i \notin AtRisk /\ rows[i].file
      BY <1>1, <1>2, <2>2
    <3>2. Has(content, rows[i].path, FileOf(i))
      BY <3>1 DEF Disk, LiveThere
    <3> QED
      BY <1>2, <2>2, <3>2 DEF FileOf
  <2> QED
    BY <2>1, <2>2
<1>4. BinThere'
  <2>1. \A i \in Binned' : i \notin astray' /\ i \notin AtRisk' =>
           i \in Binned /\ i \notin {} /\ i \notin AtRisk
    <3> SUFFICES ASSUME NEW i \in Binned', i \notin AtRisk' PROVE i \in Binned /\ i \notin AtRisk
      OBVIOUS
    <3>1. i \notin N
      BY DEF Binned
    <3>2. i \in Binned /\ i \notin Live
      BY <1>2, <3>1 DEF Binned
    <3> QED
      BY <1>1, <3>2
  <2>2. BinThere
    BY DEF Disk
  <2> QED
    BY <1>2, <2>1, <2>2, BinStill
<1>5. Keyed'
  BY DEF Disk, Keyed
<1>6. SparesLive(h)
  BY DEF SparesLive
<1> QED
  BY <1>3, <1>4, <1>5, <1>6, DiskStep

\* Inserting the row that was made: its file was written.
LEMMA InsertDisk ==
  ASSUME Orderly, Typed, Ledger, Shape, Disk, Ledger', NEW h \in Handlers,
         UploadCommit(h) \/ FolderCommit(h)
  PROVE  Disk'
<1> DEFINE file == op[h].kind = "upload"
           w == op[h].writes
           p == op[h].parent
<1>0. PICK i : i = op[h].fs
  OBVIOUS
<1>1. /\ op[h].kind \in {"upload", "folder"} /\ op[h].pc = "commit" /\ Others(h) /\ Works(h)
      /\ Insert(h, file)
  BY InsertWorks DEF UploadCommit, FolderCommit, At
<1>2. UNCHANGED <<content, trash, removing, nextRow, nextKey>>
  BY <1>1 DEF Insert, disk, aside
<1>3. CASE p \in (Present \ DOMAIN w) \cup {0}
  <2>1. Store([Without(rows, DOMAIN w) EXCEPT ![i] = NewRow(h, file)], bins) /\ Done(h)
    BY <1>0, <1>1, <1>3 DEF Insert
  <2>2. op'[h] = Idle /\ op'[h].kind = "none" /\ op'[h].risk = {}
    <3>1. op'[h] = Idle
      BY <2>1, DoneStep DEF Typed
    <3> QED
      BY <3>1 DEF Idle
  <2>3. /\ rows' = [Without(rows, DOMAIN w) EXCEPT ![i] = NewRow(h, file)]
        /\ bins' = bins /\ astray \subseteq astray'
    BY <2>1 DEF Store
  <2>4. DOMAIN w \subseteq Live /\ op[h].risk \subseteq DOMAIN w
    <3>1. op[h].kind = "folder" => DOMAIN w = {}
      BY DEF Ledger, LocksOf
    <3>2. UploadDisk(op[h])
      BY DEF Disk, JobDisk
    <3> QED
      BY <1>1, <3>1, <3>2 DEF UploadDisk
  <2>5. i \notin Present /\ i \in Ids
    BY <1>0, <1>1, JobIs DEF Ledger, NumbersOf, Maker, JobOK
  <2>6. \A x \in Ids : x \notin {i} => rows'[x] = Without(rows, DOMAIN w)[x]
    BY <2>3 DEF Without
  <2>7. rows'[i] = NewRow(h, file)
    BY <2>3, <2>5 DEF Without
  <2>8. rows'[i].file = file /\ rows'[i].path = op[h].path /\ rows'[i].enc = FALSE /\ rows'[i].inBin = FALSE
    BY <2>7 DEF NewRow
  <2>9. \A x \in Present' : x \in {i} =>
           x \in Live' /\ (rows'[x].file => x \in astray' \/ Has(content, rows'[x].path, FileOf(x)'))
    <3> SUFFICES ASSUME i \in Present'
                 PROVE  i \in Live' /\ (rows'[i].file => i \in astray' \/ Has(content, rows'[i].path, FileOf(i)'))
      OBVIOUS
    <3>1. i \in Live'
      BY <2>8 DEF Live
    <3>2. ASSUME rows'[i].file, i \notin astray' PROVE Has(content, rows'[i].path, FileOf(i)')
      <4>1. op[h].kind = "upload" /\ i \notin astray
        BY <2>3, <2>8, <3>2
      <4>2. Has(content, op[h].path, File(i))
        BY <1>0, <1>1, <4>1 DEF Disk, JobDisk, UploadDisk
      <4>3. FileOf(i)' = File(i)
        BY <2>8 DEF FileOf, File
      <4> QED
        BY <2>8, <4>2, <4>3
    <3> QED
      BY <3>1, <3>2
  <2>10. JobDisk(h)'
    BY <2>2 DEF JobDisk, UploadDisk, EncryptDisk, BinDisk, RestoreDisk, GoneDisk
  <2>11. {i} \cap Present = {} /\ Active(h)
    BY <1>1, <2>5 DEF Active
  <2> QED
    BY <1>1, <1>2, <2>2, <2>3, <2>4, <2>6, <2>9, <2>10, <2>11, ThinnedStep
<1>4. CASE p \notin (Present \ DOMAIN w) \cup {0}
  <2>1. Abort(h) /\ UNCHANGED <<rows, bins, disk, aside>>
    BY <1>1, <1>4 DEF Insert
  <2> QED
    BY <1>1, <2>1, AbortDisk
<1> QED
  BY <1>3, <1>4

\* Deleting the rows that a new folder replaces.
LEMMA FolderDeleteDisk ==
  ASSUME Orderly, Typed, Ledger, Shape, Disk, Ledger', NEW h \in Handlers, FolderDelete(h)
  PROVE  Disk'
<1> DEFINE D == Tree(op[h].victim, FALSE)
<1>1. /\ op[h].kind = "folder" /\ Others(h) /\ Works(h)
      /\ UNCHANGED <<content, trash, removing, nextRow, nextKey>>
  BY FolderDeleteWorks DEF FolderDelete, At, disk, aside
<1>2. CASE \E i \in D : Referred(i)
  <2>1. Abort(h) /\ UNCHANGED <<rows, bins, disk, aside>>
    BY <1>2 DEF FolderDelete
  <2> QED
    BY <1>1, <2>1, AbortDisk
<1>3. CASE ~\E i \in D : Referred(i)
  <2>1. Store(Without(rows, D), bins) /\ op' = [op EXCEPT ![h].pc = "remove", ![h].touched = TRUE]
    BY <1>3 DEF FolderDelete
  <2>2. SameJob(h) /\ op'[h].pc = "remove"
    BY <2>1, JobMoved
  <2>3. JobDisk(h)' /\ op[h].risk = {} /\ op'[h].risk = {}
    BY <1>1, <2>2
    DEF SameJob, Disk, JobDisk, UploadDisk, EncryptDisk, BinDisk, RestoreDisk, GoneDisk, Before
  <2>4. D \subseteq Live
    BY LiveTree
  <2>5. rows' = Without(rows, D) /\ bins' = bins /\ astray \subseteq astray'
    BY <2>1 DEF Store
  <2> HIDE DEF D
  <2>6. \A i \in Ids : i \notin {} => rows'[i] = Without(rows, D)[i]
    BY <2>5
  <2>7. {} \cap Present = {} /\ Active(h) /\ op[h].risk \subseteq D
    BY <1>1, <2>3 DEF Active
  <2>8. \A i \in Present' : i \in {} =>
           i \in Live' /\ (rows'[i].file => i \in astray' \/ Has(content, rows'[i].path, FileOf(i)'))
    OBVIOUS
  <2> QED
    BY <1>1, <2>3, <2>4, <2>5, <2>6, <2>7, <2>8, ThinnedStep
<1> QED
  BY <1>2, <1>3

-----------------------------------------------------------------------------
(* Encrypting.                                                             *)

\* A path above another of its length is that path.
LEMMA AboveSame ==
  ASSUME NEW p \in Seq(Names), NEW q \in Seq(Names), Above(p, q), Len(p) = Len(q)
  PROVE  p = q
<1>1. Rest(p, q) \in Seq(Names) /\ q = p \o Rest(p, q)
  BY PathOps
<1>2. Len(q) = Len(p) + Len(Rest(p, q)) /\ Len(p) \in Nat /\ Len(Rest(p, q)) \in Nat
  BY <1>1, PathOps, LenProperties
<1>3. Rest(p, q) = <<>>
  BY <1>1, <1>2, EmptySeq
<1> QED
  BY <1>1, <1>3, ConcatEmptySeq

\* The encrypted file does not lie where the file is.
LEMMA EncryptedBeside ==
  ASSUME NEW p \in Paths, Encrypted(p) \in Paths, Encrypted(p) # p
  PROVE  ~Above(p, Encrypted(p))
BY EncryptedIs, AboveSame DEF Paths

\* Beginning to encrypt.
LEMMA EncryptBeginDisk ==
  ASSUME Orderly, Typed, Ledger, Shape, Disk, Typed', Ledger', NEW h \in Handlers, NEW i \in Ids, EncryptBegin(h, i)
  PROVE  Disk'
<1>1. PICK e : e = Encrypted(rows[i].path)
  OBVIOUS
<1>2. PICK r : r = [Idle EXCEPT !.kind = "encrypt", !.pc = "issue", !.fs = i, !.path = e,
                                !.old = rows[i].path, !.extra = rows[i].size + 1]
  OBVIOUS
<1>3. /\ r.kind = "encrypt" /\ r.pc = "issue" /\ r.fs = i /\ r.path = e /\ r.old = rows[i].path
      /\ r.unbin = {} /\ r.risk = {} /\ Idle.risk = {} /\ Idle.kind = "none"
  BY <1>2 DEF Idle
<1>4. op'[h] = r /\ Others(h) /\ Works(h)
  <2>1. op'[h] = r
    BY <1>1, <1>2, Only DEF EncryptBegin, Typed
  <2> QED
    BY <2>1, EncryptBeginWorks
<1>5. /\ MayStart(h, "encrypt") /\ op[h] = Idle /\ i \in Live /\ ~Folder(i) /\ astray' = astray
      /\ UNCHANGED <<rows, bins, content, trash, removing, nextKey>>
      /\ \A j \in Live : ~Folder(j) => rows[j].path # Encrypted(rows[i].path)
  <2>1. MayStart(h, "encrypt") /\ UNCHANGED <<rows, bins, disk, nextRow, nextKey, astray>>
    BY DEF EncryptBegin, aside
  <2>2. /\ i \in Live /\ ~Folder(i)
        /\ \A j \in Live : ~Folder(j) => rows[j].path # Encrypted(rows[i].path)
    BY DEF EncryptBegin
  <2>3. op[h] = Idle
    BY <2>1 DEF MayStart
  <2> QED
    BY <2>1, <2>2, <2>3 DEF disk
<1>6. removing = {} /\ removing' = {}
  BY <1>5 DEF MayStart, Orderly
<1>7. ~Above(r.old, r.path)
  <2>1. rows[i].path \in Paths
    BY <1>5, RowsAre DEF Typed, FullRow
  <2>2. e \in Paths
    <3>1. JobOK(op[h])'
      BY DEF Typed, JobsOK
    <3> QED
      BY <1>3, <1>4, <3>1 DEF JobOK
  <2> QED
    BY <1>1, <1>3, <1>5, <2>1, <2>2, EncryptedBeside
<1>8. EncryptDisk(r)'
  <2>1. Live' = Live
    BY <1>5 DEF Live, Present
  <2> QED
    BY <1>3, <1>5, <1>6, <1>7, <2>1 DEF EncryptDisk
<1>9. JobDisk(h)'
  BY <1>3, <1>4, <1>8 DEF JobDisk, UploadDisk, BinDisk, RestoreDisk, GoneDisk
<1> QED
  BY <1>3, <1>4, <1>5, <1>9, KeyIs, QuietStep DEF Active

\* Issuing the deletion of the old file.
LEMMA EncryptIssueDisk ==
  ASSUME Orderly, Typed, Ledger, Shape, Disk, Ledger', NEW h \in Handlers, EncryptIssue(h)
  PROVE  Disk'
<1>1. PICK i : i = op[h].fs
  OBVIOUS
<1>2. EncryptDisk(op[h]) /\ op[h].kind = "encrypt" /\ op[h].pc = "issue"
  BY DEF Disk, JobDisk, EncryptIssue, At
<1>3. i \in Live /\ rows[i].path = op[h].old /\ op[h].risk = {} /\ removing = {} /\ op[h].unbin = {}
      /\ ~Above(op[h].old, op[h].path)
  BY <1>1, <1>2 DEF EncryptDisk
<1>4. PICK x : x = [rows[i] EXCEPT !.enc = TRUE, !.size = op[h].extra, !.path = op[h].path]
  OBVIOUS
<1>5. PICK c, w : /\ c = IF i \in Live /\ ~rows[i].enc THEN "write" ELSE "throw"
                  /\ w = IF i \notin Live \/ rows[i].enc THEN Nothing ELSE [y \in {i} |-> x]
  OBVIOUS
<1>6. PICK r : r = [op[h] EXCEPT !.pc = c, !.risk = {i}, !.touched = TRUE, !.writes = w]
  OBVIOUS
<1>7. op' = [op EXCEPT ![h] = r]
  BY <1>1, <1>4, <1>5, <1>6 DEF EncryptIssue
<1>8. op'[h] = r /\ Others(h) /\ Works(h)
  BY <1>7, Only, EncryptIssueWorks DEF Typed
<1>9. /\ r.kind = "encrypt" /\ r.pc = c /\ r.fs = i /\ r.path = op[h].path /\ r.old = op[h].old
      /\ r.unbin = {} /\ r.risk = {i} /\ r.writes = w
  BY <1>1, <1>2, <1>3, <1>6, JobIs DEF Job
<1>10. x.enc = TRUE
  <2>1. rows[i] \in FullRow
    BY <1>3, RowsAre DEF Typed
  <2> QED
    BY <1>4, <2>1 DEF FullRow
<1>11. /\ UNCHANGED <<rows, bins, content, trash, nextKey>> /\ astray' = astray
       /\ removing' = {op[h].old}
  BY <1>3 DEF EncryptIssue, aside
<1>12. EncryptDisk(r)'
  <2>1. Live' = Live
    BY <1>11 DEF Live, Present
  <2>2. c = "write" => DOMAIN r.writes = {i} /\ r.writes[i].enc = TRUE
    BY <1>3, <1>5, <1>9, <1>10
  <2>3. c \in {"write", "throw"}
    BY <1>5
  <2>4. r.old = op[h].old /\ r.path = op[h].path /\ rows'[i].path = r.old /\ i \in Live'
    BY <1>3, <1>9, <1>11, <2>1
  <2> QED
    BY <1>3, <1>9, <1>11, <2>2, <2>3, <2>4 DEF EncryptDisk
<1>13. JobDisk(h)'
  BY <1>8, <1>9, <1>12 DEF JobDisk, UploadDisk, BinDisk, RestoreDisk, GoneDisk
<1> QED
  BY <1>2, <1>3, <1>8, <1>9, <1>11, <1>13, KeyIs, QuietStep DEF Active

\* Writing the encrypted file.
LEMMA EncryptWriteDisk ==
  ASSUME Orderly, Typed, Ledger, Shape, Disk, Ledger', NEW h \in Handlers, EncryptWrite(h)
  PROVE  Disk'
<1> DEFINE p == op[h].path
<1>1. /\ op[h].kind = "encrypt" /\ op[h].pc \in {"write", "throw"} /\ Others(h) /\ Works(h)
      /\ UNCHANGED <<rows, bins, trash, removing, nextRow, nextKey>>
  BY DiskWorks DEF EncryptWrite, At, aside
<1>2. CASE IsDir(Front(p)) /\ ~IsDir(p) /\ op[h].pc = "throw"
  <2>1. PICK f : f = [of |-> op[h].fs, enc |-> TRUE]
    OBVIOUS
  <2>2. content' = Put(p, f) /\ astray' = astray \cup Clash(h, p, {}) \cup op[h].risk /\ Done(h)
    BY <1>2, <2>1 DEF EncryptWrite
  <2>3. op'[h] = Idle /\ op'[h].kind = "none" /\ op'[h].risk = {}
    <3>1. op'[h] = Idle
      BY <2>2, DoneStep DEF Typed
    <3> QED
      BY <3>1 DEF Idle
  <2>4. p \in Seq(Names)
    BY JobIs
  <2>5. \A q \in DOMAIN content : ~Above(p, q) => q \in DOMAIN content' /\ content'[q] = content[q]
    BY <2>2, <2>4, PutLeaves
  <2>6. JobDisk(h)'
    BY <2>3 DEF JobDisk, UploadDisk, EncryptDisk, BinDisk, RestoreDisk, GoneDisk
  <2>7. SparesLive(h)
    <3>1. Clash(h, p, {}) \subseteq astray' /\ {} \cap Live \subseteq op'[h].risk
      BY <2>2
    <3> QED
      BY <2>5, <3>1, ClashSpares
  <2> QED
    BY <1>1, <2>2, <2>3, <2>6, <2>7, KeyIs, ContentStep DEF Active
<1>4. CASE IsDir(Front(p)) /\ ~IsDir(p) /\ op[h].pc = "write"
  <2>1. PICK f : f = [of |-> op[h].fs, enc |-> TRUE]
    OBVIOUS
  <2>2. content' = Put(p, f) /\ astray' = astray \cup Clash(h, p, {}) /\ Goto(h, "commit")
    BY <1>4, <2>1 DEF EncryptWrite
  <2>3. SameJob(h) /\ op'[h].pc = "commit"
    BY <2>2, JobMoved
  <2>4. p \in Seq(Names)
    BY JobIs
  <2>5. /\ \A q \in DOMAIN content : ~Above(p, q) => q \in DOMAIN content' /\ content'[q] = content[q]
        /\ Has(content', p, f)
    BY <2>2, <2>4, PutLeaves
  <2>6. EncryptDisk(op[h])
    BY DEF Disk, JobDisk
  <2>7. Live' = Live
    BY <1>1 DEF Live, Present
  <2>8. EncryptDisk(op[h])'
    <3>1. PICK j : j = op[h]
      OBVIOUS
    <3>2. PICK k : k = op'[h]
      OBVIOUS
    <3>3. /\ k.kind = "encrypt" /\ k.pc = "commit" /\ k.fs = j.fs /\ k.path = j.path /\ k.old = j.old
          /\ k.unbin = j.unbin /\ k.risk = j.risk /\ k.writes = j.writes
      BY <1>1, <2>3, <3>1, <3>2 DEF SameJob
    <3>4. /\ j.unbin = {} /\ j.fs \in Live' /\ rows'[j.fs].path = j.old /\ removing' \subseteq {j.old}
          /\ ~Above(j.old, j.path) /\ j.risk = {j.fs} /\ DOMAIN j.writes = {j.fs}
          /\ j.writes[j.fs].enc = TRUE
      BY <1>1, <1>4, <2>6, <2>7, <3>1 DEF EncryptDisk
    <3>5. Has(content', k.path, [of |-> k.fs, enc |-> TRUE])
      BY <2>1, <2>5, <3>1, <3>3
    <3>6. EncryptDisk(k)'
      BY <3>3, <3>4, <3>5 DEF EncryptDisk
    <3> QED
      BY <3>2, <3>6 DEF EncryptDisk
  <2>9. JobDisk(h)'
    BY <1>1, <2>3, <2>8 DEF JobDisk, UploadDisk, BinDisk, RestoreDisk, GoneDisk, SameJob
  <2>10. SparesLive(h)
    <3>1. Clash(h, p, {}) \subseteq astray' /\ {} \cap Live \subseteq op'[h].risk
      BY <2>2
    <3> QED
      BY <2>5, <3>1, ClashSpares
  <2> QED
    BY <1>1, <2>2, <2>3, <2>9, <2>10, KeyIs, ContentStep DEF Active, SameJob
<1>3. CASE ~(IsDir(Front(p)) /\ ~IsDir(p))
  <2>1. Abort(h) /\ UNCHANGED <<rows, bins, disk, aside>>
    BY <1>3 DEF EncryptWrite, disk
  <2> QED
    BY <1>1, <2>1, AbortDisk
<1> QED
  BY <1>1, <1>2, <1>3, <1>4

\* The old file goes: what else is wanted of it is noted.
LEMMA RemoveOldDisk ==
  ASSUME Orderly, Typed, Ledger, Shape, Disk, NEW p \in removing, RemoveOld(p)
  PROVE  Disk'
<1> DEFINE lost == {content[q] : q \in {x \in DOMAIN content : Above(p, x)}} \ {Dir}
           wanted(f) == ~(rows[f.of] # None /\ rows[f.of].enc # f.enc)
                        /\ \A h \in Open : ~(op[h].kind = "encrypt" /\ op[h].fs = f.of)
<1>1. /\ content' = Cut(p) /\ removing' = removing \ {p} /\ UNCHANGED <<rows, bins, trash, op, nextKey>>
      /\ astray' = astray \cup {f.of : f \in {g \in lost : wanted(g)}}
  BY DEF RemoveOld, aside
<1>2. Live' = Live /\ Binned' = Binned /\ AtRisk' = AtRisk /\ astray \subseteq astray'
  BY <1>1 DEF Live, Binned, Present, AtRisk
<1>3. \A g \in Handlers : op[g].kind \in {"none", "encrypt"} /\ JobDisk(g)
  BY DEF Disk, RemovedSoon
<1>4. ASSUME NEW i \in Live, i \notin astray', i \notin AtRisk, Has(content, rows[i].path, FileOf(i))
      PROVE  Has(content', rows[i].path, FileOf(i))
  <2> SUFFICES ASSUME Above(p, rows[i].path) PROVE FALSE
    BY <1>1, <1>4, CutLeaves DEF Has
  <2>1. PICK f : f = FileOf(i)
    OBVIOUS
  <2>2. i \in Ids /\ rows[i] # None /\ i # 0
    BY DEF Live, Present, Ids
  <2>3. f.of = i /\ f.enc = rows[i].enc /\ Dir.of = 0
    BY <2>1 DEF FileOf, Dir
  <2>4. f \in lost
    BY <1>4, <2>1, <2>2, <2>3 DEF Has
  <2>5. ASSUME NEW h \in Open, op[h].kind = "encrypt", op[h].fs = i PROVE FALSE
    <3>1. h \in Handlers /\ EncryptDisk(op[h])
      BY <1>3 DEF Open, JobDisk
    <3>2. op[h].pc # "issue" /\ op[h].risk = {i}
      BY <2>5, <3>1 DEF EncryptDisk
    <3> QED
      BY <1>4, <3>1, <3>2 DEF AtRisk
  <2>6. wanted(f)
    BY <2>3, <2>5
  <2> HIDE DEF lost, wanted
  <2>7. f.of \in astray'
    BY <1>1, <2>4, <2>6
  <2> QED
    BY <1>4, <2>3, <2>7
<1>5. LiveThere'
  <2> SUFFICES ASSUME NEW i \in Live, i \notin astray', i \notin AtRisk, rows[i].file
               PROVE  Has(content', rows[i].path, FileOf(i))
    BY <1>1, <1>2 DEF LiveThere, FileOf
  <2>1. Has(content, rows[i].path, FileOf(i))
    BY <1>2 DEF Disk, LiveThere
  <2> QED
    BY <1>4, <2>1
<1>6. BinThere'
  <2>1. Spares({})
    BY <1>1, <1>2 DEF Spares
  <2>2. \A i \in Binned' : i \notin astray' /\ i \notin AtRisk' =>
           i \in Binned /\ i \notin {} /\ i \notin AtRisk
    BY <1>2
  <2>3. BinThere
    BY DEF Disk
  <2> QED
    BY <1>2, <2>1, <2>2, <2>3, BinStill
<1>7. Keyed' /\ RemovedSoon'
  BY <1>1 DEF Disk, Keyed, RemovedSoon
<1>8. ASSUME NEW g \in Handlers PROVE JobDisk(g)'
  <2>1. op'[g] = op[g]
    BY <1>1
  <2>2. CASE op[g].kind = "none"
    BY <1>3, <2>1, <2>2 DEF JobDisk, UploadDisk, EncryptDisk, BinDisk, RestoreDisk, GoneDisk
  <2>3. CASE op[g].kind = "encrypt"
    <3>1. PICK j : j = op[g]
      OBVIOUS
    <3>2. EncryptDisk(j) /\ j.kind = "encrypt"
      BY <1>3, <2>3, <3>1 DEF JobDisk
    <3>3. p = j.old /\ j.pc # "issue"
      BY <3>2 DEF EncryptDisk
    <3>4. j.pc = "commit" /\ j.fs \notin astray' => Has(content', j.path, [of |-> j.fs, enc |-> TRUE])
      <4> SUFFICES ASSUME j.pc = "commit", j.fs \notin astray'
                   PROVE  Has(content', j.path, [of |-> j.fs, enc |-> TRUE])
        OBVIOUS
      <4>1. Has(content, j.path, [of |-> j.fs, enc |-> TRUE]) /\ ~Above(p, j.path)
        BY <1>2, <3>2, <3>3 DEF EncryptDisk
      <4> QED
        BY <1>1, <4>1, CutLeaves DEF Has
    <3>5. EncryptDisk(j)'
      BY <1>1, <1>2, <3>2, <3>3, <3>4 DEF EncryptDisk
    <3>6. EncryptDisk(op[g])'
      BY <2>1, <3>1, <3>5 DEF EncryptDisk
    <3> QED
      BY <2>1, <2>3, <3>6 DEF JobDisk, UploadDisk, BinDisk, RestoreDisk, GoneDisk
  <2> QED
    BY <1>3, <2>2, <2>3
<1> QED
  BY <1>5, <1>6, <1>7, <1>8 DEF Disk

-----------------------------------------------------------------------------
(* To the bin.                                                             *)

\* Beginning to move to the bin, with a key that no row has.
LEMMA BinBeginDisk ==
  ASSUME Orderly, Typed, Ledger, Shape, Disk, Ledger', NEW h \in Handlers, NEW i \in Ids, BinBegin(h, i)
  PROVE  Disk'
<1>1. PICK r : r = [Idle EXCEPT !.kind = "bin", !.pc = "flip", !.fs = i, !.path = rows[i].path,
                                !.keep = rows[i].file, !.key = nextKey]
  OBVIOUS
<1>2. /\ r.kind = "bin" /\ r.pc = "flip" /\ r.fs = i /\ r.path = rows[i].path /\ r.key = nextKey
      /\ r.risk = {} /\ Idle.risk = {} /\ Idle.kind = "none"
  BY <1>1 DEF Idle
<1>3. op'[h] = r /\ Others(h) /\ Works(h)
  <2>1. op' = [op EXCEPT ![h] = r]
    BY <1>1 DEF BinBegin
  <2>2. op'[h] = r
    BY <2>1, Only DEF Typed
  <2> QED
    BY <2>2, BinBeginWorks
<1>4. MayStart(h, "bin") /\ i \in Live /\ nextKey' = nextKey + 1 /\ astray' = astray
  BY DEF BinBegin
<1>5. op[h] = Idle
  BY <1>4 DEF MayStart
<1>6. UNCHANGED <<rows, bins, content, trash, removing>>
  BY DEF BinBegin, disk
<1>7. BinDisk(r)'
  <2>1. Live' = Live /\ Present' = Present /\ i \in Present
    BY <1>4, <1>6 DEF Live, Present
  <2>2. r.key < nextKey' /\ \A x \in Ids : bins'[x] # r.key
    <3>1. \A x \in Ids : bins[x] < nextKey /\ bins[x] \in Nat
      BY BoundsAssumption DEF Disk, Keyed, Typed, TablesOK
    <3> QED
      BY <1>2, <1>4, <1>6, <3>1, KeyIs
  <2> QED
    BY <1>2, <1>4, <1>6, <2>1, <2>2 DEF BinDisk
<1>8. JobDisk(h)'
  BY <1>2, <1>3, <1>7 DEF JobDisk, UploadDisk, EncryptDisk, RestoreDisk, GoneDisk
<1>9. nextKey <= nextKey' /\ nextKey' \in Nat
  BY <1>4, KeyIs
<1> QED
  BY <1>2, <1>3, <1>4, <1>5, <1>6, <1>8, <1>9, QuietStep DEF Active

\* Beginning to restore, or to delete for good, by the row of the bin.
LEMMA BinnedBeginDisk ==
  ASSUME Orderly, Typed, Ledger, Shape, Disk, Ledger', NEW h \in Handlers, NEW i \in Ids,
         ForgetBegin(h, i) \/ \E q \in 0 .. MaxRows : RestoreBegin(h, i, q)
  PROVE  Disk'
<1>1. PICK kind \in {"forget", "restore"} :
        /\ op'[h].kind = kind /\ op'[h].pc = "move" /\ op'[h].key = bins[op'[h].fs] /\ op'[h].risk = {}
        /\ MayStart(h, kind) /\ op'[h].keep = rows[op'[h].fs].file
  <2>1. CASE ForgetBegin(h, i)
    <3>1. PICK r : r = [Idle EXCEPT !.kind = "forget", !.pc = "move", !.fs = i, !.key = bins[i],
                                    !.keep = rows[i].file]
      OBVIOUS
    <3>2. op' = [op EXCEPT ![h] = r]
      BY <2>1, <3>1 DEF ForgetBegin
    <3>3. op'[h] = r
      BY <3>2, Only DEF Typed
    <3>4. r.kind = "forget" /\ r.pc = "move" /\ r.key = bins[r.fs] /\ r.risk = {} /\ r.keep = rows[r.fs].file
      BY <3>1 DEF Idle
    <3> QED
      BY <2>1, <3>3, <3>4 DEF ForgetBegin
  <2>2. ASSUME NEW q \in 0 .. MaxRows, RestoreBegin(h, i, q)
        PROVE  /\ op'[h].kind = "restore" /\ op'[h].pc = "move" /\ op'[h].key = bins[op'[h].fs]
               /\ op'[h].risk = {} /\ MayStart(h, "restore") /\ op'[h].keep = rows[op'[h].fs].file
    <3>1. PICK p : p = PathOf(q) \o <<Name(i)>>
      OBVIOUS
    <3>2. PICK root, depth : root = (IF q = 0 THEN 0 ELSE rows[q].root)
                             /\ depth = (IF q = 0 THEN 0 ELSE rows[q].depth + 1)
      OBVIOUS
    <3>3. PICK r : r = [Idle EXCEPT !.kind = "restore", !.pc = "move", !.fs = i, !.parent = q,
                          !.root = root, !.path = p, !.old = rows[i].path, !.key = bins[i],
                          !.keep = rows[i].file, !.depth = depth]
      OBVIOUS
    <3>4. op' = [op EXCEPT ![h] = r]
      BY <2>2, <3>1, <3>2, <3>3 DEF RestoreBegin
    <3>5. op'[h] = r
      BY <3>4, Only DEF Typed
    <3>6. r.kind = "restore" /\ r.pc = "move" /\ r.key = bins[r.fs] /\ r.risk = {} /\ r.keep = rows[r.fs].file
      BY <3>3 DEF Idle
    <3> QED
      BY <2>2, <3>5, <3>6 DEF RestoreBegin
  <2> QED
    BY <2>1, <2>2
<1>2. op[h] = Idle /\ Idle.risk = {} /\ Idle.kind = "none"
  BY <1>1 DEF MayStart, Idle
<1>3. UNCHANGED <<rows, bins, content, trash, removing, nextKey>> /\ astray' = astray
  BY DEF ForgetBegin, RestoreBegin, disk, aside
<1>4. Others(h) /\ Works(h)
  BY ForgetBeginWorks, RestoreBeginWorks
<1>5. JobDisk(h)'
  BY <1>1, <1>3 DEF JobDisk, UploadDisk, EncryptDisk, BinDisk, RestoreDisk, GoneDisk
<1> QED
  BY <1>1, <1>2, <1>3, <1>4, <1>5, KeyIs, QuietStep DEF Active

\* What is above a path is above the path without its last name, or is the path.
LEMMA AboveFront ==
  ASSUME NEW p \in Seq(Names), NEW q \in Seq(Names), NEW n \in Names,
         Above(p, Append(q, n)), p # Append(q, n)
  PROVE  Above(p, q)
<1>1. PICK x : x = Append(q, n)
  OBVIOUS
<1>2. x = q \o <<n>> /\ x \in Seq(Names) /\ Front(q \o <<n>>) = q
  BY <1>1, OneMore
<1>3. PICK r : r = Rest(p, x)
  OBVIOUS
<1>4. r \in Seq(Names) /\ x = p \o r
  BY <1>1, <1>2, <1>3, PathOps
<1>5. r # <<>>
  BY <1>1, <1>4, ConcatEmptySeq
<1>6. r \in Paths
  BY <1>4, <1>5, EmptySeq, LenProperties DEF Paths
<1>7. PICK s, m : s = Front(r) /\ m = Last(r)
  OBVIOUS
<1>8. s \in Seq(Names) /\ m \in Names /\ r = Append(s, m)
  BY <1>4, <1>6, <1>7, PathOps
<1>9. r = s \o <<m>> /\ <<m>> \in Seq(Names)
  BY <1>8, OneMore, PathOps, EmptySeq DEF Paths
<1>10. x = (p \o s) \o <<m>> /\ p \o s \in Seq(Names)
  BY <1>4, <1>8, <1>9, ConcatThree, PathOps
<1>11. Front((p \o s) \o <<m>>) = p \o s
  BY <1>8, <1>10, OneMore
<1>12. q = p \o s
  BY <1>2, <1>10, <1>11
<1> QED
  BY <1>8, <1>12, RestOf

\* The live rows under a row lie under its path, and no others do, but for what
\* is named in astray.
LEMMA LiveTreeIs ==
  ASSUME Typed, Shape, OddNoted, NEW f \in Live
  PROVE  LET T == Tree(f, FALSE)
         IN /\ f \in T /\ T \subseteq Live
            /\ \A j \in T \ {f} : rows[j].parent \in T
            /\ \A j \in T : Above(rows[f].path, rows[j].path)
            /\ \A i \in Live \ astray : Above(rows[f].path, rows[i].path) => i \in T
<1> DEFINE T == Tree(f, FALSE)
<1>1. /\ \A j \in Live : j \in Ids /\ j # 0 /\ j \in Present /\ rows[j].path \in Seq(Names)
      /\ f \in Present /\ rows[f].inBin = FALSE
  <2>1. \A j \in Live : j \in Ids /\ j # 0 /\ j \in Present /\ rows[j].path \in Paths
    BY RowsAre DEF Typed, FullRow, Ids
  <2>2. f \in Present /\ rows[f].inBin = FALSE
    BY RowsAre DEF Typed
  <2> QED
    BY <2>1, <2>2 DEF Paths
<1>2. /\ T \subseteq Live /\ f \in T
      /\ \A x \in Live : rows[x].parent \in T => x \in T
      /\ \A j \in T \ {f} : rows[j].parent \in T
  BY <1>1, LiveTree, TreeIs
<1>3. \A j \in T : Above(rows[f].path, rows[j].path)
  <2> DEFINE X == {j \in Present : Above(rows[f].path, rows[j].path)}
  <2>1. f \in X
    BY <1>1, MovedSelf
  <2>2. ASSUME NEW j \in Present, rows[j].parent \in X PROVE j \in X
    <3>1. rows[j].parent # 0 /\ rows[f].path \in Seq(Names)
      BY <1>1, <2>2 DEF Present, Ids
    <3>2. /\ rows[j].path = Append(rows[rows[j].parent].path, Name(j)) /\ Name(j) \in Names
          /\ rows[rows[j].parent].path \in Seq(Names)
      BY <3>1, OneDown
    <3>3. PICK p, q, n : p = rows[f].path /\ q = rows[rows[j].parent].path /\ n = Name(j)
      OBVIOUS
    <3>4. p \in Seq(Names) /\ q \in Seq(Names) /\ n \in Names /\ Above(p, q)
      BY <2>2, <3>1, <3>2, <3>3
    <3>5. Above(p, Append(q, n))
      BY <3>4, MovedMore
    <3> QED
      BY <3>2, <3>3, <3>5
  <2> HIDE DEF X
  <2>3. T \subseteq X
    BY <2>1, <2>2, TreeIs
  <2> QED
    BY <2>3 DEF X
<1>4. ASSUME NEW i \in Live \ astray, Above(rows[f].path, rows[i].path) PROVE i \in T
  <2> DEFINE X == {x \in Live \ T : /\ Above(rows[f].path, rows[x].path)
                                    /\ Above(rows[x].path, rows[i].path)}
  <2>1. ASSUME NEW x \in X PROVE rows[x].parent \in X
    <3>1. x \in Live /\ x \notin T /\ x # f
      BY <1>2
    <3>2. rows[x].path # rows[f].path
      <4> SUFFICES ASSUME rows[x].path = rows[f].path PROVE FALSE
        OBVIOUS
      <4>1. f \in Live \ {x}
        BY <3>1
      <4> QED
        BY <1>4, <3>1, <4>1, UnderOdd
    <3>3. rows[x].parent # 0
      <4> SUFFICES ASSUME rows[x].parent = 0 PROVE FALSE
        OBVIOUS
      <4>1. Len(rows[x].path) = 1 /\ rows[x].path \in Seq(Names)
        BY <1>1, <3>1 DEF Shape, Hangs
      <4>2. rows[f].path \in Paths
        BY <1>1, RowsAre DEF Typed, FullRow
      <4>3. rows[f].path \in Seq(Names) /\ Len(rows[f].path) \in Nat /\ Len(rows[f].path) > 0
        BY <4>2, LenProperties DEF Paths
      <4>4. Len(rows[f].path) <= Len(rows[x].path)
        BY DEF Above
      <4> QED
        BY <3>2, <4>1, <4>3, <4>4, AboveSame
    <3>4. PICK p : p = rows[x].parent
      OBVIOUS
    <3>5. /\ p \in Present /\ p \in Live /\ rows[x].path = Append(rows[p].path, Name(x))
          /\ rows[p].path \in Seq(Names) /\ Name(x) \in Names
      BY <1>1, <3>1, <3>3, <3>4, HangsUnder
    <3>6. p \notin T
      BY <1>2, <3>1, <3>4
    <3>7. Above(rows[f].path, rows[p].path)
      <4>1. PICK a, q, n : a = rows[f].path /\ q = rows[p].path /\ n = Name(x)
        OBVIOUS
      <4>2. a \in Seq(Names) /\ q \in Seq(Names) /\ n \in Names /\ rows[x].path = Append(q, n)
        BY <1>1, <3>5, <4>1
      <4>3. Above(a, Append(q, n)) /\ a # Append(q, n)
        BY <3>2, <4>1, <4>2
      <4>4. Above(a, q)
        BY <4>2, <4>3, AboveFront
      <4> QED
        BY <4>1, <4>4
    <3>8. Above(rows[p].path, rows[i].path)
      BY <1>1, <3>5, AboveLess
    <3> QED
      BY <3>4, <3>5, <3>6, <3>7, <3>8
  <2>2. X \in SUBSET Present
    BY <1>1
  <2>3. i \notin T => i \in X
    BY <1>1, <1>4, MovedSelf
  <2> HIDE DEF X
  <2> QED
    BY <2>1, <2>2, <2>3, NoDescent
<1> QED
  BY <1>2, <1>3, <1>4

\* A request that runs alone is the only one with rows at risk.
LEMMA RiskAlone ==
  ASSUME Shape, Disk, NEW h \in Handlers, Lone(op[h])
  PROVE  AtRisk = op[h].risk /\ \A g \in Handlers \ {h} : op[g] = Idle /\ op[g].risk = {}
<1>1. \A g \in Handlers \ {h} : op[g] = Idle
  BY DEF Shape, Alone, Disk, JobDisk
<1>2. Idle.risk = {}
  BY DEF Idle
<1> QED
  BY <1>1, <1>2 DEF AtRisk

\* The rows go to the bin; their files are still where they were, and nothing else
\* is under the path.
LEMMA BinFlipDisk ==
  ASSUME Orderly, Typed, Ledger, Shape, OddNoted, Disk, Ledger', NEW h \in Handlers, BinFlip(h)
  PROVE  Disk'
<1>1. PICK f : f = op[h].fs
  OBVIOUS
<1>2. PICK T : T = Tree(f, FALSE)
  OBVIOUS
<1>3. PICK j : j = op[h]
  OBVIOUS
<1>4. /\ j.kind = "bin" /\ j.pc = "flip" /\ BinDisk(j) /\ Others(h) /\ Works(h) /\ Lone(op[h])
      /\ op[h].kind # "none"
  BY <1>3, BinFlipWorks DEF BinFlip, At, Disk, JobDisk, Lone
<1>5. /\ f \in Live /\ f \in Present /\ j.path = rows[f].path /\ j.risk = {}
      /\ j.key < nextKey /\ \A i \in Ids : bins[i] # j.key
  BY <1>1, <1>3, <1>4 DEF BinDisk
<1>6. AtRisk = {}
  BY <1>3, <1>4, <1>5, RiskAlone
<1>7. PICK k : k = [j EXCEPT !.pc = "move", !.risk = T, !.touched = TRUE]
  OBVIOUS
<1>8. op'[h] = k
  <2>1. op' = [op EXCEPT ![h] = k]
    BY <1>1, <1>2, <1>3, <1>7 DEF BinFlip
  <2> QED
    BY <2>1, Only DEF Typed
<1>9. k.kind = "bin" /\ k.pc = "move" /\ k.fs = f /\ k.path = j.path /\ k.key = j.key /\ k.risk = T
  BY <1>1, <1>3, <1>4, <1>7, JobIs DEF Job
<1>10. /\ rows' = [i \in Ids |-> IF i \in T THEN [rows[i] EXCEPT !.inBin = TRUE] ELSE rows[i]]
       /\ bins' = bins /\ astray \subseteq astray'
       /\ UNCHANGED <<content, trash, removing, nextKey>>
  BY <1>1, <1>2 DEF BinFlip, Store, disk, aside
<1>11. /\ f \in T /\ T \subseteq Live
       /\ \A x \in T \ {f} : rows[x].parent \in T
       /\ \A x \in T : Above(rows[f].path, rows[x].path)
       /\ \A i \in Live \ astray : Above(rows[f].path, rows[i].path) => i \in T
  BY <1>2, <1>5, LiveTreeIs
<1>12. \A i \in Present : i \in Ids /\ rows[i] \in FullRow /\ rows[i] # None
  BY RowsAre DEF Typed, Present
<1>13. ASSUME NEW i \in Present
       PROVE  /\ rows'[i] # None /\ rows'[i].path = rows[i].path /\ rows'[i].enc = rows[i].enc
              /\ rows'[i].file = rows[i].file /\ rows'[i].parent = rows[i].parent
              /\ rows'[i].inBin = IF i \in T THEN TRUE ELSE rows[i].inBin
  <2>1. [rows[i] EXCEPT !.inBin = TRUE] \in FullRow
    BY <1>12 DEF FullRow
  <2>2. [rows[i] EXCEPT !.inBin = TRUE] # None
    BY <2>1, NoneIsNoRow
  <2>3. rows'[i] = IF i \in T THEN [rows[i] EXCEPT !.inBin = TRUE] ELSE rows[i]
    BY <1>10, <1>12
  <2> QED
    BY <1>12, <2>2, <2>3 DEF FullRow
<1>14. Present' = Present /\ Live' = Live \ T /\ Binned' = Binned \cup T
  <2>1. \A i \in Ids : i \notin Present => rows'[i] = None
    BY <1>10, <1>11 DEF Present, Live
  <2>2. Present' = Present
    BY <1>12, <1>13, <2>1 DEF Present
  <2>3. Live' = Live \ T
    BY <1>13, <2>2 DEF Live
  <2> QED
    BY <1>11, <2>2, <2>3 DEF Binned, Live
<1>15. AtRisk' = T
  <2>1. \A g \in Handlers \ {h} : op'[g] = op[g] /\ op[g].risk = {}
    BY <1>4, RiskAlone DEF Others
  <2> QED
    BY <1>8, <1>9, <2>1 DEF AtRisk
<1>16. LiveThere'
  <2> SUFFICES ASSUME NEW i \in Live, i \notin astray, rows'[i].file
               PROVE  Has(content', rows'[i].path, FileOf(i)')
    BY <1>10, <1>14 DEF LiveThere
  <2>1. i \in Present
    BY DEF Live
  <2>2. Has(content, rows[i].path, FileOf(i))
    BY <1>6, <1>13, <2>1 DEF Disk, LiveThere
  <2> QED
    BY <1>10, <1>13, <2>1, <2>2 DEF FileOf
<1>17. BinThere'
  <2>1. Spares({})
    <3>1. \A x \in Binned : x \in Present /\ x \notin T
      BY <1>11 DEF Binned
    <3> QED
      BY <1>10, <1>13, <1>14, <1>15, <3>1 DEF Spares
  <2>2. \A i \in Binned' : i \notin astray' /\ i \notin AtRisk' =>
           i \in Binned /\ i \notin {} /\ i \notin AtRisk
    BY <1>6, <1>14, <1>15
  <2>3. BinThere
    BY DEF Disk
  <2> QED
    BY <1>10, <2>1, <2>2, <2>3, BinStill
<1>18. Keyed' /\ SparesLive(h)
  BY <1>10 DEF Disk, Keyed, SparesLive
<1>19. ASSUME NEW i \in T, i \notin astray PROVE \E S \in SUBSET Ids : Chain(f, i, S)'
  <2> DEFINE S == {x \in T : Above(rows[x].path, rows[i].path)}
  <2>1. \A x \in T : x \in Present /\ x \in Live /\ x \in Ids /\ x # 0 /\ rows[x].path \in Seq(Names)
    BY <1>11, <1>12 DEF Live, FullRow, Paths, Ids
  <2>2. i \in S
    BY <2>1, MovedSelf
  <2>3. f \in S
    BY <1>11
  <2>4. ASSUME NEW x \in S \ {f} PROVE bins'[x] = 0 /\ rows'[x].parent \in S
    <3>1. bins[x] = 0
      BY <1>19, <2>1, UnderOdd
    <3>2. rows[x].parent \in T /\ rows[x].parent # 0
      BY <1>11, <2>1
    <3>3. /\ rows[x].path = Append(rows[rows[x].parent].path, Name(x)) /\ Name(x) \in Names
          /\ rows[rows[x].parent].path \in Seq(Names)
      BY <2>1, <3>2, OneDown
    <3>4. Above(rows[rows[x].parent].path, rows[i].path)
      BY <2>1, <3>3, AboveLess
    <3> QED
      BY <1>10, <1>13, <2>1, <3>1, <3>2, <3>4
  <2>5. S \subseteq Binned' /\ S \in SUBSET Ids
    BY <1>14, <2>1
  <2> HIDE DEF S
  <2> QED
    BY <2>2, <2>3, <2>4, <2>5 DEF Chain
<1>20. ASSUME NEW i \in T, i \notin astray, rows'[i].file
       PROVE  Has(content', rows'[i].path, FileOf(i)')
  <2>1. i \in Live /\ i \in Present
    BY <1>11 DEF Live
  <2>2. Has(content, rows[i].path, FileOf(i))
    BY <1>6, <1>13, <1>20, <2>1 DEF Disk, LiveThere
  <2> QED
    BY <1>10, <1>13, <2>1, <2>2 DEF FileOf
<1>21. \A i \in Live' \ astray' : ~Above(k.path, rows'[i].path)
  <2> SUFFICES ASSUME NEW i \in Live, i \notin T, i \notin astray PROVE ~Above(k.path, rows'[i].path)
    BY <1>10, <1>14
  <2>1. i \in Present
    BY DEF Live
  <2> QED
    BY <1>5, <1>9, <1>11, <1>13, <2>1
<1>22. BinDisk(k)'
  <2>1. k.fs \in Present' /\ k.path = rows'[k.fs].path
    BY <1>5, <1>9, <1>13, <1>14
  <2>2. k.key < nextKey' /\ \A i \in Ids : bins'[i] # k.key
    BY <1>5, <1>9, <1>10
  <2>3. k.fs \in k.risk /\ k.risk \subseteq Binned'
    BY <1>9, <1>11, <1>14
  <2>4. \A i \in k.risk \ astray' : \E S \in SUBSET Ids : Chain(k.fs, i, S)'
    BY <1>9, <1>10, <1>19
  <2>5. \A i \in k.risk \ astray' : rows'[i].file => Has(content', rows'[i].path, FileOf(i)')
    BY <1>9, <1>10, <1>20
  <2> QED
    BY <1>9, <1>21, <2>1, <2>2, <2>3, <2>4, <2>5 DEF BinDisk
<1>23. JobDisk(h)'
  BY <1>8, <1>9, <1>22 DEF JobDisk, UploadDisk, EncryptDisk, RestoreDisk, GoneDisk
<1> QED
  BY <1>4, <1>10, <1>16, <1>17, <1>18, <1>23, DiskStep DEF Active

\* What is taken from a path, by what it is called below it.
LEMMA TakenHas ==
  ASSUME NEW p \in Seq(Names), NEW x \in Seq(Names), NEW f, Above(p, x), Has(content, x, f)
  PROVE  Has(Taken(p), Rest(p, x), f)
<1>1. PICK r : r = Rest(p, x)
  OBVIOUS
<1>2. x = p \o r /\ x \in DOMAIN content /\ content[x] = f
  BY <1>1, PathOps DEF Has
<1>3. r \in {Rest(p, y) : y \in {z \in DOMAIN content : Above(p, z)}}
  BY <1>1, <1>2
<1>4. r \in DOMAIN Taken(p) /\ Taken(p)[r] = content[p \o r]
  BY <1>3 DEF Taken
<1> QED
  BY <1>1, <1>2, <1>4 DEF Has

\* The files go to the directory of the key.
LEMMA BinMoveDisk ==
  ASSUME Orderly, Typed, Ledger, Shape, Disk, Ledger', NEW h \in Handlers, BinMove(h)
  PROVE  Disk'
<1>1. PICK j : j = op[h]
  OBVIOUS
<1>2. PICK p : p = j.path
  OBVIOUS
<1>3. /\ j.kind = "bin" /\ j.pc = "move" /\ BinDisk(j) /\ Others(h) /\ Works(h) /\ Lone(op[h])
      /\ op[h].kind # "none" /\ j.key \in Keys /\ p \in Seq(Names)
  BY <1>1, <1>2, DiskWorks, JobIs DEF BinMove, At, Disk, JobDisk, Lone, JobOK
<1>4. /\ j.fs \in j.risk /\ j.risk \subseteq Binned /\ j.fs \in Present /\ p = rows[j.fs].path
      /\ j.key < nextKey /\ \A i \in Ids : bins[i] # j.key
      /\ \A i \in j.risk \ astray : \E S \in SUBSET Ids : Chain(j.fs, i, S)
      /\ \A i \in j.risk \ astray : rows[i].file => Has(content, rows[i].path, FileOf(i))
      /\ \A i \in Live \ astray : ~Above(p, rows[i].path)
  BY <1>2, <1>3 DEF BinDisk
<1>5. CASE Exists(p) /\ (j.keep \/ IsDir(p))
  <2>1. /\ content' = Cut(p) /\ trash' = [trash EXCEPT ![j.key] = Taken(p)] /\ Goto(h, "insert")
        /\ astray' = astray /\ UNCHANGED <<rows, bins, removing, nextKey>>
    BY <1>1, <1>2, <1>5 DEF BinMove, aside
  <2>2. SameJob(h) /\ op'[h].pc = "insert"
    BY <2>1, JobMoved
  <2>3. PICK k : k = op'[h]
    OBVIOUS
  <2>4. /\ k.kind = "bin" /\ k.pc = "insert" /\ k.fs = j.fs /\ k.path = p /\ k.key = j.key
        /\ k.risk = j.risk
    BY <1>1, <1>2, <1>3, <2>2, <2>3 DEF SameJob
  <2>5. Live' = Live /\ Binned' = Binned /\ Present' = Present
    BY <2>1 DEF Live, Binned, Present
  <2>6. AtRisk' = AtRisk
    <3>1. \A g \in Handlers : op'[g].risk = op[g].risk
      BY <1>1, <1>3, <2>3, <2>4 DEF Others
    <3> QED
      BY <3>1 DEF AtRisk
  <2>7. trash'[j.key] = Taken(p) /\ \A x \in Keys : x # j.key => trash'[x] = trash[x]
    BY <1>3, <2>1 DEF Typed, DiskOK
  <2>8. ASSUME NEW i \in Live, i \notin astray, Has(content, rows[i].path, FileOf(i))
        PROVE  Has(content', rows[i].path, FileOf(i))
    BY <1>4, <2>1, <2>8, CutLeaves DEF Has
  <2>9. LiveThere'
    <3> SUFFICES ASSUME NEW i \in Live, i \notin astray, i \notin AtRisk, rows[i].file
                 PROVE  Has(content', rows[i].path, FileOf(i))
      BY <2>1, <2>5, <2>6 DEF LiveThere, FileOf
    <3>1. Has(content, rows[i].path, FileOf(i))
      BY DEF Disk, LiveThere
    <3> QED
      BY <2>8, <3>1
  <2>10. BinThere'
    <3>1. \A i \in Binned : bins[i] # 0 => bins[i] \in Keys /\ bins[i] # j.key
      BY <1>4, BinnedIs DEF Typed, TablesOK, Keys
    <3>2. Spares({})
      BY <2>1, <2>5, <2>6, <2>7, <3>1 DEF Spares
    <3>3. \A i \in Binned' : i \notin astray' /\ i \notin AtRisk' =>
             i \in Binned /\ i \notin {} /\ i \notin AtRisk
      BY <2>5, <2>6
    <3>4. BinThere
      BY DEF Disk
    <3> QED
      BY <2>1, <3>2, <3>3, <3>4, BinStill
  <2>11. SparesLive(h)
    <3>1. \A g \in Handlers \ {h} : op[g].kind = "none"
      BY <1>3 DEF Shape, Alone
    <3> QED
      BY <2>1, <2>8, <3>1 DEF SparesLive
  <2>12. ASSUME NEW i \in j.risk, i \notin astray, rows[i].file
         PROVE  Has(trash'[j.key], Rest(p, rows[i].path), FileOf(i))
    <3>1. PICK S \in SUBSET Ids : Chain(j.fs, i, S)
      BY <1>4, <2>12
    <3>2. Above(p, rows[i].path)
      BY <1>4, <3>1, ChainAbove
    <3>3. rows[i].path \in Seq(Names)
      BY <1>4, BinnedIs
    <3>4. Has(content, rows[i].path, FileOf(i))
      BY <1>4, <2>12
    <3> QED
      BY <1>3, <2>7, <3>2, <3>3, <3>4, TakenHas
  <2>13. BinDisk(k)'
    <3>1. k.fs \in Present' /\ k.path = rows'[k.fs].path
      BY <1>4, <2>1, <2>4, <2>5
    <3>2. k.key < nextKey' /\ \A i \in Ids : bins'[i] # k.key
      BY <1>4, <2>1, <2>4
    <3>3. k.fs \in k.risk /\ k.risk \subseteq Binned'
      BY <1>4, <2>4, <2>5
    <3>4. \A i \in k.risk \ astray' : \E S \in SUBSET Ids : Chain(k.fs, i, S)'
      <4> SUFFICES ASSUME NEW i \in j.risk \ astray PROVE \E S \in SUBSET Ids : Chain(j.fs, i, S)'
        BY <2>1, <2>4
      <4>1. PICK S \in SUBSET Ids : Chain(j.fs, i, S)
        BY <1>4
      <4>2. Chain(j.fs, i, S)'
        BY <2>1, <2>5, <4>1 DEF Chain
      <4> QED
        BY <4>2
    <3>5. \A i \in k.risk \ astray' :
             rows'[i].file => Has(trash'[k.key], Rest(k.path, rows'[i].path), FileOf(i)')
      BY <2>1, <2>4, <2>12 DEF FileOf
    <3> QED
      BY <2>4, <3>1, <3>2, <3>3, <3>4, <3>5 DEF BinDisk, Rest
  <2>14. JobDisk(h)'
    BY <2>3, <2>4, <2>13 DEF JobDisk, UploadDisk, EncryptDisk, RestoreDisk, GoneDisk
  <2>15. Keyed'
    BY <2>1 DEF Disk, Keyed
  <2> QED
    BY <1>3, <2>1, <2>9, <2>10, <2>11, <2>14, <2>15, DiskStep DEF Active
<1>6. CASE ~(Exists(p) /\ (j.keep \/ IsDir(p)))
  <2>1. Abort(h) /\ UNCHANGED <<rows, bins, disk, aside>>
    BY <1>1, <1>2, <1>6 DEF BinMove, disk
  <2> QED
    BY <1>3, <2>1, AbortDisk
<1> QED
  BY <1>5, <1>6

\* The row of the bin is inserted, and leads to them.
LEMMA BinInsertDisk ==
  ASSUME Orderly, Typed, Ledger, Shape, Disk, Ledger', NEW h \in Handlers, BinInsert(h)
  PROVE  Disk'
<1>1. PICK j : j = op[h]
  OBVIOUS
<1>2. PICK f : f = j.fs
  OBVIOUS
<1>3. /\ j.kind = "bin" /\ j.pc = "insert" /\ BinDisk(j) /\ Others(h) /\ Works(h) /\ Lone(op[h])
      /\ op[h].kind # "none" /\ j.key \in Keys
  BY <1>1, BinInsertWorks, JobIs DEF BinInsert, At, Disk, JobDisk, Lone, JobOK
<1>4. /\ f \in j.risk /\ j.risk \subseteq Binned /\ f \in Ids /\ j.path = rows[f].path
      /\ j.key < nextKey /\ \A i \in Ids : bins[i] # j.key
      /\ \A i \in j.risk \ astray : \E S \in SUBSET Ids : Chain(f, i, S)
      /\ \A i \in j.risk \ astray : rows[i].file => Has(trash[j.key], Rest(rows[f].path, rows[i].path), FileOf(i))
  BY <1>2, <1>3 DEF BinDisk, Present
<1>5. AtRisk = j.risk
  BY <1>1, <1>3, RiskAlone
<1>6. CASE f \in Present /\ bins[f] = 0
  <2>1. /\ rows' = rows /\ bins' = [bins EXCEPT ![f] = j.key] /\ astray \subseteq astray'
        /\ UNCHANGED <<content, trash, removing, nextKey>> /\ Done(h)
    BY <1>1, <1>2, <1>6 DEF BinInsert, Store, disk, aside
  <2>2. op'[h] = Idle /\ op'[h].kind = "none" /\ op'[h].risk = {}
    <3>1. op'[h] = Idle
      BY <2>1, DoneStep DEF Typed
    <3> QED
      BY <3>1 DEF Idle
  <2>3. Live' = Live /\ Binned' = Binned /\ AtRisk' = {}
    <3>1. \A g \in Handlers \ {h} : op'[g] = op[g] /\ op[g].risk = {}
      BY <1>3, RiskAlone DEF Others
    <3> QED
      BY <2>1, <2>2, <3>1 DEF Live, Binned, Present, AtRisk
  <2>4. bins'[f] = j.key /\ j.key # 0 /\ \A x \in Ids : x # f => bins'[x] = bins[x]
    BY <1>3, <1>4, <2>1 DEF Typed, TablesOK, Keys
  <2>5. LiveThere'
    <3>1. \A i \in Live : i \notin AtRisk
      BY <1>4, <1>5 DEF Binned
    <3> QED
      BY <2>1, <2>3, <3>1 DEF Disk, LiveThere, FileOf
  <2>6. BinThere'
    <3>1. Spares(j.risk)
      <4>1. \A i \in Binned : i \in Ids
        BY BinnedIs
      <4> QED
        BY <1>4, <2>1, <2>3, <2>4, <4>1 DEF Spares
    <3>2. ASSUME NEW i \in j.risk, i \notin astray, rows[i].file PROVE Shelved(i)'
      <4>1. PICK S \in SUBSET Ids : Chain(f, i, S)
        BY <1>4, <3>2
      <4>2. Chain(f, i, S)'
        <5>1. \A x \in S : x \in Ids
          OBVIOUS
        <5> QED
          BY <2>1, <2>3, <2>4, <4>1, <5>1 DEF Chain
      <4>3. Held(f, i, S)'
        BY <2>3, <2>4, <4>2 DEF Held
      <4>4. Has(trash'[bins'[f]], Rest(rows'[f].path, rows'[i].path), FileOf(i)')
        BY <1>4, <2>1, <2>4, <3>2 DEF FileOf
      <4> QED
        BY <1>4, <4>3, <4>4 DEF Shelved, Rest
    <3>3. \A i \in Binned' : i \notin astray' /\ i \notin AtRisk' =>
             (i \in Binned /\ i \notin j.risk /\ i \notin AtRisk) \/ (rows'[i].file => Shelved(i)')
      BY <1>5, <2>1, <2>3, <3>2
    <3>4. BinThere
      BY DEF Disk
    <3> QED
      BY <1>5, <2>1, <3>1, <3>3, <3>4, BinStill
  <2>7. Keyed'
    <3>1. \A i \in Ids : bins[i] < nextKey /\ bins[i] # j.key
      BY <1>4 DEF Disk, Keyed
    <3>2. \A i, x \in Ids : bins[i] # 0 /\ bins[i] = bins[x] => i = x
      BY DEF Disk, Keyed
    <3>3. \A i \in Ids : bins'[i] < nextKey'
      BY <1>4, <2>1, <2>4, <3>1
    <3>4. \A i, x \in Ids : bins'[i] # 0 /\ bins'[i] = bins'[x] => i = x
      BY <2>4, <3>1, <3>2
    <3> QED
      BY <3>3, <3>4 DEF Keyed
  <2>8. SparesLive(h)
    BY <2>1 DEF SparesLive
  <2>9. JobDisk(h)'
    BY <2>2 DEF JobDisk, UploadDisk, EncryptDisk, BinDisk, RestoreDisk, GoneDisk
  <2> QED
    BY <1>3, <2>1, <2>5, <2>6, <2>7, <2>8, <2>9, DiskStep DEF Active
<1>7. CASE ~(f \in Present /\ bins[f] = 0)
  <2>1. Abort(h) /\ UNCHANGED <<rows, bins, disk, aside>>
    BY <1>1, <1>2, <1>7 DEF BinInsert
  <2> QED
    BY <1>3, <2>1, AbortDisk
<1> QED
  BY <1>6, <1>7

-----------------------------------------------------------------------------
(* From the bin, back or away.                                             *)

\* What is laid at a path is there, and all that is not under the path stays.
LEMMA LaidIs ==
  ASSUME NEW p \in Seq(Names), NEW tree, Lies(tree)
  PROVE  /\ \A q \in DOMAIN content : ~Above(p, q) =>
               q \in DOMAIN Laid(p, tree) /\ Laid(p, tree)[q] = content[q]
         /\ \A x, f : Has(tree, x, f) => Has(Laid(p, tree), p \o x, f)
<1> DEFINE new == {p \o x : x \in DOMAIN tree}
<1>1. \A x \in DOMAIN tree : Rest(p, p \o x) = x /\ Above(p, p \o x)
  BY RestOf DEF Lies
<1>2. Laid(p, tree) = [q \in DOMAIN content \cup new |-> IF q \in new THEN tree[Rest(p, q)] ELSE content[q]]
  BY DEF Laid
<1>3. \A q : q \in new => Above(p, q)
  BY <1>1
<1>4. \A x \in DOMAIN tree : p \o x \in new
  OBVIOUS
<1> HIDE DEF new
<1> QED
  BY <1>1, <1>2, <1>3, <1>4 DEF Has

\* Paths that lie under one another still do when they move together.
LEMMA MovedAbove ==
  ASSUME NEW p \in Seq(Names), NEW q \in Seq(Names), NEW x \in Seq(Names), NEW y \in Seq(Names),
         Above(p, x), Above(x, y)
  PROVE  Above(q \o Rest(p, x), q \o Rest(p, y))
<1>1. PICK r : r = Rest(p, x)
  OBVIOUS
<1>2. PICK s : s = Rest(x, y)
  OBVIOUS
<1>3. r \in Seq(Names) /\ x = p \o r /\ s \in Seq(Names) /\ y = x \o s
  BY <1>1, <1>2, PathOps
<1>4. y = p \o (r \o s) /\ r \o s \in Seq(Names)
  <2>1. (p \o r) \o s = p \o (r \o s) /\ r \o s \in Seq(Names)
    BY <1>3, ConcatThree, PathOps
  <2> QED
    BY <1>3, <2>1
<1>5. Rest(p, y) = r \o s
  BY <1>4, RestOf
<1>6. q \o (r \o s) = (q \o r) \o s /\ q \o r \in Seq(Names)
  <2>1. r \in Seq(Names) /\ s \in Seq(Names)
    BY <1>3
  <2>2. (q \o r) \o s = q \o (r \o s)
    BY <2>1, ConcatThree
  <2> QED
    BY <1>3, <2>2, PathOps
<1>7. Above(q \o r, (q \o r) \o s)
  BY <1>3, <1>6, RestOf
<1> QED
  BY <1>1, <1>5, <1>6, <1>7

\* What is restored or deleted with a row: a file alone, a folder with its tree.
Going(f) == IF rows[f].file THEN {f} ELSE Tree(f, TRUE)

LEMMA GoingIs ==
  ASSUME Typed, Shape, NEW f \in Present \ Live, NEW T, T = Going(f)
  PROVE  /\ f \in T /\ T \subseteq Binned /\ T \in SUBSET Present
         /\ \A x \in Binned : rows[x].parent \in T => x \in T
         /\ \A x \in T : x # f => rows[x].parent \in T
<1>1. CASE rows[f].file
  <2>1. T = {f} /\ f \in Binned
    BY <1>1 DEF Binned, Going
  <2>2. ASSUME NEW x \in Binned, rows[x].parent = f PROVE FALSE
    <3>1. x \in Present /\ rows[x].parent # 0
      BY <2>2, BinnedIs DEF Present, Ids
    <3> QED
      BY <1>1, <2>2, <3>1, HangsUnder
  <2> QED
    BY <2>1, <2>2
<1>2. CASE ~rows[f].file
  BY <1>2, BinTree DEF Binned, Going
<1> QED
  BY <1>1, <1>2

\* The bin, when the directory of f is emptied and what goes with f is at risk.
LEMMA EmptiedBin ==
  ASSUME Typed, Shape, Disk, NEW f \in Present \ Live, NEW T, T = Going(f),
         UNCHANGED <<rows, bins>>, astray \subseteq astray', AtRisk = {}, AtRisk' = T, bins[f] # 0,
         \A k \in Keys : k # bins[f] => trash'[k] = trash[k]
  PROVE  BinThere'
<1>1. /\ f \in T /\ T \subseteq Binned /\ T \in SUBSET Present
      /\ \A x \in Binned : rows[x].parent \in T => x \in T
  BY GoingIs
<1>2. Binned' = Binned
  BY DEF Binned, Live, Present
<1>3. ASSUME NEW x \in Binned \ T, bins[x] # 0 PROVE trash'[bins[x]] = trash[bins[x]]
  <2>1. x \in Ids /\ f \in Ids /\ x # f
    BY <1>1, BinnedIs DEF Present
  <2>2. bins[x] # bins[f] /\ bins[x] \in Keys
    BY <1>3, <2>1 DEF Disk, Keyed, Typed, TablesOK, Keys
  <2> QED
    BY <2>2
<1>4. Spares(T)
  BY <1>2, <1>3 DEF Spares
<1>5. \A i \in Binned' : i \notin astray' /\ i \notin AtRisk' => i \in Binned /\ i \notin T /\ i \notin AtRisk
  BY <1>2
<1>6. BinThere
  BY DEF Disk
<1> QED
  BY <1>1, <1>4, <1>5, <1>6, BinStill

\* The files are laid where the rows will be.
LEMMA RestoreMoveDisk ==
  ASSUME Orderly, Typed, Ledger, Shape, Disk, Ledger', Shape', NEW h \in Handlers, RestoreMove(h)
  PROVE  Disk'
<1>1. PICK j : j = op[h]
  OBVIOUS
<1>2. PICK f, p, tree : f = j.fs /\ p = j.path /\ tree = trash[j.key]
  OBVIOUS
<1>3. PICK T : T = IF j.keep THEN {f} ELSE Tree(f, TRUE)
  OBVIOUS
<1>4. /\ j.kind = "restore" /\ j.pc = "move" /\ RestoreDisk(j) /\ Others(h) /\ Works(h) /\ Lone(op[h])
      /\ op[h].kind # "none" /\ j.key \in Keys /\ p \in Seq(Names)
  BY <1>1, <1>2, RestoreMoveWorks, JobIs DEF RestoreMove, At, Disk, JobDisk, Lone, JobOK
<1>5. j.key = bins[f] /\ j.risk = {} /\ bins[f] # 0 /\ AtRisk = {}
  <2>1. j.key = bins[f] /\ j.risk = {} /\ j.key # 0
    BY <1>2, <1>4 DEF RestoreDisk, Keys
  <2> QED
    BY <1>1, <1>4, <2>1, RiskAlone
<1>6. f \in Present \ Live /\ j.old = rows[f].path /\ T = Going(f)
  BY <1>1, <1>2, <1>3, <1>4 DEF Shape, RestoreOK, Going
<1>7. CASE /\ f \in Present \ Live /\ bins[f] = j.key /\ j.parent \in Present \cup {0}
           /\ tree # Nothing /\ IsDir(Front(p)) /\ Fits(p, tree)
  <2>1. /\ content' = Laid(p, tree) /\ trash' = [trash EXCEPT ![j.key] = Nothing]
        /\ astray' = astray \cup Clash(h, p, {}) /\ UNCHANGED <<rows, bins, removing, nextKey>>
    BY <1>1, <1>2, <1>7 DEF RestoreMove, aside
  <2>2. PICK new \in Moves(h, T \ {f}) :
          op' = [op EXCEPT ![h].pc = "commit", ![h].writes = Restored(h, T, new), ![h].unbin = {f},
                           ![h].risk = T, ![h].touched = TRUE]
    BY <1>1, <1>2, <1>3, <1>7 DEF RestoreMove
  <2>20. PICK w : w = Restored(h, T, new)
    OBVIOUS
  <2>3. PICK k : k = [j EXCEPT !.pc = "commit", !.writes = w, !.unbin = {f}, !.risk = T, !.touched = TRUE]
    OBVIOUS
  <2>4. op'[h] = k
    <3>1. op' = [op EXCEPT ![h] = k]
      BY <1>1, <2>2, <2>20, <2>3
    <3> QED
      BY <3>1, Only DEF Typed
  <2>5. /\ k.kind = "restore" /\ k.pc = "commit" /\ k.fs = f /\ k.path = p /\ k.key = j.key
        /\ k.risk = T /\ k.writes = w /\ k.unbin = {f} /\ k.old = j.old
    BY <1>1, <1>2, <1>4, <2>3, JobIs DEF Job
  <2>6. /\ f \in T /\ T \subseteq Binned /\ T \in SUBSET Present
        /\ \A x \in Binned : rows[x].parent \in T => x \in T
        /\ \A x \in T : x # f => rows[x].parent \in T
    BY <1>6, GoingIs
  <2>7. /\ DOMAIN w = T
        /\ \A x \in T : w[x].enc = rows[x].enc /\ w[x].file = rows[x].file
    <3>1. op[h].kind = "restore" /\ op[h].fs \in Present /\ op[h].fs = f
      BY <1>1, <1>2, <1>4, <1>6
    <3> QED
      BY <2>2, <2>20, <2>6, <3>1, RestoredAre
  <2>8. \A x \in T : Above(j.old, rows[x].path) /\ w[x].path = p \o Rest(j.old, rows[x].path)
    <3>1. RestoreOK(h)'
      BY DEF Shape
    <3>2. \A x \in DOMAIN k.writes : Above(k.old, rows'[x].path) /\ k.writes[x].path = k.path \o Rest(k.old, rows'[x].path)
      BY <2>4, <2>5, <3>1 DEF RestoreOK, Above, Rest
    <3> QED
      BY <2>1, <2>5, <2>7, <3>2
  <2>9. Lies(tree) /\ j.key \in DOMAIN trash
    BY <1>2, <1>4 DEF Typed, DiskOK
  <2>10. /\ \A q \in DOMAIN content : ~Above(p, q) => q \in DOMAIN content' /\ content'[q] = content[q]
         /\ \A x, e : Has(tree, x, e) => Has(content', p \o x, e)
    BY <1>4, <2>1, <2>9, LaidIs
  <2>11. \A x \in Keys : x # bins[f] => trash'[x] = trash[x]
    BY <1>5, <2>1 DEF Typed, DiskOK
  <2>12. AtRisk' = T
    <3>1. \A g \in Handlers \ {h} : op'[g] = op[g] /\ op[g].risk = {}
      BY <1>4, RiskAlone DEF Others
    <3> QED
      BY <2>4, <2>5, <3>1 DEF AtRisk
  <2>13. SparesLive(h)
    <3>1. Clash(h, p, {}) \subseteq astray' /\ {} \cap Live \subseteq op'[h].risk
      BY <2>1
    <3> QED
      BY <2>10, <3>1, ClashSpares
  <2>14. LiveThere'
    <3> SUFFICES ASSUME NEW i \in Live, i \notin astray', rows[i].file
                 PROVE  Has(content', rows[i].path, FileOf(i))
      BY <2>1 DEF LiveThere, FileOf, Live, Present
    <3>1. Has(content, rows[i].path, FileOf(i))
      BY <1>5, <2>1 DEF Disk, LiveThere
    <3>2. i \notin op'[h].risk
      BY <2>4, <2>5, <2>6 DEF Binned
    <3> QED
      BY <2>13, <3>1, <3>2 DEF SparesLive
  <2>15. BinThere'
    BY <1>5, <1>6, <2>1, <2>11, <2>12, EmptiedBin
  <2>16. ASSUME NEW x \in T, x \notin astray', rows[x].file
         PROVE  \/ Has(content', w[x].path, FileOf(x))
                \/ \E b \in T \ {f} : bins[b] # 0 /\ Above(w[b].path, w[x].path)
    <3>1. x \in Binned /\ x \notin astray /\ x \notin AtRisk
      BY <1>5, <2>1, <2>6, <2>16
    <3>2. PICK b \in Ids, S \in SUBSET Ids :
            Held(b, x, S) /\ Has(trash[bins[b]], Rest(rows[b].path, rows[x].path), FileOf(x))
      BY <2>16, <3>1 DEF Disk, BinThere, Shelved
    <3>3. bins[b] # 0 /\ Chain(b, x, S)
      BY <3>2 DEF Held
    <3>4. CASE b = f
      <4>1. Has(tree, Rest(j.old, rows[x].path), FileOf(x))
        BY <1>2, <1>5, <1>6, <3>2, <3>4
      <4> QED
        BY <2>8, <2>10, <4>1
    <3>5. CASE b # f
      <4>1. b \in T
        BY <1>5, <2>6, <3>3, ChainWithin
      <4>2. Above(rows[b].path, rows[x].path)
        BY <3>3, ChainAbove
      <4>3. PICK o, y, z : o = j.old /\ y = rows[b].path /\ z = rows[x].path
        OBVIOUS
      <4>4. o \in Seq(Names) /\ y \in Seq(Names) /\ z \in Seq(Names) /\ Above(o, y) /\ Above(y, z)
        BY <1>1, <2>6, <2>8, <4>1, <4>2, <4>3, BinnedIs, JobIs
      <4>5. Above(p \o Rest(o, y), p \o Rest(o, z))
        BY <1>4, <4>4, MovedAbove
      <4>6. Above(w[b].path, w[x].path)
        BY <2>8, <4>1, <4>3, <4>5
      <4> QED
        BY <3>3, <3>5, <4>1, <4>6
    <3> QED
      BY <3>4, <3>5
  <2>17. RestoreDisk(k)'
    <3>1. k.key = bins'[k.fs] /\ k.fs \in k.risk /\ k.risk = DOMAIN k.writes /\ k.unbin = {k.fs}
      BY <1>5, <2>1, <2>5, <2>6, <2>7
    <3>2. \A x \in k.risk : k.writes[x].enc = rows'[x].enc /\ k.writes[x].file = rows'[x].file
      BY <2>1, <2>5, <2>7
    <3>3. \A x \in k.risk \ astray' : rows'[x].file =>
             \/ Has(content', k.writes[x].path, FileOf(x)')
             \/ \E b \in k.risk \ {k.fs} : bins'[b] # 0 /\ Above(k.writes[b].path, k.writes[x].path)
      BY <2>1, <2>5, <2>16 DEF FileOf
    <3> QED
      BY <2>5, <3>1, <3>2, <3>3 DEF RestoreDisk, Above
  <2>18. JobDisk(h)'
    BY <2>4, <2>5, <2>17 DEF JobDisk, UploadDisk, EncryptDisk, BinDisk, GoneDisk
  <2>19. Keyed'
    BY <2>1 DEF Disk, Keyed
  <2> QED
    BY <1>4, <2>1, <2>13, <2>14, <2>15, <2>18, <2>19, DiskStep DEF Active
<1>8. CASE ~(/\ f \in Present \ Live /\ bins[f] = j.key /\ j.parent \in Present \cup {0}
             /\ tree # Nothing /\ IsDir(Front(p)) /\ Fits(p, tree))
  <2>1. Abort(h) /\ UNCHANGED <<rows, bins, disk, aside>>
    BY <1>1, <1>2, <1>8 DEF RestoreMove, disk, aside
  <2> QED
    BY <1>4, <2>1, AbortDisk
<1> QED
  BY <1>7, <1>8

\* The directory of the row of the bin goes, before the rows do.
LEMMA ForgetMoveDisk ==
  ASSUME Orderly, Typed, Ledger, Shape, Disk, Ledger', NEW h \in Handlers, ForgetMove(h)
  PROVE  Disk'
<1>1. PICK j : j = op[h]
  OBVIOUS
<1>2. PICK f : f = j.fs
  OBVIOUS
<1>3. PICK T : T = IF j.keep THEN {f} ELSE Tree(f, TRUE)
  OBVIOUS
<1>4. /\ j.kind = "forget" /\ j.pc = "move" /\ GoneDisk(j) /\ Others(h) /\ Works(h) /\ Lone(op[h])
      /\ op[h].kind # "none" /\ j.key \in Keys
  BY <1>1, ForgetMoveWorks, JobIs DEF ForgetMove, At, Disk, JobDisk, Lone, JobOK
<1>5. j.key = bins[f] /\ j.risk = {} /\ bins[f] # 0 /\ AtRisk = {} /\ T = Going(f)
  <2>1. j.key = bins[f] /\ j.risk = {} /\ j.key # 0 /\ j.keep = rows[f].file
    BY <1>2, <1>4 DEF GoneDisk, Keys
  <2> QED
    BY <1>1, <1>3, <1>4, <2>1, RiskAlone DEF Going
<1>6. CASE /\ f \in Present \ Live /\ bins[f] = j.key /\ trash[j.key] # Nothing
           /\ \A i \in T : IF i = f THEN ~rows[i].enc ELSE ~Referred(i)
  <2>1. /\ trash' = [trash EXCEPT ![j.key] = Nothing] /\ astray' = astray
        /\ UNCHANGED <<rows, bins, content, removing, nextKey>>
    BY <1>1, <1>2, <1>3, <1>6 DEF ForgetMove, aside
  <2>2. PICK w : w = [x \in T |-> None]
    OBVIOUS
  <2>3. PICK k : k = [j EXCEPT !.pc = "commit", !.unbin = {f}, !.risk = T, !.writes = w, !.touched = TRUE]
    OBVIOUS
  <2>4. op'[h] = k
    <3>1. op' = [op EXCEPT ![h].pc = "commit", ![h].unbin = {f}, ![h].risk = T,
                           ![h].writes = [x \in T |-> None], ![h].touched = TRUE]
      BY <1>1, <1>2, <1>3, <1>6 DEF ForgetMove
    <3>2. op' = [op EXCEPT ![h] = k]
      BY <1>1, <2>2, <2>3, <3>1
    <3> QED
      BY <3>2, Only DEF Typed
  <2>5. /\ k.kind = "forget" /\ k.pc = "commit" /\ k.fs = f /\ k.key = j.key
        /\ k.risk = T /\ DOMAIN k.writes = T /\ k.unbin = {f}
    BY <1>1, <1>2, <1>4, <2>2, <2>3, JobIs DEF Job
  <2>6. f \in T /\ T \subseteq Binned
    BY <1>5, <1>6, GoingIs
  <2>7. \A x \in Keys : x # bins[f] => trash'[x] = trash[x]
    BY <1>5, <2>1 DEF Typed, DiskOK
  <2>8. AtRisk' = T
    <3>1. \A g \in Handlers \ {h} : op'[g] = op[g] /\ op[g].risk = {}
      BY <1>4, RiskAlone DEF Others
    <3> QED
      BY <2>4, <2>5, <3>1 DEF AtRisk
  <2>9. SparesLive(h)
    BY <2>1 DEF SparesLive
  <2>10. LiveThere'
    BY <1>5, <2>1, <2>8 DEF LiveThere, FileOf, Live, Present, Disk
  <2>11. BinThere'
    BY <1>5, <1>6, <2>1, <2>7, <2>8, EmptiedBin
  <2>12. GoneDisk(k)'
    BY <1>5, <2>1, <2>5, <2>6 DEF GoneDisk
  <2>13. JobDisk(h)'
    BY <2>4, <2>5, <2>12 DEF JobDisk, UploadDisk, EncryptDisk, BinDisk, RestoreDisk
  <2>14. Keyed'
    BY <2>1 DEF Disk, Keyed
  <2> QED
    BY <1>4, <2>1, <2>9, <2>10, <2>11, <2>13, <2>14, DiskStep DEF Active
<1>7. CASE ~(/\ f \in Present \ Live /\ bins[f] = j.key /\ trash[j.key] # Nothing
             /\ \A i \in T : IF i = f THEN ~rows[i].enc ELSE ~Referred(i))
  <2>1. Abort(h) /\ UNCHANGED <<rows, bins, disk, aside>>
    BY <1>1, <1>2, <1>3, <1>7 DEF ForgetMove, disk
  <2> QED
    BY <1>4, <2>1, AbortDisk
<1> QED
  BY <1>6, <1>7

\* Emptying the vault takes all there is, and so all is at risk.
LEMMA CleanUpDisk ==
  ASSUME Orderly, Typed, Ledger, Shape, Disk, Ledger', NEW h \in Handlers, CleanUp(h)
  PROVE  Disk'
<1>1. PICK w : w = [i \in Present |-> None]
  OBVIOUS
<1>2. PICK k : k = [Idle EXCEPT !.kind = "clean", !.pc = "commit", !.unbin = Ids, !.writes = w,
                                !.risk = Present, !.touched = TRUE]
  OBVIOUS
<1>3. op'[h] = k
  <2>1. op' = [op EXCEPT ![h] = k]
    BY <1>1, <1>2 DEF CleanUp
  <2> QED
    BY <2>1, Only DEF Typed
<1>4. k.kind = "clean" /\ k.risk = Present /\ DOMAIN k.writes = Present /\ Idle.kind = "none"
  BY <1>1, <1>2 DEF Idle
<1>5. /\ MayStart(h, "clean") /\ UNCHANGED <<rows, bins, removing, nextKey>> /\ astray' = astray
      /\ Others(h) /\ Works(h)
  BY CleanUpWorks DEF CleanUp, aside
<1>6. op[h].kind = "none" /\ Lone(op'[h]) /\ Active(h)
  BY <1>3, <1>4, <1>5 DEF MayStart, Lone, Active
<1>7. \A g \in Handlers \ {h} : op[g].kind = "none"
  BY <1>4, <1>6, Company DEF Shape
<1>8. Present \subseteq AtRisk' /\ Present' = Present
  BY <1>3, <1>4, <1>5 DEF AtRisk, Present
<1>9. LiveThere' /\ BinThere'
  BY <1>8 DEF LiveThere, BinThere, Live, Binned
<1>10. SparesLive(h)
  BY <1>3, <1>4, <1>7 DEF SparesLive, Live
<1>11. JobDisk(h)'
  BY <1>3, <1>4 DEF JobDisk, UploadDisk, EncryptDisk, BinDisk, RestoreDisk, GoneDisk
<1>12. Keyed'
  BY <1>5 DEF Disk, Keyed
<1> QED
  BY <1>5, <1>6, <1>9, <1>10, <1>11, <1>12, DiskStep

-----------------------------------------------------------------------------
(* Committing what runs alone.                                             *)

\* What the step of a request that ran alone and commits has to show.
LEMMA CommitEnds ==
  ASSUME Orderly, Typed, Ledger, Shape, Disk, Ledger', NEW h \in Handlers, Commit(h)
  PROVE  /\ op[h].kind \in {"encrypt", "restore", "forget", "clean"} /\ op[h].pc = "commit"
         /\ Commits(h) /\ Works(h) /\ AtRisk = op[h].risk /\ AtRisk' = {} /\ rows' = Merged(h)
         /\ \A i \in Ids : bins'[i] = IF i \in op[h].unbin THEN 0 ELSE bins[i]
         /\ UNCHANGED <<content, trash>> /\ astray \subseteq astray' /\ Odd(rows, bins)' \subseteq astray'
         /\ LiveThere' /\ BinThere' => Disk'
<1>1. Others(h) /\ Works(h)
  BY CommitWorks
<1>2. op[h].kind \in {"encrypt", "restore", "forget", "clean"} /\ op[h].pc = "commit"
  <2>1. op[h].kind \in Kinds /\ op[h].kind \notin {"upload", "folder"} /\ op[h].pc = "commit"
    BY JobIs DEF Commit
  <2>2. op[h].kind # "none" /\ op[h].kind # "bin"
    BY <2>1 DEF Disk, JobDisk, BinDisk, Idle
  <2> QED
    BY <2>1, <2>2 DEF Kinds
<1>3. /\ rows' = Merged(h) /\ bins' = [i \in Ids |-> IF i \in op[h].unbin THEN 0 ELSE bins[i]]
      /\ Odd(rows, bins)' \subseteq astray' /\ astray \subseteq astray' /\ Done(h)
      /\ UNCHANGED <<content, trash, removing, nextKey>>
  BY DEF Commit, Store, disk, aside, Odd, Above
<1>4. op'[h] = Idle
  BY <1>3, DoneStep DEF Typed
<1>5. op'[h].kind = "none" /\ op'[h].risk = {}
  BY <1>4 DEF Idle
<1>6. AtRisk = op[h].risk /\ AtRisk' = {}
  <2>1. \A g \in Handlers \ {h} : op'[g] = op[g] /\ op[g].risk = {}
    BY <1>1, <1>2, RiskAlone DEF Others, Lone
  <2>2. AtRisk = op[h].risk
    BY <1>2, RiskAlone DEF Lone
  <2> QED
    BY <1>5, <2>1, <2>2 DEF AtRisk
<1>7. Commits(h)
  BY <1>2, <1>3, <1>4 DEF Commits, Maker, Ends
<1>8. SparesLive(h)
  BY <1>3 DEF SparesLive
<1>9. JobDisk(h)'
  BY <1>4, <1>5 DEF JobDisk, UploadDisk, EncryptDisk, BinDisk, RestoreDisk, GoneDisk
<1>10. Keyed'
  <2>1. \A i \in Ids : bins[i] < nextKey /\ (bins'[i] = bins[i] \/ bins'[i] = 0)
    BY <1>3 DEF Disk, Keyed
  <2>2. 0 < nextKey
    BY DEF Typed
  <2>3. \A i, x \in Ids : bins[i] # 0 /\ bins[i] = bins[x] => i = x
    BY DEF Disk, Keyed
  <2>4. \A i \in Ids : bins'[i] < nextKey'
    BY <1>3, <2>1, <2>2
  <2>5. \A i, x \in Ids : bins'[i] # 0 /\ bins'[i] = bins'[x] => i = x
    BY <2>1, <2>3
  <2> QED
    BY <2>4, <2>5 DEF Keyed
<1>11. LiveThere' /\ BinThere' => Disk'
  BY <1>1, <1>2, <1>3, <1>8, <1>9, <1>10, DiskStep DEF Active
<1> QED
  BY <1>1, <1>2, <1>3, <1>6, <1>7, <1>11

\* What the encryption writes: the row is where it was in the tree, and the bin is
\* as it was.
LEMMA EncryptCommits ==
  ASSUME Orderly, Typed, Ledger, Shape, Disk, Ledger', NEW h \in Handlers, Commit(h), op[h].kind = "encrypt"
  PROVE  LET f == op[h].fs
             w == op[h].writes
         IN /\ f \in Live /\ op[h].risk = {f} /\ w[f].enc = TRUE /\ w[f].path = op[h].path
            /\ f \notin astray => Has(content, op[h].path, [of |-> f, enc |-> TRUE])
            /\ \A i \in Ids : rows'[i] = IF i = f THEN w[f] ELSE rows[i]
            /\ Live' = Live /\ Spares({}) /\ f \notin Binned /\ Binned' = Binned
<1>1. PICK j : j = op[h]
  OBVIOUS
<1>2. PICK f, w : f = j.fs /\ w = j.writes
  OBVIOUS
<1>3. /\ op[h].pc = "commit" /\ AtRisk = j.risk /\ AtRisk' = {} /\ rows' = Merged(h)
      /\ \A i \in Ids : bins'[i] = IF i \in j.unbin THEN 0 ELSE bins[i]
      /\ UNCHANGED <<content, trash>>
  BY <1>1, CommitEnds
<1>4. /\ f \in Live /\ DOMAIN w = {f} /\ j.risk = {f} /\ w[f].enc = TRUE /\ j.unbin = {}
      /\ f \notin astray => Has(content, j.path, [of |-> f, enc |-> TRUE])
  <2>1. EncryptDisk(j) /\ j.kind = "encrypt" /\ j.pc = "commit"
    BY <1>1, <1>3 DEF Disk, JobDisk
  <2> QED
    BY <1>2, <2>1 DEF EncryptDisk
<1>5. w[f] # None /\ w[f].path = j.path /\ w[f].inBin = rows[f].inBin
  BY <1>1, <1>2, <1>4 DEF Shape, EncryptOK
<1>6. \A i \in Ids : rows'[i] = IF i = f THEN w[f] ELSE rows[i]
  <2>1. \A x \in DOMAIN op[h].writes : op[h].writes[x] # None
    BY <1>1, <1>2, <1>4, <1>5
  <2>2. \A i \in Ids : Merged(h)[i] = IF i \in DOMAIN op[h].writes THEN op[h].writes[i] ELSE rows[i]
    BY <2>1, MergedAll
  <2> QED
    BY <1>1, <1>2, <1>3, <1>4, <2>2
<1>7. f \in Ids /\ f \notin Binned
  BY <1>4 DEF Live, Present, Binned
<1>8. Present' = Present /\ Live' = Live /\ Binned' = Binned
  <2>1. f \in Present
    BY <1>4 DEF Live
  <2>2. Present' = Present
    BY <1>5, <1>6, <1>7, <2>1 DEF Present
  <2>3. \A i \in Present : i \in Ids /\ rows'[i].inBin = rows[i].inBin
    BY <1>5, <1>6 DEF Present
  <2> QED
    BY <2>2, <2>3 DEF Live, Binned
<1>9. Spares({})
  <2>1. \A x \in Binned : x \in Ids /\ x # f /\ rows'[x] = rows[x] /\ bins'[x] = bins[x]
    BY <1>3, <1>4, <1>6, <1>7, BinnedIs
  <2> QED
    BY <1>3, <1>8, <2>1 DEF Spares
<1> QED
  BY <1>1, <1>2, <1>4, <1>5, <1>6, <1>7, <1>8, <1>9

\* The row of the encrypted file leads to it.
LEMMA EncryptCommitDisk ==
  ASSUME Orderly, Typed, Ledger, Shape, Disk, Ledger', NEW h \in Handlers, Commit(h), op[h].kind = "encrypt"
  PROVE  Disk'
<1>1. PICK j : j = op[h]
  OBVIOUS
<1>2. PICK f, w : f = j.fs /\ w = j.writes
  OBVIOUS
<1>3. /\ AtRisk = j.risk /\ AtRisk' = {} /\ UNCHANGED <<content, trash>> /\ astray \subseteq astray'
      /\ LiveThere' /\ BinThere' => Disk'
  BY <1>1, CommitEnds
<1>4. /\ f \in Live /\ j.risk = {f} /\ w[f].enc = TRUE /\ w[f].path = j.path
      /\ f \notin astray => Has(content, j.path, [of |-> f, enc |-> TRUE])
      /\ \A i \in Ids : rows'[i] = IF i = f THEN w[f] ELSE rows[i]
      /\ Live' = Live /\ Spares({}) /\ f \notin Binned /\ Binned' = Binned
  BY <1>1, <1>2, EncryptCommits
<1>5. f \in Ids
  BY <1>4 DEF Live, Present
<1>6. LiveThere'
  <2> SUFFICES ASSUME NEW i \in Live, i \notin astray', rows'[i].file
               PROVE  Has(content, rows'[i].path, FileOf(i)')
    BY <1>3, <1>4 DEF LiveThere
  <2>1. CASE i = f
    BY <1>3, <1>4, <1>5, <2>1 DEF FileOf
  <2>2. CASE i # f
    <3>1. rows'[i] = rows[i]
      BY <1>4, <2>2 DEF Live, Present
    <3>2. i \notin AtRisk /\ i \notin astray
      BY <1>3, <1>4, <2>2
    <3>3. Has(content, rows[i].path, FileOf(i))
      BY <3>1, <3>2 DEF Disk, LiveThere
    <3> QED
      BY <3>1, <3>3 DEF FileOf
  <2> QED
    BY <2>1, <2>2
<1>7. BinThere'
  <2>1. \A i \in Binned' : i \notin astray' /\ i \notin AtRisk' =>
           i \in Binned /\ i \notin {} /\ i \notin AtRisk
    BY <1>3, <1>4
  <2>2. BinThere
    BY DEF Disk
  <2> QED
    BY <1>3, <1>4, <2>1, <2>2, BinStill
<1> QED
  BY <1>3, <1>6, <1>7

\* What restoring writes: the rows of the request come back, where it says, and the
\* rest of the bin is as it was.
LEMMA RestoreCommits ==
  ASSUME Orderly, Typed, Ledger, Shape, Disk, Ledger', NEW h \in Handlers, Commit(h), op[h].kind = "restore"
  PROVE  LET f == op[h].fs
             w == op[h].writes
             T == op[h].risk
         IN /\ f \in T /\ T \subseteq Binned /\ op[h].unbin = {f}
            /\ \A x \in T : w[x].enc = rows[x].enc /\ w[x].file = rows[x].file
            /\ \A x \in T \ astray : rows[x].file =>
                  \/ Has(content, w[x].path, FileOf(x))
                  \/ \E b \in T \ {f} : bins[b] # 0 /\ Above(w[b].path, w[x].path)
            /\ \A x \in T : w[x] # None /\ w[x].inBin = FALSE /\ x \in Ids
            /\ \A i \in Ids : rows'[i] = IF i \in T THEN w[i] ELSE rows[i]
            /\ Live' = Live \cup T /\ Binned' = Binned \ T /\ Spares(T)
<1>1. PICK j : j = op[h]
  OBVIOUS
<1>2. PICK f, w, T : f = j.fs /\ w = j.writes /\ T = j.risk
  OBVIOUS
<1>3. /\ op[h].pc = "commit" /\ rows' = Merged(h) /\ AtRisk' = {}
      /\ \A i \in Ids : bins'[i] = IF i \in j.unbin THEN 0 ELSE bins[i]
      /\ UNCHANGED <<content, trash>>
  BY <1>1, CommitEnds
<1>4. /\ f \in T /\ T = DOMAIN w /\ j.unbin = {f}
      /\ \A x \in T : w[x].enc = rows[x].enc /\ w[x].file = rows[x].file
      /\ \A x \in T \ astray : rows[x].file =>
            \/ Has(content, w[x].path, FileOf(x))
            \/ \E b \in T \ {f} : bins[b] # 0 /\ Above(w[b].path, w[x].path)
  <2>1. RestoreDisk(j) /\ j.kind = "restore" /\ j.pc = "commit"
    BY <1>1, <1>3 DEF Disk, JobDisk
  <2> QED
    BY <1>2, <2>1 DEF RestoreDisk
<1>5. \A x \in T : w[x] # None /\ w[x].inBin = FALSE /\ x \in Present /\ x \in Ids /\ x \in Binned
  <2>1. RestoreOK(h) /\ op[h].kind = "restore" /\ op[h].writes = w
    BY <1>1, <1>2 DEF Shape
  <2>2. \A x \in DOMAIN w : x \in Present \ Live /\ w[x] # None /\ w[x].inBin = FALSE
    BY <2>1 DEF RestoreOK
  <2> QED
    BY <1>4, <2>2 DEF Present, Binned
<1>6. \A i \in Ids : rows'[i] = IF i \in T THEN w[i] ELSE rows[i]
  <2>1. \A x \in DOMAIN op[h].writes : op[h].writes[x] # None
    BY <1>1, <1>2, <1>4, <1>5
  <2>2. \A i \in Ids : Merged(h)[i] = IF i \in DOMAIN op[h].writes THEN op[h].writes[i] ELSE rows[i]
    BY <2>1, MergedAll
  <2> QED
    BY <1>1, <1>2, <1>3, <1>4, <2>2
<1>7. Present' = Present /\ Live' = Live \cup T /\ Binned' = Binned \ T
  <2>1. Present' = Present
    BY <1>5, <1>6 DEF Present
  <2>2. \A i \in Present : i \in Ids
    BY DEF Present
  <2>3. Live' = Live \cup T
    <3>1. \A i \in Present : ~rows'[i].inBin <=> ~rows[i].inBin \/ i \in T
      BY <1>5, <1>6, <2>2
    <3> QED
      BY <1>5, <2>1, <3>1 DEF Live
  <2> QED
    BY <2>1, <2>3 DEF Binned
<1>8. Spares(T)
  <2>1. \A x \in Binned \ T : x \in Ids /\ rows'[x] = rows[x] /\ bins'[x] = bins[x]
    BY <1>3, <1>4, <1>6, BinnedIs
  <2> QED
    BY <1>3, <1>7, <2>1 DEF Spares
<1> QED
  BY <1>1, <1>2, <1>4, <1>5, <1>6, <1>7, <1>8

\* What is restored leads to where it was laid, but for what was in the bin on
\* its own account.
LEMMA RestoreCommitDisk ==
  ASSUME Orderly, Typed, Ledger, Shape, Disk, Ledger', NEW h \in Handlers, Commit(h), op[h].kind = "restore"
  PROVE  Disk'
<1>1. PICK j : j = op[h]
  OBVIOUS
<1>2. PICK f, w, T : f = j.fs /\ w = j.writes /\ T = j.risk
  OBVIOUS
<1>3. /\ AtRisk = T /\ AtRisk' = {} /\ \A i \in Ids : bins'[i] = IF i \in j.unbin THEN 0 ELSE bins[i]
      /\ UNCHANGED <<content, trash>> /\ astray \subseteq astray' /\ Odd(rows, bins)' \subseteq astray'
      /\ LiveThere' /\ BinThere' => Disk'
  BY <1>1, <1>2, CommitEnds
<1>4. /\ f \in T /\ j.unbin = {f}
      /\ \A x \in T : w[x].enc = rows[x].enc /\ w[x].file = rows[x].file
      /\ \A x \in T \ astray : rows[x].file =>
            \/ Has(content, w[x].path, FileOf(x))
            \/ \E b \in T \ {f} : bins[b] # 0 /\ Above(w[b].path, w[x].path)
      /\ \A x \in T : w[x] # None /\ w[x].inBin = FALSE /\ x \in Ids
      /\ \A i \in Ids : rows'[i] = IF i \in T THEN w[i] ELSE rows[i]
      /\ Live' = Live \cup T /\ Binned' = Binned \ T /\ Spares(T)
  BY <1>1, <1>2, RestoreCommits
<1>5. LiveThere'
  <2> SUFFICES ASSUME NEW i \in Live \cup T, i \notin astray', rows'[i].file
               PROVE  Has(content, rows'[i].path, FileOf(i)')
    BY <1>3, <1>4 DEF LiveThere
  <2>1. CASE i \in T
    <3>1. rows'[i] = w[i] /\ rows[i].file /\ i \notin astray /\ i \in Ids
      BY <1>3, <1>4, <2>1
    <3>2. ASSUME NEW b \in T \ {f}, bins[b] # 0, Above(w[b].path, w[i].path) PROVE FALSE
      <4>1. b \in Ids /\ rows'[b] = w[b] /\ bins'[b] = bins[b]
        BY <1>3, <1>4
      <4>2. /\ rows'[b] # None /\ ~rows'[b].inBin /\ rows'[i] # None /\ ~rows'[i].inBin
        BY <1>4, <2>1, <3>1, <4>1
      <4>3. Above(rows[b].path, rows[i].path)'
        BY <3>1, <3>2, <4>1 DEF Above
      <4>4. i \in Odd(rows, bins)'
        BY <3>1, <3>2, <4>1, <4>2, <4>3 DEF Odd
      <4> QED
        BY <1>3, <4>4
    <3>3. Has(content, w[i].path, FileOf(i))
      BY <1>4, <2>1, <3>1, <3>2
    <3> QED
      BY <1>4, <2>1, <3>1, <3>3 DEF FileOf
  <2>2. CASE i \notin T
    <3>1. i \in Live /\ rows'[i] = rows[i]
      BY <1>4, <2>2 DEF Live, Present
    <3>2. i \notin AtRisk /\ i \notin astray
      BY <1>3, <2>2
    <3>3. Has(content, rows[i].path, FileOf(i))
      BY <3>1, <3>2 DEF Disk, LiveThere
    <3> QED
      BY <3>1, <3>3 DEF FileOf
  <2> QED
    BY <2>1, <2>2
<1>6. BinThere'
  <2>1. \A i \in Binned' : i \notin astray' /\ i \notin AtRisk' =>
           i \in Binned /\ i \notin T /\ i \notin AtRisk
    BY <1>3, <1>4
  <2>2. BinThere
    BY DEF Disk
  <2> QED
    BY <1>3, <1>4, <2>1, <2>2, BinStill
<1> QED
  BY <1>3, <1>5, <1>6

\* What deleting for good writes: the rows of the request go, and all others but
\* their parents are as they were.
LEMMA ForgetCommits ==
  ASSUME Orderly, Typed, Ledger, Shape, Disk, Ledger', NEW h \in Handlers, Commit(h), op[h].kind = "forget",
         NEW T, T = op[h].risk
  PROVE  /\ \A i \in Ids : rows[i] # None /\ i \notin T =>
               /\ rows'[i] # None /\ rows'[i].file = rows[i].file /\ rows'[i].enc = rows[i].enc
               /\ rows'[i].path = rows[i].path
         /\ Live' = Live /\ T \cap Live = {} /\ Binned' = Binned \ T /\ Spares(T)
<1>1. PICK j : j = op[h]
  OBVIOUS
<1>2. PICK f : f = j.fs
  OBVIOUS
<1>3. /\ op[h].pc = "commit" /\ rows' = Merged(h) /\ AtRisk' = {}
      /\ \A i \in Ids : bins'[i] = IF i \in j.unbin THEN 0 ELSE bins[i]
      /\ UNCHANGED <<content, trash>>
  BY <1>1, CommitEnds
<1>4. f \in T /\ T = DOMAIN j.writes /\ j.unbin = {f}
  <2>1. GoneDisk(j) /\ j.kind = "forget" /\ j.pc = "commit"
    BY <1>1, <1>3 DEF Disk, JobDisk
  <2> QED
    BY <1>1, <1>2, <2>1 DEF GoneDisk
<1>5. \A x \in T : j.writes[x] = None /\ x \notin Live
  BY <1>1, <1>4 DEF Shape, GoneOK
<1>6. ASSUME NEW i \in Ids
      PROVE  /\ rows[i] = None \/ i \in T => rows'[i] = None
             /\ rows[i] # None /\ i \notin T =>
                   /\ rows'[i] # None /\ rows'[i].file = rows[i].file /\ rows'[i].enc = rows[i].enc
                   /\ rows'[i].path = rows[i].path /\ rows'[i].inBin = rows[i].inBin
                   /\ rows'[i].parent = IF rows[i].parent \in T THEN 0 ELSE rows[i].parent
  <2>1. \A x \in DOMAIN op[h].writes : op[h].writes[x] = None
    BY <1>1, <1>4, <1>5
  <2>2. Merged(h)[i] = Without(rows, DOMAIN op[h].writes)[i]
    BY <2>1, MergedNone
  <2>3. rows'[i] = Without(rows, T)[i]
    BY <1>1, <1>3, <1>4, <2>2
  <2> QED
    BY <2>3, WithoutKept
<1>7. Present' = Present \ T /\ Live' = Live /\ Binned' = Binned \ T
  <2>1. Present' = Present \ T
    BY <1>6 DEF Present
  <2>2. Live' = Live
    BY <1>5, <1>6, <2>1 DEF Live, Present
  <2> QED
    BY <1>5, <2>1, <2>2 DEF Binned
<1>8. Spares(T)
  <2>1. ASSUME NEW x \in Binned \ T
        PROVE  /\ x \in Ids /\ bins'[x] = bins[x] /\ rows'[x].file = rows[x].file
               /\ rows'[x].enc = rows[x].enc /\ rows'[x].path = rows[x].path
               /\ rows'[x].parent = rows[x].parent \/ rows[x].parent \notin Binned \ T
    <3>1. x \in Ids /\ rows[x] # None /\ x \notin T
      BY BinnedIs DEF Present
    <3> QED
      BY <1>3, <1>4, <1>6, <3>1
  <2> QED
    BY <1>3, <1>7, <2>1 DEF Spares
<1> QED
  BY <1>5, <1>6, <1>7, <1>8

\* What is deleted for good leaves the rest as it is.
LEMMA ForgetCommitDisk ==
  ASSUME Orderly, Typed, Ledger, Shape, Disk, Ledger', NEW h \in Handlers, Commit(h), op[h].kind = "forget"
  PROVE  Disk'
<1>1. PICK T : T = op[h].risk
  OBVIOUS
<1>2. /\ AtRisk = T /\ AtRisk' = {} /\ UNCHANGED <<content, trash>> /\ astray \subseteq astray'
      /\ LiveThere' /\ BinThere' => Disk'
  BY <1>1, CommitEnds
<1>3. /\ \A i \in Ids : rows[i] # None /\ i \notin T =>
            /\ rows'[i] # None /\ rows'[i].file = rows[i].file /\ rows'[i].enc = rows[i].enc
            /\ rows'[i].path = rows[i].path
      /\ Live' = Live /\ T \cap Live = {} /\ Binned' = Binned \ T /\ Spares(T)
  BY <1>1, ForgetCommits
<1>4. LiveThere'
  <2> SUFFICES ASSUME NEW i \in Live, i \notin astray', rows'[i].file
               PROVE  Has(content, rows'[i].path, FileOf(i)')
    BY <1>2, <1>3 DEF LiveThere
  <2>1. i \in Ids /\ rows[i] # None /\ i \notin T
    BY <1>3 DEF Live, Present
  <2>2. i \notin AtRisk /\ i \notin astray /\ rows[i].file
    BY <1>2, <1>3, <2>1
  <2>3. Has(content, rows[i].path, FileOf(i))
    BY <2>2 DEF Disk, LiveThere
  <2> QED
    BY <1>3, <2>1, <2>3 DEF FileOf
<1>5. BinThere'
  <2>1. \A i \in Binned' : i \notin astray' /\ i \notin AtRisk' =>
           i \in Binned /\ i \notin T /\ i \notin AtRisk
    BY <1>2, <1>3
  <2>2. BinThere
    BY DEF Disk
  <2> QED
    BY <1>2, <1>3, <2>1, <2>2, BinStill
<1> QED
  BY <1>2, <1>4, <1>5

\* What a transaction that ran alone wrote comes true.
LEMMA CommitDisk ==
  ASSUME Orderly, Typed, Ledger, Shape, Disk, Ledger', NEW h \in Handlers, Commit(h)
  PROVE  Disk'
<1>1. op[h].kind \in {"encrypt", "restore", "forget", "clean"}
  BY CommitEnds
<1>2. CASE op[h].kind = "clean"
  <2>1. DOMAIN op[h].writes = Present /\ \A x \in Present : op[h].writes[x] = None
    BY <1>2 DEF Shape, GoneOK
  <2>2. \A i \in Ids : Merged(h)[i] = Without(rows, Present)[i]
    BY <2>1, MergedNone
  <2>3. \A i \in Ids : rows'[i] = None
    <3>1. rows' = Merged(h)
      BY CommitEnds
    <3>2. \A i \in Ids : rows[i] = None \/ i \in Present => Without(rows, Present)[i] = None
      BY WithoutKept
    <3> QED
      BY <2>2, <3>1, <3>2 DEF Present
  <2>4. Present' = {}
    BY <2>3 DEF Present
  <2>5. LiveThere' /\ BinThere'
    BY <2>4 DEF LiveThere, BinThere, Live, Binned
  <2> QED
    BY <2>5, CommitEnds
<1> QED
  BY <1>1, <1>2, EncryptCommitDisk, RestoreCommitDisk, ForgetCommitDisk

-----------------------------------------------------------------------------
(* Every step.                                                             *)

\* Nothing is anywhere at first.
LEMMA InitDisk == Init => Disk
<1> SUFFICES ASSUME Init PROVE Disk
  OBVIOUS
<1>1. Present = {} /\ \A g \in Handlers : op[g] = Idle
  BY DEF Init, Present
<1>2. LiveThere /\ BinThere
  BY <1>1 DEF LiveThere, BinThere, Live, Binned
<1>3. Keyed /\ RemovedSoon
  BY DEF Init, Keyed, RemovedSoon
<1>4. \A g \in Handlers : JobDisk(g)
  <2>1. Idle.kind = "none"
    BY DEF Idle
  <2> QED
    BY <1>1, <2>1 DEF JobDisk, UploadDisk, EncryptDisk, BinDisk, RestoreDisk, GoneDisk
<1> QED
  BY <1>2, <1>3, <1>4 DEF Disk

\* What lies on disk after any step.
LEMMA NextDisk ==
  ASSUME Orderly
  PROVE  Typed /\ Ledger /\ Shape /\ OddNoted /\ Disk /\ ~garbled' /\ [Next]_vars => Disk'
<1> SUFFICES ASSUME Typed, Ledger, Shape, OddNoted, Disk, ~garbled', [Next]_vars PROVE Disk'
  OBVIOUS
<1>1. Typed' /\ Ledger' /\ Shape'
  BY NextTyped, NextLedger, NextShape DEF Orderly
<1>2. ASSUME NEW h \in Handlers, NEW p \in 0 .. MaxRows, NEW keep \in BOOLEAN,
             NEW n \in FileNamesSent, UploadBegin(h, p, n, keep)
      PROVE  Disk'
  <2>1. Creation(h, "upload", "quota", p, n, keep, 1) /\ n \in Names /\ "quota" \in Before
    BY <1>2, SentNames DEF UploadBegin, Before
  <2>2. Others(h) /\ Works(h)
    BY <2>1, MakesWorks
  <2> QED
    BY <1>1, <2>1, <2>2, CreationDisk
<1>3. ASSUME NEW h \in Handlers, NEW p \in 0 .. MaxRows, NEW keep \in BOOLEAN,
             NEW n \in FolderNamesSent, FolderBegin(h, p, n, keep)
      PROVE  Disk'
  <2>1. /\ Creation(h, "folder", Naming(keep), p, n, keep, 0) /\ (keep => n.ext = "") /\ n \in Names
        /\ Naming(keep) \in Before
    BY <1>3, SentNames DEF FolderBegin, Before, Naming
  <2>2. Others(h) /\ Works(h)
    BY <2>1, MakesWorks
  <2> QED
    BY <1>1, <2>1, <2>2, CreationDisk
<1>4. ASSUME NEW h \in Handlers, NEW i \in Ids,
             EncryptBegin(h, i) \/ BinBegin(h, i) \/ ForgetBegin(h, i)
             \/ \E q \in 0 .. MaxRows : RestoreBegin(h, i, q)
      PROVE  Disk'
  BY <1>1, <1>4, EncryptBeginDisk, BinBeginDisk, BinnedBeginDisk
<1>5. ASSUME NEW h \in Handlers, CleanUp(h) \/ Fail(h)
      PROVE  Disk'
  <2>1. CASE Fail(h)
    <3>1. Abort(h) /\ UNCHANGED <<rows, bins, disk, aside>> /\ op[h] # Idle
      BY <2>1 DEF Fail, Open
    <3>2. op[h].kind # "none"
      BY <3>1 DEF Disk, JobDisk
    <3> QED
      BY <1>1, <3>1, <3>2, AbortDisk
  <2> QED
    BY <1>1, <1>5, <2>1, CleanUpDisk
<1>6. ASSUME NEW h \in Handlers, Upload(h) \/ MakeFolder(h)
      PROVE  Disk'
  <2>1. CASE UploadFind(h) \/ FolderFind(h)
    <3>1. Others(h) /\ Works(h)
      BY <2>1, FindWorks DEF UploadFind, FolderFind
    <3> QED
      BY <1>1, <2>1, <3>1, FindDisk
  <2>2. ASSUME NEW kind \in {"upload", "folder"}, UploadQuota(h) \/ Match(h, kind) \/ Number(h, kind)
        PROVE  Disk'
    BY <1>1, <2>2, EarlyDisk
  <2> QED
    BY <1>1, <1>6, <2>1, <2>2, UploadReplaceDisk, UploadWriteDisk, InsertDisk, FolderDeleteDisk,
       FolderRemoveDisk, FolderWriteDisk DEF Upload, MakeFolder
<1>7. ASSUME NEW h \in Handlers, Encrypt(h) \/ ToBin(h)
      PROVE  Disk'
  BY <1>1, <1>7, EncryptIssueDisk, EncryptWriteDisk, BinFlipDisk, BinMoveDisk, BinInsertDisk
     DEF Encrypt, ToBin
<1>8. ASSUME NEW h \in Handlers, RestoreMove(h) \/ ForgetMove(h) \/ Commit(h)
      PROVE  Disk'
  BY <1>1, <1>8, RestoreMoveDisk, ForgetMoveDisk, CommitDisk
<1>9. ASSUME NEW p \in removing, RemoveOld(p)
      PROVE  Disk'
  BY <1>9, RemoveOldDisk
<1>10. CASE UNCHANGED vars
  <2>1. UNCHANGED <<rows, bins, content, trash, removing, nextKey, op, astray>>
    BY <1>10 DEF vars, aside, disk
  <2>2. LiveThere' /\ BinThere' /\ Keyed' /\ RemovedSoon'
    BY <2>1 DEF Disk, LiveThere, BinThere, Keyed, RemovedSoon, Live, Present, Binned, AtRisk,
                FileOf, Shelved, Held, Chain, Rest
  <2>3. \A g \in Handlers : JobDisk(g)'
    BY <2>1 DEF Disk, JobDisk, UploadDisk, EncryptDisk, BinDisk, RestoreDisk, GoneDisk,
                Live, Present, Binned, Chain, FileOf, Above, Rest, File
  <2> QED
    BY <2>2, <2>3 DEF Disk
<1> QED
  BY <1>2, <1>3, <1>4, <1>5, <1>6, <1>7, <1>8, <1>9, <1>10 DEF Next, Step

\* ... as long as no path is garbled.
KeptDisk == ~garbled => Disk

LEMMA NextKeptDisk ==
  ASSUME Orderly
  PROVE  Typed /\ Ledger /\ KeptShape /\ OddNoted /\ KeptDisk /\ [Next]_vars => KeptDisk'
<1> SUFFICES ASSUME Typed, Ledger, KeptShape, OddNoted, KeptDisk, [Next]_vars, ~garbled' PROVE Disk'
  BY DEF KeptDisk
<1>1. ~garbled
  BY EveryStep DEF Notes
<1> QED
  BY <1>1, NextDisk DEF KeptShape, KeptDisk

-----------------------------------------------------------------------------

\* The file of every row that no failure and no clash has named lies where the
\* rows say, but while a request has its hands on it: uploads, replacing, moving
\* whole folders to the bin one inside the other, restoring them elsewhere,
\* encrypting and deleting for ever lose no file and leave none under another's
\* name, however long it goes on and whatever failed before.
THEOREM DataInPlaceHolds ==
  ASSUME Orderly
  PROVE  Spec => []DataInPlace
<1>1. Typed /\ KeptShape /\ KeptDisk => DataInPlace
  <2> SUFFICES ASSUME Typed, Shape, Disk, NEW i \in Sound \ AtRisk, rows[i].file PROVE InPlace(i)
    BY DEF DataInPlace, KeptShape, KeptDisk
  <2>1. i \in Present /\ i \notin astray /\ i \notin AtRisk
    BY DEF Sound
  <2>2. CASE i \in Live
    <3>1. Has(content, rows[i].path, FileOf(i))
      BY <2>1, <2>2 DEF Disk, LiveThere
    <3> QED
      BY <2>2, <3>1 DEF InPlace, Has, FileOf
  <2>3. CASE i \notin Live
    <3>1. PICK b \in Ids, S \in SUBSET Ids :
            Held(b, i, S) /\ Has(trash[bins[b]], Rest(rows[b].path, rows[i].path), FileOf(i))
      BY <2>1, <2>3 DEF Disk, BinThere, Binned, Shelved
    <3>2. Carrier(i) = b /\ b \in Present /\ i \in Family(b) /\ bins[b] # 0
      BY <3>1, ChainCarrier DEF Held
    <3> QED
      BY <2>3, <3>1, <3>2 DEF InPlace, Has, FileOf
  <2> QED
    BY <2>2, <2>3
<1>2. /\ Init => Typed /\ Ledger /\ KeptShape /\ OddNoted /\ KeptDisk
      /\ Typed /\ Ledger /\ KeptShape /\ OddNoted /\ KeptDisk /\ [Next]_vars
            => (Typed /\ Ledger /\ KeptShape /\ OddNoted /\ KeptDisk)'
  <2>1. Init => Typed /\ Ledger /\ KeptShape /\ OddNoted /\ KeptDisk
    BY InitTyped, InitLedger, InitKept, InitOdd, InitDisk DEF KeptDisk
  <2>2. Regime
    BY DEF Orderly
  <2> QED
    BY <2>1, <2>2, NextTyped, NextLedger, NextKept, NextOdd, NextKeptDisk
<1> QED
  BY <1>1, <1>2, PTL DEF Spec

-----------------------------------------------------------------------------
(* Nothing is left behind: what is on disk, a row or a request leads to.   *)

\* A request that restores what holds another row of the bin table; it will leave
\* live rows that have one.
Nested(j) == j.kind = "restore" /\ \E b \in j.risk \ {j.fs} : bins[b] # 0

\* No request has failed half-way, and none has clashed with another, or is going to.
Clean == ~dirty /\ astray = {} /\ \A g \in Handlers : ~Nested(op[g])

\* What a request accounts for of what lies at p: what it has put there for rows to
\* come, or has yet to take away of rows that are gone.
Covers(j, p) ==
    \/ j.kind = "upload" /\ j.pc = "commit" /\ p = j.path
    \/ j.kind = "folder" /\ j.pc = "remove" /\ Above(j.path, p)
    \/ j.kind = "folder" /\ j.pc = "commit" /\ Above(p, j.path)
    \/ j.kind = "encrypt" /\ j.pc = "commit" /\ p = j.path
    \/ j.kind = "bin" /\ j.pc = "move" /\ \E i \in j.risk : rows[i].path = p
    \/ j.kind = "restore" /\ j.pc = "commit" /\ \E x \in j.risk : j.writes[x].path = p

LiveAt(p) == \E i \in Live : rows[i].path = p

ContentLed ==
    \A p \in DOMAIN content :
       p # <<>> /\ (p \in removing \/ LiveAt(p) \/ \E g \in Handlers : Covers(op[g], p))

\* x in the directory of k belongs to a row that went to the bin with the row of k.
Carried(k, x) ==
    \E b \in Ids, i \in Ids, S \in SUBSET Ids :
       Held(b, i, S) /\ bins[b] = k /\ rows[i].path = rows[b].path \o x

\* It belongs to a row that is on its way there.
Brings(j, k, x) ==
    j.kind = "bin" /\ j.pc = "insert" /\ j.key = k /\ \E i \in j.risk : rows[i].path = j.path \o x

TrashLed ==
    \A k \in Keys : \A x \in DOMAIN trash[k] :
       Carried(k, x) \/ \E g \in Handlers : Brings(op[g], k, x)

\* A directory of the bin in which nothing lies is not there.
Trees == \A k \in Keys : DOMAIN trash[k] = {} => trash[k] = Nothing

\* What requests that account for something have done before, and what they know.
JobLed(j) ==
    /\ j.pc \in {"remove", "commit"} \/ j.risk # {} => j.touched
    /\ j.kind = "upload" => \A v \in DOMAIN j.writes : rows[v].path = j.path
    /\ Maker(j) /\ j.victim \in Present => j.victim \in Live /\ rows[j.victim].path = j.path
    /\ j.kind = "encrypt" /\ j.pc # "issue" /\ j.old \in DOMAIN content => j.old \in removing
    /\ j.kind = "clean" => DOMAIN content = {} /\ \A k \in Keys : DOMAIN trash[k] = {}

Led == Trees /\ (Clean => ContentLed /\ TrashLed) /\ \A g \in Handlers : JobLed(op[g])

-----------------------------------------------------------------------------
(* What a step has to show.                                                *)

\* A request at rest has done nothing.
LEMMA IdleLed ==
  /\ JobLed(Idle) /\ \A p : ~Covers(Idle, p) /\ \A k, x : ~Brings(Idle, k, x)
  /\ Idle.risk = {} /\ Idle.kind = "none" /\ ~Nested(Idle)
<1>1. Idle.kind = "none" /\ Idle.risk = {} /\ Idle.pc = "idle"
  BY DEF Idle
<1> HIDE DEF Idle
<1> QED
  BY <1>1 DEF JobLed, Covers, Brings, Maker, Nested

\* Nothing was amiss before, if nothing is after.
LEMMA CleanBefore ==
  ASSUME Orderly, Shape, NEW h \in Handlers, Active(h), astray \subseteq astray', dirty => dirty',
         Clean', ~Nested(op[h])
  PROVE  Clean
<1>1. ASSUME NEW g \in Handlers \ {h} PROVE ~Nested(op[g])
  BY Company DEF Shape, Lone, Nested
<1> QED
  BY <1>1 DEF Clean

\* The other requests still know what they knew.
LEMMA OthersLed ==
  ASSUME Orderly, Typed, Ledger, Shape, Disk, Disk', NEW h \in Handlers, Others(h), Works(h), Active(h),
         NEW g \in Handlers \ {h}, JobLed(op[g])
  PROVE  JobLed(op[g])'
<1>1. PICK j : j = op[g]
  OBVIOUS
<1>2. op'[g] = j /\ j.kind \in Kinds /\ JobLed(j)
  BY <1>1, JobIs DEF Others
<1>3. ~Lone(j) /\ (Lone(op[h]) => j.kind = "none")
  BY <1>1, Company DEF Shape
<1>4. CASE j.kind = "none"
  <2>1. j = Idle
    BY <1>1, <1>4 DEF Disk, JobDisk
  <2>2. JobLed(Idle)'
    BY <2>1, <1>2, IdleLed DEF JobLed, Maker
  <2> QED
    BY <1>2, <2>1, <2>2 DEF JobLed, Maker
<1>5. CASE Maker(j)
  <2>1. Stays(h)
    BY <1>3, <1>5, StaysIs DEF Maker
  <2>2. j.kind = "upload" => \A v \in DOMAIN j.writes : rows'[v].path = j.path
    <3> SUFFICES ASSUME j.kind = "upload", NEW v \in DOMAIN j.writes PROVE rows'[v].path = j.path
      OBVIOUS
    <3>1. UploadDisk(j) /\ UploadDisk(j)'
      BY <1>1, <1>2 DEF Disk, JobDisk, UploadDisk, File
    <3>2. v \in Present' /\ v \in Present
      BY <3>1 DEF UploadDisk, Live
    <3>3. ~(Maker(op[h]) /\ v = op[h].fs)
      BY <3>2 DEF Ledger, NumbersOf
    <3>4. rows'[v].path = rows[v].path
      BY <2>1, <3>2, <3>3 DEF Stays
    <3> QED
      BY <1>2, <3>4 DEF JobLed
  <2>3. j.victim \in Present' => j.victim \in Live' /\ rows'[j.victim].path = j.path
    <3> SUFFICES ASSUME j.victim \in Present' PROVE j.victim \in Live' /\ rows'[j.victim].path = j.path
      OBVIOUS
    <3>1. j.victim # 0
      BY DEF Present, Ids
    <3>2. ~(Maker(op[h]) /\ j.victim = op[h].fs)
      BY <1>1, <1>5, <3>1 DEF Shape, MakerOK, Settled
    <3>3. j.victim \in Present /\ rows'[j.victim].path = rows[j.victim].path
          /\ rows'[j.victim].inBin = rows[j.victim].inBin
      BY <2>1, <3>2 DEF Stays
    <3>4. j.victim \in Live /\ rows[j.victim].path = j.path
      BY <1>2, <1>5, <3>3 DEF JobLed
    <3> QED
      BY <3>3, <3>4 DEF Live
  <2>4. j.kind # "encrypt" /\ j.kind # "clean"
    BY <1>5 DEF Maker
  <2>5. JobLed(j)'
    BY <1>2, <2>2, <2>3, <2>4 DEF JobLed, Maker
  <2> QED
    BY <1>2, <2>5 DEF JobLed, Maker
<1> QED
  BY <1>2, <1>3, <1>4, <1>5 DEF Lone, Kinds, Maker

\* A step of h, when the parts that are its own hold after it.
LEMMA LedStep ==
  ASSUME Orderly, Typed, Ledger, Shape, Disk, Led, Disk', NEW h \in Handlers,
         Others(h), Works(h), Active(h), astray \subseteq astray', dirty => dirty',
         Clean' => ~Nested(op[h]), Trees', JobLed(op[h])',
         Clean /\ Clean' => ContentLed' /\ TrashLed'
  PROVE  Led'
<1>1. \A g \in Handlers : JobLed(op[g])'
  <2> SUFFICES ASSUME NEW g \in Handlers \ {h} PROVE JobLed(op[g])'
    OBVIOUS
  <2>1. JobLed(op[g])
    BY DEF Led
  <2> QED
    BY <2>1, OthersLed
<1>2. Clean' => Clean
  BY CleanBefore
<1> QED
  BY <1>1, <1>2 DEF Led

\* A row that is live after a step of h, h itself, or a deletion accounts for what
\* lies at p then.
Leads(h, p) == p \in removing' \/ LiveAt(p)' \/ Covers(op[h], p)'

\* What lies in the directory of the user, when what is new there is accounted for,
\* and so is what a live row, h or a deletion accounted for.
LEMMA ContentLedStep ==
  ASSUME Orderly, Shape, ContentLed, NEW h \in Handlers, Others(h), Active(h),
         \A p \in DOMAIN content' : p \notin DOMAIN content => p # <<>> /\ Leads(h, p),
         \A p \in DOMAIN content' :
            p # <<>> /\ (p \in removing \/ LiveAt(p) \/ Covers(op[h], p)) => Leads(h, p)
  PROVE  ContentLed'
<1> SUFFICES ASSUME NEW p \in DOMAIN content', p \in DOMAIN content
             PROVE  p # <<>> /\ (p \in removing' \/ LiveAt(p)' \/ \E g \in Handlers : Covers(op[g], p)')
  BY DEF ContentLed, Leads
<1>1. p # <<>> /\ (p \in removing \/ LiveAt(p) \/ \E g \in Handlers : Covers(op[g], p))
  BY DEF ContentLed
<1>2. CASE p \in removing \/ LiveAt(p) \/ Covers(op[h], p)
  BY <1>1, <1>2 DEF Leads
<1>3. ASSUME NEW g \in Handlers \ {h}, Covers(op[g], p) PROVE Covers(op[g], p)'
  <2>1. ~Lone(op[g]) /\ op'[g] = op[g]
    BY Company DEF Others, Shape
  <2> QED
    BY <2>1, <1>3 DEF Covers, Lone
<1> QED
  BY <1>1, <1>2, <1>3

\* What lies in the bin, when what is new there is accounted for, and so is what h
\* accounted for, and the rest is spared.
LEMMA TrashLedStep ==
  ASSUME Orderly, Shape, TrashLed, NEW h \in Handlers, Others(h), Active(h),
         NEW T, T \subseteq AtRisk, Spares(T),
         \A k \in Keys : \A x \in DOMAIN trash'[k] :
            \/ x \in DOMAIN trash[k] /\ ~Brings(op[h], k, x)
            \/ Carried(k, x)' \/ Brings(op[h], k, x)'
  PROVE  TrashLed'
<1> SUFFICES ASSUME NEW k \in Keys, NEW x \in DOMAIN trash[k], ~Brings(op[h], k, x)
             PROVE  Carried(k, x)'
  BY DEF TrashLed
<1>1. Carried(k, x)
  <2>1. ASSUME NEW g \in Handlers \ {h} PROVE ~Brings(op[g], k, x)
    BY Company DEF Brings, Lone, Shape
  <2> QED
    BY <2>1 DEF TrashLed
<1>2. PICK b \in Ids, i \in Ids, S \in SUBSET Ids :
         Held(b, i, S) /\ bins[b] = k /\ rows[i].path = rows[b].path \o x
  BY <1>1 DEF Carried
<1>3. S \cap T = {}
  BY <1>2 DEF Held
<1>4. Held(b, i, S)' /\ bins'[b] = bins[b] /\ b \in Binned \ T /\ i \in Binned \ T
  BY <1>2, <1>3, HeldStill
<1>5. rows'[b].path = rows[b].path /\ rows'[i].path = rows[i].path
  BY <1>4 DEF Spares
<1>6. bins'[b] = k /\ rows'[i].path = rows'[b].path \o x
  BY <1>2, <1>4, <1>5
<1> QED
  BY <1>4, <1>6 DEF Carried

-----------------------------------------------------------------------------
(* Steps that leave the rows and the directories of the bin alone.         *)

\* What is accounted for stays so, if what h accounted for does.
LEMMA DiskOnlyLed ==
  ASSUME Orderly, Typed, Ledger, Shape, Disk, Led, Disk', NEW h \in Handlers,
         Others(h), Works(h), Active(h), astray \subseteq astray', dirty => dirty',
         UNCHANGED <<rows, bins, trash>>, removing \subseteq removing',
         op'[h].risk \subseteq op[h].risk \cup Live, JobLed(op[h])',
         Clean' => ~Nested(op[h]) /\ \A k, x : ~Brings(op[h], k, x),
         Clean' => \A p \in DOMAIN content' :
            \/ p \in DOMAIN content /\ ~Covers(op[h], p)
            \/ p # <<>> /\ Leads(h, p)
  PROVE  Led'
<1>1. Trees'
  BY DEF Led, Trees
<1>2. Live' = Live /\ Binned' = Binned
  BY DEF Live, Present, Binned
<1>3. \A p : LiveAt(p) => LiveAt(p)'
  BY <1>2 DEF LiveAt
<1> SUFFICES ASSUME Clean, Clean' PROVE ContentLed' /\ TrashLed'
  BY <1>1, LedStep
<1>4. ContentLed /\ TrashLed
  BY DEF Led
<1>5. ContentLed'
  <2>1. \A p \in DOMAIN content' : p \notin DOMAIN content => p # <<>> /\ Leads(h, p)
    OBVIOUS
  <2>2. ASSUME NEW p \in DOMAIN content', p # <<>>, p \in removing \/ LiveAt(p) \/ Covers(op[h], p)
        PROVE  Leads(h, p)
    BY <2>2, <1>3 DEF Leads
  <2> QED
    BY <2>1, <2>2, <1>4, ContentLedStep
<1>6. TrashLed'
  <2>1. Spares({})
    <3>1. \A i : i \in AtRisk' => i \in AtRisk \/ i \in op'[h].risk
      BY RiskStep
    <3>2. op[h].risk \subseteq AtRisk
      BY RiskStep
    <3> QED
      BY <1>2, <3>1, <3>2 DEF Spares, Binned
  <2>2. \A k \in Keys : \A x \in DOMAIN trash'[k] : x \in DOMAIN trash[k] /\ ~Brings(op[h], k, x)
    OBVIOUS
  <2>3. {} \subseteq AtRisk
    OBVIOUS
  <2> QED
    BY <2>1, <2>2, <2>3, <1>4, TrashLedStep
<1> QED
  BY <1>5, <1>6

\* A request that gives up has done nothing, or else it is noted.
LEMMA AbortLed ==
  ASSUME Orderly, Typed, Ledger, Shape, Disk, Led, Disk', NEW h \in Handlers,
         op[h].kind # "none", Abort(h), UNCHANGED <<rows, bins, disk, aside>>
  PROVE  Led'
<1>1. op'[h] = Idle /\ Others(h) /\ astray \subseteq astray' /\ Works(h)
  BY AbortStep, AbortWorks DEF Typed, Others, aside
<1>2. dirty' = (dirty \/ op[h].touched) /\ UNCHANGED <<rows, bins, trash, content, removing>>
  BY DEF Abort, disk
<1>3. Active(h)
  BY DEF Active
<1>4. JobLed(op[h])'
  <2>1. JobLed(Idle)'
    BY IdleLed DEF JobLed, Maker
  <2> QED
    BY <1>1, <2>1 DEF JobLed, Maker
<1>5. op'[h].risk = {}
  BY <1>1, IdleLed
<1>6. PICK j : j = op[h]
  OBVIOUS
<1>7. JobLed(j) /\ JobDisk(h) /\ j.touched \in BOOLEAN /\ dirty \in BOOLEAN
  BY <1>6, JobIs DEF Led, Disk, Typed, NotesOK
<1>8. ASSUME ~j.touched PROVE j.pc \notin {"remove", "commit"} /\ j.risk = {}
  BY <1>7, <1>8 DEF JobLed
<1>9. Clean' => ~j.touched
  BY <1>2, <1>6 DEF Clean
<1>10. ASSUME ~j.touched PROVE ~Nested(j) /\ (\A k, x : ~Brings(j, k, x)) /\ \A p : ~Covers(j, p)
  BY <1>8, <1>10 DEF Nested, Brings, Covers
<1>11. Clean' => ~Nested(op[h]) /\ (\A k, x : ~Brings(op[h], k, x)) /\ \A p : ~Covers(op[h], p)
  BY <1>6, <1>9, <1>10
<1> QED
  BY <1>1, <1>2, <1>3, <1>4, <1>5, <1>11, DiskOnlyLed

\* A request that begins accounts for nothing, and has done nothing.
LEMMA BeginLed ==
  ASSUME Orderly, Typed, Ledger, Shape, Disk, Led, Disk', NEW h \in Handlers, Others(h), Works(h),
         MayStart(h, op'[h].kind), UNCHANGED <<rows, bins, content, trash, removing, astray, dirty>>,
         op'[h].kind # "clean", op'[h].risk = {}, op'[h].pc \notin {"remove", "commit"},
         op'[h].kind = "upload" => DOMAIN op'[h].writes = {}, Maker(op'[h]) => op'[h].victim = 0,
         op'[h].kind = "encrypt" => op'[h].pc = "issue"
  PROVE  Led'
<1>1. op[h] = Idle
  BY DEF MayStart
<1>2. ~Nested(op[h]) /\ (\A k, x : ~Brings(op[h], k, x)) /\ \A p : ~Covers(op[h], p)
  BY <1>1, IdleLed
<1>3. JobLed(op[h])'
  <2>1. PICK k : k = op'[h]
    OBVIOUS
  <2>2. 0 \notin Present'
    BY DEF Present, Ids
  <2>3. Maker(k) => k.victim \notin Present'
    BY <2>1, <2>2
  <2>4. JobLed(k)'
    BY <2>1, <2>3 DEF JobLed, Maker
  <2> QED
    BY <2>1, <2>4 DEF JobLed, Maker
<1> QED
  BY <1>2, <1>3, DiskOnlyLed DEF Active

\* Beginning an upload or a new folder.
LEMMA CreationLed ==
  ASSUME Orderly, Typed, Ledger, Shape, Disk, Led, Disk', NEW h \in Handlers,
         NEW kind \in {"upload", "folder"}, NEW pc \in Before, NEW p, NEW name, NEW keep \in BOOLEAN, NEW extra,
         Creation(h, kind, pc, p, name, keep, extra), Others(h), Works(h)
  PROVE  Led'
<1>2. PICK path : path = PathOf(p) \o <<name>>
  OBVIOUS
<1>3. PICK depth : depth = IF p = 0 THEN 0 ELSE rows[p].depth + 1
  OBVIOUS
<1>5. PICK r : r = [Idle EXCEPT !.kind = kind, !.pc = pc, !.fs = nextRow, !.parent = p, !.root = RootOf(p),
                                !.path = path, !.depth = depth, !.extra = extra, !.keep = keep]
  OBVIOUS
<1>6. op' = [op EXCEPT ![h] = r]
  BY <1>2, <1>3, <1>5 DEF Creation
<1>7. op'[h] = r
  BY <1>6, Only DEF Typed
<1>8. r.kind = kind /\ r.pc = pc /\ r.victim = 0 /\ r.risk = {} /\ r.writes = Nothing
  BY <1>5 DEF Idle
<1>9. DOMAIN r.writes = {} /\ pc \notin {"remove", "commit"}
  BY <1>8, WritesAre DEF Before
<1>10. MayStart(h, kind) /\ UNCHANGED <<rows, bins, content, trash, removing, astray, dirty>>
  BY DEF Creation, disk
<1> QED
  BY <1>7, <1>8, <1>9, <1>10, BeginLed

\* Beginning to encrypt, to move to the bin, to restore and to delete for good.
LEMMA EncryptBeginLed ==
  ASSUME Orderly, Typed, Ledger, Shape, Disk, Led, Disk', NEW h \in Handlers, NEW i \in Ids, EncryptBegin(h, i)
  PROVE  Led'
<1>1. PICK e : e = Encrypted(rows[i].path)
  OBVIOUS
<1>2. PICK r : r = [Idle EXCEPT !.kind = "encrypt", !.pc = "issue", !.fs = i, !.path = e,
                                !.old = rows[i].path, !.extra = rows[i].size + 1]
  OBVIOUS
<1>3. r.kind = "encrypt" /\ r.pc = "issue" /\ r.risk = {}
  BY <1>2 DEF Idle
<1>4. op'[h] = r
  BY <1>1, <1>2, Only DEF EncryptBegin, Typed
<1>5. MayStart(h, "encrypt") /\ UNCHANGED <<rows, bins, content, trash, removing, astray, dirty>>
  BY DEF EncryptBegin, disk
<1>6. Others(h) /\ Works(h)
  BY EncryptBeginWorks
<1> QED
  BY <1>3, <1>4, <1>5, <1>6, BeginLed DEF Maker

LEMMA BinBeginLed ==
  ASSUME Orderly, Typed, Ledger, Shape, Disk, Led, Disk', NEW h \in Handlers, NEW i \in Ids, BinBegin(h, i)
  PROVE  Led'
<1>1. PICK r : r = [Idle EXCEPT !.kind = "bin", !.pc = "flip", !.fs = i, !.path = rows[i].path,
                                !.keep = rows[i].file, !.key = nextKey]
  OBVIOUS
<1>2. r.kind = "bin" /\ r.pc = "flip" /\ r.risk = {}
  BY <1>1 DEF Idle
<1>3. op'[h] = r
  <2>1. op' = [op EXCEPT ![h] = r]
    BY <1>1 DEF BinBegin
  <2> QED
    BY <2>1, Only DEF Typed
<1>4. MayStart(h, "bin") /\ UNCHANGED <<rows, bins, content, trash, removing, astray, dirty>>
  BY DEF BinBegin, disk
<1>5. Others(h) /\ Works(h)
  BY BinBeginWorks
<1> QED
  BY <1>2, <1>3, <1>4, <1>5, BeginLed DEF Maker

LEMMA ForgetBeginLed ==
  ASSUME Orderly, Typed, Ledger, Shape, Disk, Led, Disk', NEW h \in Handlers, NEW i \in Ids, ForgetBegin(h, i)
  PROVE  Led'
<1>1. PICK r : r = [Idle EXCEPT !.kind = "forget", !.pc = "move", !.fs = i, !.key = bins[i],
                                !.keep = rows[i].file]
  OBVIOUS
<1>2. r.kind = "forget" /\ r.pc = "move" /\ r.risk = {}
  BY <1>1 DEF Idle
<1>3. op'[h] = r
  <2>1. op' = [op EXCEPT ![h] = r]
    BY <1>1 DEF ForgetBegin
  <2> QED
    BY <2>1, Only DEF Typed
<1>4. MayStart(h, "forget") /\ UNCHANGED <<rows, bins, content, trash, removing, astray, dirty>>
  BY DEF ForgetBegin, disk
<1>5. Others(h) /\ Works(h)
  BY ForgetBeginWorks
<1> QED
  BY <1>2, <1>3, <1>4, <1>5, BeginLed DEF Maker

LEMMA RestoreBeginLed ==
  ASSUME Orderly, Typed, Ledger, Shape, Disk, Led, Disk', NEW h \in Handlers, NEW i \in Ids,
         NEW q \in 0 .. MaxRows, RestoreBegin(h, i, q)
  PROVE  Led'
<1>1. PICK p : p = PathOf(q) \o <<Name(i)>>
  OBVIOUS
<1>2. PICK root, depth : root = (IF q = 0 THEN 0 ELSE rows[q].root)
                         /\ depth = (IF q = 0 THEN 0 ELSE rows[q].depth + 1)
  OBVIOUS
<1>3. PICK r : r = [Idle EXCEPT !.kind = "restore", !.pc = "move", !.fs = i, !.parent = q,
                      !.root = root, !.path = p, !.old = rows[i].path, !.key = bins[i],
                      !.keep = rows[i].file, !.depth = depth]
  OBVIOUS
<1>4. r.kind = "restore" /\ r.pc = "move" /\ r.risk = {}
  BY <1>3 DEF Idle
<1>5. op'[h] = r
  <2>1. op' = [op EXCEPT ![h] = r]
    BY <1>1, <1>2, <1>3 DEF RestoreBegin
  <2> QED
    BY <2>1, Only DEF Typed
<1>6. MayStart(h, "restore") /\ UNCHANGED <<rows, bins, content, trash, removing, astray, dirty>>
  BY DEF RestoreBegin, disk
<1>7. Others(h) /\ Works(h)
  BY RestoreBeginWorks
<1> QED
  BY <1>4, <1>5, <1>6, <1>7, BeginLed DEF Maker

\* The storage limit and the number of a title.
LEMMA EarlyLed ==
  ASSUME Orderly, Typed, Ledger, Shape, Disk, Led, Disk', NEW h \in Handlers, NEW kind \in {"upload", "folder"},
         UploadQuota(h) \/ Match(h, kind) \/ Number(h, kind)
  PROVE  Led'
<1>1. /\ op[h].kind \in {"upload", "folder"} /\ op[h].pc \in {"quota", "match", "number"}
      /\ UNCHANGED <<rows, bins, content, trash, removing, nextKey, astray, dirty>>
      /\ Others(h) /\ Works(h)
  BY EarlyStep
<1>2. PICK j, k : j = op[h] /\ k = op'[h]
  OBVIOUS
<1>3. j.risk = {} /\ j.victim = 0 /\ (j.kind = "upload" => DOMAIN j.writes = {})
  BY <1>1, <1>2 DEF Disk, JobDisk, UploadDisk, Before
<1>4. k.risk = {} /\ JobLed(k)'
  <2>1. CASE k = Idle
    <3>1. Idle.risk = {} /\ JobLed(Idle)'
      BY IdleLed DEF JobLed, Maker
    <3> QED
      BY <2>1, <3>1 DEF JobLed, Maker
  <2>2. CASE /\ k.kind = j.kind /\ k.risk = j.risk /\ k.writes = j.writes
             /\ k.victim = j.victim /\ k.pc \in {"match", "number", "find", "write"}
    <3>1. k.victim \notin Present'
      BY <1>3, <2>2 DEF Present, Ids
    <3> QED
      BY <1>1, <1>2, <1>3, <2>2, <3>1 DEF JobLed, Maker
  <2> QED
    BY <1>2, <2>1, <2>2, EarlyStep
<1>5. JobLed(op[h])'
  BY <1>2, <1>4 DEF JobLed, Maker
<1>6. ~Nested(op[h]) /\ (\A k1, x : ~Brings(op[h], k1, x)) /\ \A p : ~Covers(op[h], p)
  BY <1>1 DEF Nested, Brings, Covers
<1> QED
  BY <1>1, <1>2, <1>3, <1>4, <1>5, <1>6, DiskOnlyLed DEF Active

\* Looking for what is at the path.
LEMMA FindLed ==
  ASSUME Orderly, Typed, Ledger, Shape, Disk, Led, Disk', NEW h \in Handlers,
         UploadFind(h) \/ FolderFind(h), Others(h), Works(h)
  PROVE  Led'
<1>1. PICK kind \in {"upload", "folder"}, after \in {"replace", "delete"} : Find(h, kind, after)
  BY DEF UploadFind, FolderFind
<1>2. /\ op[h].kind = kind /\ op[h].pc = "find"
      /\ UNCHANGED <<rows, bins, content, trash, removing, astray, dirty>>
  BY <1>1 DEF Find, At, disk
<1>3. PICK j, k : j = op[h] /\ k = op'[h]
  OBVIOUS
<1>4. /\ k.kind = kind /\ k.risk = j.risk /\ k.writes = j.writes /\ k.path = j.path
      /\ k.pc \in {"write", "replace", "delete"}
      /\ k.victim = j.victim \/ (k.victim \in Live /\ rows[k.victim].path = j.path)
  <2>1. CASE Goto(h, "write")
    BY <1>2, <1>3, <2>1, JobMoved DEF SameJob
  <2>2. ASSUME NEW v \in Live, rows[v].path = op[h].path, op' = [op EXCEPT ![h].victim = v, ![h].pc = after]
        PROVE  /\ k.kind = kind /\ k.risk = j.risk /\ k.writes = j.writes /\ k.path = j.path
               /\ k.pc = after /\ k.victim = v
    <3>1. PICK r : r = [op[h] EXCEPT !.victim = v, !.pc = after]
      OBVIOUS
    <3>2. r = k
      <4>1. op' = [op EXCEPT ![h] = r]
        BY <2>2, <3>1
      <4> QED
        BY <1>3, <4>1, Only DEF Typed
    <3>3. op[h] \in Job
      BY JobIs
    <3>4. /\ r.kind = op[h].kind /\ r.risk = op[h].risk /\ r.writes = op[h].writes /\ r.pc = after
          /\ r.path = op[h].path /\ r.victim = v
      BY <3>1, <3>3 DEF Job
    <3> QED
      BY <1>2, <1>3, <3>2, <3>4
  <2> QED
    BY <1>1, <1>3, <2>1, <2>2 DEF Find
<1>5. j.risk = {} /\ (kind = "upload" => DOMAIN j.writes = {})
  BY <1>2, <1>3 DEF Disk, JobDisk, UploadDisk
<1>6. Present' = Present /\ Live' = Live
  BY <1>2 DEF Present, Live
<1>7. JobLed(j)
  BY <1>3 DEF Led
<1>8. k.victim \in Present' => k.victim \in Live' /\ rows'[k.victim].path = k.path
  BY <1>2, <1>3, <1>4, <1>6, <1>7 DEF JobLed, Maker
<1>9. JobLed(k)'
  BY <1>4, <1>5, <1>8 DEF JobLed, Maker
<1>10. JobLed(op[h])'
  BY <1>3, <1>9 DEF JobLed, Maker
<1>11. ~Nested(op[h]) /\ (\A k1, x : ~Brings(op[h], k1, x)) /\ \A p : ~Covers(op[h], p)
  BY <1>2 DEF Nested, Brings, Covers
<1> QED
  BY <1>2, <1>3, <1>4, <1>5, <1>10, <1>11, DiskOnlyLed DEF Active

\* Deleting the file that an upload replaces.
LEMMA UploadReplaceLed ==
  ASSUME Orderly, Typed, Ledger, Shape, Disk, Led, Disk', NEW h \in Handlers, UploadReplace(h)
  PROVE  Led'
<1> DEFINE p == op[h].path
           v == op[h].victim
<1>1. /\ op[h].kind = "upload" /\ op[h].pc = "replace" /\ Others(h) /\ Works(h)
      /\ UNCHANGED <<rows, bins, trash, removing, nextRow, nextKey>>
  BY UploadReplaceWorks DEF UploadReplace, At, aside
<1>2. CASE v \in Live /\ ~Referred(v) /\ Exists(Front(p))
  <2>1. content' = Cut(p) /\ astray \subseteq astray' /\ dirty' = dirty
    BY <1>2 DEF UploadReplace
  <2>2. PICK r : r = [op[h] EXCEPT !.pc = "write", !.writes = [x \in {v} |-> None], !.risk = {v}, !.touched = TRUE]
    OBVIOUS
  <2>3. op'[h] = r
    <3>1. op' = [op EXCEPT ![h] = r]
      BY <1>2, <2>2 DEF UploadReplace
    <3> QED
      BY <3>1, Only DEF Typed
  <2>4. /\ r.kind = "upload" /\ r.pc = "write" /\ r.risk = {v} /\ r.victim = v /\ r.path = p
        /\ r.writes = [x \in {v} |-> None] /\ r.touched = TRUE
    BY <1>1, <2>2, JobIs DEF Job
  <2>5. Live' = Live /\ DOMAIN r.writes = {v}
    BY <1>1, <2>4 DEF Live, Present
  <2>6. rows'[v].path = p
    <3>1. v \in Present /\ JobLed(op[h])
      BY <1>2 DEF Live, Led
    <3> QED
      BY <1>1, <3>1 DEF JobLed, Maker
  <2>7. JobLed(r)'
    BY <1>2, <2>4, <2>5, <2>6 DEF JobLed, Maker
  <2>8. JobLed(op[h])'
    BY <2>3, <2>7 DEF JobLed, Maker
  <2>9. ~Nested(op[h]) /\ (\A k1, x : ~Brings(op[h], k1, x)) /\ \A q : ~Covers(op[h], q)
    BY <1>1 DEF Nested, Brings, Covers
  <2>10. \A q \in DOMAIN content' : q \in DOMAIN content
    BY <2>1 DEF Cut
  <2>11. op'[h].risk \subseteq op[h].risk \cup Live
    BY <1>2, <2>3, <2>4
  <2> QED
    BY <1>1, <2>1, <2>8, <2>9, <2>10, <2>11, DiskOnlyLed DEF Active
<1>3. CASE ~(v \in Live /\ ~Referred(v) /\ Exists(Front(p)))
  <2>1. Abort(h) /\ UNCHANGED <<rows, bins, disk, aside>>
    BY <1>3 DEF UploadReplace, disk
  <2> QED
    BY <1>1, <2>1, AbortLed
<1> QED
  BY <1>2, <1>3

\* A request that goes on to commit, touching the disk only, knows what it knew.
LEMMA MovedLed ==
  ASSUME Typed, Led, NEW h \in Handlers, SameJob(h), op[h].kind \in {"upload", "folder"},
         UNCHANGED rows, op'[h].touched = TRUE \/ (op'[h].pc = "write" /\ op'[h].risk = {})
  PROVE  JobLed(op[h])'
<1>1. PICK j, k : j = op[h] /\ k = op'[h]
  OBVIOUS
<1>2. Present' = Present /\ Live' = Live
  BY DEF Present, Live
<1>3. JobLed(j)
  BY <1>1 DEF Led
<1>4. /\ k.kind = j.kind /\ k.path = j.path /\ k.victim = j.victim /\ k.writes = j.writes
      /\ k.touched = TRUE \/ (k.pc = "write" /\ k.risk = {})
      /\ j.kind \in {"upload", "folder"}
  BY <1>1 DEF SameJob
<1>5. JobLed(k)'
  BY <1>1, <1>2, <1>3, <1>4 DEF JobLed, Maker
<1> QED
  BY <1>1, <1>5 DEF JobLed, Maker

\* Writing the uploaded file.
LEMMA UploadWriteLed ==
  ASSUME Orderly, Typed, Ledger, Shape, Disk, Led, Disk', NEW h \in Handlers, UploadWrite(h)
  PROVE  Led'
<1> DEFINE p == op[h].path
<1>1. /\ op[h].kind = "upload" /\ op[h].pc = "write" /\ Others(h) /\ Works(h)
      /\ UNCHANGED <<rows, bins, trash, removing, nextRow, nextKey>>
  BY DiskWorks DEF UploadWrite, At, aside
<1>2. CASE IsDir(Front(p)) /\ ~IsDir(p)
  <2>1. /\ content' = Put(p, File(op[h].fs)) /\ astray \subseteq astray' /\ dirty' = dirty
        /\ op' = [op EXCEPT ![h].pc = "commit", ![h].touched = TRUE]
    BY <1>2 DEF UploadWrite
  <2>2. SameJob(h) /\ op'[h].pc = "commit" /\ op'[h].touched = TRUE
    <3>1. SameJob(h) /\ op'[h].pc = "commit"
      BY <2>1, JobMoved
    <3>2. PICK r : r = [op[h] EXCEPT !.pc = "commit", !.touched = TRUE]
      OBVIOUS
    <3>3. op' = [op EXCEPT ![h] = r]
      BY <2>1, <3>2
    <3>4. op'[h] = r
      BY <3>3, Only DEF Typed
    <3>5. r.touched = TRUE
      BY <3>2, JobIs DEF Job
    <3> QED
      BY <3>1, <3>4, <3>5
  <2>3. JobLed(op[h])'
    BY <1>1, <2>2, MovedLed
  <2>4. ~Nested(op[h]) /\ (\A k1, x : ~Brings(op[h], k1, x)) /\ \A q : ~Covers(op[h], q)
    BY <1>1 DEF Nested, Brings, Covers
  <2>5. p # <<>> /\ Leads(h, p)
    <3>1. p \in Paths
      BY <1>1, JobIs DEF JobOK
    <3> QED
      BY <1>1, <2>2, <3>1 DEF Paths, Leads, Covers, SameJob
  <2>6. \A q \in DOMAIN content' : q \in DOMAIN content \/ q = p
    BY <2>1 DEF Put
  <2>7. op'[h].risk \subseteq op[h].risk \cup Live
    BY <2>2 DEF SameJob
  <2> HIDE DEF p
  <2> QED
    BY <1>1, <2>1, <2>3, <2>4, <2>5, <2>6, <2>7, DiskOnlyLed DEF Active
<1>3. CASE ~(IsDir(Front(p)) /\ ~IsDir(p))
  <2>1. Abort(h) /\ UNCHANGED <<rows, bins, disk, aside>>
    BY <1>3 DEF UploadWrite, disk
  <2> QED
    BY <1>1, <2>1, AbortLed
<1> QED
  BY <1>2, <1>3

\* Deleting from the disk what is at the path of a new folder.
LEMMA FolderRemoveLed ==
  ASSUME Orderly, Typed, Ledger, Shape, Disk, Led, Disk', NEW h \in Handlers, FolderRemove(h)
  PROVE  Led'
<1> DEFINE p == op[h].path
<1>1. /\ op[h].kind = "folder" /\ op[h].pc = "remove" /\ Others(h) /\ Works(h)
      /\ UNCHANGED <<rows, bins, trash, removing, nextRow, nextKey>>
  BY DiskWorks DEF FolderRemove, At, aside
<1>2. CASE Exists(p)
  <2>1. content' = Cut(p) /\ astray \subseteq astray' /\ dirty' = dirty /\ Goto(h, "write")
    BY <1>2 DEF FolderRemove
  <2>2. SameJob(h) /\ op'[h].pc = "write"
    BY <2>1, JobMoved
  <2>3. op[h].risk = {}
    BY <1>1 DEF Disk, JobDisk, UploadDisk
  <2>4. JobLed(op[h])'
    <3>1. op'[h].risk = {}
      BY <2>2, <2>3 DEF SameJob
    <3> QED
      BY <1>1, <2>2, <3>1, MovedLed
  <2>5. ~Nested(op[h]) /\ \A k1, x : ~Brings(op[h], k1, x)
    BY <1>1 DEF Nested, Brings
  <2>6. \A q \in DOMAIN content' : q \in DOMAIN content /\ ~Covers(op[h], q)
    BY <1>1, <2>1 DEF Cut, Covers
  <2>7. op'[h].risk \subseteq op[h].risk \cup Live
    BY <2>2 DEF SameJob
  <2> QED
    BY <1>1, <2>1, <2>4, <2>5, <2>6, <2>7, DiskOnlyLed DEF Active
<1>3. CASE ~Exists(p)
  <2>1. Abort(h) /\ UNCHANGED <<rows, bins, disk, aside>>
    BY <1>3 DEF FolderRemove, disk
  <2> QED
    BY <1>1, <2>1, AbortLed
<1> QED
  BY <1>2, <1>3

\* What is made on the way to a path is above it.
LEMMA MadeAbove ==
  ASSUME NEW p \in Seq(Names), NEW n \in 1 .. Len(p)
  PROVE  SubSeq(p, 1, n) # <<>> /\ Above(SubSeq(p, 1, n), p)
<1>1. Len(SubSeq(p, 1, n)) = n /\ n <= Len(p) /\ n # 0
  OBVIOUS
<1> QED
  BY <1>1 DEF Above

\* Making the directory of a new folder.
LEMMA FolderWriteLed ==
  ASSUME Orderly, Typed, Ledger, Shape, Disk, Led, Disk', NEW h \in Handlers, FolderWrite(h)
  PROVE  Led'
<1> DEFINE p == op[h].path
           made == {SubSeq(p, 1, n) : n \in 1 .. Len(p)}
<1>1. /\ op[h].kind = "folder" /\ op[h].pc = "write" /\ Others(h) /\ Works(h)
      /\ UNCHANGED <<rows, bins, trash, removing, nextRow, nextKey>>
  BY DiskWorks DEF FolderWrite, At, aside
<1>2. CASE Exists(p) \/ \A q \in made : Exists(q) => IsDir(q)
  <2>1. /\ content' = IF Exists(p) THEN content
                    ELSE [q \in DOMAIN content \cup made |->
                            IF q \in DOMAIN content THEN content[q] ELSE Dir]
        /\ op' = [op EXCEPT ![h].pc = "commit", ![h].touched = TRUE]
        /\ astray \subseteq astray' /\ dirty' = dirty
    BY <1>2 DEF FolderWrite
  <2>2. SameJob(h) /\ op'[h].pc = "commit" /\ op'[h].touched = TRUE
    <3>1. SameJob(h) /\ op'[h].pc = "commit"
      BY <2>1, JobMoved
    <3>2. PICK r : r = [op[h] EXCEPT !.pc = "commit", !.touched = TRUE]
      OBVIOUS
    <3>3. op' = [op EXCEPT ![h] = r]
      BY <2>1, <3>2
    <3>4. op'[h] = r
      BY <3>3, Only DEF Typed
    <3>5. r.touched = TRUE
      BY <3>2, JobIs DEF Job
    <3> QED
      BY <3>1, <3>4, <3>5
  <2>3. JobLed(op[h])'
    BY <1>1, <2>2, MovedLed
  <2>4. ~Nested(op[h]) /\ (\A k1, x : ~Brings(op[h], k1, x)) /\ \A q : ~Covers(op[h], q)
    BY <1>1 DEF Nested, Brings, Covers
  <2>5. ASSUME NEW q \in made PROVE q # <<>> /\ Leads(h, q)
    <3>1. PICK n \in 1 .. Len(p) : q = SubSeq(p, 1, n)
      OBVIOUS
    <3>2. p \in Seq(Names)
      BY JobIs
    <3>3. q # <<>> /\ Above(q, p)
      BY <3>1, <3>2, MadeAbove
    <3> QED
      BY <1>1, <2>2, <3>3 DEF Leads, Covers, SameJob
  <2>6. \A q \in DOMAIN content' : q \in DOMAIN content \/ q \in made
    <3> HIDE DEF made
    <3> QED
      BY <2>1
  <2>7. op'[h].risk \subseteq op[h].risk \cup Live
    BY <2>2 DEF SameJob
  <2> HIDE DEF p, made
  <2> QED
    BY <1>1, <2>1, <2>3, <2>4, <2>5, <2>6, <2>7, DiskOnlyLed DEF Active
<1>3. CASE ~(Exists(p) \/ \A q \in made : Exists(q) => IsDir(q))
  <2>1. Abort(h) /\ UNCHANGED <<rows, bins, disk, aside>>
    BY <1>3 DEF FolderWrite, disk
  <2> QED
    BY <1>1, <2>1, AbortLed
<1> QED
  BY <1>2, <1>3

-----------------------------------------------------------------------------
(* Encrypting.                                                             *)

\* Issuing the deletion of the old file.
LEMMA EncryptIssueLed ==
  ASSUME Orderly, Typed, Ledger, Shape, Disk, Led, Disk', NEW h \in Handlers, EncryptIssue(h)
  PROVE  Led'
<1>1. /\ op[h].kind = "encrypt" /\ op[h].pc = "issue" /\ Others(h) /\ Works(h)
      /\ UNCHANGED <<rows, bins, content, trash, astray, dirty>> /\ removing' = removing \cup {op[h].old}
  BY EncryptIssueWorks DEF EncryptIssue, At
<1>2. op[h].fs \in Live
  BY <1>1 DEF Disk, JobDisk, EncryptDisk
<1>3. PICK w, c : /\ c \in {"write", "throw"}
                  /\ op' = [op EXCEPT ![h].pc = c, ![h].risk = {op[h].fs}, ![h].touched = TRUE, ![h].writes = w]
  <2>1. PICK c : c = IF op[h].fs \in Live /\ ~rows[op[h].fs].enc THEN "write" ELSE "throw"
    OBVIOUS
  <2>2. PICK w : w = IF op[h].fs \notin Live \/ rows[op[h].fs].enc THEN Nothing
                     ELSE [x \in {op[h].fs} |-> [rows[op[h].fs] EXCEPT !.enc = TRUE, !.size = op[h].extra,
                                                                       !.path = op[h].path]]
    OBVIOUS
  <2>3. op' = [op EXCEPT ![h].pc = c, ![h].risk = {op[h].fs}, ![h].touched = TRUE, ![h].writes = w]
    BY <2>1, <2>2 DEF EncryptIssue
  <2> QED
    BY <2>1, <2>3
<1>4. PICK r : r = [op[h] EXCEPT !.pc = c, !.risk = {op[h].fs}, !.touched = TRUE, !.writes = w]
  OBVIOUS
<1>5. op' = [op EXCEPT ![h] = r]
  BY <1>3, <1>4
<1>6. op'[h] = r
  BY <1>5, Only DEF Typed
<1>7. r.kind = "encrypt" /\ r.pc = c /\ r.risk = {op[h].fs} /\ r.touched = TRUE /\ r.old = op[h].old
  BY <1>1, <1>4, JobIs DEF Job
<1>8. JobLed(r)'
  BY <1>1, <1>7 DEF JobLed, Maker
<1>9. JobLed(op[h])'
  BY <1>6, <1>8 DEF JobLed, Maker
<1>10. ~Nested(op[h]) /\ (\A k1, x : ~Brings(op[h], k1, x)) /\ \A q : ~Covers(op[h], q)
  BY <1>1 DEF Nested, Brings, Covers
<1>11. op'[h].risk \subseteq op[h].risk \cup Live
  BY <1>2, <1>6, <1>7
<1> QED
  BY <1>1, <1>9, <1>10, <1>11, DiskOnlyLed DEF Active

\* Writing the encrypted file.
LEMMA EncryptWriteLed ==
  ASSUME Orderly, Typed, Ledger, Shape, Disk, Led, Disk', NEW h \in Handlers, EncryptWrite(h)
  PROVE  Led'
<1> DEFINE p == op[h].path
<1>1. /\ op[h].kind = "encrypt" /\ op[h].pc \in {"write", "throw"} /\ Others(h) /\ Works(h)
      /\ UNCHANGED <<rows, bins, trash, removing, nextRow, nextKey>>
  BY DiskWorks DEF EncryptWrite, At, aside
<1>2. CASE IsDir(Front(p)) /\ ~IsDir(p) /\ op[h].pc = "write"
  <2>1. PICK f : f = [of |-> op[h].fs, enc |-> TRUE]
    OBVIOUS
  <2>2. content' = Put(p, f) /\ astray \subseteq astray' /\ (dirty => dirty') /\ Goto(h, "commit")
    BY <1>2, <2>1 DEF EncryptWrite
  <2>3. SameJob(h) /\ op'[h].pc = "commit" /\ op'[h].touched = op[h].touched
    <3>1. SameJob(h) /\ op'[h].pc = "commit"
      BY <2>2, JobMoved
    <3>2. op'[h] = [op[h] EXCEPT !.pc = "commit"]
      BY <2>2, GotoStep DEF Typed, Phases
    <3> QED
      BY <3>1, <3>2, JobIs DEF Job
  <2>4. PICK j, k : j = op[h] /\ k = op'[h]
    OBVIOUS
  <2>5. EncryptDisk(j) /\ JobLed(j)
    BY <2>4 DEF Disk, JobDisk, Led
  <2>6. /\ j.kind = "encrypt" /\ j.pc = "write" /\ k.kind = "encrypt" /\ k.pc = "commit" /\ k.old = j.old
        /\ k.path = j.path /\ k.touched = j.touched /\ k.risk = j.risk
    BY <1>1, <1>2, <2>3, <2>4 DEF SameJob
  <2>7. \A q \in DOMAIN content' : q \in DOMAIN content \/ q = p
    BY <2>2 DEF Put
  <2>8. j.touched
    BY <2>5, <2>6 DEF JobLed, EncryptDisk
  <2>9. j.old # j.path
    <3>1. ~Above(j.old, j.path) /\ j.path \in Seq(Names)
      BY <2>4, <2>5, <2>6, JobIs DEF EncryptDisk
    <3> QED
      BY <3>1, MovedSelf
  <2>10. JobLed(k)'
    <3>1. k.old \in DOMAIN content' => k.old \in removing'
      BY <1>1, <2>4, <2>5, <2>6, <2>7, <2>9 DEF JobLed
    <3> QED
      BY <2>6, <2>8, <3>1 DEF JobLed, Maker
  <2>11. JobLed(op[h])'
    BY <2>4, <2>10 DEF JobLed, Maker
  <2>12. ~Nested(op[h]) /\ (\A k1, x : ~Brings(op[h], k1, x)) /\ \A q : ~Covers(op[h], q)
    BY <1>1 DEF Nested, Brings, Covers
  <2>13. p # <<>> /\ Leads(h, p)
    <3>1. p \in Paths
      BY <1>1, JobIs DEF JobOK
    <3> QED
      BY <2>4, <2>6, <3>1 DEF Paths, Leads, Covers
  <2>14. op'[h].risk \subseteq op[h].risk \cup Live
    BY <2>4, <2>6
  <2> HIDE DEF p
  <2> QED
    BY <1>1, <2>2, <2>7, <2>11, <2>12, <2>13, <2>14, DiskOnlyLed DEF Active
<1>4. CASE IsDir(Front(p)) /\ ~IsDir(p) /\ op[h].pc = "throw"
  <2>1. op'[h] = Idle /\ astray \subseteq astray' /\ dirty' = TRUE
    <3>1. Done(h) /\ astray \subseteq astray' /\ dirty' = TRUE
      BY <1>4 DEF EncryptWrite
    <3> QED
      BY <3>1, DoneStep DEF Typed
  <2>2. JobLed(op[h])' /\ op'[h].risk = {}
    <3>1. Idle.risk = {} /\ JobLed(Idle)'
      BY IdleLed DEF JobLed, Maker
    <3> QED
      BY <2>1, <3>1 DEF JobLed, Maker
  <2>3. ~Clean'
    BY <2>1 DEF Clean
  <2> QED
    BY <1>1, <2>1, <2>2, <2>3, DiskOnlyLed DEF Active
<1>3. CASE ~(IsDir(Front(p)) /\ ~IsDir(p))
  <2>1. Abort(h) /\ UNCHANGED <<rows, bins, disk, aside>>
    BY <1>3 DEF EncryptWrite, disk
  <2> QED
    BY <1>1, <2>1, AbortLed
<1> QED
  BY <1>1, <1>2, <1>3, <1>4

\* The old file goes.
LEMMA RemoveOldLed ==
  ASSUME Typed, Led, NEW p \in removing, RemoveOld(p)
  PROVE  Led'
<1>1. /\ content' = Cut(p) /\ removing' = removing \ {p} /\ UNCHANGED <<rows, bins, trash, op, dirty>>
      /\ astray \subseteq astray'
  BY DEF RemoveOld
<1>2. p \in Seq(Names)
  BY DEF Typed, DiskOK
<1>3. \A q \in DOMAIN content' : q \in DOMAIN content /\ q # p
  <2>1. Above(p, p)
    BY <1>2, MovedSelf
  <2> QED
    BY <1>1, <2>1 DEF Cut
<1>4. Present' = Present /\ Live' = Live /\ Binned' = Binned /\ AtRisk' = AtRisk
  BY <1>1 DEF Present, Live, Binned, AtRisk
<1>5. Trees'
  BY <1>1 DEF Led, Trees
<1>6. ASSUME NEW g \in Handlers PROVE JobLed(op[g])'
  <2>1. PICK j : j = op[g]
    OBVIOUS
  <2>2. op'[g] = j /\ JobLed(j)
    BY <1>1, <2>1 DEF Led
  <2>3. JobLed(j)'
    BY <1>1, <1>3, <1>4, <2>2 DEF JobLed, Maker
  <2> QED
    BY <2>2, <2>3 DEF JobLed, Maker
<1>7. Clean' => Clean
  BY <1>1 DEF Clean, Nested
<1>8. ContentLed => ContentLed'
  <2> SUFFICES ASSUME ContentLed, NEW q \in DOMAIN content'
               PROVE  q # <<>> /\ (q \in removing' \/ LiveAt(q)' \/ \E g \in Handlers : Covers(op[g], q)')
    BY DEF ContentLed
  <2>1. q # <<>> /\ (q \in removing \/ LiveAt(q) \/ \E g \in Handlers : Covers(op[g], q)) /\ q # p
    BY <1>3 DEF ContentLed
  <2>2. LiveAt(q) => LiveAt(q)'
    BY <1>1, <1>4 DEF LiveAt
  <2>3. ASSUME NEW g \in Handlers, Covers(op[g], q) PROVE Covers(op[g], q)'
    BY <1>1, <2>3 DEF Covers
  <2> QED
    BY <1>1, <2>1, <2>2, <2>3
<1>9. TrashLed => TrashLed'
  <2> SUFFICES ASSUME TrashLed, NEW k \in Keys, NEW x \in DOMAIN trash[k]
               PROVE  Carried(k, x)' \/ \E g \in Handlers : Brings(op[g], k, x)'
    BY <1>1 DEF TrashLed
  <2>1. Carried(k, x) => Carried(k, x)'
    BY <1>1, <1>4 DEF Carried, Held, Chain
  <2>2. ASSUME NEW g \in Handlers, Brings(op[g], k, x) PROVE Brings(op[g], k, x)'
    BY <1>1, <2>2 DEF Brings
  <2> QED
    BY <2>1, <2>2 DEF TrashLed
<1> QED
  BY <1>5, <1>6, <1>7, <1>8, <1>9 DEF Led

-----------------------------------------------------------------------------
(* Rows that come and go.                                                  *)

\* What is above the path of a live row is the path of one.
PrefixesLive ==
    \A i \in Live : \A p \in Seq(Names) : p # <<>> /\ Above(p, rows[i].path) => LiveAt(p)

LEMMA LiveAbove == Typed /\ Shape => PrefixesLive
<1> SUFFICES ASSUME Typed, Shape, NEW i \in Live, NEW p \in Seq(Names), p # <<>>, Above(p, rows[i].path),
                    ~LiveAt(p)
             PROVE  FALSE
  BY DEF PrefixesLive
<1>1. PICK X : X = {j \in Live : Above(p, rows[j].path)}
  OBVIOUS
<1>2. ASSUME NEW j \in X PROVE rows[j].parent \in X
  <2>1. j \in Live /\ j \in Present /\ Above(p, rows[j].path)
    BY <1>1, RowsAre DEF Typed
  <2>2. rows[j].path # p
    BY <2>1 DEF LiveAt
  <2>3. rows[j].path \in Seq(Names)
    BY <2>1, RowsAre DEF Typed, FullRow, Paths
  <2>4. CASE rows[j].parent = 0
    <3>1. Len(rows[j].path) = 1
      BY <2>1, <2>4 DEF Shape, Hangs
    <3>2. Len(p) \in Nat /\ Len(p) # 0
      BY EmptySeq, LenProperties
    <3>3. PICK n : n = Len(p)
      OBVIOUS
    <3>4. n \in Nat /\ n # 0 /\ n <= 1
      BY <2>1, <3>1, <3>2, <3>3 DEF Above
    <3>5. Len(p) = Len(rows[j].path)
      BY <3>1, <3>3, <3>4
    <3> QED
      BY <2>1, <2>2, <2>3, <3>5, AboveSame
  <2>5. CASE rows[j].parent # 0
    <3>1. PICK q : q = rows[j].parent
      OBVIOUS
    <3>2. /\ q \in Live /\ rows[j].path = Append(rows[q].path, Name(j))
          /\ rows[q].path \in Seq(Names) /\ Name(j) \in Names
      BY <2>1, <2>5, <3>1, HangsUnder
    <3>3. Above(p, rows[q].path)
      BY <2>1, <2>2, <3>2, AboveFront
    <3> QED
      BY <1>1, <3>1, <3>2, <3>3
  <2> QED
    BY <2>4, <2>5
<1>3. X \in SUBSET Present
  BY <1>1, RowsAre DEF Typed
<1>4. X = {}
  BY <1>2, <1>3, NoDescent
<1> QED
  BY <1>1, <1>4

\* Deleting live rows, and adding others than were there, when h accounts for what
\* lies where those were.
LEMMA ThinnedLed ==
  ASSUME Orderly, Typed, Ledger, Shape, Disk, Led, Disk', NEW h \in Handlers,
         Others(h), Works(h), Maker(op[h]), op'[h].risk = {},
         NEW D, D \subseteq Live, NEW N, N \cap Present = {},
         \A i \in Ids : i \notin N => rows'[i] = Without(rows, D)[i],
         UNCHANGED <<bins, content, trash, removing, dirty>>, astray \subseteq astray', JobLed(op[h])',
         \A p \in DOMAIN content : p # <<>> /\ Covers(op[h], p) => Leads(h, p),
         \A p \in DOMAIN content : \A i \in D : rows[i].path = p => Leads(h, p)
  PROVE  Led'
<1>1. \A i : i \in AtRisk' => i \in AtRisk
  BY RiskStep
<1>2. Spares({})
  BY <1>1, Thinned
<1>3. Trees'
  BY DEF Led, Trees
<1>4. ~Nested(op[h]) /\ (\A k, x : ~Brings(op[h], k, x)) /\ Active(h)
  BY DEF Nested, Brings, Maker, Active
<1> SUFFICES ASSUME Clean, Clean' PROVE ContentLed' /\ TrashLed'
  BY <1>3, <1>4, LedStep
<1>5. ContentLed /\ TrashLed
  BY DEF Led
<1>6. ASSUME NEW p \in DOMAIN content', p # <<>>, p \in removing \/ LiveAt(p) \/ Covers(op[h], p)
      PROVE  Leads(h, p)
  <2>1. CASE p \in removing \/ Covers(op[h], p)
    BY <1>6, <2>1 DEF Leads
  <2>2. ASSUME NEW i \in Live, rows[i].path = p PROVE Leads(h, p)
    <3>1. CASE i \in D
      BY <1>6, <2>2, <3>1
    <3>2. CASE i \notin D
      <4>1. i \in Present /\ i \in Ids /\ i \notin N
        BY RowsAre DEF Typed
      <4>2. rows'[i] = Without(rows, D)[i]
        BY <4>1
      <4>3. rows'[i] # None /\ rows'[i].path = rows[i].path /\ rows'[i].inBin = rows[i].inBin
        <5>1. rows[i] # None
          BY <4>1 DEF Present
        <5>2. LET r == Without(rows, D)[i]
              IN r # None /\ r.path = rows[i].path /\ r.inBin = rows[i].inBin
          BY <3>2, <4>1, <5>1, WithoutKept
        <5> QED
          BY <4>2, <5>2
      <4>4. i \in Live'
        BY <4>1, <4>3 DEF Live, Present
      <4> QED
        BY <2>2, <4>3, <4>4 DEF Leads, LiveAt
    <3> QED
      BY <3>1, <3>2
  <2> QED
    BY <1>6, <2>1, <2>2 DEF LiveAt
<1>7. ContentLed'
  <2>1. \A p \in DOMAIN content' : p \notin DOMAIN content => p # <<>> /\ Leads(h, p)
    OBVIOUS
  <2> QED
    BY <1>4, <1>5, <1>6, <2>1, ContentLedStep
<1>8. TrashLed'
  <2>1. \A k \in Keys : \A x \in DOMAIN trash'[k] : x \in DOMAIN trash[k] /\ ~Brings(op[h], k, x)
    BY <1>4
  <2>2. {} \subseteq AtRisk
    OBVIOUS
  <2> QED
    BY <1>2, <1>4, <1>5, <2>1, <2>2, TrashLedStep
<1> QED
  BY <1>7, <1>8

\* Inserting the row that was made, which leads to what was put at its path.
LEMMA InsertLed ==
  ASSUME Orderly, Typed, Ledger, Shape, Disk, Led, Typed', Shape', Disk', NEW h \in Handlers,
         UploadCommit(h) \/ FolderCommit(h)
  PROVE  Led'
<1> DEFINE file == op[h].kind = "upload"
           w == op[h].writes
           p == op[h].parent
<1>0. PICK i : i = op[h].fs
  OBVIOUS
<1>1. /\ op[h].kind \in {"upload", "folder"} /\ op[h].pc = "commit" /\ Others(h) /\ Works(h)
      /\ Insert(h, file)
  BY InsertWorks DEF UploadCommit, FolderCommit, At
<1>2. UNCHANGED <<content, trash, removing, nextRow, nextKey>>
  BY <1>1 DEF Insert, disk, aside
<1>3. CASE p \in (Present \ DOMAIN w) \cup {0}
  <2>1. Store([Without(rows, DOMAIN w) EXCEPT ![i] = NewRow(h, file)], bins) /\ Done(h) /\ dirty' = dirty
    BY <1>0, <1>1, <1>3 DEF Insert
  <2>2. op'[h] = Idle /\ op'[h].risk = {}
    BY <2>1, DoneStep, IdleLed DEF Typed
  <2>3. /\ rows' = [Without(rows, DOMAIN w) EXCEPT ![i] = NewRow(h, file)]
        /\ bins' = bins /\ astray \subseteq astray'
    BY <2>1 DEF Store
  <2>4. DOMAIN w \subseteq Live
    <3>1. op[h].kind = "folder" => DOMAIN w = {}
      BY DEF Ledger, LocksOf
    <3>2. UploadDisk(op[h])
      BY DEF Disk, JobDisk
    <3> QED
      BY <1>1, <3>1, <3>2 DEF UploadDisk
  <2>5. i \notin Present /\ i \in Ids
    BY <1>0, <1>1, JobIs DEF Ledger, NumbersOf, Maker, JobOK
  <2>6. \A x \in Ids : x \notin {i} => rows'[x] = Without(rows, DOMAIN w)[x]
    BY <2>3 DEF Without
  <2>7. rows'[i] = NewRow(h, file)
    BY <2>3, <2>5 DEF Without
  <2>8. rows'[i].path = op[h].path /\ rows'[i].inBin = FALSE
    BY <2>7 DEF NewRow
  <2>9. rows'[i] # None
    <3>1. NewRow(h, file) \in FullRow
      <4>1. op[h].path \in Paths /\ file \in BOOLEAN
        BY <1>1, JobIs DEF JobOK
      <4> QED
        BY <4>1, JobIs DEF NewRow, FullRow
    <3> QED
      BY <2>7, <3>1, NoneIsNoRow
  <2>10. i \in Live'
    BY <2>5, <2>8, <2>9 DEF Live, Present
  <2>11. ASSUME NEW q \in DOMAIN content, q # <<>>, Above(q, op[h].path) PROVE Leads(h, q)
    <3>1. PrefixesLive'
      BY LiveAbove, PTL
    <3>2. q \in Seq(Names)
      BY DEF Typed, DiskOK, Lies
    <3>3. LiveAt(q)'
      BY <2>8, <2>10, <2>11, <3>1, <3>2 DEF PrefixesLive
    <3> QED
      BY <3>3 DEF Leads
  <2>12. Above(op[h].path, op[h].path)
    BY JobIs, MovedSelf
  <2>13. \A q \in DOMAIN content : q # <<>> /\ Covers(op[h], q) => Leads(h, q)
    BY <1>1, <2>11, <2>12 DEF Covers
  <2>14. ASSUME NEW q \in DOMAIN content, NEW x \in DOMAIN w, rows[x].path = q PROVE Leads(h, q)
    <3>1. op[h].kind = "upload" /\ JobLed(op[h])
      BY <1>1 DEF Ledger, LocksOf, Led
    <3>2. q = op[h].path
      BY <2>14, <3>1 DEF JobLed
    <3> QED
      BY <2>8, <2>10, <3>2 DEF Leads, LiveAt
  <2>15. JobLed(op[h])'
    <3>1. JobLed(Idle)'
      BY IdleLed DEF JobLed, Maker
    <3> QED
      BY <2>2, <3>1 DEF JobLed, Maker
  <2>16. {i} \cap Present = {} /\ Maker(op[h])
    BY <1>1, <2>5 DEF Maker
  <2> HIDE DEF w
  <2> QED
    BY <1>1, <1>2, <2>1, <2>2, <2>3, <2>4, <2>6, <2>13, <2>14, <2>15, <2>16, ThinnedLed
<1>4. CASE p \notin (Present \ DOMAIN w) \cup {0}
  <2>1. Abort(h) /\ UNCHANGED <<rows, bins, disk, aside>>
    BY <1>1, <1>4 DEF Insert
  <2> QED
    BY <1>1, <2>1, AbortLed
<1> QED
  BY <1>3, <1>4

\* Deleting the rows that a new folder replaces, but not yet what lies at its path.
LEMMA FolderDeleteLed ==
  ASSUME Orderly, Typed, Ledger, Shape, OddNoted, Disk, Led, Disk', NEW h \in Handlers, FolderDelete(h)
  PROVE  Led'
<1> DEFINE D == Tree(op[h].victim, FALSE)
<1>1. /\ op[h].kind = "folder" /\ op[h].pc = "delete" /\ Others(h) /\ Works(h)
      /\ UNCHANGED <<content, trash, removing, nextRow, nextKey>>
  BY FolderDeleteWorks DEF FolderDelete, At, disk, aside
<1>2. CASE \E i \in D : Referred(i)
  <2>1. Abort(h) /\ UNCHANGED <<rows, bins, disk, aside>>
    BY <1>2 DEF FolderDelete
  <2> QED
    BY <1>1, <2>1, AbortLed
<1>3. CASE ~\E i \in D : Referred(i)
  <2>1. /\ Store(Without(rows, D), bins) /\ op' = [op EXCEPT ![h].pc = "remove", ![h].touched = TRUE]
        /\ dirty' = dirty
    BY <1>3 DEF FolderDelete
  <2>2. SameJob(h) /\ op'[h].pc = "remove" /\ op'[h].touched = TRUE
    <3>1. SameJob(h) /\ op'[h].pc = "remove"
      BY <2>1, JobMoved
    <3>2. PICK r : r = [op[h] EXCEPT !.pc = "remove", !.touched = TRUE]
      OBVIOUS
    <3>3. op' = [op EXCEPT ![h] = r]
      BY <2>1, <3>2
    <3>4. op'[h] = r
      BY <3>3, Only DEF Typed
    <3>5. r.touched = TRUE
      BY <3>2, JobIs DEF Job
    <3> QED
      BY <3>1, <3>4, <3>5
  <2>3. PICK j, k : j = op[h] /\ k = op'[h]
    OBVIOUS
  <2>4. /\ j.kind = "folder" /\ k.kind = "folder" /\ k.pc = "remove" /\ k.touched = TRUE
        /\ k.path = j.path /\ k.victim = j.victim /\ k.risk = j.risk
    BY <1>1, <2>2, <2>3 DEF SameJob
  <2>5. j.risk = {} /\ JobLed(j)
    BY <2>3, <2>4 DEF Disk, JobDisk, UploadDisk, Led
  <2>6. D \subseteq Live
    BY LiveTree
  <2>7. rows' = Without(rows, D) /\ bins' = bins /\ astray \subseteq astray'
    BY <2>1 DEF Store
  <2>8. ASSUME NEW i \in D PROVE Above(j.path, rows[i].path)
    <3>1. PICK v : v = j.victim
      OBVIOUS
    <3>2. D = Tree(v, FALSE)
      BY <2>3, <3>1
    <3>3. v \in Live
      <4> SUFFICES ASSUME v \notin Live PROVE FALSE
        OBVIOUS
      <4>1. v \notin Tree(v, FALSE)
        BY <2>6, <3>2
      <4>2. Tree(v, FALSE) \in SUBSET Present /\ \A x \in Tree(v, FALSE) : rows[x].parent \in Tree(v, FALSE)
        BY <4>1, TreeIs
      <4>3. Tree(v, FALSE) = {}
        BY <4>2, NoDescent
      <4> QED
        BY <2>8, <3>2, <4>3
    <3>4. rows[v].path = j.path
      BY <2>4, <2>5, <3>1, <3>3, RowsAre DEF JobLed, Maker, Typed
    <3>5. \A x \in Tree(v, FALSE) : Above(rows[v].path, rows[x].path)
      BY <3>3, LiveTreeIs
    <3> QED
      BY <3>2, <3>4, <3>5
  <2>9. k.victim \notin Present'
    <3>1. PICK v : v = j.victim
      OBVIOUS
    <3> SUFFICES ASSUME v \in Present' PROVE FALSE
      BY <2>4, <3>1
    <3>2. v \in Ids /\ rows'[v] # None
      BY DEF Present
    <3>3. rows'[v] = Without(rows, D)[v]
      BY <2>7
    <3>4. v \in Present /\ v \notin D
      BY <3>2, <3>3 DEF Without, Present
    <3>5. v \in Live
      BY <2>4, <2>5, <3>1, <3>4 DEF JobLed, Maker
    <3>6. v \in Tree(v, FALSE)
      BY <3>5, LiveTreeIs
    <3> QED
      BY <2>3, <3>1, <3>4, <3>6
  <2>10. JobLed(k)'
    BY <2>4, <2>9 DEF JobLed, Maker
  <2>11. JobLed(op[h])'
    BY <2>3, <2>10 DEF JobLed, Maker
  <2>12. \A q \in DOMAIN content : \A i \in D : rows[i].path = q => Leads(h, q)
    <3> SUFFICES ASSUME NEW q \in DOMAIN content, NEW i \in D, rows[i].path = q PROVE Leads(h, q)
      OBVIOUS
    <3>1. Above(k.path, q)
      BY <2>4, <2>8
    <3> QED
      BY <2>3, <2>4, <3>1 DEF Leads, Covers
  <2>13. \A q \in DOMAIN content : q # <<>> /\ Covers(op[h], q) => Leads(h, q)
    BY <1>1 DEF Covers
  <2> HIDE DEF D
  <2>14. \A i \in Ids : i \notin {} => rows'[i] = Without(rows, D)[i]
    BY <2>7
  <2>15. {} \cap Present = {} /\ Maker(op[h]) /\ op'[h].risk = {}
    BY <1>1, <2>3, <2>4, <2>5 DEF Maker
  <2> QED
    BY <1>1, <2>1, <2>6, <2>7, <2>11, <2>12, <2>13, <2>14, <2>15, ThinnedLed
<1> QED
  BY <1>2, <1>3

-----------------------------------------------------------------------------
(* To the bin.                                                             *)

\* The rows go to the bin, and the request accounts for what lies at their paths.
LEMMA BinFlipLed ==
  ASSUME Orderly, Typed, Ledger, Shape, OddNoted, Disk, Led, Disk', NEW h \in Handlers, BinFlip(h)
  PROVE  Led'
<1>1. PICK f : f = op[h].fs
  OBVIOUS
<1>2. PICK T : T = Tree(f, FALSE)
  OBVIOUS
<1>3. PICK j : j = op[h]
  OBVIOUS
<1>4. /\ j.kind = "bin" /\ j.pc = "flip" /\ BinDisk(j) /\ Others(h) /\ Works(h) /\ Lone(op[h])
      /\ op[h].kind # "none"
  BY <1>3, BinFlipWorks DEF BinFlip, At, Disk, JobDisk, Lone
<1>5. f \in Live /\ j.risk = {}
  BY <1>1, <1>3, <1>4 DEF BinDisk
<1>6. PICK k : k = [j EXCEPT !.pc = "move", !.risk = T, !.touched = TRUE]
  OBVIOUS
<1>7. op'[h] = k
  <2>1. op' = [op EXCEPT ![h] = k]
    BY <1>1, <1>2, <1>3, <1>6 DEF BinFlip
  <2> QED
    BY <2>1, Only DEF Typed
<1>8. k.kind = "bin" /\ k.pc = "move" /\ k.risk = T /\ k.touched = TRUE
  BY <1>1, <1>3, <1>4, <1>6, JobIs DEF Job
<1>9. /\ rows' = [i \in Ids |-> IF i \in T THEN [rows[i] EXCEPT !.inBin = TRUE] ELSE rows[i]]
      /\ bins' = bins /\ astray \subseteq astray' /\ UNCHANGED <<content, trash, removing, dirty>>
  BY <1>1, <1>2 DEF BinFlip, Store, disk
<1>10. T \subseteq Live
  BY <1>2, <1>5, LiveTreeIs
<1>11. ASSUME NEW i \in Present
       PROVE  /\ i \in Present' /\ rows'[i].path = rows[i].path /\ rows'[i].enc = rows[i].enc
              /\ rows'[i].file = rows[i].file /\ rows'[i].parent = rows[i].parent
              /\ rows'[i].inBin = IF i \in T THEN TRUE ELSE rows[i].inBin
  <2>1. i \in Ids /\ rows[i] \in FullRow /\ rows[i] # None
    BY RowsAre DEF Typed, Present
  <2>2. [rows[i] EXCEPT !.inBin = TRUE] \in FullRow
    BY <2>1 DEF FullRow
  <2>3. [rows[i] EXCEPT !.inBin = TRUE] # None
    BY <2>2, NoneIsNoRow
  <2>4. rows'[i] = IF i \in T THEN [rows[i] EXCEPT !.inBin = TRUE] ELSE rows[i]
    BY <1>9, <2>1
  <2> QED
    BY <2>1, <2>3, <2>4 DEF FullRow, Present
<1>12. \A i \in Live : i \notin T => i \in Live'
  BY <1>11 DEF Live
<1>13. AtRisk' = T
  <2>1. \A g \in Handlers \ {h} : op'[g] = op[g] /\ op[g].risk = {}
    BY <1>4, RiskAlone DEF Others
  <2> QED
    BY <1>7, <1>8, <2>1 DEF AtRisk
<1>14. Spares({})
  <2>1. \A x \in Binned : x \in Present /\ x \notin T /\ x \notin Live
    BY <1>10 DEF Binned
  <2>2. \A x \in Binned : x \in Binned'
    BY <1>11, <2>1 DEF Binned, Live
  <2> QED
    BY <1>9, <1>11, <1>13, <2>1, <2>2 DEF Spares
<1>15. Trees'
  BY <1>9 DEF Led, Trees
<1>16. JobLed(op[h])'
  <2>1. JobLed(k)'
    BY <1>8 DEF JobLed, Maker
  <2> QED
    BY <1>7, <2>1 DEF JobLed, Maker
<1>17. /\ ~Nested(op[h]) /\ (\A y, x : ~Brings(op[h], y, x)) /\ (\A p : ~Covers(op[h], p))
       /\ Active(h)
  BY <1>3, <1>4 DEF Nested, Brings, Covers, Active
<1> SUFFICES ASSUME Clean, Clean' PROVE ContentLed' /\ TrashLed'
  BY <1>4, <1>9, <1>15, <1>16, <1>17, LedStep
<1>18. ContentLed /\ TrashLed
  BY DEF Led
<1>19. ASSUME NEW p \in DOMAIN content', p # <<>>, p \in removing \/ LiveAt(p) \/ Covers(op[h], p)
       PROVE  Leads(h, p)
  <2>1. CASE p \in removing
    BY <1>9, <2>1 DEF Leads
  <2>2. ASSUME NEW i \in Live, rows[i].path = p PROVE Leads(h, p)
    <3>1. rows'[i].path = p
      BY <1>11, <2>2 DEF Live
    <3>2. CASE i \in T
      <4>1. Covers(k, p)'
        BY <1>8, <3>1, <3>2 DEF Covers
      <4> QED
        BY <1>7, <4>1 DEF Leads, Covers
    <3>3. CASE i \notin T
      BY <1>12, <3>1, <3>3 DEF Leads, LiveAt
    <3> QED
      BY <3>2, <3>3
  <2> QED
    BY <1>17, <1>19, <2>1, <2>2 DEF LiveAt
<1>20. ContentLed'
  <2>1. \A p \in DOMAIN content' : p \notin DOMAIN content => p # <<>> /\ Leads(h, p)
    BY <1>9
  <2> QED
    BY <1>4, <1>17, <1>18, <1>19, <2>1, ContentLedStep
<1>21. TrashLed'
  <2>1. \A y \in Keys : \A x \in DOMAIN trash'[y] : x \in DOMAIN trash[y] /\ ~Brings(op[h], y, x)
    BY <1>9, <1>17
  <2>2. {} \subseteq AtRisk
    OBVIOUS
  <2> QED
    BY <1>4, <1>14, <1>17, <1>18, <2>1, <2>2, TrashLedStep
<1> QED
  BY <1>20, <1>21

\* What is taken from a path lay below it, and if nothing did there is nothing.
LEMMA TakenFrom ==
  ASSUME Typed, NEW p \in Seq(Names)
  PROVE  /\ \A x \in DOMAIN Taken(p) : p \o x \in DOMAIN content /\ Above(p, p \o x)
         /\ DOMAIN Taken(p) = {} => Taken(p) = Nothing
<1>1. ASSUME NEW x \in DOMAIN Taken(p) PROVE p \o x \in DOMAIN content /\ Above(p, p \o x)
  <2>1. PICK y \in DOMAIN content : Above(p, y) /\ x = Rest(p, y)
    BY DEF Taken
  <2>2. y \in Seq(Names)
    BY DEF Typed, DiskOK, Lies
  <2>3. y = p \o x
    BY <2>1, <2>2, PathOps
  <2> QED
    BY <2>1, <2>3
<1>2. DOMAIN Taken(p) = {} => Taken(p) = Nothing
  <2>1. PICK D : D = {Rest(p, x) : x \in {y \in DOMAIN content : Above(p, y)}}
    OBVIOUS
  <2>2. Taken(p) = [q \in D |-> content[p \o q]]
    BY <2>1 DEF Taken
  <2> QED
    BY <2>2 DEF Nothing
<1> QED
  BY <1>1, <1>2

\* What lay under the path is in the directory of the key, and the request brings it.
LEMMA BinMoveLed ==
  ASSUME Orderly, Typed, Ledger, Shape, Disk, Led, Disk', NEW h \in Handlers, BinMove(h)
  PROVE  Led'
<1>1. PICK j : j = op[h]
  OBVIOUS
<1>2. PICK p : p = j.path
  OBVIOUS
<1>3. /\ j.kind = "bin" /\ j.pc = "move" /\ BinDisk(j) /\ Others(h) /\ Works(h) /\ Lone(op[h])
      /\ op[h].kind # "none" /\ j.key \in Keys /\ p \in Seq(Names)
  BY <1>1, <1>2, DiskWorks, JobIs DEF BinMove, At, Disk, JobDisk, Lone, JobOK
<1>4. /\ p = rows[j.fs].path /\ \A i \in Ids : bins[i] # j.key
      /\ \A i \in j.risk \ astray : \E S \in SUBSET Ids : Chain(j.fs, i, S)
      /\ \A i \in Live \ astray : ~Above(p, rows[i].path)
  BY <1>2, <1>3 DEF BinDisk
<1>5. CASE Exists(p) /\ (j.keep \/ IsDir(p))
  <2>1. /\ content' = Cut(p) /\ trash' = [trash EXCEPT ![j.key] = Taken(p)] /\ Goto(h, "insert")
        /\ astray' = astray /\ UNCHANGED <<rows, bins, removing>>
        /\ dirty => dirty'
    BY <1>1, <1>2, <1>5 DEF BinMove
  <2>2. SameJob(h) /\ op'[h].pc = "insert" /\ op'[h].touched = op[h].touched
    <3>1. SameJob(h) /\ op'[h].pc = "insert"
      BY <2>1, JobMoved
    <3>2. op'[h] = [op[h] EXCEPT !.pc = "insert"]
      BY <2>1, GotoStep DEF Typed, Phases
    <3> QED
      BY <3>1, <3>2, JobIs DEF Job
  <2>3. PICK k : k = op'[h]
    OBVIOUS
  <2>4. /\ k.kind = "bin" /\ k.pc = "insert" /\ k.fs = j.fs /\ k.path = p /\ k.key = j.key
        /\ k.risk = j.risk /\ k.touched = j.touched
    BY <1>1, <1>2, <1>3, <2>2, <2>3 DEF SameJob
  <2>5. Live' = Live /\ Binned' = Binned /\ Present' = Present
    BY <2>1 DEF Live, Binned, Present
  <2>6. AtRisk' = AtRisk
    <3>1. \A g \in Handlers : op'[g].risk = op[g].risk
      BY <1>1, <1>3, <2>3, <2>4 DEF Others
    <3> QED
      BY <3>1 DEF AtRisk
  <2>7. trash'[j.key] = Taken(p) /\ \A x \in Keys : x # j.key => trash'[x] = trash[x]
    BY <1>3, <2>1 DEF Typed, DiskOK
  <2>8. Spares({})
    <3>1. \A i \in Binned : bins[i] # 0 => bins[i] \in Keys /\ bins[i] # j.key
      BY <1>4, BinnedIs DEF Typed, TablesOK, Keys
    <3> QED
      BY <2>1, <2>5, <2>6, <2>7, <3>1 DEF Spares
  <2>9. Trees'
    BY <1>3, <2>7, TakenFrom DEF Led, Trees
  <2>10. JobLed(op[h])'
    <3>1. JobLed(j)
      BY <1>1 DEF Led
    <3>2. JobLed(k)'
      BY <2>4, <3>1 DEF JobLed, Maker
    <3> QED
      BY <2>3, <3>2 DEF JobLed, Maker
  <2>11. ~Nested(op[h]) /\ (\A y, x : ~Brings(op[h], y, x)) /\ Active(h)
    BY <1>1, <1>3 DEF Nested, Brings, Active
  <2> SUFFICES ASSUME Clean, Clean' PROVE ContentLed' /\ TrashLed'
    BY <1>3, <2>1, <2>9, <2>10, <2>11, LedStep
  <2>12. ContentLed /\ TrashLed
    BY DEF Led
  <2>13. astray = {}
    BY DEF Clean
  <2>14. ASSUME NEW q, Covers(j, q) PROVE Above(p, q) /\ \E i \in j.risk : rows[i].path = q
    <3>1. PICK i \in j.risk : rows[i].path = q
      BY <1>3, <2>14 DEF Covers
    <3>2. PICK S \in SUBSET Ids : Chain(j.fs, i, S)
      BY <1>4, <2>13, <3>1
    <3> QED
      BY <1>4, <3>1, <3>2, ChainAbove
  <2>15. ContentLed'
    <3>1. \A q \in DOMAIN content' : q \in DOMAIN content /\ ~Above(p, q)
      BY <2>1 DEF Cut
    <3>2. \A q \in DOMAIN content' : q # <<>> /\ (q \in removing \/ LiveAt(q) \/ Covers(op[h], q)) => Leads(h, q)
      BY <1>1, <2>1, <2>5, <2>14, <3>1 DEF Leads, LiveAt
    <3> QED
      BY <1>3, <2>11, <2>12, <3>1, <3>2, ContentLedStep DEF Shape
  <2>16. ASSUME NEW x \in DOMAIN Taken(p) PROVE Brings(op[h], j.key, x)'
    <3>1. PICK q : q = p \o x
      OBVIOUS
    <3>2. q \in DOMAIN content /\ Above(p, q)
      BY <1>3, <3>1, TakenFrom
    <3>3. q \notin removing
      BY <1>1, <1>3 DEF Disk, RemovedSoon
    <3>4. ~LiveAt(q)
      BY <1>4, <2>13, <3>2 DEF LiveAt
    <3>5. \A g \in Handlers \ {h} : ~Covers(op[g], q)
      <4>1. \A g \in Handlers \ {h} : op[g] = Idle
        BY <1>3, RiskAlone
      <4> QED
        BY <4>1, IdleLed
    <3>6. Covers(j, q)
      BY <1>1, <2>12, <3>2, <3>3, <3>4, <3>5 DEF ContentLed
    <3>7. PICK i \in j.risk : rows[i].path = q
      BY <2>14, <3>6
    <3>8. Brings(k, j.key, x)'
      BY <2>1, <2>4, <3>1, <3>7 DEF Brings
    <3> QED
      BY <2>3, <3>8 DEF Brings
  <2>17. TrashLed'
    <3>1. \A y \in Keys : \A x \in DOMAIN trash'[y] :
             \/ x \in DOMAIN trash[y] /\ ~Brings(op[h], y, x)
             \/ Carried(y, x)' \/ Brings(op[h], y, x)'
      BY <2>7, <2>11, <2>16
    <3>2. {} \subseteq AtRisk
      OBVIOUS
    <3> QED
      BY <1>3, <2>8, <2>11, <2>12, <3>1, <3>2, TrashLedStep DEF Shape
  <2> QED
    BY <2>15, <2>17
<1>6. CASE ~(Exists(p) /\ (j.keep \/ IsDir(p)))
  <2>1. Abort(h) /\ UNCHANGED <<rows, bins, disk, aside>>
    BY <1>1, <1>2, <1>6 DEF BinMove, disk
  <2> QED
    BY <1>3, <2>1, AbortLed
<1> QED
  BY <1>5, <1>6

\* The row of the bin is inserted, and leads to what the request brought.
LEMMA BinInsertLed ==
  ASSUME Orderly, Typed, Ledger, Shape, Disk, Led, Disk', NEW h \in Handlers, BinInsert(h)
  PROVE  Led'
<1>1. PICK j : j = op[h]
  OBVIOUS
<1>2. PICK f : f = j.fs
  OBVIOUS
<1>3. /\ j.kind = "bin" /\ j.pc = "insert" /\ BinDisk(j) /\ Others(h) /\ Works(h) /\ Lone(op[h])
      /\ op[h].kind # "none" /\ j.key \in Keys
  BY <1>1, BinInsertWorks, JobIs DEF BinInsert, At, Disk, JobDisk, Lone, JobOK
<1>4. /\ f \in j.risk /\ j.risk \subseteq Binned /\ f \in Ids /\ j.path = rows[f].path
      /\ \A i \in j.risk \ astray : \E S \in SUBSET Ids : Chain(f, i, S)
  BY <1>2, <1>3 DEF BinDisk, Present
<1>5. AtRisk = j.risk
  BY <1>1, <1>3, RiskAlone
<1>6. CASE f \in Present /\ bins[f] = 0
  <2>1. /\ rows' = rows /\ bins' = [bins EXCEPT ![f] = j.key] /\ astray \subseteq astray'
        /\ UNCHANGED <<content, trash, removing, dirty>> /\ Done(h)
    BY <1>1, <1>2, <1>6 DEF BinInsert, Store, disk
  <2>2. op'[h] = Idle /\ op'[h].risk = {}
    BY <2>1, DoneStep, IdleLed DEF Typed
  <2>3. Live' = Live /\ Binned' = Binned /\ AtRisk' = {}
    <3>1. \A g \in Handlers \ {h} : op'[g] = op[g] /\ op[g].risk = {}
      BY <1>3, RiskAlone DEF Others
    <3> QED
      BY <2>1, <2>2, <3>1 DEF Live, Binned, Present, AtRisk
  <2>4. bins'[f] = j.key /\ j.key # 0 /\ \A x \in Ids : x # f => bins'[x] = bins[x]
    BY <1>3, <1>4, <2>1 DEF Typed, TablesOK, Keys
  <2>5. Spares({f})
    <3>1. \A i \in Binned : i \in Ids
      BY BinnedIs
    <3> QED
      BY <2>1, <2>3, <2>4, <3>1 DEF Spares
  <2>6. Trees'
    BY <2>1 DEF Led, Trees
  <2>7. JobLed(op[h])'
    <3>1. JobLed(Idle)'
      BY IdleLed DEF JobLed, Maker
    <3> QED
      BY <2>2, <3>1 DEF JobLed, Maker
  <2>8. ~Nested(op[h]) /\ (\A p : ~Covers(op[h], p)) /\ Active(h)
    BY <1>1, <1>3 DEF Nested, Covers, Active
  <2> SUFFICES ASSUME Clean, Clean' PROVE ContentLed' /\ TrashLed'
    BY <1>3, <2>1, <2>6, <2>7, <2>8, LedStep
  <2>9. ContentLed /\ TrashLed /\ astray = {}
    BY DEF Led, Clean
  <2>10. ContentLed'
    <3>1. \A p \in DOMAIN content' : p \notin DOMAIN content => p # <<>> /\ Leads(h, p)
      BY <2>1
    <3>2. \A p \in DOMAIN content' : p # <<>> /\ (p \in removing \/ LiveAt(p) \/ Covers(op[h], p)) => Leads(h, p)
      BY <2>1, <2>3, <2>8 DEF Leads, LiveAt
    <3> QED
      BY <1>3, <2>8, <2>9, <3>1, <3>2, ContentLedStep DEF Shape
  <2>11. ASSUME NEW y, NEW x, Brings(j, y, x) PROVE Carried(y, x)'
    <3>1. PICK i \in j.risk : rows[i].path = rows[f].path \o x /\ y = j.key
      BY <1>4, <2>11 DEF Brings
    <3>2. PICK S \in SUBSET Ids : Chain(f, i, S)
      BY <1>4, <2>9, <3>1
    <3>3. Chain(f, i, S)'
      <4>1. \A z \in S : z \in Ids
        OBVIOUS
      <4> QED
        BY <2>1, <2>3, <2>4, <3>2, <4>1 DEF Chain
    <3>4. Held(f, i, S)'
      BY <2>3, <2>4, <3>3 DEF Held
    <3>5. i \in Ids
      BY <3>2 DEF Chain
    <3>6. bins'[f] = y /\ rows'[i].path = rows'[f].path \o x
      BY <2>1, <2>4, <3>1
    <3> QED
      BY <1>4, <3>4, <3>5, <3>6 DEF Carried
  <2>12. TrashLed'
    <3>1. \A y \in Keys : \A x \in DOMAIN trash'[y] :
             \/ x \in DOMAIN trash[y] /\ ~Brings(op[h], y, x)
             \/ Carried(y, x)' \/ Brings(op[h], y, x)'
      BY <1>1, <2>1, <2>11
    <3>2. {f} \subseteq AtRisk
      BY <1>4, <1>5
    <3> QED
      BY <1>3, <2>5, <2>8, <2>9, <3>1, <3>2, TrashLedStep DEF Shape
  <2> QED
    BY <2>10, <2>12
<1>7. CASE ~(f \in Present /\ bins[f] = 0)
  <2>1. Abort(h) /\ UNCHANGED <<rows, bins, disk, aside>>
    BY <1>1, <1>2, <1>7 DEF BinInsert
  <2> QED
    BY <1>3, <2>1, AbortLed
<1> QED
  BY <1>6, <1>7

-----------------------------------------------------------------------------
(* From the bin, back or away.                                             *)

\* The rest of the bin, when the directory of f is emptied and what goes with f is
\* at risk, if none of that has a row of the bin table of its own.
LEMMA EmptiedLed ==
  ASSUME Typed, Shape, Disk, TrashLed, NEW h \in Handlers, Lone(op[h]), op[h].kind # "bin",
         NEW f \in Present \ Live, NEW T, T = Going(f), UNCHANGED <<rows, bins>>, AtRisk' = T,
         bins[f] # 0, \A b \in T \ {f} : bins[b] = 0,
         \A k \in Keys : IF k = bins[f] THEN trash'[k] = Nothing ELSE trash'[k] = trash[k]
  PROVE  TrashLed'
<1>1. /\ f \in T /\ T \subseteq Binned /\ T \in SUBSET Present
      /\ \A x \in Binned : rows[x].parent \in T => x \in T
      /\ \A x \in T : x # f => rows[x].parent \in T
  BY GoingIs
<1>2. Binned' = Binned
  BY DEF Binned, Live, Present
<1>3. ASSUME NEW x \in Binned \ T, bins[x] # 0 PROVE trash'[bins[x]] = trash[bins[x]]
  <2>1. x \in Ids /\ f \in Ids /\ x # f
    BY <1>1, BinnedIs DEF Present
  <2>2. bins[x] # bins[f] /\ bins[x] \in Keys
    BY <1>3, <2>1 DEF Disk, Keyed, Typed, TablesOK, Keys
  <2> QED
    BY <2>2
<1>4. Spares(T)
  BY <1>2, <1>3 DEF Spares
<1> SUFFICES ASSUME NEW k \in Keys, NEW x \in DOMAIN trash'[k] PROVE Carried(k, x)'
  BY DEF TrashLed
<1>5. k # bins[f] /\ x \in DOMAIN trash[k]
  BY DEF Nothing
<1>6. Carried(k, x)
  <2>1. \A g \in Handlers : op[g].kind # "bin"
    <3>1. \A g \in Handlers \ {h} : op[g] = Idle
      BY RiskAlone
    <3> QED
      BY <3>1, IdleLed
  <2> QED
    BY <1>5, <2>1 DEF TrashLed, Brings
<1>7. PICK b \in Ids, i \in Ids, S \in SUBSET Ids :
         Held(b, i, S) /\ bins[b] = k /\ rows[i].path = rows[b].path \o x
  BY <1>6 DEF Carried
<1>8. i \notin T
  <2> SUFFICES ASSUME i \in T PROVE FALSE
    OBVIOUS
  <2>1. bins[b] # 0 /\ Chain(b, i, S)
    BY <1>7 DEF Held
  <2>2. b \in T
    BY <1>1, <2>1, ChainWithin
  <2> QED
    BY <1>5, <1>7, <2>1, <2>2
<1>9. PICK R \in SUBSET Ids : Held(b, i, R) /\ R \cap T = {}
  BY <1>1, <1>7, <1>8, HeldOutside
<1>10. Held(b, i, R)' /\ bins'[b] = bins[b]
  BY <1>4, <1>9, HeldStill
<1> QED
  BY <1>7, <1>10 DEF Carried

\* What lies in the directory of f belongs to f and what goes with it.
LEMMA CarriedWith ==
  ASSUME Typed, Shape, Disk, TrashLed, NEW h \in Handlers, Lone(op[h]), op[h].kind # "bin",
         NEW f \in Present \ Live, bins[f] # 0, NEW x \in DOMAIN trash[bins[f]]
  PROVE  \E i \in Going(f) : rows[i].path = rows[f].path \o x
<1>1. PICK T : T = Going(f)
  OBVIOUS
<1>2. f \in T /\ f \in Ids /\ \A y \in Binned : rows[y].parent \in T => y \in T
  BY <1>1, GoingIs DEF Present
<1>3. bins[f] \in Keys
  BY <1>2 DEF Typed, TablesOK, Keys
<1>4. Carried(bins[f], x)
  <2>1. \A g \in Handlers : op[g].kind # "bin"
    <3>1. \A g \in Handlers \ {h} : op[g] = Idle
      BY RiskAlone
    <3> QED
      BY <3>1, IdleLed
  <2> QED
    BY <1>3, <2>1 DEF TrashLed, Brings
<1>5. PICK b \in Ids, i \in Ids, S \in SUBSET Ids :
         Held(b, i, S) /\ bins[b] = bins[f] /\ rows[i].path = rows[b].path \o x
  BY <1>4 DEF Carried
<1>6. b = f
  BY <1>2, <1>5 DEF Disk, Keyed
<1>7. i \in T
  <2> SUFFICES ASSUME i \notin T PROVE FALSE
    OBVIOUS
  <2>1. Chain(b, i, S)
    BY <1>5 DEF Held
  <2>2. Chain(b, i, S \ T)
    BY <1>2, <2>1, ChainCut
  <2> QED
    BY <1>2, <1>6, <2>2 DEF Chain
<1> QED
  BY <1>1, <1>5, <1>6, <1>7

\* What was in the directory is laid where the request accounts for it.
LEMMA RestoreMoveLed ==
  ASSUME Orderly, Typed, Ledger, Shape, Disk, Led, Shape', Disk', NEW h \in Handlers, RestoreMove(h)
  PROVE  Led'
<1>1. PICK j : j = op[h]
  OBVIOUS
<1>2. PICK f, p, tree : f = j.fs /\ p = j.path /\ tree = trash[j.key]
  OBVIOUS
<1>3. PICK T : T = IF j.keep THEN {f} ELSE Tree(f, TRUE)
  OBVIOUS
<1>4. /\ j.kind = "restore" /\ j.pc = "move" /\ RestoreDisk(j) /\ Others(h) /\ Works(h) /\ Lone(op[h])
      /\ op[h].kind # "none" /\ j.key \in Keys /\ p \in Paths /\ p \in Seq(Names) /\ Len(p) > 0
  BY <1>1, <1>2, RestoreMoveWorks, JobIs DEF RestoreMove, At, Disk, JobDisk, Lone, JobOK, Paths
<1>5. j.key = bins[f] /\ j.risk = {} /\ bins[f] # 0 /\ AtRisk = {}
  <2>1. j.key = bins[f] /\ j.risk = {} /\ j.key # 0
    BY <1>2, <1>4 DEF RestoreDisk, Keys
  <2> QED
    BY <1>1, <1>4, <2>1, RiskAlone
<1>6. f \in Present \ Live /\ j.old = rows[f].path /\ T = Going(f)
  BY <1>1, <1>2, <1>3, <1>4 DEF Shape, RestoreOK, Going
<1>7. CASE /\ f \in Present \ Live /\ bins[f] = j.key /\ j.parent \in Present \cup {0}
           /\ tree # Nothing /\ IsDir(Front(p)) /\ Fits(p, tree)
  <2>1. /\ content' = Laid(p, tree) /\ trash' = [trash EXCEPT ![j.key] = Nothing]
        /\ astray \subseteq astray' /\ UNCHANGED <<rows, bins, removing, dirty>>
    BY <1>1, <1>2, <1>7 DEF RestoreMove, aside
  <2>2. PICK new \in Moves(h, T \ {f}) :
          op' = [op EXCEPT ![h].pc = "commit", ![h].writes = Restored(h, T, new), ![h].unbin = {f},
                           ![h].risk = T, ![h].touched = TRUE]
    BY <1>1, <1>2, <1>3, <1>7 DEF RestoreMove
  <2>20. PICK w : w = Restored(h, T, new)
    OBVIOUS
  <2>3. PICK k : k = [j EXCEPT !.pc = "commit", !.writes = w, !.unbin = {f}, !.risk = T, !.touched = TRUE]
    OBVIOUS
  <2>4. op'[h] = k
    <3>1. op' = [op EXCEPT ![h] = k]
      BY <1>1, <2>2, <2>20, <2>3
    <3> QED
      BY <3>1, Only DEF Typed
  <2>5. /\ k.kind = "restore" /\ k.pc = "commit" /\ k.fs = f /\ k.path = p /\ k.risk = T
        /\ k.writes = w /\ k.old = j.old /\ k.touched = TRUE
    BY <1>1, <1>2, <1>4, <2>3, JobIs DEF Job
  <2>6. DOMAIN w = T
    <3>1. op[h].kind = "restore" /\ op[h].fs \in Present /\ T \in SUBSET Present /\ f \in T
          /\ op[h].fs = f
      BY <1>1, <1>2, <1>4, <1>6, GoingIs
    <3> QED
      BY <2>2, <2>20, <3>1, RestoredAre
  <2>7. \A x \in T : w[x].path = p \o Rest(j.old, rows[x].path)
    <3>1. RestoreOK(h)'
      BY DEF Shape
    <3>2. \A x \in DOMAIN k.writes : k.writes[x].path = k.path \o Rest(k.old, rows'[x].path)
      BY <2>4, <2>5, <3>1 DEF RestoreOK, Rest
    <3> QED
      BY <2>1, <2>5, <2>6, <3>2
  <2>8. \A x \in Keys : IF x = bins[f] THEN trash'[x] = Nothing ELSE trash'[x] = trash[x]
    BY <1>4, <1>5, <2>1 DEF Typed, DiskOK
  <2>9. AtRisk' = T
    <3>1. \A g \in Handlers \ {h} : op'[g] = op[g] /\ op[g].risk = {}
      BY <1>4, RiskAlone DEF Others
    <3> QED
      BY <2>4, <2>5, <3>1 DEF AtRisk
  <2>10. Trees'
    BY <2>8 DEF Led, Trees
  <2>11. JobLed(op[h])'
    <3>1. JobLed(k)'
      BY <2>5 DEF JobLed, Maker
    <3> QED
      BY <2>4, <3>1 DEF JobLed, Maker
  <2>12. ~Nested(op[h]) /\ (\A q : ~Covers(op[h], q)) /\ Active(h) /\ op[h].kind # "bin"
    BY <1>1, <1>4, <1>5 DEF Nested, Covers, Active
  <2> SUFFICES ASSUME Clean, Clean' PROVE ContentLed' /\ TrashLed'
    BY <1>4, <2>1, <2>10, <2>11, <2>12, LedStep
  <2>13. ContentLed /\ TrashLed
    BY DEF Led
  <2>14. \A b \in T \ {f} : bins[b] = 0
    <3>1. ~Nested(op[h])'
      BY DEF Clean
    <3>2. ~Nested(k)'
      BY <2>4, <3>1 DEF Nested
    <3> QED
      BY <2>1, <2>5, <3>2 DEF Nested
  <2>15. TrashLed'
    BY <1>4, <1>5, <1>6, <2>1, <2>8, <2>9, <2>12, <2>13, <2>14, EmptiedLed
  <2>16. ASSUME NEW x \in DOMAIN tree PROVE p \o x # <<>> /\ Covers(op[h], p \o x)'
    <3>1. PICK q : q = p \o x
      OBVIOUS
    <3>2. x \in Seq(Names)
      BY <1>2, <1>4 DEF Typed, DiskOK, Lies
    <3>3. q # <<>>
      BY <1>4, <3>1, <3>2
    <3>4. PICK i \in T : rows[i].path = j.old \o x
      BY <1>2, <1>4, <1>5, <1>6, <2>12, <2>13, CarriedWith
    <3>5. w[i].path = q
      <4>1. j.old \in Seq(Names)
        BY <1>1, JobIs
      <4>2. Rest(j.old, j.old \o x) = x
        BY <3>2, <4>1, RestOf
      <4> QED
        BY <2>7, <3>1, <3>4, <4>2
    <3>6. Covers(k, q)'
      BY <2>5, <3>5 DEF Covers
    <3>7. Covers(op[h], q)'
      BY <2>4, <3>6 DEF Covers
    <3> QED
      BY <3>1, <3>3, <3>7
  <2>17. ASSUME NEW q \in DOMAIN content', q \notin DOMAIN content PROVE q # <<>> /\ Leads(h, q)
    <3>1. PICK x \in DOMAIN tree : q = p \o x
      BY <2>1, <2>17 DEF Laid
    <3> QED
      BY <2>16, <3>1 DEF Leads
  <2>18. ContentLed'
    <3>1. \A q : LiveAt(q) => LiveAt(q)'
      BY <2>1 DEF LiveAt, Live, Present
    <3>2. \A q \in DOMAIN content' : q # <<>> /\ (q \in removing \/ LiveAt(q) \/ Covers(op[h], q)) => Leads(h, q)
      BY <2>1, <2>12, <3>1 DEF Leads
    <3> QED
      BY <1>4, <2>12, <2>13, <2>17, <3>2, ContentLedStep DEF Shape
  <2> QED
    BY <2>15, <2>18
<1>8. CASE ~(/\ f \in Present \ Live /\ bins[f] = j.key /\ j.parent \in Present \cup {0}
             /\ tree # Nothing /\ IsDir(Front(p)) /\ Fits(p, tree))
  <2>1. Abort(h) /\ UNCHANGED <<rows, bins, disk, aside>>
    BY <1>1, <1>2, <1>8 DEF RestoreMove, disk, aside
  <2> QED
    BY <1>4, <2>1, AbortLed
<1> QED
  BY <1>7, <1>8

\* The directory of the row goes; what has a row of the bin table of its own stops it.
LEMMA ForgetMoveLed ==
  ASSUME Orderly, Typed, Ledger, Shape, Disk, Led, Disk', NEW h \in Handlers, ForgetMove(h)
  PROVE  Led'
<1>1. PICK j : j = op[h]
  OBVIOUS
<1>2. PICK f : f = j.fs
  OBVIOUS
<1>3. PICK T : T = IF j.keep THEN {f} ELSE Tree(f, TRUE)
  OBVIOUS
<1>4. /\ j.kind = "forget" /\ j.pc = "move" /\ GoneDisk(j) /\ Others(h) /\ Works(h) /\ Lone(op[h])
      /\ op[h].kind # "none" /\ j.key \in Keys
  BY <1>1, ForgetMoveWorks, JobIs DEF ForgetMove, At, Disk, JobDisk, Lone, JobOK
<1>5. j.key = bins[f] /\ bins[f] # 0 /\ T = Going(f)
  <2>1. j.key = bins[f] /\ j.key # 0 /\ j.keep = rows[f].file
    BY <1>2, <1>4 DEF GoneDisk, Keys
  <2> QED
    BY <1>3, <2>1 DEF Going
<1>6. CASE /\ f \in Present \ Live /\ bins[f] = j.key /\ trash[j.key] # Nothing
           /\ \A i \in T : IF i = f THEN ~rows[i].enc ELSE ~Referred(i)
  <2>1. /\ trash' = [trash EXCEPT ![j.key] = Nothing] /\ astray' = astray
        /\ UNCHANGED <<rows, bins, content, removing, dirty>>
    BY <1>1, <1>2, <1>3, <1>6 DEF ForgetMove, aside
  <2>2. PICK w : w = [x \in T |-> None]
    OBVIOUS
  <2>3. PICK k : k = [j EXCEPT !.pc = "commit", !.unbin = {f}, !.risk = T, !.writes = w, !.touched = TRUE]
    OBVIOUS
  <2>4. op'[h] = k
    <3>1. op' = [op EXCEPT ![h].pc = "commit", ![h].unbin = {f}, ![h].risk = T,
                           ![h].writes = [x \in T |-> None], ![h].touched = TRUE]
      BY <1>1, <1>2, <1>3, <1>6 DEF ForgetMove
    <3>2. op' = [op EXCEPT ![h] = k]
      BY <1>1, <2>2, <2>3, <3>1
    <3> QED
      BY <3>2, Only DEF Typed
  <2>5. k.kind = "forget" /\ k.pc = "commit" /\ k.risk = T /\ k.touched = TRUE
    BY <1>1, <1>4, <2>3, JobIs DEF Job
  <2>6. \A x \in Keys : IF x = bins[f] THEN trash'[x] = Nothing ELSE trash'[x] = trash[x]
    BY <1>4, <1>5, <2>1 DEF Typed, DiskOK
  <2>7. AtRisk' = T
    <3>1. \A g \in Handlers \ {h} : op'[g] = op[g] /\ op[g].risk = {}
      BY <1>4, RiskAlone DEF Others
    <3> QED
      BY <2>4, <2>5, <3>1 DEF AtRisk
  <2>8. \A b \in T \ {f} : bins[b] = 0
    BY <1>6 DEF Referred, BinRow
  <2>9. Trees'
    BY <2>6 DEF Led, Trees
  <2>10. JobLed(op[h])'
    <3>1. JobLed(k)'
      BY <2>5 DEF JobLed, Maker
    <3> QED
      BY <2>4, <3>1 DEF JobLed, Maker
  <2>11. ~Nested(op[h]) /\ (\A q : ~Covers(op[h], q)) /\ Active(h) /\ op[h].kind # "bin"
    BY <1>1, <1>4 DEF Nested, Covers, Active
  <2> SUFFICES ASSUME Clean, Clean' PROVE ContentLed' /\ TrashLed'
    BY <1>4, <2>1, <2>9, <2>10, <2>11, LedStep
  <2>12. ContentLed /\ TrashLed
    BY DEF Led
  <2>13. TrashLed'
    BY <1>4, <1>5, <1>6, <2>1, <2>6, <2>7, <2>8, <2>11, <2>12, EmptiedLed
  <2>14. ContentLed'
    <3>1. \A q \in DOMAIN content' : q \notin DOMAIN content => q # <<>> /\ Leads(h, q)
      BY <2>1
    <3>2. \A q : LiveAt(q) => LiveAt(q)'
      BY <2>1 DEF LiveAt, Live, Present
    <3>3. \A q \in DOMAIN content' : q # <<>> /\ (q \in removing \/ LiveAt(q) \/ Covers(op[h], q)) => Leads(h, q)
      BY <2>1, <2>11, <3>2 DEF Leads
    <3> QED
      BY <1>4, <2>11, <2>12, <3>1, <3>3, ContentLedStep DEF Shape
  <2> QED
    BY <2>13, <2>14
<1>7. CASE ~(/\ f \in Present \ Live /\ bins[f] = j.key /\ trash[j.key] # Nothing
             /\ \A i \in T : IF i = f THEN ~rows[i].enc ELSE ~Referred(i))
  <2>1. Abort(h) /\ UNCHANGED <<rows, bins, disk, aside>>
    BY <1>1, <1>2, <1>3, <1>7 DEF ForgetMove, disk
  <2> QED
    BY <1>4, <2>1, AbortLed
<1> QED
  BY <1>6, <1>7

\* Nothing lies anywhere when the vault is emptied.
LEMMA CleanUpLed ==
  ASSUME Orderly, Typed, Ledger, Shape, Disk, Led, Disk', NEW h \in Handlers, CleanUp(h)
  PROVE  Led'
<1>1. PICK k : k = [Idle EXCEPT !.kind = "clean", !.pc = "commit", !.unbin = Ids,
                                !.writes = [i \in Present |-> None], !.risk = Present, !.touched = TRUE]
  OBVIOUS
<1>2. op'[h] = k
  <2>1. op' = [op EXCEPT ![h] = k]
    BY <1>1 DEF CleanUp
  <2> QED
    BY <2>1, Only DEF Typed
<1>3. k.kind = "clean" /\ k.touched = TRUE
  BY <1>1 DEF Idle
<1>4. /\ MayStart(h, "clean") /\ UNCHANGED <<removing, astray, dirty>> /\ Others(h) /\ Works(h)
      /\ content' = Nothing /\ trash' = [x \in Keys |-> Nothing]
  BY CleanUpWorks DEF CleanUp
<1>5. Active(h) /\ ~Nested(op[h])
  BY <1>2, <1>3, <1>4, IdleLed DEF MayStart, Active
<1>6. DOMAIN content' = {} /\ \A x \in Keys : trash'[x] = Nothing /\ DOMAIN trash'[x] = {}
  BY <1>4 DEF Nothing
<1>7. JobLed(op[h])'
  <2>1. JobLed(k)'
    BY <1>3, <1>6 DEF JobLed, Maker
  <2> QED
    BY <1>2, <2>1 DEF JobLed, Maker
<1>8. Trees' /\ ContentLed' /\ TrashLed'
  BY <1>6 DEF Trees, ContentLed, TrashLed
<1> QED
  BY <1>4, <1>5, <1>7, <1>8, LedStep

-----------------------------------------------------------------------------
(* Committing what runs alone.                                             *)

\* What the step of a request that ran alone and commits has to show.
LEMMA CommitLeads ==
  ASSUME Orderly, Typed, Ledger, Shape, Disk, Led, Ledger', Disk', NEW h \in Handlers, Commit(h),
         Spares(op[h].risk), Clean' => ~Nested(op[h]),
         Clean /\ Clean' => \A p \in DOMAIN content :
            LiveAt(p) \/ Covers(op[h], p) => p \in removing \/ LiveAt(p)'
  PROVE  Led'
<1>1. /\ op[h].kind \in {"encrypt", "restore", "forget", "clean"} /\ op[h].pc = "commit"
      /\ AtRisk = op[h].risk /\ UNCHANGED <<content, trash>> /\ astray \subseteq astray'
      /\ Others(h) /\ Works(h)
  BY CommitEnds, CommitWorks
<1>2. UNCHANGED <<removing, dirty>> /\ Done(h)
  BY DEF Commit, disk
<1>3. op'[h] = Idle
  BY <1>2, DoneStep DEF Typed
<1>4. JobLed(op[h])'
  <2>1. JobLed(Idle)'
    BY IdleLed DEF JobLed, Maker
  <2> QED
    BY <1>3, <2>1 DEF JobLed, Maker
<1>5. Trees'
  BY <1>1 DEF Led, Trees
<1>6. Active(h) /\ \A k, x : ~Brings(op[h], k, x)
  BY <1>1 DEF Active, Brings
<1> SUFFICES ASSUME Clean, Clean' PROVE ContentLed' /\ TrashLed'
  BY <1>1, <1>2, <1>4, <1>5, <1>6, LedStep
<1>7. ContentLed /\ TrashLed
  BY DEF Led
<1>8. ContentLed'
  <2>1. \A p \in DOMAIN content' : p \notin DOMAIN content => p # <<>> /\ Leads(h, p)
    BY <1>1
  <2>2. \A p \in DOMAIN content' : p # <<>> /\ (p \in removing \/ LiveAt(p) \/ Covers(op[h], p)) => Leads(h, p)
    BY <1>1, <1>2 DEF Leads
  <2> QED
    BY <1>1, <1>6, <1>7, <2>1, <2>2, ContentLedStep DEF Shape
<1>9. TrashLed'
  <2>1. PICK T : T = op[h].risk
    OBVIOUS
  <2>2. \A k \in Keys : \A x \in DOMAIN trash'[k] : x \in DOMAIN trash[k] /\ ~Brings(op[h], k, x)
    BY <1>1, <1>6
  <2>3. T \subseteq AtRisk /\ Spares(T)
    BY <1>1, <2>1
  <2> QED
    BY <1>1, <1>6, <1>7, <2>2, <2>3, TrashLedStep DEF Shape
<1> QED
  BY <1>8, <1>9

\* The row leads to the encrypted file now, and the old one is being deleted.
LEMMA EncryptCommitLed ==
  ASSUME Orderly, Typed, Ledger, Shape, Disk, Led, Ledger', Disk', NEW h \in Handlers, Commit(h),
         op[h].kind = "encrypt"
  PROVE  Led'
<1>1. PICK j : j = op[h]
  OBVIOUS
<1>2. PICK f, w : f = j.fs /\ w = j.writes
  OBVIOUS
<1>3. /\ f \in Live /\ j.risk = {f} /\ w[f].path = j.path
      /\ \A i \in Ids : rows'[i] = IF i = f THEN w[f] ELSE rows[i]
      /\ Live' = Live /\ Spares({}) /\ f \notin Binned /\ Binned' = Binned
  BY <1>1, <1>2, EncryptCommits
<1>4. j.kind = "encrypt" /\ j.pc = "commit" /\ rows[f].path = j.old
  <2>1. EncryptDisk(j) /\ j.kind = "encrypt" /\ j.pc = "commit"
    BY <1>1 DEF Disk, JobDisk, Commit
  <2> QED
    BY <1>2, <2>1 DEF EncryptDisk
<1>5. Spares(op[h].risk)
  BY <1>1, <1>3 DEF Spares
<1>6. ~Nested(op[h])
  BY DEF Nested
<1>7. ASSUME NEW p \in DOMAIN content, LiveAt(p) \/ Covers(op[h], p)
      PROVE  p \in removing \/ LiveAt(p)'
  <2>1. \A i \in Live : i \in Ids
    BY DEF Live, Present
  <2>2. CASE Covers(op[h], p)
    <3>1. p = j.path
      BY <1>1, <1>4, <2>2 DEF Covers
    <3>2. f \in Live' /\ rows'[f].path = p
      BY <1>3, <2>1, <3>1
    <3> QED
      BY <3>2 DEF LiveAt
  <2>3. ASSUME NEW i \in Live, rows[i].path = p PROVE p \in removing \/ LiveAt(p)'
    <3>1. CASE i = f
      <4>1. JobLed(j)
        BY <1>1 DEF Led
      <4> QED
        BY <1>4, <2>3, <3>1, <4>1 DEF JobLed
    <3>2. CASE i # f
      <4>1. i \in Live' /\ rows'[i].path = p
        BY <1>3, <2>1, <2>3, <3>2
      <4> QED
        BY <4>1 DEF LiveAt
    <3> QED
      BY <3>1, <3>2
  <2> QED
    BY <1>7, <2>2, <2>3 DEF LiveAt
<1> QED
  BY <1>5, <1>6, <1>7, CommitLeads

\* The rows that come back lead to what was laid for them.
LEMMA RestoreCommitLed ==
  ASSUME Orderly, Typed, Ledger, Shape, Disk, Led, Ledger', Disk', NEW h \in Handlers, Commit(h),
         op[h].kind = "restore"
  PROVE  Led'
<1>1. PICK j : j = op[h]
  OBVIOUS
<1>2. PICK f, w, T : f = j.fs /\ w = j.writes /\ T = j.risk
  OBVIOUS
<1>3. /\ f \in T /\ T \subseteq Binned /\ j.unbin = {f}
      /\ \A x \in T : w[x] # None /\ w[x].inBin = FALSE /\ x \in Ids
      /\ \A i \in Ids : rows'[i] = IF i \in T THEN w[i] ELSE rows[i]
      /\ Live' = Live \cup T /\ Spares(T)
  BY <1>1, <1>2, RestoreCommits
<1>4. /\ j.kind = "restore" /\ j.pc = "commit" /\ Odd(rows, bins)' \subseteq astray'
      /\ \A i \in Ids : bins'[i] = IF i \in j.unbin THEN 0 ELSE bins[i]
  BY <1>1, CommitEnds
<1>5. ASSUME Nested(op[h]), Clean' PROVE FALSE
  <2>1. PICK b \in T \ {f} : bins[b] # 0
    BY <1>1, <1>2, <1>5 DEF Nested
  <2>2. b \in Ids /\ rows'[b] = w[b] /\ bins'[b] # 0 /\ rows'[b] # None /\ ~rows'[b].inBin
    BY <1>3, <1>4, <2>1
  <2>3. PICK p : p = rows'[b].path
    OBVIOUS
  <2>4. p \in Seq(Names)
    <3>1. w[b] \in FullRow
      <4>1. w \in Writes /\ b \in DOMAIN w
        <5>1. RestoreDisk(j)
          BY <1>1 DEF Disk, JobDisk
        <5> QED
          BY <1>1, <1>2, <1>4, <2>1, <5>1, JobIs DEF RestoreDisk
      <4> QED
        BY <1>3, <2>1, <4>1 DEF Writes
    <3> QED
      BY <2>2, <2>3, <3>1 DEF FullRow, Paths
  <2>5. Above(p, p)
    BY <2>4 DEF Above
  <2>6. Above(rows[b].path, rows[b].path)'
    BY <2>3, <2>5 DEF Above
  <2>7. b \in Odd(rows, bins)'
    BY <2>2, <2>6 DEF Odd
  <2> QED
    BY <1>4, <1>5, <2>7 DEF Clean
<1>6. ASSUME NEW p \in DOMAIN content, LiveAt(p) \/ Covers(op[h], p)
      PROVE  LiveAt(p)'
  <2>1. CASE Covers(op[h], p)
    <3>1. PICK x \in T : w[x].path = p
      BY <1>1, <1>2, <1>4, <2>1 DEF Covers
    <3>2. x \in Live' /\ rows'[x].path = p
      BY <1>3, <3>1
    <3> QED
      BY <3>2 DEF LiveAt
  <2>2. ASSUME NEW i \in Live, rows[i].path = p PROVE LiveAt(p)'
    <3>1. i \in Ids /\ i \notin T
      BY <1>3 DEF Binned, Live, Present
    <3>2. i \in Live' /\ rows'[i].path = p
      BY <1>3, <2>2, <3>1
    <3> QED
      BY <3>2 DEF LiveAt
  <2> QED
    BY <1>6, <2>1, <2>2 DEF LiveAt
<1>7. Spares(op[h].risk)
  BY <1>1, <1>2, <1>3
<1> QED
  BY <1>5, <1>6, <1>7, CommitLeads

\* What a transaction that ran alone wrote comes true.
LEMMA CommitLed ==
  ASSUME Orderly, Typed, Ledger, Shape, Disk, Led, Ledger', Disk', NEW h \in Handlers, Commit(h)
  PROVE  Led'
<1>1. op[h].kind \in {"encrypt", "restore", "forget", "clean"} /\ op[h].pc = "commit"
  BY CommitEnds
<1>2. CASE op[h].kind = "forget"
  <2>1. /\ \A i \in Ids : rows[i] # None /\ i \notin op[h].risk => rows'[i].path = rows[i].path
        /\ Live' = Live /\ op[h].risk \cap Live = {} /\ Spares(op[h].risk)
    BY <1>2, ForgetCommits
  <2>2. ~Nested(op[h]) /\ \A p : ~Covers(op[h], p)
    BY <1>2 DEF Nested, Covers
  <2>3. \A i \in Live : i \in Live' /\ rows'[i].path = rows[i].path
    <3>1. \A i \in Live : i \in Ids /\ rows[i] # None
      BY DEF Live, Present
    <3> QED
      BY <2>1, <3>1
  <2>4. \A p : LiveAt(p) => LiveAt(p)'
    BY <2>3 DEF LiveAt
  <2> QED
    BY <2>1, <2>2, <2>4, CommitLeads
<1>3. CASE op[h].kind = "clean"
  <2>1. JobLed(op[h]) /\ GoneDisk(op[h]) /\ GoneOK(h)
    BY DEF Led, Disk, JobDisk, Shape
  <2>2. DOMAIN content = {} /\ op[h].risk = Present
    BY <1>3, <2>1 DEF JobLed, GoneDisk, GoneOK
  <2>3. Spares(op[h].risk)
    BY <2>2 DEF Spares, Binned
  <2>4. ~Nested(op[h])
    BY <1>3 DEF Nested
  <2> QED
    BY <2>2, <2>3, <2>4, CommitLeads
<1> QED
  BY <1>1, <1>2, <1>3, EncryptCommitLed, RestoreCommitLed

-----------------------------------------------------------------------------
(* Every step, and what there is when no request is under way.             *)

\* Nothing is anywhere at first.
LEMMA InitLed == Init => Led
<1> SUFFICES ASSUME Init PROVE Led
  OBVIOUS
<1>1. DOMAIN content = {} /\ \A k \in Keys : trash[k] = Nothing /\ DOMAIN trash[k] = {}
  BY DEF Init, Nothing
<1>2. \A g \in Handlers : JobLed(op[g])
  <2>1. \A g \in Handlers : op[g] = Idle
    BY DEF Init
  <2> QED
    BY <2>1, IdleLed
<1> QED
  BY <1>1, <1>2 DEF Led, Trees, ContentLed, TrashLed

\* What is on disk is accounted for after any step.
LEMMA NextLed ==
  ASSUME Orderly
  PROVE  Typed /\ Ledger /\ Shape /\ OddNoted /\ Disk /\ Led /\ ~garbled' /\ [Next]_vars => Led'
<1> SUFFICES ASSUME Typed, Ledger, Shape, OddNoted, Disk, Led, ~garbled', [Next]_vars PROVE Led'
  OBVIOUS
<1>1. Typed' /\ Ledger' /\ Shape' /\ Disk'
  BY NextTyped, NextLedger, NextShape, NextDisk DEF Orderly
<1>2. ASSUME NEW h \in Handlers, NEW p \in 0 .. MaxRows, NEW keep \in BOOLEAN,
             NEW n \in FileNamesSent, UploadBegin(h, p, n, keep)
      PROVE  Led'
  <2>1. Creation(h, "upload", "quota", p, n, keep, 1) /\ n \in Names /\ "quota" \in Before
    BY <1>2, SentNames DEF UploadBegin, Before
  <2>2. Others(h) /\ Works(h)
    BY <2>1, MakesWorks
  <2> QED
    BY <1>1, <2>1, <2>2, CreationLed
<1>3. ASSUME NEW h \in Handlers, NEW p \in 0 .. MaxRows, NEW keep \in BOOLEAN,
             NEW n \in FolderNamesSent, FolderBegin(h, p, n, keep)
      PROVE  Led'
  <2>1. /\ Creation(h, "folder", Naming(keep), p, n, keep, 0) /\ (keep => n.ext = "") /\ n \in Names
        /\ Naming(keep) \in Before
    BY <1>3, SentNames DEF FolderBegin, Before, Naming
  <2>2. Others(h) /\ Works(h)
    BY <2>1, MakesWorks
  <2> QED
    BY <1>1, <2>1, <2>2, CreationLed
<1>4. ASSUME NEW h \in Handlers, NEW i \in Ids,
             EncryptBegin(h, i) \/ BinBegin(h, i) \/ ForgetBegin(h, i)
             \/ \E q \in 0 .. MaxRows : RestoreBegin(h, i, q)
      PROVE  Led'
  BY <1>1, <1>4, EncryptBeginLed, BinBeginLed, ForgetBeginLed, RestoreBeginLed
<1>5. ASSUME NEW h \in Handlers, CleanUp(h) \/ Fail(h)
      PROVE  Led'
  <2>1. CASE Fail(h)
    <3>1. Abort(h) /\ UNCHANGED <<rows, bins, disk, aside>> /\ op[h] # Idle
      BY <2>1 DEF Fail, Open
    <3>2. op[h].kind # "none"
      BY <3>1 DEF Disk, JobDisk
    <3> QED
      BY <1>1, <3>1, <3>2, AbortLed
  <2> QED
    BY <1>1, <1>5, <2>1, CleanUpLed
<1>6. ASSUME NEW h \in Handlers, Upload(h) \/ MakeFolder(h)
      PROVE  Led'
  <2>1. CASE UploadFind(h) \/ FolderFind(h)
    <3>1. Others(h) /\ Works(h)
      BY <2>1, FindWorks DEF UploadFind, FolderFind
    <3> QED
      BY <1>1, <2>1, <3>1, FindLed
  <2>2. ASSUME NEW kind \in {"upload", "folder"}, UploadQuota(h) \/ Match(h, kind) \/ Number(h, kind)
        PROVE  Led'
    BY <1>1, <2>2, EarlyLed
  <2> QED
    BY <1>1, <1>6, <2>1, <2>2, UploadReplaceLed, UploadWriteLed, InsertLed, FolderDeleteLed,
       FolderRemoveLed, FolderWriteLed DEF Upload, MakeFolder
<1>7. ASSUME NEW h \in Handlers, Encrypt(h) \/ ToBin(h)
      PROVE  Led'
  BY <1>1, <1>7, EncryptIssueLed, EncryptWriteLed, BinFlipLed, BinMoveLed, BinInsertLed
     DEF Encrypt, ToBin
<1>8. ASSUME NEW h \in Handlers, RestoreMove(h) \/ ForgetMove(h) \/ Commit(h)
      PROVE  Led'
  BY <1>1, <1>8, RestoreMoveLed, ForgetMoveLed, CommitLed
<1>9. ASSUME NEW p \in removing, RemoveOld(p)
      PROVE  Led'
  BY <1>9, RemoveOldLed
<1>10. CASE UNCHANGED vars
  <2>1. UNCHANGED <<rows, bins, content, trash, removing, op, astray, dirty>>
    BY <1>10 DEF vars, aside, disk
  <2>2. Trees' /\ (ContentLed => ContentLed') /\ (TrashLed => TrashLed')
    <3>1. Trees'
      BY <2>1 DEF Led, Trees
    <3>2. ContentLed => ContentLed'
      BY <2>1 DEF ContentLed, LiveAt, Covers, Live, Present, Above
    <3>3. \A k, x : Carried(k, x) => Carried(k, x)'
      <4>1. Binned' = Binned /\ AtRisk' = AtRisk
        BY <2>1 DEF Binned, Live, Present, AtRisk
      <4> QED
        BY <2>1, <4>1 DEF Carried, Held, Chain
    <3>4. \A g \in Handlers : \A k, x : Brings(op[g], k, x) => Brings(op[g], k, x)'
      BY <2>1 DEF Brings
    <3> QED
      BY <2>1, <3>1, <3>2, <3>3, <3>4 DEF TrashLed
  <2>3. Clean' => Clean
    BY <2>1 DEF Clean, Nested
  <2>4. \A g \in Handlers : JobLed(op[g])'
    BY <2>1 DEF Led, JobLed, Maker, Live, Present
  <2> QED
    BY <2>2, <2>3, <2>4 DEF Led
<1> QED
  BY <1>2, <1>3, <1>4, <1>5, <1>6, <1>7, <1>8, <1>9, <1>10 DEF Next, Step

\* ... as long as no path is garbled.
KeptLed == ~garbled => Led

LEMMA NextKeptLed ==
  ASSUME Orderly
  PROVE  Typed /\ Ledger /\ KeptShape /\ OddNoted /\ KeptDisk /\ KeptLed /\ [Next]_vars => KeptLed'
<1> SUFFICES ASSUME Typed, Ledger, KeptShape, OddNoted, KeptDisk, KeptLed, [Next]_vars, ~garbled'
             PROVE  Led'
  BY DEF KeptLed
<1>1. ~garbled
  BY EveryStep DEF Notes
<1> QED
  BY <1>1, NextLed DEF KeptShape, KeptDisk, KeptLed

\* When no request is under way, none has failed half-way and none clashed with
\* another, nothing is in the directory of the user but what a live row leads to
\* or a deletion is about to take away, and there is no directory in the bin
\* without a row of the bin table: replacing, deleting and emptying leave nothing
\* behind.
THEOREM NothingLeftBehindHolds ==
  ASSUME Orderly
  PROVE  Spec => []NothingLeftBehind
<1>1. Typed /\ KeptLed => NothingLeftBehind
  <2> SUFFICES ASSUME Typed, Led, Open = {}, ~dirty, astray = {}
               PROVE  /\ \A p \in DOMAIN content \ removing : LiveAt(p)
                      /\ \A k \in Keys : trash[k] # Nothing => \E i \in Present : bins[i] = k
    BY DEF NothingLeftBehind, LiveAt, KeptLed
  <2>1. \A g \in Handlers : /\ ~Nested(op[g]) /\ \A p : ~Covers(op[g], p)
                            /\ \A k, x : ~Brings(op[g], k, x)
    <3>1. \A g \in Handlers : op[g] = Idle
      BY DEF Open
    <3> QED
      BY <3>1, IdleLed
  <2>2. ContentLed /\ TrashLed /\ Trees
    BY <2>1 DEF Led, Clean
  <2>3. \A p \in DOMAIN content \ removing : LiveAt(p)
    BY <2>1, <2>2 DEF ContentLed
  <2>4. ASSUME NEW k \in Keys, trash[k] # Nothing PROVE \E i \in Present : bins[i] = k
    <3>1. PICK x : x \in DOMAIN trash[k]
      BY <2>2, <2>4 DEF Trees
    <3>2. PICK b \in Ids, i \in Ids, S \in SUBSET Ids : Held(b, i, S) /\ bins[b] = k
      BY <2>1, <2>2, <3>1 DEF TrashLed, Carried
    <3>3. b \in Present
      BY <3>2 DEF Held, Chain, Binned
    <3> QED
      BY <3>2, <3>3
  <2> QED
    BY <2>3, <2>4
<1>2. /\ Init => Typed /\ Ledger /\ KeptShape /\ OddNoted /\ KeptDisk /\ KeptLed
      /\ Typed /\ Ledger /\ KeptShape /\ OddNoted /\ KeptDisk /\ KeptLed /\ [Next]_vars
            => (Typed /\ Ledger /\ KeptShape /\ OddNoted /\ KeptDisk /\ KeptLed)'
  <2>1. Init => Typed /\ Ledger /\ KeptShape /\ OddNoted /\ KeptDisk /\ KeptLed
    BY InitTyped, InitLedger, InitKept, InitOdd, InitDisk, InitLed DEF KeptDisk, KeptLed
  <2>2. Regime
    BY DEF Orderly
  <2> QED
    BY <2>1, <2>2, NextTyped, NextLedger, NextKept, NextOdd, NextKeptDisk, NextKeptLed
<1> QED
  BY <1>1, <1>2, PTL DEF Spec
=============================================================================
