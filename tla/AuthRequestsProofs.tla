------------------------- MODULE AuthRequestsProofs -------------------------
(***************************************************************************)
(* What AuthRequests keeps for every set of users, kinds and transactions, *)
(* and every limit of attempts.                                            *)
(***************************************************************************)
EXTENDS AuthRequests, TLAPS

-----------------------------------------------------------------------------
\* Types.

\* What a transaction has read and written by the time it is in a phase.
ShapeOf(t) ==
    /\ t.op = "send" => t.pc \in SendPhases \cup {"commit"}
    /\ t.op = "confirm" => t.pc \in ConfirmPhases \cup {"commit"}
    /\ t.pc \in {"reread", "rewrite", "identity", "softDelete", "softCount"} =>
         t.request \in Ids /\ requests[t.kind][t.request] # None
    /\ t.pc \in {"findCount", "newCount", "tally", "softCount", "commit"} =>
         t.request \in Ids /\ t.row # None
    /\ t.pc = "tally" => t.count \in Ids /\ t.seen # None /\ counts[t.kind][t.count] # None
    /\ t.pc = "commit" => t.count \in Ids /\ t.tally # None
    /\ t.pc \in {"softDelete", "softCount"} => t.identity # None
    /\ t.pc = "commit" /\ t.op = "confirm" => t.identity # None

Shape == \A h \in Running : ShapeOf(tx[h])

Typed == TypeOK /\ Shape

LEMMA RunningIsOpen ==
    ASSUME Typed, NEW h \in Running
    PROVE  h \in Handlers /\ tx[h] \in OpenTx /\ ShapeOf(tx[h])
  BY DEF Typed, TypeOK, Shape, Running, At, Idle

LEMMA OpenFields ==
    ASSUME NEW t \in OpenTx
    PROVE  /\ t.op \in {"send", "confirm"} /\ t.kind \in Kinds /\ t.user \in Users
           /\ t.token \in Tokens /\ t.valid \in BOOLEAN
           /\ t.request \in {0} \cup Ids /\ t.count \in {0} \cup Ids
           /\ t.seen \in CountRow \cup {None} /\ t.identity \in IdentityRow \cup {None}
           /\ t.row \in RequestRow \cup {None} /\ t.tally \in CountRow \cup {None}
           /\ t.pc # "idle" /\ t # Idle
  BY DEF OpenTx, SendPhases, ConfirmPhases, Idle

\* A step that moves one handler and leaves the tables alone keeps the types
\* when the handler's new state has them.
LEMMA Moves ==
    ASSUME Typed, NEW h \in Handlers, NEW r \in OpenTx \cup {Idle},
           tx' = [tx EXCEPT ![h] = r], r # Idle => ShapeOf(r),
           UNCHANGED <<identity, requests, counts, used, sends>>,
           nextId' \in [Kinds -> [request : 1 .. MaxTokens + 1, count : 1 .. MaxTokens + 1]],
           token' \in 0 .. MaxTokens, mail' \subseteq Mail, crossed' \subseteq Kinds \X Users
    PROVE  Typed'
  <1>1. TypeOK'
    BY DEF Typed, TypeOK
  <1>2. ASSUME NEW g \in Running' PROVE ShapeOf(tx[g])'
    <2>1. g \in Handlers /\ tx'[g].pc # "idle"
      BY <1>2 DEF Running, At
    <2>2. CASE g = h
      <3>1. tx'[g] = r /\ r # Idle
        BY <2>1, <2>2 DEF Typed, TypeOK, Idle
      <3> QED BY <3>1 DEF ShapeOf
    <2>3. CASE g # h
      <3>1. tx'[g] = tx[g] /\ g \in Running
        BY <2>1, <2>3 DEF Typed, TypeOK, Running, At
      <3> QED BY <3>1 DEF Typed, Shape, ShapeOf
    <2> QED BY <2>2, <2>3
  <1> QED BY <1>1, <1>2 DEF Typed, Shape

LEMMA MovesQuietly ==
    ASSUME Typed, NEW h \in Handlers, NEW r \in OpenTx \cup {Idle},
           tx' = [tx EXCEPT ![h] = r], r # Idle => ShapeOf(r),
           UNCHANGED <<identity, tables, nextId, token, mail, history>>
    PROVE  Typed'
  BY Moves DEF Typed, TypeOK, tables, history

LEMMA RollBackTyped ==
    ASSUME Typed, NEW h \in Handlers, RollBack(h),
           UNCHANGED <<identity, requests, counts, token, mail, used, sends, crossed>>,
           nextId' \in [Kinds -> [request : 1 .. MaxTokens + 1, count : 1 .. MaxTokens + 1]]
    PROVE  Typed'
  BY Moves DEF RollBack, Typed, TypeOK

LEMMA StartSendTyped ==
    ASSUME Typed, NEW h \in Handlers, NEW k \in Kinds, NEW u \in Users, StartSend(h, k, u)
    PROVE  Typed'
  <1> DEFINE r == Begin("send", "find", k, u, token + 1)
  <1>1. token + 1 \in Tokens /\ token' = token + 1
    BY BoundsAssumption DEF StartSend, Typed, TypeOK, Tokens
  <1>2. r \in OpenTx
    BY <1>1 DEF Begin, OpenTx, SendPhases, Valid
  <1>3. ShapeOf(r)
    BY DEF Begin, ShapeOf, SendPhases
  <1>4. tx' = [tx EXCEPT ![h] = r] /\ crossed' \subseteq Kinds \X Users
    BY DEF StartSend, Typed, TypeOK
  <1>5. token' \in 0 .. MaxTokens
    BY <1>1, BoundsAssumption DEF Tokens
  <1>6. UNCHANGED <<identity, requests, counts, used, sends, nextId, mail>>
    BY DEF StartSend, tables
  <1> HIDE DEF r
  <1> QED BY <1>2, <1>3, <1>4, <1>5, <1>6, Moves DEF Typed, TypeOK

LEMMA StartConfirmTyped ==
    ASSUME Typed, NEW h \in Handlers, NEW m \in mail, StartConfirm(h, m)
    PROVE  Typed'
  <1> DEFINE r == Begin("confirm", "lookup", m.kind, m.user, m.token)
  <1>1. m.kind \in Kinds /\ m.user \in Users /\ m.token \in Tokens
    BY DEF Typed, TypeOK, Mail
  <1>2. r \in OpenTx
    BY <1>1 DEF Begin, OpenTx, ConfirmPhases, Valid
  <1>3. ShapeOf(r)
    BY DEF Begin, ShapeOf, ConfirmPhases
  <1>4. tx' = [tx EXCEPT ![h] = r]
    BY DEF StartConfirm
  <1> HIDE DEF r
  <1> QED BY <1>2, <1>3, <1>4, Moves DEF StartConfirm, Typed, TypeOK, tables, history

LEMMA SendFindTyped ==
    ASSUME Typed, NEW h \in Handlers, SendFind(h)
    PROVE  Typed'
  <1>1. tx[h] \in OpenTx /\ ShapeOf(tx[h])
    BY RunningIsOpen DEF SendFind, At, Running
  <1>2. CASE Goto(h, "create")
    <2> DEFINE r == [tx[h] EXCEPT !.pc = "create"]
    <2>1. r \in OpenTx
      BY <1>1 DEF OpenTx, SendPhases
    <2>2. ShapeOf(r)
      BY <1>1 DEF ShapeOf, SendPhases, SendFind, At, OpenTx, ConfirmPhases
    <2>3. tx' = [tx EXCEPT ![h] = r]
      BY <1>2 DEF Goto
    <2> HIDE DEF r
    <2> QED BY <2>1, <2>2, <2>3, Moves DEF SendFind, Typed, TypeOK, tables, history
  <1>3. CASE \E i \in Ids : /\ requests[tx[h].kind][i] # None
                            /\ tx' = [tx EXCEPT ![h].pc = "reread", ![h].request = i]
    <2>1. PICK i \in Ids : /\ requests[tx[h].kind][i] # None
                           /\ tx' = [tx EXCEPT ![h].pc = "reread", ![h].request = i]
      BY <1>3
    <2> DEFINE r == [tx[h] EXCEPT !.pc = "reread", !.request = i]
    <2>2. r \in OpenTx
      BY <1>1 DEF OpenTx, SendPhases
    <2>3. ShapeOf(r)
      BY <1>1, <2>1 DEF ShapeOf, SendPhases, SendFind, At, OpenTx, ConfirmPhases
    <2>4. tx' = [tx EXCEPT ![h] = r]
      BY <2>1
    <2> HIDE DEF r
    <2> QED BY <2>2, <2>3, <2>4, Moves DEF SendFind, Typed, TypeOK, tables, history
  <1> QED BY <1>2, <1>3 DEF SendFind

LEMMA SendRereadTyped ==
    ASSUME Typed, NEW h \in Handlers, SendReread(h)
    PROVE  Typed'
  <1>1. tx[h] \in OpenTx /\ ShapeOf(tx[h])
    BY RunningIsOpen DEF SendReread, At, Running
  <1> DEFINE r == [tx[h] EXCEPT !.pc = "rewrite"]
  <1>2. r \in OpenTx
    BY <1>1 DEF OpenTx, SendPhases
  <1>3. ShapeOf(r)
    BY <1>1 DEF ShapeOf, SendReread, At, OpenTx, SendPhases, ConfirmPhases
  <1>4. CASE Goto(h, "rewrite")
    <2>1. tx' = [tx EXCEPT ![h] = r]
      BY <1>4 DEF Goto
    <2> HIDE DEF r
    <2> QED BY <1>2, <1>3, <2>1, MovesQuietly DEF SendReread
  <1>5. CASE RollBack(h)
    BY <1>5, RollBackTyped DEF SendReread, tables, history, Typed, TypeOK
  <1> QED BY <1>4, <1>5 DEF SendReread

LEMMA SendRewriteTyped ==
    ASSUME Typed, NEW h \in Handlers, SendRewrite(h)
    PROVE  Typed'
  <1>1. tx[h] \in OpenTx /\ ShapeOf(tx[h])
    BY RunningIsOpen DEF SendRewrite, At, Running
  <1>a. Request(h) \in RequestRow
    BY <1>1, OpenFields DEF Request, RequestRow
  <1> DEFINE r == [tx[h] EXCEPT !.pc = "findCount", !.row = Request(h)]
  <1>2. r \in OpenTx
    BY <1>1, <1>a, NoneAssumption DEF OpenTx, SendPhases, ConfirmPhases
  <1>3. ShapeOf(r)
    BY <1>1, <1>a, NoneAssumption DEF ShapeOf, SendRewrite, At, OpenTx, SendPhases, ConfirmPhases
  <1>4. tx' = [tx EXCEPT ![h] = r]
    BY DEF SendRewrite
  <1> HIDE DEF r
  <1> QED BY <1>2, <1>3, <1>4, MovesQuietly DEF SendRewrite

LEMMA SendCreateTyped ==
    ASSUME Typed, NEW h \in Handlers, SendCreate(h)
    PROVE  Typed'
  <1>1. tx[h] \in OpenTx /\ ShapeOf(tx[h])
    BY RunningIsOpen DEF SendCreate, At, Running
  <1> DEFINE n == nextId[tx[h].kind].request
             r == [tx[h] EXCEPT !.pc = "findCount", !.row = Request(h), !.request = n]
  <1>2. Request(h) \in RequestRow /\ n \in Ids /\ tx[h].kind \in Kinds
    BY <1>1, OpenFields DEF Request, RequestRow, SendCreate
  <1>3. r \in OpenTx
    BY <1>1, <1>2 DEF OpenTx, SendPhases
  <1>4. ShapeOf(r)
    BY <1>1, <1>2, NoneAssumption DEF ShapeOf, SendCreate, At, OpenTx, SendPhases, ConfirmPhases
  <1>5. tx' = [tx EXCEPT ![h] = r]
    BY DEF SendCreate
  <1>6. nextId' \in [Kinds -> [request : 1 .. MaxTokens + 1, count : 1 .. MaxTokens + 1]]
    <2>1. n + 1 \in 1 .. MaxTokens + 1
      BY <1>2, BoundsAssumption DEF Ids
    <2>2. nextId' = [nextId EXCEPT ![tx[h].kind].request = n + 1]
      BY DEF SendCreate
    <2>3. nextId \in [Kinds -> [request : 1 .. MaxTokens + 1, count : 1 .. MaxTokens + 1]]
      BY DEF Typed, TypeOK
    <2> HIDE DEF n
    <2> QED BY <2>1, <2>2, <2>3
  <1> HIDE DEF r, n
  <1> QED BY <1>3, <1>4, <1>5, <1>6, Moves DEF SendCreate, Typed, TypeOK, tables, history

LEMMA SendFindCountTyped ==
    ASSUME Typed, NEW h \in Handlers, SendFindCount(h)
    PROVE  Typed'
  <1>1. tx[h] \in OpenTx /\ ShapeOf(tx[h])
    BY RunningIsOpen DEF SendFindCount, At, Running
  <1>2. CASE Goto(h, "newCount")
    <2> DEFINE r == [tx[h] EXCEPT !.pc = "newCount"]
    <2>1. r \in OpenTx
      BY <1>1 DEF OpenTx, SendPhases
    <2>2. ShapeOf(r)
      BY <1>1 DEF ShapeOf, SendFindCount, At, OpenTx, SendPhases, ConfirmPhases
    <2>3. tx' = [tx EXCEPT ![h] = r]
      BY <1>2 DEF Goto
    <2> HIDE DEF r
    <2> QED BY <2>1, <2>2, <2>3, MovesQuietly DEF SendFindCount
  <1>3. CASE \E c \in Ids : /\ counts[tx[h].kind][c] # None
                            /\ tx' = [tx EXCEPT ![h].pc = "tally", ![h].count = c,
                                                ![h].seen = counts[tx[h].kind][c]]
    <2>1. PICK c \in Ids : /\ counts[tx[h].kind][c] # None
                           /\ tx' = [tx EXCEPT ![h].pc = "tally", ![h].count = c,
                                               ![h].seen = counts[tx[h].kind][c]]
      BY <1>3
    <2> DEFINE row == counts[tx[h].kind][c]
               r == [tx[h] EXCEPT !.pc = "tally", !.count = c, !.seen = row]
    <2>2. row \in CountRow
      BY <1>1, <2>1, OpenFields DEF Typed, TypeOK
    <2>3. r \in OpenTx
      BY <1>1, <2>2 DEF OpenTx, SendPhases
    <2>4. ShapeOf(r)
      BY <1>1, <2>1 DEF ShapeOf, SendFindCount, At, OpenTx, SendPhases, ConfirmPhases
    <2>5. tx' = [tx EXCEPT ![h] = r]
      BY <2>1
    <2> HIDE DEF r
    <2> QED BY <2>3, <2>4, <2>5, MovesQuietly DEF SendFindCount
  <1> QED BY <1>2, <1>3 DEF SendFindCount, CountsOf

LEMMA SendNewCountTyped ==
    ASSUME Typed, NEW h \in Handlers, SendNewCount(h)
    PROVE  Typed'
  <1>1. tx[h] \in OpenTx /\ ShapeOf(tx[h])
    BY RunningIsOpen DEF SendNewCount, At, Running
  <1> DEFINE k == tx[h].kind
             c == nextId[k].count
             row == [request |-> tx[h].request, count |-> 0, date |-> "never", live |-> TRUE]
             r == [tx[h] EXCEPT !.pc = "commit", !.count = c, !.tally = row]
  <1>2. k \in Kinds /\ c \in Ids /\ tx[h].request \in Ids
    BY <1>1, OpenFields DEF SendNewCount, ShapeOf, At
  <1>3. nextId' \in [Kinds -> [request : 1 .. MaxTokens + 1, count : 1 .. MaxTokens + 1]]
    <2>1. c + 1 \in 1 .. MaxTokens + 1
      BY <1>2, BoundsAssumption DEF Ids
    <2>2. nextId' = [nextId EXCEPT ![k].count = c + 1]
      BY DEF SendNewCount
    <2>3. nextId \in [Kinds -> [request : 1 .. MaxTokens + 1, count : 1 .. MaxTokens + 1]]
      BY DEF Typed, TypeOK
    <2> HIDE DEF c, k
    <2> QED BY <2>1, <2>2, <2>3
  <1>4. CASE RollBack(h) /\ mail' = mail
    <2> HIDE DEF r, c, k, row
    <2> QED BY <1>3, <1>4, RollBackTyped DEF SendNewCount, tables, history
  <1>5. CASE tx' = [tx EXCEPT ![h].pc = "commit", ![h].count = c, ![h].tally = row] /\ SendMail(h)
    <2>a. 0 \in 0 .. MaxAttempts
      BY BoundsAssumption
    <2>b. row \in CountRow
      BY <1>2, <2>a DEF CountRow, Dates
    <2>1. row \in CountRow /\ row # None
      BY <2>b, NoneAssumption
    <2>2. r \in OpenTx
      BY <1>1, <1>2, <2>1 DEF OpenTx
    <2>3. ShapeOf(r)
      BY <1>1, <1>2, <2>1 DEF ShapeOf, SendNewCount, At, OpenTx, SendPhases, ConfirmPhases
    <2>4. tx' = [tx EXCEPT ![h] = r]
      BY <1>5
    <2>5. mail' \subseteq Mail
      BY <1>1, <1>5, OpenFields DEF SendMail, Mail, Typed, TypeOK
    <2> HIDE DEF r, c, k, row
    <2> QED BY <1>3, <2>2, <2>3, <2>4, <2>5, Moves DEF SendNewCount, Typed, TypeOK, tables, history
  <1> QED BY <1>4, <1>5 DEF SendNewCount


LEMMA TallyTyped ==
    ASSUME Typed, NEW h \in Running, At(h, "tally"), NEW n \in 0 .. MaxAttempts, Tally(h, n),
           UNCHANGED <<identity, tables, nextId, token, history>>
    PROVE  Typed'
  <1> DEFINE old == counts[tx[h].kind][tx[h].count]
             row == [old EXCEPT !.count = n, !.date = "today"]
             r == [tx[h] EXCEPT !.pc = "commit", !.tally = row]
  <1>1. h \in Handlers /\ tx[h] \in OpenTx /\ ShapeOf(tx[h])
    BY RunningIsOpen
  <1>2. old \in CountRow
    BY <1>1, OpenFields DEF ShapeOf, At, Typed, TypeOK
  <1>3. row \in CountRow
    <2> HIDE DEF old
    <2> QED BY <1>2 DEF CountRow, Dates
  <1>4. row # None
    BY <1>3, NoneAssumption
  <1>5. r \in OpenTx
    <2> HIDE DEF row
    <2> QED BY <1>1, <1>3 DEF OpenTx
  <1>6. ShapeOf(r)
    <2> HIDE DEF row
    <2> QED BY <1>1, <1>4 DEF ShapeOf, At, OpenTx, SendPhases, ConfirmPhases
  <1>7. tx' = [tx EXCEPT ![h] = r]
    BY DEF Tally
  <1>8. mail' \subseteq Mail
    BY <1>1, OpenFields DEF Tally, SendMail, Mail, Typed, TypeOK
  <1> HIDE DEF r
  <1> QED BY <1>1, <1>5, <1>6, <1>7, <1>8, Moves DEF Typed, TypeOK, tables, history

LEMMA SendTallyTyped ==
    ASSUME Typed, NEW h \in Handlers, SendTally(h)
    PROVE  Typed'
  <1>1. tx[h] \in OpenTx /\ ShapeOf(tx[h])
    BY RunningIsOpen DEF SendTally, At, Running
  <1>2. h \in Running /\ At(h, "tally") /\ UNCHANGED <<identity, tables, nextId, token, history>>
    BY DEF SendTally, At, Running
  <1>3. CASE RollBack(h) /\ mail' = mail
    BY <1>2, <1>3, RollBackTyped DEF tables, history, Typed, TypeOK
  <1>4. CASE tx[h].seen.count < MaxAttempts /\ Tally(h, tx[h].seen.count + 1)
    <2>1. tx[h].seen \in CountRow
      BY <1>1, <1>2, OpenFields DEF ShapeOf, At
    <2>2. tx[h].seen.count \in 0 .. MaxAttempts
      BY <2>1 DEF CountRow
    <2>3. tx[h].seen.count + 1 \in 0 .. MaxAttempts
      BY <1>4, <2>2, BoundsAssumption
    <2> QED BY <1>2, <1>4, <2>3, TallyTyped
  <1>5. CASE Tally(h, 0)
    BY <1>2, <1>5, TallyTyped, BoundsAssumption
  <1> QED BY <1>3, <1>4, <1>5 DEF SendTally

LEMMA ConfirmLookupTyped ==
    ASSUME Typed, NEW h \in Handlers, ConfirmLookup(h)
    PROVE  Typed'
  <1>1. tx[h] \in OpenTx /\ ShapeOf(tx[h])
    BY RunningIsOpen DEF ConfirmLookup, At, Running
  <1>2. CASE RollBack(h)
    BY <1>2, RollBackTyped DEF ConfirmLookup, tables, history, Typed, TypeOK
  <1>3. CASE Goto(h, "reuse")
    <2> DEFINE r == [tx[h] EXCEPT !.pc = "reuse"]
    <2>1. r \in OpenTx
      BY <1>1 DEF OpenTx, ConfirmPhases
    <2>2. ShapeOf(r)
      BY <1>1 DEF ShapeOf, ConfirmLookup, At, OpenTx, SendPhases, ConfirmPhases
    <2>3. tx' = [tx EXCEPT ![h] = r]
      BY <1>3 DEF Goto
    <2> HIDE DEF r
    <2> QED BY <2>1, <2>2, <2>3, MovesQuietly DEF ConfirmLookup
  <1>4. CASE \E i \in Ids : /\ requests[tx[h].kind][i] # None
                            /\ tx' = [tx EXCEPT ![h].pc = "identity", ![h].request = i]
    <2>1. PICK i \in Ids : /\ requests[tx[h].kind][i] # None
                           /\ tx' = [tx EXCEPT ![h].pc = "identity", ![h].request = i]
      BY <1>4
    <2> DEFINE r == [tx[h] EXCEPT !.pc = "identity", !.request = i]
    <2>2. r \in OpenTx
      BY <1>1 DEF OpenTx, ConfirmPhases
    <2>3. ShapeOf(r)
      BY <1>1, <2>1 DEF ShapeOf, ConfirmLookup, At, OpenTx, SendPhases, ConfirmPhases
    <2>4. tx' = [tx EXCEPT ![h] = r]
      BY <2>1
    <2> HIDE DEF r
    <2> QED BY <2>2, <2>3, <2>4, MovesQuietly DEF ConfirmLookup
  <1> QED BY <1>2, <1>3, <1>4 DEF ConfirmLookup, Found

LEMMA ConfirmReuseTyped ==
    ASSUME Typed, NEW h \in Handlers, ConfirmReuse(h)
    PROVE  Typed'
  <1>1. tx[h] \in OpenTx /\ ShapeOf(tx[h])
    BY RunningIsOpen DEF ConfirmReuse, At, Running
  <1> DEFINE row == [identity[tx[h].user] EXCEPT !.locked = TRUE]
             r == [tx[h] EXCEPT !.pc = "throw", !.identity = row]
  <1>a. identity[tx[h].user] \in IdentityRow
    BY <1>1, OpenFields DEF Typed, TypeOK
  <1>2. row \in IdentityRow
    BY <1>1, <1>a, OpenFields DEF IdentityRow
  <1>3. row # None
    BY <1>2, NoneAssumption
  <1>4. r \in OpenTx
    <2> HIDE DEF row
    <2> QED BY <1>1, <1>2 DEF OpenTx, ConfirmPhases
  <1>5. ShapeOf(r)
    <2> HIDE DEF row
    <2> QED BY <1>1, <1>3 DEF ShapeOf, ConfirmReuse, At, OpenTx, SendPhases, ConfirmPhases
  <1>6. tx' = [tx EXCEPT ![h] = r]
    BY DEF ConfirmReuse
  <1> HIDE DEF r
  <1> QED BY <1>4, <1>5, <1>6, MovesQuietly DEF ConfirmReuse

LEMMA ConfirmIdentityTyped ==
    ASSUME Typed, NEW h \in Handlers, ConfirmIdentity(h)
    PROVE  Typed'
  <1>1. tx[h] \in OpenTx /\ ShapeOf(tx[h])
    BY RunningIsOpen DEF ConfirmIdentity, At, Running
  <1> DEFINE row == Confirmed(tx[h].kind, tx[h].token, identity[tx[h].user])
             r == [tx[h] EXCEPT !.pc = "softDelete", !.identity = row]
  <1>a. identity[tx[h].user] \in IdentityRow
    BY <1>1, OpenFields DEF Typed, TypeOK
  <1>2. row \in IdentityRow
    BY <1>1, <1>a, OpenFields DEF IdentityRow, Confirmed
  <1>3. row # None
    BY <1>2, NoneAssumption
  <1>4. r \in OpenTx
    <2> HIDE DEF row
    <2> QED BY <1>1, <1>2 DEF OpenTx, ConfirmPhases
  <1>5. ShapeOf(r)
    <2> HIDE DEF row
    <2> QED BY <1>1, <1>3 DEF ShapeOf, ConfirmIdentity, At, OpenTx, SendPhases, ConfirmPhases
  <1>6. tx' = [tx EXCEPT ![h] = r]
    BY DEF ConfirmIdentity
  <1> HIDE DEF r
  <1> QED BY <1>4, <1>5, <1>6, MovesQuietly DEF ConfirmIdentity

LEMMA ConfirmSoftDeleteTyped ==
    ASSUME Typed, NEW h \in Handlers, ConfirmSoftDelete(h)
    PROVE  Typed'
  <1>1. tx[h] \in OpenTx /\ ShapeOf(tx[h])
    BY RunningIsOpen DEF ConfirmSoftDelete, At, Running
  <1> DEFINE row == [requests[tx[h].kind][tx[h].request] EXCEPT !.live = FALSE]
             r == [tx[h] EXCEPT !.pc = "softCount", !.row = row]
  <1>a. requests[tx[h].kind][tx[h].request] \in RequestRow
    BY <1>1, OpenFields DEF ConfirmSoftDelete, ShapeOf, At, Typed, TypeOK
  <1>2. row \in RequestRow
    BY <1>a DEF RequestRow
  <1>3. row # None
    BY <1>2, NoneAssumption
  <1>4. r \in OpenTx
    <2> HIDE DEF row
    <2> QED BY <1>1, <1>2 DEF OpenTx, ConfirmPhases
  <1>5. ShapeOf(r)
    <2> HIDE DEF row
    <2> QED BY <1>1, <1>3 DEF ShapeOf, ConfirmSoftDelete, At, OpenTx, SendPhases, ConfirmPhases
  <1>6. tx' = [tx EXCEPT ![h] = r]
    BY DEF ConfirmSoftDelete
  <1> HIDE DEF r
  <1> QED BY <1>4, <1>5, <1>6, MovesQuietly DEF ConfirmSoftDelete

LEMMA ConfirmSoftCountTyped ==
    ASSUME Typed, NEW h \in Handlers, ConfirmSoftCount(h)
    PROVE  Typed'
  <1>1. tx[h] \in OpenTx /\ ShapeOf(tx[h])
    BY RunningIsOpen DEF ConfirmSoftCount, At, Running
  <1> DEFINE i == tx[h].request
             old == counts[tx[h].kind][i]
             row == [old EXCEPT !.live = FALSE]
             r == [tx[h] EXCEPT !.pc = "commit", !.count = i, !.tally = row]
  <1>2. CASE RollBack(h)
    BY <1>2, RollBackTyped DEF ConfirmSoftCount, tables, history, Typed, TypeOK
  <1>3. CASE old # None /\ tx' = [tx EXCEPT ![h].pc = "commit", ![h].count = i, ![h].tally = row]
    <2>1. i \in Ids /\ tx[h].kind \in Kinds
      BY <1>1, OpenFields DEF ShapeOf, ConfirmSoftCount, At
    <2>2. old \in CountRow
      BY <1>3, <2>1 DEF Typed, TypeOK
    <2>3. row \in CountRow
      <3> HIDE DEF old
      <3> QED BY <2>2 DEF CountRow
    <2>4. row # None
      BY <2>3, NoneAssumption
    <2>5. r \in OpenTx
      <3> HIDE DEF row
      <3> QED BY <1>1, <2>1, <2>3 DEF OpenTx
    <2>6. ShapeOf(r)
      <3> HIDE DEF row
      <3> QED BY <1>1, <2>1, <2>4 DEF ShapeOf, ConfirmSoftCount, At, OpenTx, SendPhases, ConfirmPhases
    <2>7. tx' = [tx EXCEPT ![h] = r]
      BY <1>3
    <2> HIDE DEF r
    <2> QED BY <2>5, <2>6, <2>7, MovesQuietly DEF ConfirmSoftCount
  <1> QED BY <1>2, <1>3 DEF ConfirmSoftCount

LEMMA ConfirmReuseThrowsTyped ==
    ASSUME Typed, NEW h \in Handlers, ConfirmReuseThrows(h)
    PROVE  Typed'
  <1> QED BY RollBackTyped DEF ConfirmReuseThrows, tables, history, Typed, TypeOK

LEMMA FailTyped ==
    ASSUME Typed, NEW h \in Handlers, Fail(h)
    PROVE  Typed'
  <1> QED BY RollBackTyped DEF Fail, tables, history, Typed, TypeOK

\* A commitment puts rows where there were some or none, never the reverse.
LEMMA CommitTyped ==
    ASSUME Typed, NEW h \in Handlers, Commit(h)
    PROVE  Typed'
  <1> DEFINE t == tx[h]
  <1>1. t \in OpenTx /\ ShapeOf(t)
    BY RunningIsOpen DEF Commit, At, Running
  <1>2. /\ t.kind \in Kinds /\ t.user \in Users /\ t.token \in Tokens /\ t.op \in {"send", "confirm"}
        /\ t.request \in Ids /\ t.count \in Ids
        /\ t.row \in RequestRow /\ t.row # None /\ t.tally \in CountRow /\ t.tally # None
        /\ t.op = "confirm" => t.identity \in IdentityRow
    BY <1>1, OpenFields DEF ShapeOf, Commit, At
  <1> HIDE DEF t
  <1>3. identity' \in [Users -> IdentityRow]
    BY <1>2 DEF Commit, Typed, TypeOK, t
  <1>4. requests' \in [Kinds -> [Ids -> RequestRow \cup {None}]]
    BY <1>2 DEF Commit, Typed, TypeOK, t
  <1>5. counts' \in [Kinds -> [Ids -> CountRow \cup {None}]]
    BY <1>2 DEF Commit, Typed, TypeOK, t
  <1>6. used' \subseteq Tokens
    BY <1>2 DEF Commit, Typed, TypeOK, t
  <1>7. sends' \in [Kinds -> [Ids -> Nat]]
    <2>1. sends[t.kind][t.request] \in Nat
      BY <1>2 DEF Typed, TypeOK
    <2> QED BY <1>2, <2>1 DEF Commit, Typed, TypeOK, t
  <1>8. tx' \in [Handlers -> OpenTx \cup {Idle}]
    BY DEF Commit, RollBack, Typed, TypeOK
  <1>9. TypeOK'
    BY <1>3, <1>4, <1>5, <1>6, <1>7, <1>8 DEF Commit, Typed, TypeOK
  <1>10. ASSUME NEW k \in Kinds, NEW i \in Ids
         PROVE  /\ requests[k][i] # None => requests'[k][i] # None
                /\ counts[k][i] # None => counts'[k][i] # None
    <2>1. requests' = [requests EXCEPT ![t.kind][t.request] = t.row]
      BY DEF Commit, t
    <2>2. counts' = [counts EXCEPT ![t.kind][t.count] = t.tally]
      BY DEF Commit, t
    <2> QED BY <1>2, <1>10, <2>1, <2>2 DEF Typed, TypeOK
  <1>11. ASSUME NEW g \in Running' PROVE ShapeOf(tx[g])'
    <2>1. g \in Running /\ tx'[g] = tx[g]
      BY <1>11 DEF Running, At, Commit, RollBack, Typed, TypeOK, Idle
    <2>2. ShapeOf(tx[g]) /\ tx[g].kind \in Kinds
      BY <2>1, RunningIsOpen, OpenFields
    <2> QED BY <2>1, <2>2, <1>10 DEF ShapeOf
  <1> QED BY <1>9, <1>11 DEF Typed, Shape

LEMMA BlacklistTyped ==
    ASSUME Typed, NEW u \in Lockable, NEW b \in BOOLEAN, Blacklist(u, b)
    PROVE  Typed'
  <1>1. u \in Users
    BY UsersAssumption
  <1>2. identity' \in [Users -> IdentityRow]
    BY <1>1 DEF Blacklist, Typed, TypeOK, IdentityRow
  <1>3. TypeOK'
    BY <1>2 DEF Blacklist, Typed, TypeOK, tables, history
  <1> QED BY <1>3 DEF Blacklist, Typed, Shape, ShapeOf, Running, At, tables

LEMMA DayPassesTyped ==
    ASSUME Typed, DayPasses
    PROVE  Typed'
  <1>1. counts' \in [Kinds -> [Ids -> CountRow \cup {None}]]
    <2>1. ASSUME NEW k \in Kinds, NEW i \in Ids, counts[k][i] # None
          PROVE  [counts[k][i] EXCEPT !.date = "past"] \in CountRow
      <3>1. counts[k][i] \in CountRow
        BY <2>1 DEF Typed, TypeOK
      <3> QED BY <3>1 DEF CountRow, Dates
    <2> QED BY <2>1 DEF DayPasses, Typed, TypeOK
  <1>2. TypeOK'
    BY <1>1 DEF DayPasses, Typed, TypeOK, history
  <1>3. Running' = {}
    BY DEF DayPasses, Running, At
  <1> QED BY <1>2, <1>3 DEF Typed, Shape

LEMMA InitTyped == Init => Typed
  <1> SUFFICES ASSUME Init PROVE Typed
    OBVIOUS
  <1>1. TypeOK
    <2> DEFINE rows == {[verified |-> v, locked |-> FALSE, password |-> 0] : v \in BOOLEAN}
    <2>a. rows \subseteq IdentityRow
      <3>1. ASSUME NEW v \in BOOLEAN
            PROVE  [verified |-> v, locked |-> FALSE, password |-> 0] \in IdentityRow
        BY DEF IdentityRow
      <3> QED BY <3>1
    <2>b. identity \in [Users -> rows]
      BY DEF Init
    <2> HIDE DEF rows
    <2>1. identity \in [Users -> IdentityRow]
      BY <2>a, <2>b
    <2>2. nextId \in [Kinds -> [request : 1 .. MaxTokens + 1, count : 1 .. MaxTokens + 1]]
      BY BoundsAssumption DEF Init
    <2>3. token \in 0 .. MaxTokens
      BY BoundsAssumption DEF Init
    <2> QED BY <2>1, <2>2, <2>3 DEF Init, TypeOK
  <1>2. Running = {}
    BY DEF Init, Running, At, Idle
  <1> QED BY <1>1, <1>2 DEF Typed, Shape

LEMMA NextTyped == Typed /\ [Next]_vars => Typed'
  <1> SUFFICES ASSUME Typed, [Next]_vars PROVE Typed'
    OBVIOUS
  <1>1. CASE UNCHANGED vars
    <2>1. UNCHANGED <<identity, requests, counts, nextId, tx, token, mail, used, sends, crossed>>
      BY <1>1 DEF vars
    <2>2. TypeOK' /\ Running' = Running
      BY <2>1 DEF Typed, TypeOK, Running, At
    <2>3. Shape'
      BY <2>1, <2>2 DEF Typed, Shape, ShapeOf
    <2> QED BY <2>2, <2>3 DEF Typed
  <1>2. ASSUME NEW h \in Handlers, NEW k \in Kinds, NEW u \in Users, StartSend(h, k, u)
        PROVE  Typed'
    BY <1>2, StartSendTyped
  <1>3. ASSUME NEW h \in Handlers, NEW m \in mail, StartConfirm(h, m) PROVE Typed'
    BY <1>3, StartConfirmTyped
  <1>4. ASSUME NEW h \in Handlers, Send(h) PROVE Typed'
    BY <1>4, SendFindTyped, SendRereadTyped, SendRewriteTyped, SendCreateTyped,
       SendFindCountTyped, SendNewCountTyped, SendTallyTyped DEF Send
  <1>5. ASSUME NEW h \in Handlers, Confirm(h) PROVE Typed'
    BY <1>5, ConfirmLookupTyped, ConfirmReuseTyped, ConfirmReuseThrowsTyped,
       ConfirmIdentityTyped, ConfirmSoftDeleteTyped, ConfirmSoftCountTyped DEF Confirm
  <1>6. ASSUME NEW h \in Handlers, Commit(h) \/ Fail(h) PROVE Typed'
    BY <1>6, CommitTyped, FailTyped
  <1>7. ASSUME NEW u \in Lockable, NEW b \in BOOLEAN, Blacklist(u, b) PROVE Typed'
    BY <1>7, BlacklistTyped
  <1> QED BY <1>1, <1>2, <1>3, <1>4, <1>5, <1>6, <1>7, DayPassesTyped DEF Next, Step

\* Every reachable state is well typed: rows and handlers have their types, and
\* no count of attempts exceeds the limit.
THEOREM TypeCorrect == Spec => []TypeOK
  <1>1. Typed => TypeOK
    BY DEF Typed
  <1> QED BY <1>1, InitTyped, NextTyped, PTL DEF Spec

-----------------------------------------------------------------------------
\* Tokens are spent once.

Held(k, i, t) == requests[k][i] # None /\ requests[k][i].live /\ requests[k][i].jti = t

\* A confirmation that has found its request live, and will write.
Accepts(t) == t.op = "confirm" /\ t.pc \in {"identity", "softDelete", "softCount", "commit"}

\* What holds of one open transaction.  A send's token is nobody's yet, and its
\* row carries it; a confirmation's token is held by the request it found, if
\* that still holds it, and its row is a deleted one.
Sound(t) ==
    /\ t.token <= token
    /\ t.op = "send" =>
         /\ t.token \notin used
         /\ \A k \in Kinds, i \in Ids : ~Held(k, i, t.token)
         /\ t.row # None => t.row.jti = t.token
    /\ t.op = "confirm" /\ t.row # None => ~t.row.live
    /\ Accepts(t) =>
         \A k \in Kinds, i \in Ids : Held(k, i, t.token) => k = t.kind /\ i = t.request

\* No other send, and no confirmation that will write, has a send's token.
Apart(t, s) ==
    /\ t.op = "send" /\ s.op = "send" => t.token # s.token
    /\ t.op = "send" /\ Accepts(s) => t.token # s.token
    /\ Accepts(t) /\ s.op = "send" => t.token # s.token

Bounded ==
    /\ \A t \in used : t <= token
    /\ \A m \in mail : m.token <= token
    /\ \A k \in Kinds, i \in Ids, t \in Tokens : Held(k, i, t) => t <= token

HeldOnce ==
    \A k1, k2 \in Kinds, i, j \in Ids, t \in Tokens :
       Held(k1, i, t) /\ Held(k2, j, t) => k1 = k2 /\ i = j

Spent ==
    /\ Bounded
    /\ HeldOnce
    /\ UsedTokenIsSpent
    /\ \A h \in Running : Sound(tx[h])
    /\ \A g, h \in Running : g # h => Apart(tx[g], tx[h])

\* A step that moves one handler and commits nothing.
LEMMA SpentMoves ==
    ASSUME Typed, Spent, NEW h \in Handlers, NEW r, tx' = [tx EXCEPT ![h] = r],
           UNCHANGED <<requests, used, token>>, \A m \in mail' : m.token <= token,
           r.pc # "idle" => Sound(r),
           r.pc # "idle" => \A g \in Running \ {h} : Apart(r, tx[g])
    PROVE  Spent'
  <1>1. Bounded' /\ HeldOnce' /\ UsedTokenIsSpent'
    BY DEF Spent, Bounded, HeldOnce, UsedTokenIsSpent, Held
  <1>2. tx'[h] = r /\ \A g \in Handlers \ {h} : tx'[g] = tx[g]
    BY DEF Typed, TypeOK
  <1>3. ASSUME NEW g \in Running' PROVE Sound(tx[g])'
    <2>1. g \in Handlers /\ tx'[g].pc # "idle"
      BY <1>3 DEF Running, At
    <2>2. Sound(tx'[g])
      BY <1>2, <2>1 DEF Spent, Running, At
    <2> QED BY <2>2 DEF Sound, Held, Accepts
  <1>4. ASSUME NEW f \in Running', NEW g \in Running', f # g PROVE Apart(tx[f], tx[g])'
    <2>1. f \in Handlers /\ g \in Handlers /\ tx'[f].pc # "idle" /\ tx'[g].pc # "idle"
      BY <1>4 DEF Running, At
    <2>2. \A e \in Handlers \ {h} : tx'[e].pc # "idle" => e \in Running \ {h}
      BY <1>2 DEF Running, At
    <2>3. CASE f = h
      <3>1. Apart(r, tx[g])
        BY <1>2, <1>4, <2>1, <2>2, <2>3
      <3> QED BY <1>2, <1>4, <2>1, <2>3, <3>1 DEF Apart, Accepts
    <2>4. CASE g = h
      <3>1. Apart(r, tx[f])
        BY <1>2, <1>4, <2>1, <2>2, <2>4
      <3> QED BY <1>2, <1>4, <2>1, <2>4, <3>1 DEF Apart, Accepts
    <2>5. CASE f # h /\ g # h
      <3>1. Apart(tx[f], tx[g])
        BY <1>4, <2>1, <2>2, <2>5 DEF Spent
      <3> QED BY <1>2, <2>1, <2>5, <3>1 DEF Apart, Accepts
    <2> QED BY <2>3, <2>4, <2>5
  <1> QED BY <1>1, <1>3, <1>4 DEF Spent

\* The same, for a handler that goes on with its token, finds nothing and
\* writes, if at all, a row of the kind it should.
LEMMA SpentContinues ==
    ASSUME Typed, Spent, NEW h \in Running, NEW r, tx' = [tx EXCEPT ![h] = r],
           UNCHANGED <<requests, used, token>>, \A m \in mail' : m.token <= token,
           r.op = tx[h].op, r.token = tx[h].token, r.kind = tx[h].kind,
           Accepts(r) => Accepts(tx[h]) /\ r.request = tx[h].request,
           \/ r.row = tx[h].row
           \/ r.op = "send" /\ r.row.jti = r.token
           \/ r.op = "confirm" /\ ~r.row.live
    PROVE  Spent'
  <1>1. h \in Handlers
    BY DEF Running
  <1>2. Sound(r)
    BY DEF Spent, Sound, Accepts
  <1>3. \A g \in Running \ {h} : Apart(r, tx[g])
    <2>1. \A g \in Running \ {h} : Apart(tx[h], tx[g])
      BY DEF Spent
    <2> QED BY <2>1 DEF Apart
  <1> QED BY <1>1, <1>2, <1>3, SpentMoves

LEMMA SpentRollsBack ==
    ASSUME Typed, Spent, NEW h \in Handlers, RollBack(h),
           UNCHANGED <<requests, used, token, mail>>
    PROVE  Spent'
  <1>1. tx' = [tx EXCEPT ![h] = Idle] /\ Idle.pc = "idle"
    BY DEF RollBack, Idle
  <1>2. \A m \in mail' : m.token <= token
    BY DEF Spent, Bounded
  <1> HIDE DEF Idle
  <1> QED BY <1>1, <1>2, SpentMoves

LEMMA SendMailBounded ==
    ASSUME Spent, NEW h \in Running, SendMail(h)
    PROVE  \A m \in mail' : m.token <= token
  BY DEF Spent, Bounded, Sound, SendMail

LEMMA StartSendSpent ==
    ASSUME Typed, Spent, NEW h \in Handlers, NEW k \in Kinds, NEW u \in Users, StartSend(h, k, u)
    PROVE  Spent'
  <1> DEFINE r == Begin("send", "find", k, u, token + 1)
  <1>1. /\ token \in Nat /\ token' = token + 1 /\ tx' = [tx EXCEPT ![h] = r]
        /\ UNCHANGED <<requests, used, mail>>
    BY BoundsAssumption DEF StartSend, Typed, TypeOK, tables
  <1>2. r.op = "send" /\ r.pc = "find" /\ r.token = token + 1 /\ r.row = None
    BY DEF Begin
  <1>3. \A g \in Running : tx[g].token \in Nat /\ tx[g].token <= token
    <2>1. \A g \in Running : tx[g].token \in Tokens
      BY RunningIsOpen, OpenFields
    <2> QED BY <2>1, BoundsAssumption DEF Spent, Sound, Tokens
  <1>4. /\ \A t \in used : t \in Nat /\ t <= token
        /\ \A m \in mail : m.token \in Nat /\ m.token <= token
    BY BoundsAssumption DEF Typed, TypeOK, Mail, Spent, Bounded, Tokens
  <1>5. \A l \in Kinds, i \in Ids, t \in Tokens : Held(l, i, t) => t \in Nat /\ t <= token
    BY BoundsAssumption DEF Spent, Bounded, Tokens
  <1>6. tx'[h] = r /\ \A g \in Handlers \ {h} : tx'[g] = tx[g]
    BY <1>1 DEF Typed, TypeOK
  <1> HIDE DEF r
  <1>7. \A g \in Running' : g = h \/ (g \in Running \ {h} /\ tx'[g] = tx[g])
    BY <1>6 DEF Running, At
  <1>8. Bounded'
    <2>1. \A t \in used' : t <= token'
      BY <1>1, <1>4
    <2>2. \A m \in mail' : m.token <= token'
      BY <1>1, <1>4
    <2>3. \A l \in Kinds, i \in Ids, t \in Tokens : Held(l, i, t) => t <= token + 1
      BY <1>1, <1>5
    <2> QED BY <1>1, <2>1, <2>2, <2>3 DEF Bounded, Held
  <1>9. HeldOnce' /\ UsedTokenIsSpent'
    BY <1>1 DEF HeldOnce, UsedTokenIsSpent, Spent, Held
  <1>10. token + 1 \notin used /\ \A l \in Kinds, i \in Ids : ~Held(l, i, token + 1)
    <2>1. token + 1 \in Tokens
      BY <1>1, BoundsAssumption DEF StartSend, Tokens
    <2> QED BY <1>1, <1>4, <1>5, <2>1
  <1>11. Sound(tx[h])'
    BY <1>1, <1>2, <1>6, <1>10 DEF Sound, Accepts, Held
  <1>12. ASSUME NEW g \in Running \ {h}, tx'[g] = tx[g] PROVE Sound(tx[g])'
    <2>1. tx[g].token <= token'
      BY <1>1, <1>3
    <2>2. Sound(tx[g])
      BY DEF Spent
    <2> QED BY <1>1, <1>12, <2>1, <2>2 DEF Sound, Accepts, Held
  <1>13. \A g \in Running' : Sound(tx[g])'
    BY <1>7, <1>11, <1>12
  <1>14. \A g \in Running \ {h} : Apart(r, tx[g]) /\ Apart(tx[g], r)
    BY <1>1, <1>2, <1>3 DEF Apart, Accepts
  <1>15. ASSUME NEW f \in Running', NEW g \in Running', f # g PROVE Apart(tx'[f], tx'[g])
    BY <1>6, <1>7, <1>14, <1>15 DEF Spent
  <1> QED BY <1>8, <1>9, <1>13, <1>15 DEF Spent, Apart, Accepts

LEMMA StartConfirmSpent ==
    ASSUME Typed, Spent, NEW h \in Handlers, NEW m \in mail, StartConfirm(h, m)
    PROVE  Spent'
  <1> DEFINE r == Begin("confirm", "lookup", m.kind, m.user, m.token)
  <1>1. r.op = "confirm" /\ r.pc = "lookup" /\ r.token = m.token /\ r.row = None
    BY DEF Begin
  <1>2. tx' = [tx EXCEPT ![h] = r] /\ UNCHANGED <<requests, used, token, mail>>
    BY DEF StartConfirm, tables, history
  <1>3. m.token <= token /\ \A n \in mail' : n.token <= token
    BY <1>2 DEF Spent, Bounded
  <1> HIDE DEF r
  <1>4. Sound(r)
    BY <1>1, <1>3 DEF Sound, Accepts
  <1>5. \A g \in Running \ {h} : Apart(r, tx[g])
    BY <1>1 DEF Apart, Accepts
  <1> QED BY <1>2, <1>3, <1>4, <1>5, SpentMoves

LEMMA SendFindSpent ==
    ASSUME Typed, Spent, NEW h \in Handlers, SendFind(h)
    PROVE  Spent'
  <1>1. h \in Running /\ tx[h] \in OpenTx /\ ShapeOf(tx[h])
    BY RunningIsOpen DEF SendFind, At, Running
  <1>2. UNCHANGED <<requests, used, token, mail>> /\ \A m \in mail' : m.token <= token
    BY DEF SendFind, tables, history, Spent, Bounded
  <1>3. ASSUME NEW r \in OpenTx, tx' = [tx EXCEPT ![h] = r], r.op = tx[h].op, r.kind = tx[h].kind,
               r.token = tx[h].token, r.row = tx[h].row, r.pc \in {"create", "reread"}
        PROVE  Spent'
    BY <1>1, <1>2, <1>3, SpentContinues DEF Accepts
  <1>4. CASE Goto(h, "create")
    <2>1. [tx[h] EXCEPT !.pc = "create"] \in OpenTx
      BY <1>1 DEF OpenTx, SendPhases
    <2> QED BY <1>1, <1>3, <1>4, <2>1 DEF Goto, OpenTx
  <1>5. ASSUME NEW i \in Ids, tx' = [tx EXCEPT ![h].pc = "reread", ![h].request = i]
        PROVE  Spent'
    <2>1. [tx[h] EXCEPT !.pc = "reread", !.request = i] \in OpenTx
      BY <1>1 DEF OpenTx, SendPhases
    <2> QED BY <1>1, <1>3, <1>5, <2>1 DEF OpenTx
  <1> QED BY <1>4, <1>5 DEF SendFind

LEMMA SendRereadSpent ==
    ASSUME Typed, Spent, NEW h \in Handlers, SendReread(h)
    PROVE  Spent'
  <1>1. h \in Running /\ tx[h] \in OpenTx /\ ShapeOf(tx[h])
    BY RunningIsOpen DEF SendReread, At, Running
  <1>2. UNCHANGED <<requests, used, token, mail>> /\ \A m \in mail' : m.token <= token
    BY DEF SendReread, tables, history, Spent, Bounded
  <1>3. CASE RollBack(h)
    BY <1>2, <1>3, SpentRollsBack
  <1>4. CASE Goto(h, "rewrite")
    <2> DEFINE r == [tx[h] EXCEPT !.pc = "rewrite"]
    <2>1. tx' = [tx EXCEPT ![h] = r]
      BY <1>4 DEF Goto
    <2>2. /\ r.op = tx[h].op /\ r.token = tx[h].token /\ r.kind = tx[h].kind
          /\ ~Accepts(r) /\ r.row = tx[h].row
      BY <1>1 DEF OpenTx, Accepts
    <2> HIDE DEF r
    <2> QED BY <1>1, <1>2, <2>1, <2>2, SpentContinues
  <1> QED BY <1>3, <1>4 DEF SendReread

LEMMA SendRewriteSpent ==
    ASSUME Typed, Spent, NEW h \in Handlers, SendRewrite(h)
    PROVE  Spent'
  <1>1. h \in Running /\ tx[h] \in OpenTx /\ ShapeOf(tx[h])
    BY RunningIsOpen DEF SendRewrite, At, Running
  <1>2. UNCHANGED <<requests, used, token, mail>> /\ \A m \in mail' : m.token <= token
    BY DEF SendRewrite, tables, history, Spent, Bounded
  <1> DEFINE r == [tx[h] EXCEPT !.pc = "findCount", !.row = Request(h)]
  <1>3. tx' = [tx EXCEPT ![h] = r]
    BY DEF SendRewrite
  <1>4. /\ r.op = tx[h].op /\ r.token = tx[h].token /\ r.kind = tx[h].kind
        /\ Accepts(r) => Accepts(tx[h]) /\ r.request = tx[h].request
        /\ r.op = "send" /\ r.row.jti = r.token
    BY <1>1 DEF OpenTx, Accepts, Request, ShapeOf, SendRewrite, At, ConfirmPhases
  <1> HIDE DEF r
  <1> QED BY <1>1, <1>2, <1>3, <1>4, SpentContinues

LEMMA SendCreateSpent ==
    ASSUME Typed, Spent, NEW h \in Handlers, SendCreate(h)
    PROVE  Spent'
  <1>1. h \in Running /\ tx[h] \in OpenTx /\ ShapeOf(tx[h])
    BY RunningIsOpen DEF SendCreate, At, Running
  <1>2. UNCHANGED <<requests, used, token, mail>> /\ \A m \in mail' : m.token <= token
    BY DEF SendCreate, tables, history, Spent, Bounded
  <1> DEFINE r == [tx[h] EXCEPT !.pc = "findCount", !.row = Request(h),
                               !.request = nextId[tx[h].kind].request]
  <1>3. tx' = [tx EXCEPT ![h] = r]
    BY DEF SendCreate
  <1>4. /\ r.op = tx[h].op /\ r.token = tx[h].token /\ r.kind = tx[h].kind
        /\ Accepts(r) => Accepts(tx[h]) /\ r.request = tx[h].request
        /\ r.op = "send" /\ r.row.jti = r.token
    BY <1>1 DEF OpenTx, Accepts, Request, ShapeOf, SendCreate, At, ConfirmPhases
  <1> HIDE DEF r
  <1> QED BY <1>1, <1>2, <1>3, <1>4, SpentContinues

LEMMA SendFindCountSpent ==
    ASSUME Typed, Spent, NEW h \in Handlers, SendFindCount(h)
    PROVE  Spent'
  <1>1. h \in Running /\ tx[h] \in OpenTx /\ ShapeOf(tx[h])
    BY RunningIsOpen DEF SendFindCount, At, Running
  <1>2. UNCHANGED <<requests, used, token, mail>> /\ \A m \in mail' : m.token <= token
    BY DEF SendFindCount, tables, history, Spent, Bounded
  <1>3. ASSUME NEW r, tx' = [tx EXCEPT ![h] = r], r.op = tx[h].op, r.kind = tx[h].kind,
               r.token = tx[h].token, r.row = tx[h].row, ~Accepts(r)
        PROVE  Spent'
    BY <1>1, <1>2, <1>3, SpentContinues
  <1>4. CASE Goto(h, "newCount")
    BY <1>1, <1>3, <1>4 DEF Goto, OpenTx, Accepts
  <1>5. ASSUME NEW c \in Ids, NEW row,
               tx' = [tx EXCEPT ![h].pc = "tally", ![h].count = c, ![h].seen = row]
        PROVE  Spent'
    <2> DEFINE r == [tx[h] EXCEPT !.pc = "tally", !.count = c, !.seen = row]
    <2>1. tx' = [tx EXCEPT ![h] = r]
      BY <1>5
    <2>2. /\ r.op = tx[h].op /\ r.token = tx[h].token /\ r.kind = tx[h].kind
          /\ r.row = tx[h].row /\ ~Accepts(r)
      BY <1>1 DEF OpenTx, Accepts
    <2> HIDE DEF r
    <2> QED BY <1>3, <2>1, <2>2
  <1> QED BY <1>4, <1>5 DEF SendFindCount, CountsOf

LEMMA SendNewCountSpent ==
    ASSUME Typed, Spent, NEW h \in Handlers, SendNewCount(h)
    PROVE  Spent'
  <1>1. h \in Running /\ tx[h] \in OpenTx /\ ShapeOf(tx[h])
    BY RunningIsOpen DEF SendNewCount, At, Running
  <1>2. UNCHANGED <<requests, used, token>>
    BY DEF SendNewCount, tables, history
  <1>3. CASE RollBack(h) /\ mail' = mail
    BY <1>2, <1>3, SpentRollsBack
  <1>4. ASSUME NEW c, NEW row, SendMail(h),
               tx' = [tx EXCEPT ![h].pc = "commit", ![h].count = c, ![h].tally = row]
        PROVE  Spent'
    <2> DEFINE r == [tx[h] EXCEPT !.pc = "commit", !.count = c, !.tally = row]
    <2>1. tx' = [tx EXCEPT ![h] = r]
      BY <1>4
    <2>2. /\ r.op = tx[h].op /\ r.token = tx[h].token /\ r.kind = tx[h].kind
          /\ r.row = tx[h].row /\ ~Accepts(r)
      BY <1>1 DEF OpenTx, Accepts, ShapeOf, SendNewCount, At, ConfirmPhases
    <2>3. \A m \in mail' : m.token <= token
      BY <1>1, <1>4, SendMailBounded
    <2> HIDE DEF r
    <2> QED BY <1>1, <1>2, <2>1, <2>2, <2>3, SpentContinues
  <1> QED BY <1>3, <1>4 DEF SendNewCount

LEMMA SendTallySpent ==
    ASSUME Typed, Spent, NEW h \in Handlers, SendTally(h)
    PROVE  Spent'
  <1>1. h \in Running /\ tx[h] \in OpenTx /\ ShapeOf(tx[h])
    BY RunningIsOpen DEF SendTally, At, Running
  <1>2. UNCHANGED <<requests, used, token>>
    BY DEF SendTally, tables, history
  <1>3. CASE RollBack(h) /\ mail' = mail
    BY <1>2, <1>3, SpentRollsBack
  <1>4. ASSUME NEW n, Tally(h, n)
        PROVE  Spent'
    <2> DEFINE row == [counts[tx[h].kind][tx[h].count] EXCEPT !.count = n, !.date = "today"]
               r == [tx[h] EXCEPT !.pc = "commit", !.tally = row]
    <2>1. tx' = [tx EXCEPT ![h] = r]
      BY <1>4 DEF Tally
    <2> HIDE DEF row
    <2>2. /\ r.op = tx[h].op /\ r.token = tx[h].token /\ r.kind = tx[h].kind
          /\ r.row = tx[h].row /\ ~Accepts(r)
      BY <1>1 DEF OpenTx, Accepts, ShapeOf, SendTally, At, ConfirmPhases
    <2>3. \A m \in mail' : m.token <= token
      BY <1>1, <1>4, SendMailBounded DEF Tally
    <2> HIDE DEF r
    <2> QED BY <1>1, <1>2, <2>1, <2>2, <2>3, SpentContinues
  <1> QED BY <1>3, <1>4 DEF SendTally

LEMMA ConfirmLookupSpent ==
    ASSUME Typed, Spent, NEW h \in Handlers, ConfirmLookup(h)
    PROVE  Spent'
  <1>1. h \in Running /\ tx[h] \in OpenTx /\ ShapeOf(tx[h])
    BY RunningIsOpen DEF ConfirmLookup, At, Running
  <1>2. UNCHANGED <<requests, used, token, mail>> /\ \A m \in mail' : m.token <= token
    BY DEF ConfirmLookup, tables, history, Spent, Bounded
  <1>3. CASE RollBack(h)
    BY <1>2, <1>3, SpentRollsBack
  <1>4. CASE Goto(h, "reuse")
    <2> DEFINE r == [tx[h] EXCEPT !.pc = "reuse"]
    <2>1. tx' = [tx EXCEPT ![h] = r]
      BY <1>4 DEF Goto
    <2>2. /\ r.op = tx[h].op /\ r.token = tx[h].token /\ r.kind = tx[h].kind
          /\ ~Accepts(r) /\ r.row = tx[h].row
      BY <1>1 DEF OpenTx, Accepts
    <2> HIDE DEF r
    <2> QED BY <1>1, <1>2, <2>1, <2>2, SpentContinues
  <1>5. ASSUME NEW i \in Ids, Held(tx[h].kind, i, tx[h].token),
               tx' = [tx EXCEPT ![h].pc = "identity", ![h].request = i]
        PROVE  Spent'
    <2> DEFINE r == [tx[h] EXCEPT !.pc = "identity", !.request = i]
    <2>1. tx' = [tx EXCEPT ![h] = r]
      BY <1>5
    <2>2. /\ r.op = "confirm" /\ r.token = tx[h].token /\ r.kind = tx[h].kind
          /\ r.request = i /\ r.row = tx[h].row /\ tx[h].op = "confirm"
      BY <1>1 DEF OpenTx, ShapeOf, ConfirmLookup, At, SendPhases
    <2> HIDE DEF r
    <2>3. tx[h].token \in Tokens /\ tx[h].kind \in Kinds
      BY <1>1, OpenFields
    <2>4. Sound(r)
      BY <1>1, <1>5, <2>2, <2>3 DEF Sound, Accepts, Spent, HeldOnce
    <2>5. \A g \in Running \ {h} : Apart(r, tx[g])
      BY <1>5, <2>2, <2>3 DEF Spent, Sound, Apart, Accepts
    <2> QED BY <1>2, <2>1, <2>4, <2>5, SpentMoves
  <1> QED BY <1>3, <1>4, <1>5 DEF ConfirmLookup, Found, Held

LEMMA ConfirmReuseSpent ==
    ASSUME Typed, Spent, NEW h \in Handlers, ConfirmReuse(h)
    PROVE  Spent'
  <1>1. h \in Running /\ tx[h] \in OpenTx /\ ShapeOf(tx[h])
    BY RunningIsOpen DEF ConfirmReuse, At, Running
  <1>2. UNCHANGED <<requests, used, token, mail>> /\ \A m \in mail' : m.token <= token
    BY DEF ConfirmReuse, tables, history, Spent, Bounded
  <1> DEFINE r == [tx[h] EXCEPT !.pc = "throw", !.identity = [identity[tx[h].user] EXCEPT !.locked = TRUE]]
  <1>3. tx' = [tx EXCEPT ![h] = r]
    BY DEF ConfirmReuse
  <1>4. /\ r.op = tx[h].op /\ r.token = tx[h].token /\ r.kind = tx[h].kind
        /\ Accepts(r) => Accepts(tx[h]) /\ r.request = tx[h].request
        /\ r.row = tx[h].row
    BY <1>1 DEF OpenTx, Accepts, ConfirmReuse, At
  <1> HIDE DEF r
  <1> QED BY <1>1, <1>2, <1>3, <1>4, SpentContinues

LEMMA ConfirmIdentitySpent ==
    ASSUME Typed, Spent, NEW h \in Handlers, ConfirmIdentity(h)
    PROVE  Spent'
  <1>1. h \in Running /\ tx[h] \in OpenTx /\ ShapeOf(tx[h])
    BY RunningIsOpen DEF ConfirmIdentity, At, Running
  <1>2. UNCHANGED <<requests, used, token, mail>> /\ \A m \in mail' : m.token <= token
    BY DEF ConfirmIdentity, tables, history, Spent, Bounded
  <1> DEFINE r == [tx[h] EXCEPT !.pc = "softDelete",
                  !.identity = Confirmed(tx[h].kind, tx[h].token, identity[tx[h].user])]
  <1>3. tx' = [tx EXCEPT ![h] = r]
    BY DEF ConfirmIdentity
  <1>4. /\ r.op = tx[h].op /\ r.token = tx[h].token /\ r.kind = tx[h].kind
        /\ Accepts(r) => Accepts(tx[h]) /\ r.request = tx[h].request
        /\ r.row = tx[h].row
    BY <1>1 DEF OpenTx, Accepts, ConfirmIdentity, At
  <1> HIDE DEF r
  <1> QED BY <1>1, <1>2, <1>3, <1>4, SpentContinues

LEMMA ConfirmSoftDeleteSpent ==
    ASSUME Typed, Spent, NEW h \in Handlers, ConfirmSoftDelete(h)
    PROVE  Spent'
  <1>1. h \in Running /\ tx[h] \in OpenTx /\ ShapeOf(tx[h])
    BY RunningIsOpen DEF ConfirmSoftDelete, At, Running
  <1>2. UNCHANGED <<requests, used, token, mail>> /\ \A m \in mail' : m.token <= token
    BY DEF ConfirmSoftDelete, tables, history, Spent, Bounded
  <1> DEFINE row == [requests[tx[h].kind][tx[h].request] EXCEPT !.live = FALSE]
             r == [tx[h] EXCEPT !.pc = "softCount", !.row = row]
  <1>3. tx' = [tx EXCEPT ![h] = r]
    BY DEF ConfirmSoftDelete
  <1>4. ~row.live
    BY <1>1, OpenFields DEF ConfirmSoftDelete, ShapeOf, At, Typed, TypeOK, RequestRow
  <1> HIDE DEF row
  <1>5. /\ r.op = "confirm" /\ tx[h].op = "confirm" /\ r.token = tx[h].token /\ r.kind = tx[h].kind
        /\ Accepts(tx[h]) /\ r.request = tx[h].request /\ r.row = row
    BY <1>1 DEF OpenTx, Accepts, ShapeOf, ConfirmSoftDelete, At, SendPhases
  <1> HIDE DEF r
  <1> QED BY <1>1, <1>2, <1>3, <1>4, <1>5, SpentContinues

LEMMA ConfirmSoftCountSpent ==
    ASSUME Typed, Spent, NEW h \in Handlers, ConfirmSoftCount(h)
    PROVE  Spent'
  <1>1. h \in Running /\ tx[h] \in OpenTx /\ ShapeOf(tx[h])
    BY RunningIsOpen DEF ConfirmSoftCount, At, Running
  <1>2. UNCHANGED <<requests, used, token, mail>> /\ \A m \in mail' : m.token <= token
    BY DEF ConfirmSoftCount, tables, history, Spent, Bounded
  <1>3. CASE RollBack(h)
    BY <1>2, <1>3, SpentRollsBack
  <1>4. ASSUME NEW row,
               tx' = [tx EXCEPT ![h].pc = "commit", ![h].count = tx[h].request, ![h].tally = row]
        PROVE  Spent'
    <2> DEFINE r == [tx[h] EXCEPT !.pc = "commit", !.count = tx[h].request, !.tally = row]
    <2>1. tx' = [tx EXCEPT ![h] = r]
      BY <1>4
    <2>2. /\ r.op = tx[h].op /\ r.token = tx[h].token /\ r.kind = tx[h].kind
          /\ Accepts(r) => Accepts(tx[h]) /\ r.request = tx[h].request /\ r.row = tx[h].row
      BY <1>1 DEF OpenTx, Accepts, ShapeOf, ConfirmSoftCount, At
    <2>3. r.row = tx[h].row
      BY <1>1 DEF OpenTx
    <2> HIDE DEF r
    <2> QED BY <1>1, <1>2, <2>1, <2>2, <2>3, SpentContinues
  <1> QED BY <1>3, <1>4 DEF ConfirmSoftCount

\* A send publishes a token that nobody has used or found; a confirmation uses
\* one whose only holder it deletes.
LEMMA CommitSpent ==
    ASSUME Typed, Spent, NEW h \in Handlers, Commit(h)
    PROVE  Spent'
  <1> DEFINE t == tx[h]
  <1>1. h \in Running /\ t \in OpenTx /\ ShapeOf(t) /\ t.pc = "commit"
    BY RunningIsOpen DEF Commit, At, Running
  <1>2. /\ t.kind \in Kinds /\ t.request \in Ids /\ t.row \in RequestRow /\ t.row # None
        /\ t.token \in Tokens /\ t.op \in {"send", "confirm"}
    BY <1>1, OpenFields DEF ShapeOf
  <1>3. Sound(t)
    BY <1>1 DEF Spent
  <1>4. requests' = [requests EXCEPT ![t.kind][t.request] = t.row] /\ UNCHANGED <<token, mail>>
    BY DEF Commit
  <1>5. /\ requests'[t.kind][t.request] = t.row
        /\ \A k \in Kinds, i \in Ids :
              k # t.kind \/ i # t.request => requests'[k][i] = requests[k][i]
    BY <1>2, <1>4 DEF Typed, TypeOK
  <1>6. \A g \in Running' : g \in Running \ {h} /\ tx'[g] = tx[g]
    BY DEF Commit, RollBack, Running, At, Typed, TypeOK, Idle
  <1>7. \A g \in Running \ {h} : Sound(tx[g]) /\ Apart(t, tx[g]) /\ tx[g].token \in Tokens
    BY <1>1, RunningIsOpen, OpenFields DEF Spent
  <1>8. \A f, g \in Running' : f # g => Apart(tx[f], tx[g])'
    BY <1>6 DEF Spent, Apart, Accepts
  <1>9. CASE t.op = "send"
    <2> HIDE DEF t
    <2>1. used' = used /\ t.row.jti = t.token
      BY <1>2, <1>3, <1>9 DEF Commit, t, Sound
    <2>2. \A k \in Kinds, i \in Ids, s \in Tokens :
             (requests'[k][i] # None /\ requests'[k][i].live /\ requests'[k][i].jti = s) =>
                Held(k, i, s) \/ (k = t.kind /\ i = t.request /\ s = t.token)
      BY <1>5, <2>1 DEF Held
    <2>3. t.token <= token /\ t.token \notin used /\ \A k \in Kinds, i \in Ids : ~Held(k, i, t.token)
      BY <1>3, <1>9 DEF Sound
    <2>4. Bounded'
      BY <1>4, <2>1, <2>2, <2>3 DEF Spent, Bounded, Held
    <2>5. HeldOnce'
      BY <2>2, <2>3 DEF Spent, HeldOnce, Held
    <2>6. UsedTokenIsSpent'
      <3>1. \A k \in Kinds, i \in Ids : requests'[k][i] # None => requests'[k][i].jti \in Tokens
        BY <1>2, <1>4 DEF Typed, TypeOK, RequestRow
      <3> QED BY <2>1, <2>2, <2>3, <3>1 DEF Spent, UsedTokenIsSpent, Held
    <2>7. \A g \in Running' : Sound(tx[g])'
      <3>1. ASSUME NEW g \in Running \ {h}, tx'[g] = tx[g] PROVE Sound(tx[g])'
        <4>1. Sound(tx[g]) /\ Apart(t, tx[g]) /\ tx[g].token \in Tokens
          BY <1>7 DEF t
        <4> QED BY <1>4, <1>9, <2>1, <2>2, <3>1, <4>1 DEF Sound, Apart, Accepts, Held
      <3> QED BY <1>6, <3>1
    <2> QED BY <1>8, <2>4, <2>5, <2>6, <2>7 DEF Spent
  <1>10. CASE t.op = "confirm"
    <2> HIDE DEF t
    <2>1. used' = used \cup {t.token} /\ ~t.row.live /\ Accepts(t)
      BY <1>1, <1>2, <1>3, <1>10 DEF Commit, t, Sound, Accepts
    <2>2. \A k \in Kinds, i \in Ids, s \in Tokens :
             (requests'[k][i] # None /\ requests'[k][i].live /\ requests'[k][i].jti = s) =>
                Held(k, i, s) /\ (k # t.kind \/ i # t.request)
      BY <1>5, <2>1 DEF Held
    <2>3. t.token <= token
             /\ \A k \in Kinds, i \in Ids : Held(k, i, t.token) => k = t.kind /\ i = t.request
      BY <1>3, <2>1 DEF Sound
    <2>4. Bounded'
      BY <1>4, <2>1, <2>2, <2>3 DEF Spent, Bounded, Held
    <2>5. HeldOnce'
      BY <2>2 DEF Spent, HeldOnce, Held
    <2>6. UsedTokenIsSpent'
      <3>1. \A k \in Kinds, i \in Ids : requests'[k][i] # None => requests'[k][i].jti \in Tokens
        BY <1>2, <1>4 DEF Typed, TypeOK, RequestRow
      <3> QED BY <1>2, <2>1, <2>2, <2>3, <3>1 DEF Spent, UsedTokenIsSpent, Held
    <2>7. \A g \in Running' : Sound(tx[g])'
      <3>1. ASSUME NEW g \in Running \ {h}, tx'[g] = tx[g] PROVE Sound(tx[g])'
        <4>1. Sound(tx[g]) /\ Apart(t, tx[g]) /\ tx[g].token \in Tokens
          BY <1>7 DEF t
        <4> QED BY <1>4, <2>1, <2>2, <3>1, <4>1 DEF Sound, Apart, Accepts, Held
      <3> QED BY <1>6, <3>1
    <2> QED BY <1>8, <2>4, <2>5, <2>6, <2>7 DEF Spent
  <1> QED BY <1>2, <1>9, <1>10

LEMMA InitSpent == Init => Spent
  <1> SUFFICES ASSUME Init PROVE Spent
    OBVIOUS
  <1>1. Running = {} /\ used = {} /\ mail = {}
    BY DEF Init, Running, At, Idle
  <1>2. \A k \in Kinds, i \in Ids : requests[k][i] = None
    BY DEF Init
  <1> QED BY <1>1, <1>2 DEF Spent, Bounded, HeldOnce, UsedTokenIsSpent, Held

LEMMA NextSpent == Typed /\ Spent /\ [Next]_vars => Spent'
  <1> SUFFICES ASSUME Typed, Spent, [Next]_vars PROVE Spent'
    OBVIOUS
  <1>1. ASSUME UNCHANGED <<requests, token, mail, used, tx>> PROVE Spent'
    <2>1. Bounded' /\ HeldOnce' /\ UsedTokenIsSpent'
      BY <1>1 DEF Spent, Bounded, HeldOnce, UsedTokenIsSpent, Held
    <2>2. Running' = Running /\ \A h \in Running : Sound(tx[h])'
      BY <1>1 DEF Spent, Sound, Accepts, Held, Running, At
    <2>3. \A g, h \in Running : g # h => Apart(tx[g], tx[h])'
      BY <1>1 DEF Spent, Apart, Accepts
    <2> QED BY <2>1, <2>2, <2>3 DEF Spent
  <1>2. CASE UNCHANGED vars \/ DayPasses \/ \E u \in Lockable, b \in BOOLEAN : Blacklist(u, b)
    BY <1>1, <1>2 DEF vars, DayPasses, Blacklist, tables, history
  <1>3. ASSUME NEW h \in Handlers, NEW k \in Kinds, NEW u \in Users, StartSend(h, k, u)
        PROVE  Spent'
    BY <1>3, StartSendSpent
  <1>4. ASSUME NEW h \in Handlers, NEW m \in mail, StartConfirm(h, m) PROVE Spent'
    BY <1>4, StartConfirmSpent
  <1>5. ASSUME NEW h \in Handlers, Send(h) PROVE Spent'
    BY <1>5, SendFindSpent, SendRereadSpent, SendRewriteSpent, SendCreateSpent,
       SendFindCountSpent, SendNewCountSpent, SendTallySpent DEF Send
  <1>6. ASSUME NEW h \in Handlers, ConfirmReuseThrows(h) \/ Fail(h) PROVE Spent'
    BY <1>6, SpentRollsBack DEF ConfirmReuseThrows, Fail, tables, history
  <1>7. ASSUME NEW h \in Handlers, Confirm(h) PROVE Spent'
    BY <1>6, <1>7, ConfirmLookupSpent, ConfirmReuseSpent, ConfirmIdentitySpent,
       ConfirmSoftDeleteSpent, ConfirmSoftCountSpent DEF Confirm
  <1> QED BY <1>2, <1>3, <1>4, <1>5, <1>6, <1>7, CommitSpent DEF Next, Step

\* A token that confirmed a request is never again the token of a live one, for
\* any number of users, tokens and overlapping transactions, so that whoever
\* comes back with it afterwards is refused (resetPasswordConfirm and its likes).
THEOREM UsedTokenIsSpentHolds == Spec => []UsedTokenIsSpent
  <1>1. Spent => UsedTokenIsSpent
    BY DEF Spent
  <1> QED BY <1>1, InitTyped, NextTyped, InitSpent, NextSpent, PTL DEF Spec

-----------------------------------------------------------------------------
\* Every attempt is counted, and rows are waited for in one order.

\* When a transaction holds the row of an identity, of a request, of a count.
Orderly(t) ==
    /\ t.identity # None => t.pc \in {"throw", "softDelete", "softCount", "commit"}
    /\ t.row # None => t.pc \in {"findCount", "newCount", "tally", "softCount", "commit"}
    /\ t.tally # None => t.pc = "commit"

\* The ids it writes were taken from the sequences.
Numbered(t, next) ==
    /\ t.row # None => t.request < next[t.kind].request
    /\ t.tally # None => t.count < next[t.kind].count

\* What it has read of the count is still so, and what it will commit is the
\* first count of a new request or the same count, of the same request, with one
\* more (or starting again) for a send and with the same number for a confirmation.
Counting(t) ==
    /\ t.row # None /\ t.op = "confirm" => requests[t.kind][t.request] # None
    /\ t.pc = "tally" =>
         /\ counts[t.kind][t.count].request = t.request
         /\ t.seen.count = counts[t.kind][t.count].count
    /\ t.tally # None /\ t.op = "send" => t.tally.request = t.request
    /\ t.tally # None /\ counts[t.kind][t.count] = None =>
         t.op = "send" /\ t.tally.count = 0 /\ requests[t.kind][t.request] = None
    /\ t.tally # None /\ counts[t.kind][t.count] # None =>
         /\ t.tally.request = counts[t.kind][t.count].request
         /\ t.op = "send" => t.tally.count \in {0, counts[t.kind][t.count].count + 1}
         /\ t.op = "confirm" => t.tally.count = counts[t.kind][t.count].count

\* A row that one transaction has written no other has.
Disjoint(t, s) ==
    t.kind = s.kind =>
      /\ t.row # None /\ s.row # None => t.request # s.request
      /\ t.tally # None /\ s.tally # None => t.count # s.count

\* Rows have ids below the sequences, and counts belong to requests.
Filed ==
    /\ \A k \in Kinds, i \in Ids : requests[k][i] # None => i < nextId[k].request
    /\ \A k \in Kinds, c \in Ids : counts[k][c] # None =>
          c < nextId[k].count /\ requests[k][counts[k][c].request] # None

Counted ==
    /\ AttemptsCounted
    /\ Filed
    /\ \A h \in Running : Orderly(tx[h]) /\ Numbered(tx[h], nextId) /\ Counting(tx[h])
    /\ \A g, h \in Running : g # h => Disjoint(tx[g], tx[h])

\* AttemptsCounted, said of each count.
OneCount(k, i) ==
    \E c \in Ids :
       /\ counts[k][c] # None /\ counts[k][c].request = i
       /\ counts[k][c].count = sends[k][i] - 1
       /\ \A d \in Ids : counts[k][d] # None /\ counts[k][d].request = i => d = c

LEMMA OneCountEach ==
    AttemptsCounted <=> \A k \in Kinds, i \in Ids : requests[k][i] # None => OneCount(k, i)
  BY DEF AttemptsCounted, OneCount, CountsOf

LEMMA SameSequences ==
    ASSUME Typed, UNCHANGED nextId
    PROVE  /\ \A k \in Kinds : /\ nextId[k].request <= nextId'[k].request
                              /\ nextId[k].count <= nextId'[k].count
           /\ nextId' \in [Kinds -> [request : 1 .. MaxTokens + 1, count : 1 .. MaxTokens + 1]]
  <1>1. \A k \in Kinds : nextId[k].request \in Nat /\ nextId[k].count \in Nat
    BY BoundsAssumption DEF Typed, TypeOK
  <1> QED BY <1>1 DEF Typed, TypeOK

\* A step that moves one handler and commits nothing.
LEMMA CountedMoves ==
    ASSUME Typed, Counted, NEW h \in Handlers, NEW r, tx' = [tx EXCEPT ![h] = r],
           UNCHANGED <<requests, counts, sends>>,
           \A k \in Kinds : /\ nextId[k].request <= nextId'[k].request
                           /\ nextId[k].count <= nextId'[k].count,
           nextId' \in [Kinds -> [request : 1 .. MaxTokens + 1, count : 1 .. MaxTokens + 1]],
           r.pc # "idle" => Orderly(r) /\ Numbered(r, nextId') /\ Counting(r),
           r.pc # "idle" => \A g \in Running \ {h} : Disjoint(r, tx[g])
    PROVE  Counted'
  <1>1. AttemptsCounted'
    BY DEF Counted, AttemptsCounted, CountsOf
  <1>2. \A k \in Kinds : /\ nextId[k].request \in Nat /\ nextId'[k].request \in Nat
                         /\ nextId[k].count \in Nat /\ nextId'[k].count \in Nat
    BY BoundsAssumption DEF Typed, TypeOK
  <1>3. Ids \subseteq Nat
    BY BoundsAssumption DEF Ids
  <1>4. Filed'
    BY <1>2, <1>3 DEF Counted, Filed
  <1>5. tx'[h] = r /\ \A g \in Handlers \ {h} : tx'[g] = tx[g]
    BY DEF Typed, TypeOK
  <1>6. \A e \in Running' : (e = h /\ r.pc # "idle") \/ e \in Running \ {h}
    BY <1>5 DEF Running, At
  <1>7. ASSUME NEW g \in Running' PROVE (Orderly(tx[g]) /\ Numbered(tx[g], nextId) /\ Counting(tx[g]))'
    <2>1. CASE g = h
      BY <1>5, <1>6, <2>1 DEF Orderly, Numbered, Counting
    <2>2. CASE g # h
      <3>1. g \in Running /\ tx'[g] = tx[g]
        BY <1>5, <1>6, <2>2 DEF Running
      <3>2. tx[g] \in OpenTx
        BY <3>1, RunningIsOpen
      <3>3. /\ tx[g].kind \in Kinds /\ tx[g].request \in Nat /\ tx[g].count \in Nat
        <4>1. /\ tx[g].kind \in Kinds
              /\ tx[g].request \in {0} \cup Ids /\ tx[g].count \in {0} \cup Ids
          BY <3>2, OpenFields
        <4>2. {0} \cup Ids \subseteq Nat
          BY <1>3
        <4> QED BY <4>1, <4>2
      <3>4. Orderly(tx[g]) /\ Numbered(tx[g], nextId) /\ Counting(tx[g])
        BY <3>1 DEF Counted
      <3>5. Numbered(tx[g], nextId')
        <4>1. nextId[tx[g].kind].request <= nextId'[tx[g].kind].request
              /\ nextId[tx[g].kind].count <= nextId'[tx[g].kind].count
          BY <3>3
        <4>2. /\ nextId[tx[g].kind].request \in Nat /\ nextId'[tx[g].kind].request \in Nat
              /\ nextId[tx[g].kind].count \in Nat /\ nextId'[tx[g].kind].count \in Nat
          BY <1>2, <3>3
        <4> QED BY <3>3, <3>4, <4>1, <4>2 DEF Numbered
      <3> QED BY <3>1, <3>4, <3>5 DEF Orderly, Numbered, Counting
    <2> QED BY <2>1, <2>2
  <1>8. ASSUME NEW f \in Running', NEW g \in Running', f # g PROVE Disjoint(tx'[f], tx'[g])
    <2>1. CASE f = h
      BY <1>5, <1>6, <1>8, <2>1 DEF Running
    <2>2. CASE g = h
      <3>1. Disjoint(r, tx[f])
        BY <1>6, <1>8, <2>2
      <3> QED BY <1>5, <1>6, <1>8, <2>2, <3>1 DEF Disjoint, Running
    <2>3. CASE f # h /\ g # h
      BY <1>5, <1>6, <1>8, <2>3 DEF Running, Counted
    <2> QED BY <2>1, <2>2, <2>3
  <1>9. \A f, g \in Running' : f # g => Disjoint(tx[f], tx[g])'
    BY <1>8 DEF Disjoint
  <1> QED BY <1>1, <1>4, <1>7, <1>9 DEF Counted

\* The same, for a handler that has written no request yet.
LEMMA CountedReads ==
    ASSUME Typed, Counted, NEW h \in Handlers, NEW r, tx' = [tx EXCEPT ![h] = r],
           UNCHANGED <<requests, counts, sends, nextId>>,
           r.pc # "idle" => /\ r.row = None /\ r.tally = None /\ r.pc # "tally"
                            /\ r.identity = None \/ r.pc \in {"throw", "softDelete"}
    PROVE  Counted'
  <1>1. r.pc # "idle" => Orderly(r) /\ Numbered(r, nextId') /\ Counting(r)
    BY DEF Orderly, Numbered, Counting
  <1>2. r.pc # "idle" => \A g \in Running \ {h} : Disjoint(r, tx[g])
    BY DEF Disjoint
  <1>3. /\ \A k \in Kinds : /\ nextId[k].request <= nextId'[k].request
                               /\ nextId[k].count <= nextId'[k].count
        /\ nextId' \in [Kinds -> [request : 1 .. MaxTokens + 1, count : 1 .. MaxTokens + 1]]
    BY SameSequences
  <1> QED BY <1>1, <1>2, <1>3, CountedMoves

\* The same, for a handler that keeps the request it has written and takes no count.
LEMMA CountedKeeps ==
    ASSUME Typed, Counted, NEW h \in Running, NEW r, tx' = [tx EXCEPT ![h] = r],
           UNCHANGED <<requests, counts, sends, nextId>>,
           r.op = tx[h].op, r.kind = tx[h].kind, r.request = tx[h].request, r.row = tx[h].row,
           r.tally = None, r.identity = tx[h].identity, tx[h].identity = None, Orderly(r),
           r.pc = "tally" => /\ counts[r.kind][r.count].request = r.request
                             /\ r.seen.count = counts[r.kind][r.count].count
    PROVE  Counted'
  <1>1. h \in Handlers /\ Numbered(tx[h], nextId) /\ Counting(tx[h])
    BY DEF Counted, Running
  <1>2. Numbered(r, nextId') /\ Counting(r)
    BY <1>1 DEF Numbered, Counting
  <1>3. \A g \in Running \ {h} : Disjoint(r, tx[g])
    <2>1. \A g \in Running \ {h} : Disjoint(tx[h], tx[g])
      BY DEF Counted
    <2> QED BY <2>1 DEF Disjoint
  <1>4. /\ \A k \in Kinds : /\ nextId[k].request <= nextId'[k].request
                               /\ nextId[k].count <= nextId'[k].count
        /\ nextId' \in [Kinds -> [request : 1 .. MaxTokens + 1, count : 1 .. MaxTokens + 1]]
    BY SameSequences
  <1> QED BY <1>1, <1>2, <1>3, <1>4, CountedMoves

LEMMA CountedRollsBack ==
    ASSUME Typed, Counted, NEW h \in Handlers, RollBack(h),
           UNCHANGED <<requests, counts, sends, nextId>>
    PROVE  Counted'
  <1>1. tx' = [tx EXCEPT ![h] = Idle] /\ Idle.pc = "idle"
    BY DEF RollBack, Idle
  <1> HIDE DEF Idle
  <1> QED BY <1>1, CountedReads

\* Until a handler writes its request it only reads, but for the identity.
LEMMA StartsCounted ==
    ASSUME Typed, Counted, NEW h \in Handlers, NEW k, NEW u,
           StartSend(h, k, u) \/ \E m \in mail : StartConfirm(h, m)
    PROVE  Counted'
  <1>1. CASE StartSend(h, k, u)
    <2> DEFINE r == Begin("send", "find", k, u, token + 1)
    <2>1. tx' = [tx EXCEPT ![h] = r] /\ UNCHANGED <<requests, counts, sends, nextId>>
      BY <1>1 DEF StartSend, tables
    <2>2. r.row = None /\ r.tally = None /\ r.pc # "tally" /\ r.identity = None
      BY DEF Begin
    <2> HIDE DEF r
    <2> QED BY <2>1, <2>2, CountedReads
  <1>2. ASSUME NEW m \in mail, StartConfirm(h, m) PROVE Counted'
    <2> DEFINE r == Begin("confirm", "lookup", m.kind, m.user, m.token)
    <2>1. tx' = [tx EXCEPT ![h] = r] /\ UNCHANGED <<requests, counts, sends, nextId>>
      BY <1>2 DEF StartConfirm, tables, history
    <2>2. r.row = None /\ r.tally = None /\ r.pc # "tally" /\ r.identity = None
      BY DEF Begin
    <2> HIDE DEF r
    <2> QED BY <2>1, <2>2, CountedReads
  <1> QED BY <1>1, <1>2

LEMMA ReadsCounted ==
    ASSUME Typed, Counted, NEW h \in Handlers,
           \/ SendFind(h) \/ SendReread(h) \/ ConfirmLookup(h) \/ ConfirmReuse(h)
           \/ ConfirmIdentity(h)
    PROVE  Counted'
  <1>1. h \in Running /\ tx[h] \in OpenTx /\ UNCHANGED <<requests, counts, sends, nextId>>
    BY RunningIsOpen DEF SendFind, SendReread, ConfirmLookup, ConfirmReuse, ConfirmIdentity,
       At, Running, tables, history
  <1>2. tx[h].row = None /\ tx[h].tally = None
        /\ tx[h].pc \in {"find", "reread", "lookup", "reuse", "identity"}
        /\ tx[h].identity = None
    BY <1>1 DEF Counted, Orderly, SendFind, SendReread, ConfirmLookup, ConfirmReuse,
       ConfirmIdentity, At
  <1>3. ASSUME NEW pc \in {"create", "rewrite", "reuse"}, Goto(h, pc) PROVE Counted'
    <2> DEFINE r == [tx[h] EXCEPT !.pc = pc]
    <2>1. tx' = [tx EXCEPT ![h] = r]
      BY <1>3 DEF Goto
    <2>2. r.row = None /\ r.tally = None /\ r.pc # "tally" /\ r.identity = None
      BY <1>1, <1>2 DEF OpenTx
    <2> HIDE DEF r
    <2> QED BY <1>1, <2>1, <2>2, CountedReads
  <1>4. ASSUME NEW pc \in {"reread", "identity"}, NEW i,
               tx' = [tx EXCEPT ![h].pc = pc, ![h].request = i]
        PROVE  Counted'
    <2> DEFINE r == [tx[h] EXCEPT !.pc = pc, !.request = i]
    <2>1. tx' = [tx EXCEPT ![h] = r]
      BY <1>4
    <2>2. r.row = None /\ r.tally = None /\ r.pc # "tally" /\ r.identity = None
      BY <1>1, <1>2 DEF OpenTx
    <2> HIDE DEF r
    <2> QED BY <1>1, <2>1, <2>2, CountedReads
  <1>5. ASSUME NEW pc \in {"throw", "softDelete"}, NEW row,
               tx' = [tx EXCEPT ![h].pc = pc, ![h].identity = row]
        PROVE  Counted'
    <2> DEFINE r == [tx[h] EXCEPT !.pc = pc, !.identity = row]
    <2>1. tx' = [tx EXCEPT ![h] = r]
      BY <1>5
    <2>2. r.row = None /\ r.tally = None /\ r.pc # "tally" /\ r.pc \in {"throw", "softDelete"}
      BY <1>1, <1>2 DEF OpenTx
    <2> HIDE DEF r
    <2> QED BY <1>1, <2>1, <2>2, CountedReads
  <1>6. CASE SendFind(h)
    BY <1>3, <1>4, <1>6 DEF SendFind
  <1>7. CASE SendReread(h)
    BY <1>1, <1>3, <1>7, CountedRollsBack DEF SendReread
  <1>8. CASE ConfirmLookup(h)
    BY <1>1, <1>3, <1>4, <1>8, CountedRollsBack DEF ConfirmLookup
  <1>9. CASE ConfirmReuse(h)
    BY <1>5, <1>9 DEF ConfirmReuse
  <1>10. CASE ConfirmIdentity(h)
    BY <1>5, <1>10 DEF ConfirmIdentity
  <1> QED BY <1>6, <1>7, <1>8, <1>9, <1>10

\* A handler writes a request: one that no open transaction has written.
LEMMA SendRewriteCounted ==
    ASSUME Typed, Counted, NEW h \in Handlers, SendRewrite(h)
    PROVE  Counted'
  <1>1. h \in Running /\ tx[h] \in OpenTx /\ ShapeOf(tx[h]) /\ tx[h].pc = "rewrite"
    BY RunningIsOpen DEF SendRewrite, At, Running
  <1>2. /\ tx[h].op = "send" /\ tx[h].row = None /\ tx[h].tally = None /\ tx[h].identity = None
        /\ tx[h].request \in Ids /\ requests[tx[h].kind][tx[h].request] # None /\ tx[h].kind \in Kinds
    BY <1>1, OpenFields DEF Counted, Orderly, ShapeOf, ConfirmPhases
  <1> DEFINE r == [tx[h] EXCEPT !.pc = "findCount", !.row = Request(h)]
  <1>3. tx' = [tx EXCEPT ![h] = r] /\ UNCHANGED <<requests, counts, sends, nextId>>
    BY DEF SendRewrite, tables, history
  <1>4. /\ r.op = "send" /\ r.kind = tx[h].kind /\ r.request = tx[h].request /\ r.pc = "findCount"
        /\ r.tally = None /\ r.identity = None
    BY <1>1, <1>2 DEF OpenTx
  <1> HIDE DEF r
  <1>5. Orderly(r) /\ Counting(r)
    BY <1>4 DEF Orderly, Counting
  <1>6. Numbered(r, nextId')
    BY <1>2, <1>3, <1>4 DEF Numbered, Counted, Filed
  <1>7. \A g \in Running \ {h} : Disjoint(r, tx[g])
    BY <1>4 DEF SendRewrite, RequestFree, Open, Disjoint
  <1>8. /\ \A k \in Kinds : /\ nextId[k].request <= nextId'[k].request
                               /\ nextId[k].count <= nextId'[k].count
        /\ nextId' \in [Kinds -> [request : 1 .. MaxTokens + 1, count : 1 .. MaxTokens + 1]]
    BY <1>3, SameSequences
  <1> QED BY <1>3, <1>5, <1>6, <1>7, <1>8, CountedMoves

\* A new request has an id that no other transaction has.
LEMMA SendCreateCounted ==
    ASSUME Typed, Counted, NEW h \in Handlers, SendCreate(h)
    PROVE  Counted'
  <1>1. h \in Running /\ tx[h] \in OpenTx /\ ShapeOf(tx[h]) /\ tx[h].pc = "create"
    BY RunningIsOpen DEF SendCreate, At, Running
  <1> DEFINE k == tx[h].kind
             n == nextId[k].request
             r == [tx[h] EXCEPT !.pc = "findCount", !.row = Request(h), !.request = n]
  <1>2. /\ tx[h].op = "send" /\ tx[h].row = None /\ tx[h].tally = None /\ tx[h].identity = None
        /\ k \in Kinds
    BY <1>1, OpenFields DEF Counted, Orderly, ShapeOf, ConfirmPhases
  <1>3. tx' = [tx EXCEPT ![h] = r] /\ UNCHANGED <<requests, counts, sends>>
        /\ nextId' = [nextId EXCEPT ![k].request = n + 1]
    BY DEF SendCreate, tables, history
  <1>4. /\ r.op = "send" /\ r.kind = k /\ r.request = n /\ r.pc = "findCount"
        /\ r.tally = None /\ r.identity = None
    BY <1>1, <1>2 DEF OpenTx
  <1>5. n \in Ids /\ nextId \in [Kinds -> [request : 1 .. MaxTokens + 1, count : 1 .. MaxTokens + 1]]
    BY DEF SendCreate, Typed, TypeOK
  <1> HIDE DEF r, k, n
  <1>6. n \in Nat /\ n + 1 \in 1 .. MaxTokens + 1
    BY <1>5, BoundsAssumption DEF Ids
  <1>7. nextId' \in [Kinds -> [request : 1 .. MaxTokens + 1, count : 1 .. MaxTokens + 1]]
    BY <1>2, <1>3, <1>5, <1>6
  <1>8. nextId[k].request = n /\ nextId'[k].request = n + 1 /\ nextId'[k].count = nextId[k].count
        /\ \A l \in Kinds : l # k => nextId'[l] = nextId[l]
    BY <1>2, <1>3, <1>5 DEF n
  <1>9. \A l \in Kinds : /\ nextId[l].request <= nextId'[l].request
                         /\ nextId[l].count <= nextId'[l].count
    <2>1. \A l \in Kinds : nextId[l].request \in Nat /\ nextId[l].count \in Nat
      BY <1>5, BoundsAssumption
    <2> QED BY <1>6, <1>8, <2>1
  <1>10. Orderly(r) /\ Counting(r)
    BY <1>4 DEF Orderly, Counting
  <1>11. Numbered(r, nextId')
    BY <1>2, <1>4, <1>6, <1>8 DEF Numbered
  <1>12. ASSUME NEW g \in Running \ {h} PROVE Disjoint(r, tx[g])
    <2>1. Numbered(tx[g], nextId)
      BY DEF Counted
    <2>2. tx[g].kind = k /\ tx[g].row # None => tx[g].request < n
      BY <2>1, <1>8 DEF Numbered
    <2>3. ~(n < n)
      BY <1>6
    <2> QED BY <1>4, <2>2, <2>3 DEF Disjoint
  <1> QED BY <1>3, <1>7, <1>9, <1>10, <1>11, <1>12, CountedMoves

\* The count that is found is the request's own.
LEMMA SendFindCountCounted ==
    ASSUME Typed, Counted, NEW h \in Handlers, SendFindCount(h)
    PROVE  Counted'
  <1>1. h \in Running /\ tx[h] \in OpenTx /\ ShapeOf(tx[h]) /\ tx[h].pc = "findCount"
    BY RunningIsOpen DEF SendFindCount, At, Running
  <1>2. /\ tx[h].op = "send" /\ tx[h].tally = None /\ tx[h].identity = None
    BY <1>1, OpenFields DEF Counted, Orderly, ShapeOf, ConfirmPhases
  <1>3. UNCHANGED <<requests, counts, sends, nextId>>
    BY DEF SendFindCount, tables, history
  <1>4. CASE Goto(h, "newCount")
    <2> DEFINE r == [tx[h] EXCEPT !.pc = "newCount"]
    <2>1. tx' = [tx EXCEPT ![h] = r]
      BY <1>4 DEF Goto
    <2>2. /\ r.op = tx[h].op /\ r.kind = tx[h].kind /\ r.request = tx[h].request
          /\ r.row = tx[h].row /\ r.tally = None /\ r.identity = None /\ r.pc = "newCount"
      BY <1>1, <1>2 DEF OpenTx
    <2> HIDE DEF r
    <2>3. Orderly(r)
      BY <2>2 DEF Orderly
    <2> QED BY <1>1, <1>2, <1>3, <2>1, <2>2, <2>3, CountedKeeps
  <1>5. ASSUME NEW c \in CountsOf(tx[h].kind, tx[h].request),
               tx' = [tx EXCEPT ![h].pc = "tally", ![h].count = c, ![h].seen = counts[tx[h].kind][c]]
        PROVE  Counted'
    <2> DEFINE r == [tx[h] EXCEPT !.pc = "tally", !.count = c, !.seen = counts[tx[h].kind][c]]
    <2>1. tx' = [tx EXCEPT ![h] = r]
      BY <1>5
    <2>2. /\ r.op = tx[h].op /\ r.kind = tx[h].kind /\ r.request = tx[h].request
          /\ r.row = tx[h].row /\ r.tally = None /\ r.identity = None /\ r.pc = "tally"
          /\ r.count = c /\ r.seen = counts[tx[h].kind][c]
      BY <1>1, <1>2 DEF OpenTx
    <2> HIDE DEF r
    <2>3. Orderly(r)
      BY <2>2 DEF Orderly
    <2>4. counts[r.kind][r.count].request = r.request /\ r.seen.count = counts[r.kind][r.count].count
      BY <2>2 DEF CountsOf
    <2> QED BY <1>1, <1>2, <1>3, <2>1, <2>2, <2>3, <2>4, CountedKeeps
  <1> QED BY <1>4, <1>5 DEF SendFindCount

\* A new count has an id of its own and is the only one of its request, which
\* no other transaction has written.
LEMMA SendNewCountCounted ==
    ASSUME Typed, Counted, NEW h \in Handlers, SendNewCount(h)
    PROVE  Counted'
  <1>1. h \in Running /\ tx[h] \in OpenTx /\ ShapeOf(tx[h]) /\ tx[h].pc = "newCount"
    BY RunningIsOpen DEF SendNewCount, At, Running
  <1> DEFINE k == tx[h].kind
             c == nextId[k].count
             row == [request |-> tx[h].request, count |-> 0, date |-> "never", live |-> TRUE]
             r == [tx[h] EXCEPT !.pc = "commit", !.count = c, !.tally = row]
  <1>2. /\ tx[h].op = "send" /\ tx[h].row # None /\ tx[h].tally = None /\ tx[h].identity = None
        /\ k \in Kinds /\ tx[h].request \in Ids
    BY <1>1, OpenFields DEF Counted, Orderly, ShapeOf, ConfirmPhases
  <1>3. UNCHANGED <<requests, counts, sends>> /\ nextId' = [nextId EXCEPT ![k].count = c + 1]
    BY DEF SendNewCount, tables, history
  <1>4. c \in Ids /\ nextId \in [Kinds -> [request : 1 .. MaxTokens + 1, count : 1 .. MaxTokens + 1]]
    BY DEF SendNewCount, Typed, TypeOK
  <1>5. \/ RollBack(h)
        \/ CountsOf(k, tx[h].request) = {} /\ tx' = [tx EXCEPT ![h] = r]
    BY DEF SendNewCount
  <1>6. /\ r.op = "send" /\ r.kind = k /\ r.request = tx[h].request /\ r.row = tx[h].row
        /\ r.pc = "commit" /\ r.count = c /\ r.tally = row /\ r.identity = None
    BY <1>1, <1>2 DEF OpenTx
  <1>a. row.request = tx[h].request /\ row.count = 0
    OBVIOUS
  <1> HIDE DEF r, k, c, row
  <1>7. c \in Nat /\ c + 1 \in 1 .. MaxTokens + 1
    BY <1>4, BoundsAssumption DEF Ids
  <1>8. nextId' \in [Kinds -> [request : 1 .. MaxTokens + 1, count : 1 .. MaxTokens + 1]]
    BY <1>2, <1>3, <1>4, <1>7
  <1>9. nextId[k].count = c /\ nextId'[k].count = c + 1 /\ nextId'[k].request = nextId[k].request
        /\ \A l \in Kinds : l # k => nextId'[l] = nextId[l]
    BY <1>2, <1>3, <1>4 DEF c
  <1>10. \A l \in Kinds : /\ nextId[l].request <= nextId'[l].request
                          /\ nextId[l].count <= nextId'[l].count
    <2>1. \A l \in Kinds : nextId[l].request \in Nat /\ nextId[l].count \in Nat
      BY <1>4, BoundsAssumption
    <2> QED BY <1>7, <1>9, <2>1
  <1>11. CASE RollBack(h)
    <2>1. tx' = [tx EXCEPT ![h] = Idle] /\ Idle.pc = "idle"
      BY <1>11 DEF RollBack, Idle
    <2> HIDE DEF Idle
    <2> QED BY <1>3, <1>8, <1>10, <2>1, CountedMoves
  <1>12. CASE CountsOf(k, tx[h].request) = {} /\ tx' = [tx EXCEPT ![h] = r]
    <2>1. counts[k][c] = None
      <3>1. ~(c < c)
        BY <1>7
      <3> QED BY <1>2, <1>4, <1>9, <3>1 DEF Counted, Filed
    <2>2. requests[k][tx[h].request] = None
      BY <1>2, <1>12, OneCountEach DEF Counted, OneCount, CountsOf
    <2>3. Orderly(r) /\ Counting(r)
      BY <1>6, <1>a, <2>1, <2>2 DEF Orderly, Counting
    <2>4. Numbered(r, nextId')
      <3>1. Numbered(tx[h], nextId)
        BY <1>1 DEF Counted
      <3>2. c < nextId'[k].count
        BY <1>7, <1>9
      <3>3. r.request < nextId'[k].request
        BY <1>2, <1>6, <1>9, <3>1 DEF Numbered, k
      <3> QED BY <1>6, <3>2, <3>3 DEF Numbered
    <2>5. ASSUME NEW g \in Running \ {h} PROVE Disjoint(r, tx[g])
      <3>1. Numbered(tx[g], nextId) /\ Disjoint(tx[h], tx[g])
        BY <1>1 DEF Counted
      <3>2. tx[g].kind = k /\ tx[g].tally # None => tx[g].count < c
        BY <3>1, <1>9 DEF Numbered
      <3>3. ~(c < c)
        BY <1>7
      <3> QED BY <1>6, <3>1, <3>2, <3>3 DEF Disjoint, k
    <2> QED BY <1>3, <1>8, <1>10, <1>12, <2>3, <2>4, <2>5, CountedMoves
  <1> QED BY <1>5, <1>11, <1>12

\* The count has not changed since it was read, and no other transaction has
\* written it.
LEMMA SendTallyCounted ==
    ASSUME Typed, Counted, NEW h \in Handlers, SendTally(h)
    PROVE  Counted'
  <1>1. h \in Running /\ tx[h] \in OpenTx /\ ShapeOf(tx[h]) /\ tx[h].pc = "tally"
    BY RunningIsOpen DEF SendTally, At, Running
  <1> DEFINE k == tx[h].kind
             c == tx[h].count
  <1>2. /\ tx[h].op = "send" /\ tx[h].row # None /\ tx[h].identity = None
        /\ k \in Kinds /\ c \in Ids /\ counts[k][c] # None
    BY <1>1, OpenFields DEF Counted, Orderly, ShapeOf, ConfirmPhases
  <1>3. UNCHANGED <<requests, counts, sends, nextId>>
    BY DEF SendTally, tables, history
  <1>4. counts[k][c].request = tx[h].request /\ tx[h].seen.count = counts[k][c].count
    BY <1>1 DEF Counted, Counting
  <1>5. ASSUME NEW n, n \in {0, tx[h].seen.count + 1}, Tally(h, n) PROVE Counted'
    <2> DEFINE row == [counts[k][c] EXCEPT !.count = n, !.date = "today"]
               r == [tx[h] EXCEPT !.pc = "commit", !.tally = row]
    <2>1. tx' = [tx EXCEPT ![h] = r] /\ CountFree(h, c)
      BY <1>5 DEF Tally
    <2>2. counts[k][c] \in CountRow
      BY <1>2 DEF Typed, TypeOK
    <2>3. row.request = tx[h].request /\ row.count = n
      BY <1>4, <2>2 DEF CountRow
    <2> HIDE DEF row
    <2>4. /\ r.op = "send" /\ r.kind = k /\ r.request = tx[h].request /\ r.row = tx[h].row
          /\ r.pc = "commit" /\ r.count = c /\ r.tally = row /\ r.identity = None
      BY <1>1, <1>2 DEF OpenTx
    <2> HIDE DEF r
    <2>5. Orderly(r)
      BY <2>4 DEF Orderly
    <2>6. Counting(r)
      BY <1>2, <1>4, <1>5, <2>3, <2>4 DEF Counting
    <2>7. Numbered(r, nextId')
      <3>1. Numbered(tx[h], nextId)
        BY <1>1 DEF Counted
      <3>2. c < nextId[k].count
        BY <1>2 DEF Counted, Filed
      <3> QED BY <1>2, <1>3, <2>4, <3>1, <3>2 DEF Numbered
    <2>8. ASSUME NEW g \in Running \ {h} PROVE Disjoint(r, tx[g])
      <3>1. Disjoint(tx[h], tx[g])
        BY <1>1 DEF Counted
      <3> QED BY <2>1, <2>4, <3>1 DEF Disjoint, CountFree, Open
    <2>9. /\ \A l \in Kinds : /\ nextId[l].request <= nextId'[l].request
                                 /\ nextId[l].count <= nextId'[l].count
          /\ nextId' \in [Kinds -> [request : 1 .. MaxTokens + 1, count : 1 .. MaxTokens + 1]]
      BY <1>3, SameSequences
    <2> QED BY <1>3, <2>1, <2>5, <2>6, <2>7, <2>8, <2>9, CountedMoves
  <1> QED BY <1>3, <1>5, CountedRollsBack DEF SendTally

\* A confirmation deletes the request it found, when nobody else has written it.
LEMMA ConfirmSoftDeleteCounted ==
    ASSUME Typed, Counted, NEW h \in Handlers, ConfirmSoftDelete(h)
    PROVE  Counted'
  <1>1. h \in Running /\ tx[h] \in OpenTx /\ ShapeOf(tx[h]) /\ tx[h].pc = "softDelete"
    BY RunningIsOpen DEF ConfirmSoftDelete, At, Running
  <1> DEFINE row == [requests[tx[h].kind][tx[h].request] EXCEPT !.live = FALSE]
             r == [tx[h] EXCEPT !.pc = "softCount", !.row = row]
  <1>2. /\ tx[h].tally = None /\ tx[h].request \in Ids /\ tx[h].kind \in Kinds
        /\ requests[tx[h].kind][tx[h].request] # None
    BY <1>1, OpenFields DEF Counted, Orderly, ShapeOf
  <1>3. tx' = [tx EXCEPT ![h] = r] /\ UNCHANGED <<requests, counts, sends, nextId>>
    BY DEF ConfirmSoftDelete, tables, history
  <1> HIDE DEF row
  <1>4. /\ r.kind = tx[h].kind /\ r.request = tx[h].request /\ r.pc = "softCount" /\ r.tally = None
    BY <1>1, <1>2 DEF OpenTx
  <1> HIDE DEF r
  <1>5. Orderly(r) /\ Counting(r)
    BY <1>2, <1>4 DEF Orderly, Counting
  <1>6. Numbered(r, nextId')
    BY <1>2, <1>3, <1>4 DEF Numbered, Counted, Filed
  <1>7. \A g \in Running \ {h} : Disjoint(r, tx[g])
    BY <1>4 DEF ConfirmSoftDelete, RequestFree, Open, Disjoint
  <1>8. /\ \A k \in Kinds : /\ nextId[k].request <= nextId'[k].request
                               /\ nextId[k].count <= nextId'[k].count
        /\ nextId' \in [Kinds -> [request : 1 .. MaxTokens + 1, count : 1 .. MaxTokens + 1]]
    BY <1>3, SameSequences
  <1> QED BY <1>3, <1>5, <1>6, <1>7, <1>8, CountedMoves

\* It deletes a count, which may be another request's, and leaves its number.
LEMMA ConfirmSoftCountCounted ==
    ASSUME Typed, Counted, NEW h \in Handlers, ConfirmSoftCount(h)
    PROVE  Counted'
  <1>1. h \in Running /\ tx[h] \in OpenTx /\ ShapeOf(tx[h]) /\ tx[h].pc = "softCount"
    BY RunningIsOpen DEF ConfirmSoftCount, At, Running
  <1> DEFINE k == tx[h].kind
             i == tx[h].request
  <1>2. /\ tx[h].op = "confirm" /\ tx[h].row # None /\ k \in Kinds /\ i \in Ids
    BY <1>1, OpenFields DEF ShapeOf, SendPhases
  <1>3. UNCHANGED <<requests, counts, sends, nextId>>
    BY DEF ConfirmSoftCount, tables, history
  <1>4. CASE counts[k][i] # None /\ CountFree(h, i)
             /\ tx' = [tx EXCEPT ![h].pc = "commit", ![h].count = i,
                                 ![h].tally = [counts[k][i] EXCEPT !.live = FALSE]]
    <2> DEFINE row == [counts[k][i] EXCEPT !.live = FALSE]
               r == [tx[h] EXCEPT !.pc = "commit", !.count = i, !.tally = row]
    <2>1. tx' = [tx EXCEPT ![h] = r]
      BY <1>4
    <2>2. counts[k][i] \in CountRow
      BY <1>2, <1>4 DEF Typed, TypeOK
    <2>3. row.request = counts[k][i].request /\ row.count = counts[k][i].count
      BY <2>2 DEF CountRow
    <2> HIDE DEF row
    <2>4. /\ r.op = "confirm" /\ r.kind = k /\ r.request = i /\ r.row = tx[h].row
          /\ r.pc = "commit" /\ r.count = i /\ r.tally = row
      BY <1>1, <1>2 DEF OpenTx
    <2> HIDE DEF r
    <2>5. Orderly(r)
      BY <2>4 DEF Orderly
    <2>6. requests[k][i] # None
      BY <1>1, <1>2 DEF Counted, Counting
    <2>7. Counting(r)
      BY <1>4, <2>3, <2>4, <2>6 DEF Counting
    <2>8. Numbered(r, nextId')
      BY <1>2, <1>3, <1>4, <2>4, <2>6 DEF Numbered, Counted, Filed
    <2>9. ASSUME NEW g \in Running \ {h} PROVE Disjoint(r, tx[g])
      <3>1. Disjoint(tx[h], tx[g])
        BY <1>1 DEF Counted
      <3> QED BY <1>4, <2>4, <3>1 DEF Disjoint, CountFree, Open
    <2>10. /\ \A l \in Kinds : /\ nextId[l].request <= nextId'[l].request
                                  /\ nextId[l].count <= nextId'[l].count
           /\ nextId' \in [Kinds -> [request : 1 .. MaxTokens + 1, count : 1 .. MaxTokens + 1]]
      BY <1>3, SameSequences
    <2> QED BY <1>3, <2>1, <2>5, <2>7, <2>8, <2>9, <2>10, CountedMoves
  <1> QED BY <1>3, <1>4, CountedRollsBack DEF ConfirmSoftCount

\* What a commitment does to the tables, seen by the counts.
LEMMA CommitFacts ==
    ASSUME Typed, Counted, NEW h \in Handlers, Commit(h), NEW t, t = tx[h]
    PROVE  /\ h \in Running /\ t.op \in {"send", "confirm"} /\ t.kind \in Kinds
           /\ t.request \in Ids /\ t.count \in Ids
           /\ t.row # None /\ t.tally # None /\ t.tally.count \in Nat
           /\ Numbered(t, nextId) /\ Counting(t)
           /\ requests'[t.kind][t.request] = t.row /\ counts'[t.kind][t.count] = t.tally
           /\ \A k \in Kinds, i \in Ids :
                 /\ k # t.kind \/ i # t.request => requests'[k][i] = requests[k][i]
                 /\ k # t.kind \/ i # t.count => counts'[k][i] = counts[k][i]
                 /\ k # t.kind \/ i # t.request \/ t.op = "confirm" => sends'[k][i] = sends[k][i]
           /\ t.op = "send" =>
                 sends'[t.kind][t.request] =
                    IF t.tally.count = 0 THEN 1 ELSE sends[t.kind][t.request] + 1
           /\ nextId' = nextId
           /\ \A g \in Running' : g \in Running \ {h} /\ tx'[g] = tx[g]
  <1>1. h \in Running /\ t \in OpenTx /\ ShapeOf(t) /\ t.pc = "commit"
    BY RunningIsOpen DEF Commit, At, Running
  <1>2. /\ t.op \in {"send", "confirm"} /\ t.kind \in Kinds /\ t.request \in Ids /\ t.count \in Ids
        /\ t.row # None /\ t.tally \in CountRow /\ t.tally # None
    BY <1>1, OpenFields DEF ShapeOf
  <1>3. t.tally.count \in Nat
    BY <1>2, BoundsAssumption DEF CountRow
  <1>4. Numbered(t, nextId) /\ Counting(t)
    BY <1>1 DEF Counted
  <1>5. /\ requests' = [requests EXCEPT ![t.kind][t.request] = t.row]
        /\ counts' = [counts EXCEPT ![t.kind][t.count] = t.tally]
        /\ nextId' = nextId
    BY DEF Commit
  <1>6. /\ requests'[t.kind][t.request] = t.row /\ counts'[t.kind][t.count] = t.tally
        /\ \A k \in Kinds, i \in Ids :
              /\ k # t.kind \/ i # t.request => requests'[k][i] = requests[k][i]
              /\ k # t.kind \/ i # t.count => counts'[k][i] = counts[k][i]
    BY <1>2, <1>5 DEF Typed, TypeOK
  <1>7. t.op = "send" =>
          sends' = [sends EXCEPT ![t.kind][t.request] =
                      IF t.tally.count = 0 THEN 1 ELSE sends[t.kind][t.request] + 1]
    BY DEF Commit
  <1>8. t.op = "confirm" => sends' = sends
    BY DEF Commit
  <1>9. sends \in [Kinds -> [Ids -> Nat]]
    BY DEF Typed, TypeOK
  <1>10. /\ \A k \in Kinds, i \in Ids :
               k # t.kind \/ i # t.request \/ t.op = "confirm" => sends'[k][i] = sends[k][i]
         /\ t.op = "send" => sends'[t.kind][t.request] =
                               IF t.tally.count = 0 THEN 1 ELSE sends[t.kind][t.request] + 1
    BY <1>2, <1>7, <1>8, <1>9
  <1>11. \A g \in Running' : g \in Running \ {h} /\ tx'[g] = tx[g]
    BY DEF Commit, RollBack, Running, At, Typed, TypeOK, Idle
  <1> QED BY <1>1, <1>2, <1>3, <1>4, <1>5, <1>6, <1>10, <1>11

\* Each request keeps its one count, and its number goes with the sends.
LEMMA CommitCounts ==
    ASSUME Typed, Counted, NEW h \in Handlers, Commit(h), NEW k \in Kinds, NEW i \in Ids,
           requests'[k][i] # None
    PROVE  OneCount(k, i)'
  <1> DEFINE t == tx[h]
             C == /\ h \in Running /\ t.op \in {"send", "confirm"} /\ t.kind \in Kinds
                  /\ t.request \in Ids /\ t.count \in Ids
                  /\ t.row # None /\ t.tally # None /\ t.tally.count \in Nat
  <1>1. C /\ Counting(t)
    BY CommitFacts
  <1>2. /\ requests'[t.kind][t.request] = t.row /\ counts'[t.kind][t.count] = t.tally
        /\ \A l \in Kinds, j \in Ids :
              /\ l # t.kind \/ j # t.request => requests'[l][j] = requests[l][j]
              /\ l # t.kind \/ j # t.count => counts'[l][j] = counts[l][j]
    BY CommitFacts
  <1>3. /\ \A l \in Kinds, j \in Ids :
              l # t.kind \/ j # t.request \/ t.op = "confirm" => sends'[l][j] = sends[l][j]
        /\ t.op = "send" => sends'[t.kind][t.request] =
                              IF t.tally.count = 0 THEN 1 ELSE sends[t.kind][t.request] + 1
    BY CommitFacts
  <1>4. sends[k][i] \in Nat /\ \A c \in Ids : counts[k][c] # None => counts[k][c].count \in Nat
    BY BoundsAssumption DEF Typed, TypeOK, CountRow
  <1>5. Filed /\ \A l \in Kinds, j \in Ids : requests[l][j] # None => OneCount(l, j)
    BY OneCountEach DEF Counted
  <1> HIDE DEF t
  <1>6. CASE counts[t.kind][t.count] = None
    <2>1. t.op = "send" /\ t.tally.count = 0 /\ t.tally.request = t.request
          /\ requests[t.kind][t.request] = None
      BY <1>1, <1>6 DEF Counting
    <2>2. \A d \in Ids : counts[t.kind][d] # None => counts[t.kind][d].request # t.request
      BY <1>1, <1>5, <2>1 DEF Filed
    <2>3. CASE k = t.kind /\ i = t.request
      <3>1. sends'[k][i] = 1 /\ 0 = 1 - 1
        BY <1>3, <2>1, <2>3
      <3>2. \A d \in Ids : counts'[k][d] # None /\ counts'[k][d].request = i => d = t.count
        BY <1>1, <1>2, <2>2, <2>3
      <3> QED BY <1>1, <1>2, <2>1, <2>3, <3>1, <3>2 DEF OneCount
    <2>4. CASE k # t.kind \/ i # t.request
      <3>1. requests[k][i] # None /\ sends'[k][i] = sends[k][i]
        BY <1>2, <1>3, <2>4
      <3>2. PICK c \in Ids : /\ counts[k][c] # None /\ counts[k][c].request = i
                             /\ counts[k][c].count = sends[k][i] - 1
                             /\ \A d \in Ids : counts[k][d] # None /\ counts[k][d].request = i => d = c
        BY <1>5, <3>1 DEF OneCount
      <3>3. counts'[k][c] = counts[k][c]
        BY <1>2, <1>6, <3>2
      <3>4. \A d \in Ids : counts'[k][d] # None /\ counts'[k][d].request = i => d = c
        BY <1>1, <1>2, <2>1, <2>4, <3>2
      <3> QED BY <3>1, <3>2, <3>3, <3>4 DEF OneCount
    <2> QED BY <2>3, <2>4
  <1>7. CASE counts[t.kind][t.count] # None
    <2>1. /\ t.tally.request = counts[t.kind][t.count].request
          /\ t.op = "send" => t.tally.request = t.request
          /\ t.op = "send" => t.tally.count \in {0, counts[t.kind][t.count].count + 1}
          /\ t.op = "confirm" => t.tally.count = counts[t.kind][t.count].count
      BY <1>1, <1>7 DEF Counting
    <2>2. t.op = "confirm" => requests[t.kind][t.request] # None
      BY <1>1 DEF Counting
    <2>3. t.op = "send" => requests[t.kind][t.request] # None
      BY <1>1, <1>5, <1>7, <2>1 DEF Filed
    <2>4. requests[k][i] # None
      BY <1>1, <1>2, <2>2, <2>3
    <2>5. PICK c \in Ids : /\ counts[k][c] # None /\ counts[k][c].request = i
                           /\ counts[k][c].count = sends[k][i] - 1
                           /\ \A d \in Ids : counts[k][d] # None /\ counts[k][d].request = i => d = c
      BY <1>5, <2>4 DEF OneCount
    <2>6. counts'[k][c] # None /\ counts'[k][c].request = i
      BY <1>1, <1>2, <2>1, <2>5
    <2>7. \A d \in Ids : counts'[k][d] # None /\ counts'[k][d].request = i => d = c
      BY <1>1, <1>2, <1>7, <2>1, <2>5
    <2>8. counts'[k][c].count = sends'[k][i] - 1
      <3>1. CASE t.op = "confirm"
        BY <1>2, <1>3, <2>1, <2>5, <3>1
      <3>2. CASE t.op = "send" /\ k = t.kind /\ i = t.request
        <4>1. c = t.count
          BY <1>1, <1>7, <2>1, <2>5, <3>2
        <4>2. counts[k][c].count \in Nat
          BY <1>4, <2>5
        <4>3. counts'[k][c].count = t.tally.count /\ t.tally.count \in {0, counts[k][c].count + 1}
          BY <1>2, <2>1, <3>2, <4>1
        <4>4. sends'[k][i] = IF t.tally.count = 0 THEN 1 ELSE sends[k][i] + 1
          BY <1>3, <3>2
        <4> QED BY <1>4, <2>5, <4>2, <4>3, <4>4
      <3>3. CASE t.op = "send" /\ (k # t.kind \/ i # t.request)
        <4>1. k # t.kind \/ c # t.count
          BY <2>1, <2>5, <3>3
        <4> QED BY <1>2, <1>3, <2>5, <3>3, <4>1
      <3> QED BY <1>1, <3>1, <3>2, <3>3
    <2> QED BY <2>5, <2>6, <2>7, <2>8 DEF OneCount
  <1> QED BY <1>6, <1>7

\* The transactions that are still open do not notice.
LEMMA CommitCounted ==
    ASSUME Typed, Counted, NEW h \in Handlers, Commit(h)
    PROVE  Counted'
  <1> DEFINE t == tx[h]
  <1>1. /\ h \in Running /\ t.op \in {"send", "confirm"} /\ t.kind \in Kinds
        /\ t.request \in Ids /\ t.count \in Ids /\ t.row # None /\ t.tally # None
        /\ Numbered(t, nextId) /\ Counting(t) /\ nextId' = nextId
    BY CommitFacts
  <1>2. /\ requests'[t.kind][t.request] = t.row /\ counts'[t.kind][t.count] = t.tally
        /\ \A k \in Kinds, i \in Ids :
              /\ k # t.kind \/ i # t.request => requests'[k][i] = requests[k][i]
              /\ k # t.kind \/ i # t.count => counts'[k][i] = counts[k][i]
    BY CommitFacts
  <1>3. \A g \in Running' : g \in Running \ {h} /\ tx'[g] = tx[g]
    BY CommitFacts
  <1> HIDE DEF t
  <1>4. AttemptsCounted'
    <2>1. \A k \in Kinds, i \in Ids : requests'[k][i] # None => OneCount(k, i)'
      BY CommitCounts
    <2> QED BY <2>1 DEF AttemptsCounted, CountsOf, OneCount
  <1>5. Filed'
    <2>1. \A k \in Kinds, i \in Ids : requests'[k][i] # None => i < nextId[k].request
      BY <1>1, <1>2 DEF Counted, Filed, Numbered
    <2>2. ASSUME NEW k \in Kinds, NEW c \in Ids, counts'[k][c] # None
          PROVE  c < nextId[k].count /\ requests'[k][counts'[k][c].request] # None
      <3>1. CASE k = t.kind /\ c = t.count
        <4>1. c < nextId[k].count
          BY <1>1, <3>1 DEF Numbered
        <4>2. CASE t.op = "send"
          BY <1>1, <1>2, <3>1, <4>1, <4>2 DEF Counting
        <4>3. CASE t.op = "confirm"
          <5>1. counts[k][c] # None /\ t.tally.request = counts[k][c].request
            BY <1>1, <3>1, <4>3 DEF Counting
          <5>2. requests[k][t.tally.request] # None /\ t.tally.request \in Ids
            BY <5>1 DEF Counted, Filed, Typed, TypeOK, CountRow
          <5> QED BY <1>1, <1>2, <3>1, <4>1, <5>2
        <4> QED BY <1>1, <4>2, <4>3
      <3>2. CASE k # t.kind \/ c # t.count
        <4>1. counts'[k][c] = counts[k][c]
          BY <1>2, <3>2
        <4>2. requests[k][counts[k][c].request] # None /\ counts[k][c].request \in Ids
              /\ c < nextId[k].count
          BY <2>2, <4>1 DEF Counted, Filed, Typed, TypeOK, CountRow
        <4> QED BY <1>1, <1>2, <4>1, <4>2
      <3> QED BY <3>1, <3>2
    <2> QED BY <1>1, <2>1, <2>2 DEF Filed
  <1>6. ASSUME NEW g \in Running'
        PROVE  (Orderly(tx[g]) /\ Numbered(tx[g], nextId) /\ Counting(tx[g]))'
    <2>0. PICK s : s = tx[g]
      OBVIOUS
    <2>1. g \in Running \ {h} /\ tx'[g] = s
      BY <1>3, <2>0
    <2>2. Orderly(s) /\ Numbered(s, nextId) /\ Counting(s) /\ Disjoint(t, s)
      BY <1>1, <2>0, <2>1 DEF Counted, t
    <2>3. s.kind \in Kinds /\ s.op \in {"send", "confirm"} /\ ShapeOf(s)
          /\ (s.row # None => s.request \in Ids)
      <3>1. s \in OpenTx /\ ShapeOf(s)
        BY <2>0, <2>1, RunningIsOpen
      <3> QED BY <2>2, <3>1, OpenFields DEF ShapeOf, Orderly
    <2>4. s.row # None /\ s.op = "confirm" => requests'[s.kind][s.request] # None
      BY <1>1, <1>2, <2>2, <2>3 DEF Counting
    <2>5. s.pc = "tally" =>
            /\ counts'[s.kind][s.count].request = s.request
            /\ s.seen.count = counts'[s.kind][s.count].count
      <3> SUFFICES ASSUME s.pc = "tally"
                   PROVE  /\ counts'[s.kind][s.count].request = s.request
                          /\ s.seen.count = counts'[s.kind][s.count].count
        OBVIOUS
      <3>1. s.row # None /\ s.request \in Ids /\ s.count \in Ids /\ counts[s.kind][s.count] # None
        BY <2>3 DEF ShapeOf
      <3>2. counts[s.kind][s.count].request = s.request
            /\ s.seen.count = counts[s.kind][s.count].count
        BY <2>2 DEF Counting
      <3>3. CASE s.kind = t.kind /\ s.count = t.count
        <4>1. t.request # s.request
          BY <1>1, <2>2, <3>1, <3>3 DEF Disjoint
        <4>2. t.op = "confirm" /\ t.tally.request = counts[s.kind][s.count].request
              /\ t.tally.count = counts[s.kind][s.count].count
          BY <1>1, <3>1, <3>2, <3>3, <4>1 DEF Counting
        <4> QED BY <1>2, <3>2, <3>3, <4>2
      <3>4. CASE s.kind # t.kind \/ s.count # t.count
        BY <1>2, <2>3, <3>1, <3>2, <3>4
      <3> QED BY <3>3, <3>4
    <2>6. s.tally # None => counts'[s.kind][s.count] = counts[s.kind][s.count]
      <3>1. s.tally # None => s.count \in Ids
        BY <2>2, <2>3 DEF ShapeOf, Orderly
      <3> QED BY <1>1, <1>2, <2>2, <2>3, <3>1 DEF Disjoint
    <2>7. s.tally # None => requests'[s.kind][s.request] = requests[s.kind][s.request]
      <3>1. s.tally # None => s.row # None
        BY <2>2, <2>3 DEF ShapeOf, Orderly
      <3> QED BY <1>1, <1>2, <2>2, <2>3, <3>1 DEF Disjoint
    <2>8. Counting(tx[g])'
      BY <2>1, <2>2, <2>4, <2>5, <2>6, <2>7 DEF Counting
    <2> QED BY <1>1, <2>1, <2>2, <2>8 DEF Orderly, Numbered
  <1>7. ASSUME NEW f \in Running', NEW g \in Running', f # g PROVE Disjoint(tx[f], tx[g])'
    BY <1>3, <1>7 DEF Counted, Disjoint
  <1> QED BY <1>4, <1>5, <1>6, <1>7 DEF Counted

LEMMA UnchangedCounted ==
    ASSUME Counted, UNCHANGED <<requests, counts, nextId, tx, sends>>
    PROVE  Counted'
  <1>1. Running' = Running
    BY DEF Running, At
  <1>2. AttemptsCounted' /\ Filed'
    BY DEF Counted, AttemptsCounted, CountsOf, Filed
  <1> QED BY <1>1, <1>2 DEF Counted, Orderly, Numbered, Counting, Disjoint

LEMMA BlacklistCounted ==
    ASSUME Counted, NEW u \in Lockable, NEW b \in BOOLEAN, Blacklist(u, b)
    PROVE  Counted'
  <1>1. UNCHANGED <<requests, counts, nextId, tx, sends>>
    BY DEF Blacklist, tables, history
  <1> QED BY <1>1, UnchangedCounted

\* No date is part of what is counted.
LEMMA DayPassesCounted ==
    ASSUME Typed, Counted, DayPasses
    PROVE  Counted'
  <1>1. UNCHANGED <<requests, nextId, tx, sends>> /\ Running = {}
    BY DEF DayPasses, history
  <1>2. Running' = {}
    BY <1>1 DEF Running, At
  <1>3. ASSUME NEW k \in Kinds, NEW c \in Ids
        PROVE  /\ counts'[k][c] = None <=> counts[k][c] = None
               /\ counts[k][c] # None => /\ counts'[k][c].request = counts[k][c].request
                                         /\ counts'[k][c].count = counts[k][c].count
    <2>1. counts'[k][c] = IF counts[k][c] # None /\ counts[k][c].date = "today"
                            THEN [counts[k][c] EXCEPT !.date = "past"] ELSE counts[k][c]
      BY DEF DayPasses
    <2>2. CASE counts[k][c] # None /\ counts[k][c].date = "today"
      <3>1. counts[k][c] \in CountRow
        BY <2>2 DEF Typed, TypeOK
      <3>2. counts'[k][c] = [counts[k][c] EXCEPT !.date = "past"]
        BY <2>1, <2>2
      <3>3. counts'[k][c] \in CountRow
        BY <3>1, <3>2 DEF CountRow, Dates
      <3> QED BY <2>2, <3>1, <3>2, <3>3, NoneAssumption DEF CountRow
    <2>3. CASE ~(counts[k][c] # None /\ counts[k][c].date = "today")
      BY <2>1, <2>3
    <2> QED BY <2>2, <2>3
  <1>4. AttemptsCounted'
    <2>1. \A k \in Kinds, i \in Ids : CountsOf(k, i)' = CountsOf(k, i)
      BY <1>3 DEF CountsOf
    <2> QED BY <1>1, <1>3, <2>1 DEF Counted, AttemptsCounted, CountsOf
  <1>5. Filed'
    BY <1>1, <1>3 DEF Counted, Filed
  <1> QED BY <1>2, <1>4, <1>5 DEF Counted

LEMMA InitCounted == Init => Counted
  <1> SUFFICES ASSUME Init PROVE Counted
    OBVIOUS
  <1>1. Running = {}
    BY DEF Init, Running, At, Idle
  <1>2. \A k \in Kinds, i \in Ids : requests[k][i] = None /\ counts[k][i] = None
    BY DEF Init
  <1> QED BY <1>1, <1>2 DEF Counted, AttemptsCounted, Filed

LEMMA NextCounted == Typed /\ Counted /\ [Next]_vars => Counted'
  <1> SUFFICES ASSUME Typed, Counted, [Next]_vars PROVE Counted'
    OBVIOUS
  <1>1. CASE UNCHANGED vars
    BY <1>1, UnchangedCounted DEF vars
  <1>2. ASSUME NEW h \in Handlers, NEW k \in Kinds, NEW u \in Users, StartSend(h, k, u)
        PROVE  Counted'
    BY <1>2, StartsCounted
  <1>3. ASSUME NEW h \in Handlers, \E m \in mail : StartConfirm(h, m) PROVE Counted'
    BY <1>3, StartsCounted
  <1>4. ASSUME NEW h \in Handlers, Send(h) PROVE Counted'
    BY <1>4, ReadsCounted, SendRewriteCounted, SendCreateCounted, SendFindCountCounted,
       SendNewCountCounted, SendTallyCounted DEF Send
  <1>5. ASSUME NEW h \in Handlers, Confirm(h) PROVE Counted'
    BY <1>5, ReadsCounted, ConfirmSoftDeleteCounted, ConfirmSoftCountCounted, CountedRollsBack
       DEF Confirm, ConfirmReuseThrows, tables, history
  <1>6. ASSUME NEW h \in Handlers, Commit(h) PROVE Counted'
    BY <1>6, CommitCounted
  <1>7. ASSUME NEW h \in Handlers, Fail(h) PROVE Counted'
    BY <1>7, CountedRollsBack DEF Fail, tables, history
  <1>8. ASSUME NEW u \in Lockable, NEW b \in BOOLEAN, Blacklist(u, b) PROVE Counted'
    BY <1>8, BlacklistCounted
  <1> QED BY <1>1, <1>2, <1>3, <1>4, <1>5, <1>6, <1>7, <1>8, DayPassesCounted DEF Next, Step

\* However sends, confirmations and failures interleave, every request has one
\* count, which holds the number of its sends after the first.
THEOREM AttemptsCountedHolds == Spec => []AttemptsCounted
  <1>1. Init => Typed /\ Counted
    BY InitTyped, InitCounted
  <1>2. Typed /\ Counted /\ [Next]_vars => (Typed /\ Counted)'
    BY NextTyped, NextCounted
  <1>3. Typed /\ Counted => AttemptsCounted
    BY DEF Counted
  <1> QED BY <1>1, <1>2, <1>3, PTL DEF Spec

-----------------------------------------------------------------------------
\* One live request.

Lives(k, u, i) == requests[k][i] # None /\ requests[k][i].live /\ requests[k][i].user = u

\* What a send finds stays the only live request of its user until it commits,
\* unless another send of the user and the kind has been open beside it.
SendingAlone(t) ==
    t.op = "send" =>
      /\ t.row # None => t.row.user = t.user
      /\ <<t.kind, t.user>> \notin crossed /\ t.pc = "create" =>
           \A i \in Ids : ~Lives(t.kind, t.user, i)
      /\ <<t.kind, t.user>> \notin crossed /\ t.pc \notin {"find", "create"} =>
           \A i \in Ids : Lives(t.kind, t.user, i) => i = t.request

\* Two sends of one user and kind that are open at once are on record.
Met(t, s) ==
    t.op = "send" /\ s.op = "send" /\ t.kind = s.kind /\ t.user = s.user =>
       <<t.kind, t.user>> \in crossed

Alone ==
    /\ OneLiveRequest
    /\ \A h \in Running : SendingAlone(tx[h])
    /\ \A g, h \in Running : g # h => Met(tx[g], tx[h])

\* A step that moves one handler and commits nothing.
LEMMA AloneMoves ==
    ASSUME Typed, Alone, NEW h \in Handlers, \A g \in Handlers \ {h} : tx'[g] = tx[g],
           UNCHANGED requests, crossed \subseteq crossed',
           tx'[h].pc # "idle" => SendingAlone(tx[h])',
           tx'[h].pc # "idle" => \A g \in Running \ {h} : Met(tx[g], tx[h])'
    PROVE  Alone'
  <1>1. OneLiveRequest'
    BY DEF Alone, OneLiveRequest
  <1>2. \A g \in Running' : g # h => g \in Running /\ tx'[g] = tx[g]
    BY DEF Running, At
  <1>3. ASSUME NEW g \in Running' PROVE SendingAlone(tx[g])'
    <2>1. CASE g = h
      BY <1>3, <2>1 DEF Running, At
    <2>2. CASE g # h
      <3>1. SendingAlone(tx[g]) /\ tx'[g] = tx[g]
        BY <1>2, <2>2 DEF Alone
      <3> QED BY <3>1 DEF SendingAlone, Lives
    <2> QED BY <2>1, <2>2
  <1>4. ASSUME NEW f \in Running', NEW g \in Running', f # g PROVE Met(tx[f], tx[g])'
    <2>1. CASE f = h
      BY <1>2, <1>4, <2>1 DEF Running, At, Met
    <2>2. CASE g = h
      BY <1>2, <1>4, <2>2 DEF Running, At
    <2>3. CASE f # h /\ g # h
      <3>1. Met(tx[f], tx[g]) /\ tx'[f] = tx[f] /\ tx'[g] = tx[g]
        BY <1>2, <1>4, <2>3 DEF Alone
      <3> QED BY <3>1 DEF Met
    <2> QED BY <2>1, <2>2, <2>3
  <1> QED BY <1>1, <1>3, <1>4 DEF Alone

\* The same, for a handler that ends or that goes on for the same user.
LEMMA AloneContinues ==
    ASSUME Typed, Alone, NEW h \in Running, \A g \in Handlers \ {h} : tx'[g] = tx[g],
           UNCHANGED <<requests, crossed>>,
           \/ tx'[h].pc = "idle"
           \/ tx'[h].op = tx[h].op /\ tx'[h].op = "confirm"
           \/ /\ tx'[h].op = tx[h].op /\ tx'[h].kind = tx[h].kind /\ tx'[h].user = tx[h].user
              /\ SendingAlone(tx[h])'
    PROVE  Alone'
  <1>1. h \in Handlers
    BY DEF Running
  <1>2. tx'[h].pc # "idle" => SendingAlone(tx[h])'
    BY DEF SendingAlone
  <1>3. ASSUME tx'[h].pc # "idle", NEW g \in Running \ {h} PROVE Met(tx[g], tx[h])'
    <2>1. Met(tx[g], tx[h]) /\ tx'[g] = tx[g]
      BY DEF Alone, Running
    <2> QED BY <1>3, <2>1 DEF Met
  <1> QED BY <1>1, <1>2, <1>3, AloneMoves

LEMMA StartSendAlone ==
    ASSUME Typed, Alone, NEW h \in Handlers, NEW k \in Kinds, NEW u \in Users, StartSend(h, k, u)
    PROVE  Alone'
  <1>1. /\ tx'[h] = Begin("send", "find", k, u, token + 1)
        /\ \A g \in Handlers \ {h} : tx'[g] = tx[g]
        /\ UNCHANGED requests
    BY DEF StartSend, tables, Typed, TypeOK
  <1>2. /\ tx'[h].op = "send" /\ tx'[h].pc = "find" /\ tx'[h].kind = k /\ tx'[h].user = u
        /\ tx'[h].row = None
    BY <1>1 DEF Begin
  <1>3. SendingAlone(tx[h])'
    BY <1>2 DEF SendingAlone
  <1>4. crossed \subseteq crossed'
        /\ \A g \in Running \ {h} : tx[g].op = "send" /\ tx[g].kind = k /\ tx[g].user = u =>
              <<k, u>> \in crossed'
    BY DEF StartSend, Open
  <1>5. \A g \in Running \ {h} : Met(tx[g], tx[h])'
    <2>1. \A g \in Running \ {h} : tx'[g] = tx[g]
      BY <1>1 DEF Running
    <2> QED BY <1>2, <1>4, <2>1 DEF Met
  <1> QED BY <1>1, <1>3, <1>4, <1>5, AloneMoves

LEMMA ConfirmAlone ==
    ASSUME Typed, Alone, NEW h \in Handlers, Confirm(h) \/ \E m \in mail : StartConfirm(h, m)
    PROVE  Alone'
  <1>1. CASE \E m \in mail : StartConfirm(h, m)
    <2>1. /\ \A g \in Handlers \ {h} : tx'[g] = tx[g]
          /\ UNCHANGED <<requests, crossed>>
      BY <1>1 DEF StartConfirm, tables, history, Typed, TypeOK
    <2>2. tx'[h].op = "confirm"
      BY <1>1 DEF StartConfirm, Begin, Typed, TypeOK
    <2> QED BY <2>1, <2>2, AloneMoves DEF SendingAlone, Met
  <1>2. CASE Confirm(h)
    <2>1. h \in Running /\ tx[h] \in OpenTx /\ ShapeOf(tx[h]) /\ tx[h].pc \in ConfirmPhases
      BY <1>2, RunningIsOpen DEF Confirm, ConfirmLookup, ConfirmReuse, ConfirmReuseThrows,
         ConfirmIdentity, ConfirmSoftDelete, ConfirmSoftCount, At, Running, ConfirmPhases
    <2>2. tx[h].op = "confirm"
      BY <2>1, OpenFields DEF ShapeOf, SendPhases, ConfirmPhases
    <2>3. UNCHANGED <<requests, crossed>>
      BY <1>2 DEF Confirm, ConfirmLookup, ConfirmReuse, ConfirmReuseThrows,
         ConfirmIdentity, ConfirmSoftDelete, ConfirmSoftCount, tables, history
    <2>4. \/ tx' = [tx EXCEPT ![h] = Idle]
          \/ \E pc : tx' = [tx EXCEPT ![h].pc = pc]
          \/ \E pc, i : tx' = [tx EXCEPT ![h].pc = pc, ![h].request = i]
          \/ \E pc, i : tx' = [tx EXCEPT ![h].pc = pc, ![h].identity = i]
          \/ \E pc, i : tx' = [tx EXCEPT ![h].pc = pc, ![h].row = i]
          \/ \E pc, i, c : tx' = [tx EXCEPT ![h].pc = pc, ![h].count = i, ![h].tally = c]
      <3>1. CASE ConfirmLookup(h)
        BY <3>1 DEF ConfirmLookup, RollBack, Goto
      <3>2. CASE ConfirmReuse(h) \/ ConfirmReuseThrows(h) \/ ConfirmIdentity(h)
        BY <3>2 DEF ConfirmReuse, ConfirmReuseThrows, ConfirmIdentity, RollBack
      <3>3. CASE ConfirmSoftDelete(h)
        BY <3>3 DEF ConfirmSoftDelete
      <3>4. CASE ConfirmSoftCount(h)
        BY <3>4 DEF ConfirmSoftCount, RollBack
      <3> QED BY <1>2, <3>1, <3>2, <3>3, <3>4 DEF Confirm
    <2>5. tx'[h] = Idle \/ tx'[h].op = "confirm"
      <3>1. tx \in [Handlers -> OpenTx \cup {Idle}]
        BY DEF Typed, TypeOK
      <3>2. CASE \E pc, i : tx' = [tx EXCEPT ![h].pc = pc, ![h].identity = i]
        BY <2>1, <2>2, <3>1, <3>2 DEF OpenTx
      <3>3. CASE \E pc, i : tx' = [tx EXCEPT ![h].pc = pc, ![h].row = i]
        BY <2>1, <2>2, <3>1, <3>3 DEF OpenTx
      <3>4. CASE \E pc, i, c : tx' = [tx EXCEPT ![h].pc = pc, ![h].count = i, ![h].tally = c]
        BY <2>1, <2>2, <3>1, <3>4 DEF OpenTx
      <3>5. CASE \E pc, i : tx' = [tx EXCEPT ![h].pc = pc, ![h].request = i]
        BY <2>1, <2>2, <3>1, <3>5 DEF OpenTx
      <3>6. CASE \E pc : tx' = [tx EXCEPT ![h].pc = pc]
        BY <2>1, <2>2, <3>1, <3>6 DEF OpenTx
      <3>7. CASE tx' = [tx EXCEPT ![h] = Idle]
        BY <3>1, <3>7
      <3> QED BY <2>4, <3>2, <3>3, <3>4, <3>5, <3>6, <3>7
    <2>6. \A g \in Handlers \ {h} : tx'[g] = tx[g]
      BY <2>4 DEF Typed, TypeOK
    <2> QED BY <2>1, <2>2, <2>3, <2>5, <2>6, AloneContinues DEF Idle
  <1> QED BY <1>1, <1>2

LEMMA SendFindAlone ==
    ASSUME Typed, Alone, NEW h \in Handlers, SendFind(h)
    PROVE  Alone'
  <1>1. h \in Running /\ tx[h] \in OpenTx /\ ShapeOf(tx[h]) /\ tx[h].pc = "find"
    BY RunningIsOpen DEF SendFind, At, Running
  <1>2. tx[h].op = "send" /\ tx[h].kind \in Kinds /\ tx[h].user \in Users
    BY <1>1, OpenFields DEF ShapeOf, ConfirmPhases
  <1>3. SendingAlone(tx[h])
    BY <1>1 DEF Alone
  <1>4. UNCHANGED <<requests, crossed>>
    BY DEF SendFind, tables, history
  <1>5. CASE Goto(h, "create") /\ \A i \in Ids : ~Lives(tx[h].kind, tx[h].user, i)
    <2>1. /\ tx'[h].pc = "create" /\ tx'[h].op = tx[h].op /\ tx'[h].kind = tx[h].kind
          /\ tx'[h].user = tx[h].user /\ tx'[h].row = tx[h].row
          /\ \A g \in Handlers \ {h} : tx'[g] = tx[g]
      BY <1>1, <1>5 DEF Goto, Typed, TypeOK, OpenTx
    <2>2. SendingAlone(tx[h])'
      BY <1>3, <1>4, <1>5, <2>1 DEF SendingAlone, Lives
    <2> QED BY <1>1, <1>4, <2>1, <2>2, AloneContinues
  <1>6. ASSUME NEW i \in Ids, Lives(tx[h].kind, tx[h].user, i),
               tx' = [tx EXCEPT ![h].pc = "reread", ![h].request = i]
        PROVE  Alone'
    <2>1. /\ tx'[h].pc = "reread" /\ tx'[h].op = tx[h].op /\ tx'[h].kind = tx[h].kind
          /\ tx'[h].user = tx[h].user /\ tx'[h].row = tx[h].row /\ tx'[h].request = i
          /\ \A g \in Handlers \ {h} : tx'[g] = tx[g]
      BY <1>1, <1>6 DEF Typed, TypeOK, OpenTx
    <2>2. <<tx[h].kind, tx[h].user>> \notin crossed =>
            \A j \in Ids : Lives(tx[h].kind, tx[h].user, j) => j = i
      BY <1>2, <1>6 DEF Alone, OneLiveRequest, Lives
    <2>3. SendingAlone(tx[h])'
      BY <1>3, <1>4, <2>1, <2>2 DEF SendingAlone, Lives
    <2> QED BY <1>1, <1>4, <2>1, <2>3, AloneContinues
  <1> QED BY <1>5, <1>6 DEF SendFind, Lives

\* Nothing that a send does after it has found, or not found, its request
\* changes which one that is, but for the insertion of the first.
LEMMA SendsAlone ==
    ASSUME Typed, Alone, NEW h \in Handlers,
           \/ SendReread(h) \/ SendRewrite(h) \/ SendCreate(h) \/ SendFindCount(h)
           \/ SendNewCount(h) \/ SendTally(h)
    PROVE  Alone'
  <1>1. h \in Running /\ tx[h] \in OpenTx /\ ShapeOf(tx[h]) /\ tx[h].pc # "find"
    BY RunningIsOpen DEF SendReread, SendRewrite, SendCreate, SendFindCount, SendNewCount,
       SendTally, At, Running
  <1>2. SendingAlone(tx[h]) /\ tx \in [Handlers -> OpenTx \cup {Idle}]
    BY <1>1 DEF Alone, Typed, TypeOK
  <1>3. UNCHANGED <<requests, crossed>>
    BY DEF SendReread, SendRewrite, SendCreate, SendFindCount, SendNewCount, SendTally,
       tables, history
  <1>4. CASE RollBack(h)
    BY <1>1, <1>2, <1>3, <1>4, AloneContinues DEF RollBack, Idle
  <1>5. ASSUME \A g \in Handlers \ {h} : tx'[g] = tx[g],
               tx'[h].op = tx[h].op, tx'[h].kind = tx[h].kind, tx'[h].user = tx[h].user,
               tx'[h].row = tx[h].row \/ tx'[h].row.user = tx[h].user,
               tx[h].pc = "create" \/ tx'[h].request = tx[h].request,
               tx'[h].pc # "create"
        PROVE  Alone'
    <2>1. SendingAlone(tx[h])'
      BY <1>1, <1>2, <1>3, <1>5 DEF SendingAlone, Lives
    <2> QED BY <1>1, <1>3, <1>5, <2>1, AloneContinues
  <1>6. CASE SendReread(h)
    BY <1>1, <1>2, <1>4, <1>5, <1>6 DEF SendReread, Goto, OpenTx
  <1>7. CASE SendRewrite(h)
    <2>1. tx' = [tx EXCEPT ![h].pc = "findCount", ![h].row = Request(h)]
          /\ Request(h).user = tx[h].user
      BY <1>7 DEF SendRewrite, Request
    <2> QED BY <1>1, <1>2, <1>5, <2>1 DEF OpenTx
  <1>8. CASE SendCreate(h)
    <2>1. tx' = [tx EXCEPT ![h].pc = "findCount", ![h].row = Request(h),
                           ![h].request = nextId[tx[h].kind].request]
          /\ Request(h).user = tx[h].user /\ tx[h].pc = "create"
      BY <1>8 DEF SendCreate, Request, At
    <2> QED BY <1>1, <1>2, <1>5, <2>1 DEF OpenTx
  <1>9. CASE SendFindCount(h)
    <2>1. ASSUME NEW c, NEW row,
                 tx' = [tx EXCEPT ![h].pc = "tally", ![h].count = c, ![h].seen = row]
          PROVE  Alone'
      BY <1>1, <1>2, <1>5, <2>1 DEF OpenTx
    <2>2. CASE Goto(h, "newCount")
      BY <1>1, <1>2, <1>5, <2>2 DEF Goto, OpenTx
    <2> QED BY <1>9, <2>1, <2>2 DEF SendFindCount
  <1>10. ASSUME NEW c, NEW row,
               tx' = [tx EXCEPT ![h].pc = "commit", ![h].count = c, ![h].tally = row]
         PROVE  Alone'
    BY <1>1, <1>2, <1>5, <1>10 DEF OpenTx
  <1>11. CASE SendNewCount(h)
    BY <1>4, <1>10, <1>11 DEF SendNewCount
  <1>12. ASSUME NEW n, Tally(h, n) PROVE Alone'
    <2>1. PICK row : tx' = [tx EXCEPT ![h].pc = "commit", ![h].tally = row]
      BY <1>12 DEF Tally
    <2> QED BY <1>1, <1>2, <1>5, <2>1 DEF OpenTx
  <1>13. CASE SendTally(h)
    BY <1>4, <1>12, <1>13 DEF SendTally
  <1> QED BY <1>6, <1>7, <1>8, <1>9, <1>11, <1>13

\* A send commits the request it found or the first; a confirmation a deleted one.
LEMMA CommitAlone ==
    ASSUME Typed, Spent, Alone, NEW h \in Handlers, Commit(h)
    PROVE  Alone'
  <1>0. PICK t : t = tx[h]
    OBVIOUS
  <1>1. h \in Running /\ t \in OpenTx /\ ShapeOf(t) /\ t.pc = "commit"
    BY <1>0, RunningIsOpen DEF Commit, At, Running
  <1>2. /\ t.kind \in Kinds /\ t.request \in Ids /\ t.row # None /\ t.op \in {"send", "confirm"}
    BY <1>1, OpenFields DEF ShapeOf
  <1>3. SendingAlone(t) /\ Sound(t)
    BY <1>0, <1>1 DEF Alone, Spent
  <1>4. requests' = [requests EXCEPT ![t.kind][t.request] = t.row] /\ crossed' = crossed
    BY <1>0 DEF Commit
  <1>5. /\ requests'[t.kind][t.request] = t.row
        /\ \A k \in Kinds, i \in Ids :
              k # t.kind \/ i # t.request => requests'[k][i] = requests[k][i]
    BY <1>2, <1>4 DEF Typed, TypeOK
  <1>6. \A g \in Running' : g \in Running \ {h} /\ tx'[g] = tx[g]
    BY DEF Commit, RollBack, Running, At, Typed, TypeOK, Idle
  <1>7. ASSUME NEW k \in Kinds, NEW u \in Users, NEW i \in Ids, Lives(k, u, i)'
        PROVE  \/ Lives(k, u, i)
               \/ t.op = "send" /\ k = t.kind /\ u = t.user /\ i = t.request
    BY <1>2, <1>3, <1>5, <1>7 DEF Lives, SendingAlone, Sound
  <1>8. OneLiveRequest'
    <2>1. ASSUME NEW k \in Kinds, NEW u \in Users, <<k, u>> \notin crossed,
                 NEW i \in Ids, NEW j \in Ids, Lives(k, u, i)', Lives(k, u, j)'
          PROVE  i = j
      <3>1. CASE t.op = "send" /\ k = t.kind /\ u = t.user
        BY <1>1, <1>3, <1>7, <2>1, <3>1 DEF SendingAlone
      <3>2. CASE ~(t.op = "send" /\ k = t.kind /\ u = t.user)
        BY <1>7, <2>1, <3>2 DEF Alone, OneLiveRequest, Lives
      <3> QED BY <3>1, <3>2
    <2> QED BY <1>4, <2>1 DEF OneLiveRequest, Lives
  <1>9. ASSUME NEW g \in Running' PROVE SendingAlone(tx[g])'
    <2>1. g \in Running \ {h} /\ tx'[g] = tx[g]
      BY <1>6
    <2>2. SendingAlone(tx[g]) /\ Met(t, tx[g])
      BY <1>0, <1>1, <2>1 DEF Alone
    <2>3. tx[g].kind \in Kinds /\ tx[g].user \in Users
      BY <2>1, RunningIsOpen, OpenFields
    <2>4. tx[g].op = "send" /\ <<tx[g].kind, tx[g].user>> \notin crossed =>
            \A i \in Ids : Lives(tx[g].kind, tx[g].user, i)' => Lives(tx[g].kind, tx[g].user, i)
      BY <1>7, <2>1, <2>2, <2>3 DEF Met, Lives
    <2> QED BY <1>4, <2>1, <2>2, <2>4 DEF SendingAlone, Lives
  <1>10. \A f, g \in Running' : f # g => Met(tx[f], tx[g])'
    BY <1>4, <1>6 DEF Alone, Met
  <1> QED BY <1>8, <1>9, <1>10 DEF Alone

LEMMA InitAlone == Init => Alone
  <1> SUFFICES ASSUME Init PROVE Alone
    OBVIOUS
  <1>1. Running = {}
    BY DEF Init, Running, At, Idle
  <1>2. \A k \in Kinds, i \in Ids : requests[k][i] = None
    BY DEF Init
  <1> QED BY <1>1, <1>2 DEF Alone, OneLiveRequest

LEMMA NextAlone == Typed /\ Spent /\ Alone /\ [Next]_vars => Alone'
  <1> SUFFICES ASSUME Typed, Spent, Alone, [Next]_vars PROVE Alone'
    OBVIOUS
  <1>1. ASSUME UNCHANGED <<requests, crossed, tx>> PROVE Alone'
    <2>1. OneLiveRequest' /\ Running' = Running
      BY <1>1 DEF Alone, OneLiveRequest, Running, At
    <2>2. \A h \in Running : SendingAlone(tx[h])'
      BY <1>1 DEF Alone, SendingAlone, Lives
    <2>3. \A g, h \in Running : g # h => Met(tx[g], tx[h])'
      BY <1>1 DEF Alone, Met
    <2> QED BY <2>1, <2>2, <2>3 DEF Alone
  <1>2. CASE UNCHANGED vars \/ DayPasses \/ \E u \in Lockable, b \in BOOLEAN : Blacklist(u, b)
    BY <1>1, <1>2 DEF vars, DayPasses, Blacklist, tables, history
  <1>3. ASSUME NEW h \in Handlers, NEW k \in Kinds, NEW u \in Users, StartSend(h, k, u)
        PROVE  Alone'
    BY <1>3, StartSendAlone
  <1>4. ASSUME NEW h \in Handlers, Confirm(h) \/ \E m \in mail : StartConfirm(h, m)
        PROVE  Alone'
    BY <1>4, ConfirmAlone
  <1>5. ASSUME NEW h \in Handlers, Send(h) PROVE Alone'
    BY <1>5, SendFindAlone, SendsAlone DEF Send
  <1>6. ASSUME NEW h \in Handlers, Fail(h) PROVE Alone'
    BY <1>6, AloneContinues DEF Fail, RollBack, Running, Idle, tables, history, Typed, TypeOK
  <1> QED BY <1>2, <1>3, <1>4, <1>5, <1>6, CommitAlone DEF Next, Step

\* A user whose sends of a kind never overlapped has at most one live request of
\* it, whatever else is open: the row that a send found, or did not find, is what
\* it would find when it commits.
THEOREM OneLiveRequestHolds == Spec => []OneLiveRequest
  <1>1. Init => Typed /\ Spent /\ Alone
    BY InitTyped, InitSpent, InitAlone
  <1>2. Typed /\ Spent /\ Alone /\ [Next]_vars => (Typed /\ Spent /\ Alone)'
    BY NextTyped, NextSpent, NextAlone
  <1>3. Alone => OneLiveRequest
    BY DEF Alone
  <1> QED BY <1>1, <1>2, <1>3, PTL DEF Spec

-----------------------------------------------------------------------------
\* Nobody waits in a circle.

\* The next statement of h waits for a row that an open transaction has written.
Waiting(h) ==
    \/ (At(h, "reuse") \/ At(h, "identity")) /\ ~IdentityFree(h)
    \/ (At(h, "rewrite") \/ At(h, "softDelete")) /\ ~RequestFree(h)
    \/ At(h, "tally") /\ ~CountFree(h, tx[h].count)
    \/ At(h, "softCount") /\ ~CountFree(h, tx[h].request)

\* Rows are taken in one order, identity, request, count: who holds a count waits
\* for nothing, who holds a request waits for counts only, and so on.
LEMMA OrderlyGoesOn ==
    ASSUME \A h \in Running : Orderly(tx[h]), Running # {}
    PROVE  \E h \in Running : ~Waiting(h)
  <1> SUFFICES ASSUME \A h \in Running : Waiting(h) PROVE FALSE
    OBVIOUS
  <1>1. \A h \in Running : tx[h].tally = None
    BY DEF Orderly, Waiting, At
  <1>2. \A h \in Running : \A i : CountFree(h, i)
    BY <1>1 DEF CountFree, Open
  <1>3. \A h \in Running : tx[h].row = None
    BY <1>2 DEF Orderly, Waiting, At
  <1>4. \A h \in Running : RequestFree(h)
    BY <1>3 DEF RequestFree, Open
  <1>5. \A h \in Running : tx[h].identity = None
    BY <1>2, <1>4 DEF Orderly, Waiting, At
  <1>6. \A h \in Running : IdentityFree(h)
    BY <1>5 DEF IdentityFree, Open
  <1> QED BY <1>2, <1>4, <1>6 DEF Waiting

\* While transactions are open, one of them waits for no row of another: the
\* database never finds a circle that it would have to break, although a
\* confirmation may take the count of another user's request.
THEOREM SomeoneGoesOn == Spec => [](Running # {} => \E h \in Running : ~Waiting(h))
  <1>1. Init => Typed /\ Counted
    BY InitTyped, InitCounted
  <1>2. Typed /\ Counted /\ [Next]_vars => (Typed /\ Counted)'
    BY NextTyped, NextCounted
  <1>3. Counted => (Running # {} => \E h \in Running : ~Waiting(h))
    BY OrderlyGoesOn DEF Counted
  <1> QED BY <1>1, <1>2, <1>3, PTL DEF Spec
=============================================================================
