-------------------------- MODULE VaultTreeProofs ---------------------------
(***************************************************************************)
(* Proofs about VaultTree, for every set of requests and of names sent and *)
(* every bound: whichever requests overlap, the types hold, rows and rows  *)
(* of the bin refer to rows that are there, and a user stores less than    *)
(* one size a request above the limit; when only uploads and new folders   *)
(* overlap (Regime), the tree keeps its shape, keeping both files makes a  *)
(* title that is new, and what is replaced the client was told of.         *)
(*                                                                         *)
(* Typed is inductive, Ledger with it, and Quota, Parented and Shape each  *)
(* with these two.  First every action is shown to be one of a dozen kinds *)
(* of step (Works), by what it does to the rows and the request; the other *)
(* invariants are proved for the kinds.                                    *)
(***************************************************************************)
EXTENDS VaultTree, TLAPS, SequenceTheorems, WellFoundedInduction, FiniteSetTheorems

-----------------------------------------------------------------------------
(* The numbering of titles: keeping both files gives a title nobody has,   *)
(* for every set of titles whose numbers are bounded.                      *)

\* Words made of the texts T, and titles, which have a word at least.
Words(T) == [text : T, n : Nat]
Titles(T) == {t \in Seq(Words(T)) : Len(t) > 0}

\* A bounded set of numbers has a largest one, which CHOOSE then finds.
LEMMA LargestIs ==
  ASSUME NEW S \in SUBSET Nat, S # {}, NEW N \in Nat, \A k \in S : k <= N
  PROVE  Largest(S) \in S /\ \A k \in S : k <= Largest(S)
<1> DEFINE Gaps == {N - k : k \in S}
           Less == OpToRel(<, Nat)
<1>1. Gaps \subseteq Nat /\ Gaps # {} /\ \A k \in S : N - k \in Gaps
  <2> HIDE DEF Less
  <2>1. Gaps \subseteq Nat
    OBVIOUS
  <2>2. \A k \in S : N - k \in Gaps
    OBVIOUS
  <2>3. Gaps # {}
    OBVIOUS
  <2> QED
    BY <2>1, <2>2, <2>3
<1>2. IsWellFoundedOn(Less, Nat)
  BY NatLessThanWellFounded
<1>3. \A y, g \in Nat : y < g => <<y, g>> \in Less
  BY DEF OpToRel
<1> HIDE DEF Less
<1>4. PICK m \in S : \A y \in Gaps : ~(<<y, N - m>> \in Less)
  <2> HIDE DEF Gaps
  <2>1. \E x \in Gaps : \A y \in Gaps : ~(<<y, x>> \in Less)
    BY <1>1, <1>2, WFMin
  <2> USE DEF Gaps
  <2> QED
    BY <2>1
<1>5. \A k \in S : k <= m
  <2> SUFFICES ASSUME NEW k \in S, k > m PROVE FALSE
    OBVIOUS
  <2>1. N - k < N - m /\ N - k \in Nat /\ N - m \in Nat
    OBVIOUS
  <2> HIDE DEF Gaps
  <2> QED
    BY <1>1, <1>3, <1>4, <2>1
<1> QED
  BY <1>5 DEF Largest

\* All but the last word, and the last word.
LEMMA FrontLast ==
  ASSUME NEW W, NEW t \in Seq(W), Len(t) > 0
  PROVE  /\ Len(t) \in Nat \ {0}
         /\ \A i \in 1 .. Len(t) : t[i] \in W
         /\ Last(t) \in W
         /\ Front(t) \in Seq(W) /\ Len(Front(t)) = Len(t) - 1
         /\ \A i \in 1 .. Len(t) - 1 : Front(t)[i] = t[i]
<1> DEFINE m == Len(t)
           f == Front(t)
<1>1. m \in Nat /\ m > 0
  BY LenProperties
<1>2. \A i \in 1 .. m : t[i] \in W
  BY ElementOfSeq
<1>3. /\ f \in Seq(W)
      /\ Len(f) = IF 1 <= m - 1 THEN m - 1 - 1 + 1 ELSE 0
      /\ \A i \in 1 .. m - 1 - 1 + 1 : f[i] = t[1 + i - 1]
  BY <1>1, <1>2, SubSeqProperties DEF Front
<1>4. Last(t) \in W
  BY <1>1, <1>2 DEF Last
<1> HIDE DEF m, f
<1>5. Len(f) = m - 1
  BY <1>1, <1>3
<1>6. \A i \in 1 .. m - 1 : f[i] = t[i]
  <2> SUFFICES ASSUME NEW i \in 1 .. m - 1 PROVE f[i] = t[i]
    OBVIOUS
  <2>1. i \in 1 .. m - 1 - 1 + 1 /\ 1 + i - 1 = i
    BY <1>1
  <2> QED
    BY <1>3, <2>1
<1> QED
  BY <1>1, <1>2, <1>3, <1>4, <1>5, <1>6 DEF m, f

\* The base of a title is a title.
LEMMA BaseIsTitle ==
  ASSUME NEW T, NoText \in T, NEW t \in Titles(T)
  PROVE  Base(t) \in Titles(T)
<1>1. <<Blank>> \in Titles(T)
  BY DEF Titles, Blank, Words
<1>2. t \in Seq(Words(T)) /\ Len(t) > 0
  BY DEF Titles
<1>3. Front(t) \in Seq(Words(T)) /\ Len(Front(t)) = Len(t) - 1 /\ Len(t) \in Nat \ {0}
  BY <1>2, FrontLast
<1>4. Len(t) # 1 => Front(t) \in Titles(T)
  BY <1>3 DEF Titles
<1> QED
  BY <1>1, <1>4 DEF Base

\* What a number after a title gives: a title that the search for it finds.
LEMMA NumberAdded ==
  ASSUME NEW T, NoText \in T, NEW b \in Titles(T), NEW k \in Nat \ {0}
  PROVE  LET x == b \o <<[text |-> NoText, n |-> k]>>
         IN x \in Titles(T) /\ Last(x).n = k /\ Begins(x, b) /\ Numbers(x, b)
<1> DEFINE e == [text |-> NoText, n |-> k]
           x == b \o <<e>>
<1>1. e \in Words(T) /\ e.text = NoText /\ e.n = k /\ e.n > 0
  BY DEF Words
<1> HIDE DEF e
<1> DEFINE W == Words(T)
<1>2. /\ b \in Seq(W) /\ Len(b) \in Nat \ {0}
      /\ Front(b) \in Seq(W) /\ Len(Front(b)) = Len(b) - 1
      /\ \A i \in 1 .. Len(b) - 1 : Front(b)[i] = b[i]
      /\ \A i \in 1 .. Len(b) : b[i] \in W
  <2>1. b \in Seq(W) /\ Len(b) > 0
    BY DEF Titles
  <2> HIDE DEF W
  <2> QED
    BY <2>1, FrontLast
<1> HIDE DEF W
<1>3. /\ x \in Seq(W) /\ Len(x) = Len(b) + 1
      /\ \A i \in 1 .. Len(b) : x[i] = b[i]
      /\ x[Len(b) + 1] = e
  <2>1. e \in W
    BY <1>1 DEF W
  <2> HIDE DEF e
  <2>2. <<e>> \in Seq(W) /\ Len(<<e>>) = 1 /\ <<e>>[1] = e
    BY <2>1
  <2>3. /\ x \in Seq(W) /\ Len(x) = Len(b) + Len(<<e>>)
        /\ \A i \in 1 .. Len(b) + Len(<<e>>) :
              x[i] = IF i <= Len(b) THEN b[i] ELSE <<e>>[i - Len(b)]
    BY <1>2, <2>2, ConcatProperties
  <2> HIDE DEF x
  <2>4. x \in Seq(W) /\ Len(x) = Len(b) + 1
    BY <2>2, <2>3
  <2>5. \A i \in 1 .. Len(b) : x[i] = b[i]
    BY <1>2, <2>2, <2>3
  <2>6. x[Len(b) + 1] = <<e>>[1]
    <3> DEFINE m == Len(b)
    <3>1. m \in Nat
      BY <1>2
    <3> HIDE DEF m
    <3>2. m + 1 \in 1 .. m + 1 /\ ~(m + 1 <= m) /\ m + 1 - m = 1
      BY <3>1
    <3> QED
      BY <2>2, <2>3, <3>2 DEF m
  <2> QED
    BY <2>2, <2>4, <2>5, <2>6
<1> HIDE DEF x
<1>4. x \in Titles(T) /\ Len(x) > 1
  BY <1>2, <1>3 DEF Titles, W
<1>5. Last(x) = e
  BY <1>3 DEF Last
<1>6. /\ Front(x) \in Seq(W) /\ Len(Front(x)) = Len(b)
      /\ \A i \in 1 .. Len(b) : Front(x)[i] = b[i]
  <2>1. /\ Front(x) \in Seq(W) /\ Len(Front(x)) = Len(x) - 1
        /\ \A i \in 1 .. Len(x) - 1 : Front(x)[i] = x[i]
    <3>1. x \in Seq(W) /\ Len(x) > 0
      BY <1>2, <1>3
    <3> QED
      BY <3>1, FrontLast
  <2>2. Len(x) - 1 = Len(b)
    BY <1>2, <1>3
  <2> QED
    BY <1>3, <2>1, <2>2
<1>7. Front(x) = b
  BY <1>2, <1>6, SeqEqual
<1>8. Front(b) = SubSeq(x, 1, Len(b) - 1)
  <2> DEFINE m == Len(b)
             u == SubSeq(x, 1, m - 1)
  <2>1. m \in Nat \ {0} /\ \A i \in 1 .. m - 1 : x[i] \in W /\ x[i] = b[i]
    BY <1>2, <1>3
  <2>2. /\ u \in Seq(W)
        /\ Len(u) = IF 1 <= m - 1 THEN m - 1 - 1 + 1 ELSE 0
        /\ \A i \in 1 .. m - 1 - 1 + 1 : u[i] = x[1 + i - 1]
    <3> HIDE DEF m
    <3> QED
      BY <1>3, <2>1, SubSeqProperties
  <2> HIDE DEF u, m
  <2>3. Len(u) = m - 1
    BY <2>1, <2>2
  <2>4. \A i \in 1 .. m - 1 : u[i] = b[i]
    <3> SUFFICES ASSUME NEW i \in 1 .. m - 1 PROVE u[i] = b[i]
      OBVIOUS
    <3>1. i \in 1 .. m - 1 - 1 + 1 /\ 1 + i - 1 = i
      BY <2>1
    <3> QED
      BY <2>1, <2>2, <3>1
  <2>5. Len(Front(b)) = m - 1 /\ \A i \in 1 .. m - 1 : Front(b)[i] = u[i]
    BY <1>2, <2>1, <2>4 DEF m
  <2>6. Front(b) = u
    BY <1>2, <2>2, <2>3, <2>5, SeqEqual
  <2> QED
    BY <2>6 DEF u, m
<1>9. Begins(x, b)
  <2>1. Last(b) = b[Len(b)] /\ x[Len(b)] = b[Len(b)] /\ b[Len(b)] \in W
    BY <1>2, <1>3 DEF Last
  <2>2. Len(b) <= Len(x)
    BY <1>2, <1>3
  <2> QED
    BY <1>8, <2>1, <2>2 DEF Begins
<1>10. EndsWith(b, b)
  <2>1. Len(b) - Len(b) = 0 /\ \A j \in 2 .. Len(b) : 0 + j = j
    BY <1>2
  <2> QED
    BY <2>1 DEF EndsWith
<1>11. Numbers(x, b)
  BY <1>1, <1>4, <1>5, <1>7, <1>10 DEF Numbers, Numbered
<1>12. Last(x).n = k
  BY <1>1, <1>5
<1> QED
  BY <1>4, <1>9, <1>11, <1>12 DEF x, e

\* Keeping both files gives a title that none of those found has, when numbers are
\* exact: its number is above every number that the search by prefix and pattern
\* finds (increaseFileNameNumber).
THEOREM NextTitleIsNew ==
  ASSUME NEW T, NoText \in T, NEW titles \in SUBSET Titles(T), NEW t \in Titles(T),
         NEW N \in Nat, \A x \in titles \cup {t} : Last(x).n <= N
  PROVE  LET new == NextTitle(titles, t)
         IN new \in Titles(T) /\ (Last(new).n < Exact => new \notin titles)
<1> DEFINE b == Base(t)
           found == {Last(x).n : x \in {y \in titles : Begins(y, b) /\ Numbers(y, b)}}
           k == LastNumber(titles, t)
           m == Succ(k)
           new == b \o <<[text |-> NoText, n |-> m]>>
<1>1. \A x \in Titles(T) : Last(x).n \in Nat
  <2> TAKE x \in Titles(T)
  <2> DEFINE W == Words(T)
  <2>1. x \in Seq(W) /\ Len(x) > 0
    BY DEF Titles
  <2> HIDE DEF W
  <2>2. Last(x) \in W
    BY <2>1, FrontLast
  <2> QED
    BY <2>2 DEF W, Words
<1>2. found \subseteq Nat /\ Last(t).n \in Nat /\ \A j \in found \cup {Last(t).n} : j <= N
  BY <1>1
<1>3. k \in Nat /\ \A j \in found : j <= k
  <2>1. CASE found = {}
    BY <2>1 DEF LastNumber
  <2>2. CASE found # {}
    <3>1. k = Largest(found \cup {Last(t).n})
      BY <2>2 DEF LastNumber
    <3> HIDE DEF found, k
    <3>2. /\ Largest(found \cup {Last(t).n}) \in found \cup {Last(t).n}
          /\ \A j \in found \cup {Last(t).n} : j <= Largest(found \cup {Last(t).n})
      BY <1>2, LargestIs
    <3> QED
      BY <1>2, <3>1, <3>2
  <2> QED
    BY <2>1, <2>2
<1>4. NextTitle(titles, t) = new
  BY DEF NextTitle
<1>5. b \in Titles(T)
  BY BaseIsTitle
<1> HIDE DEF b, k
<1>6. m \in Nat \ {0} /\ (m < Exact => m = k + 1)
  BY <1>3, ExactAssumption DEF Succ
<1> HIDE DEF m
<1>7. new \in Titles(T) /\ Last(new).n = m /\ Begins(new, b) /\ Numbers(new, b)
  BY <1>5, <1>6, NumberAdded
<1> HIDE DEF new
<1>8. m < Exact => new \notin titles
  BY <1>3, <1>6, <1>7
<1> QED
  BY <1>4, <1>7, <1>8

-----------------------------------------------------------------------------
(* Numbers and sums.                                                       *)

\* Induction over the numbers, for a set of them.
LEMMA Induction ==
  ASSUME NEW S, 0 \in S, \A n \in Nat : n \in S => n + 1 \in S
  PROVE  \A n \in Nat : n \in S
<1> DEFINE Out == {n \in Nat : n \notin S}
           Less == OpToRel(<, Nat)
<1>1. IsWellFoundedOn(Less, Nat)
  BY NatLessThanWellFounded
<1>2. \A y, g \in Nat : y < g => <<y, g>> \in Less
  BY DEF OpToRel
<1> HIDE DEF Less
<1> SUFFICES ASSUME Out # {} PROVE FALSE
  OBVIOUS
<1>3. PICK m \in Out : \A y \in Out : ~(<<y, m>> \in Less)
  <2> Out \subseteq Nat
    OBVIOUS
  <2> HIDE DEF Out
  <2> QED
    BY <1>1, WFMin
<1>4. m \in Nat /\ m # 0 /\ m - 1 \in Nat /\ m - 1 < m
  OBVIOUS
<1>5. m - 1 \in S
  BY <1>2, <1>3, <1>4
<1> QED
  BY <1>4, <1>5

\* A set of numbers has a least one.
LEMMA LeastIs ==
  ASSUME NEW S \in SUBSET Nat, S # {}
  PROVE  \E m \in S : \A k \in S : m <= k
<1> DEFINE Less == OpToRel(<, Nat)
<1>1. IsWellFoundedOn(Less, Nat)
  BY NatLessThanWellFounded
<1>2. \A y, g \in Nat : y < g => <<y, g>> \in Less
  BY DEF OpToRel
<1> HIDE DEF Less
<1>3. PICK m \in S : \A y \in S : ~(<<y, m>> \in Less)
  BY <1>1, WFMin
<1>4. ASSUME NEW k \in S PROVE m <= k
  <2>1. m \in Nat /\ k \in Nat /\ ~(k < m)
    BY <1>2, <1>3
  <2> QED
    BY <2>1
<1> QED
  BY <1>4

-----------------------------------------------------------------------------
(* Sums of sizes.                                                          *)

Size(row) == IF row = None THEN 0 ELSE row.size

\* f adds up the sizes of the table R, row by row.
Sums(f, R) == f = [n \in 0 .. MaxRows |-> IF n = 0 THEN 0 ELSE f[n - 1] + Size(R[n])]

\* Every table has its sums.
LEMMA SumExists ==
  ASSUME NEW R
  PROVE  \E f : Sums(f, R)
<1> DEFINE To(f, m) == f = [n \in 0 .. m |-> IF n = 0 THEN 0 ELSE f[n - 1] + Size(R[n])]
           S == {m \in Nat : \E f : To(f, m)}
<1>1. 0 \in S
  <2> DEFINE f == [n \in 0 .. 0 |-> 0]
  <2>1. To(f, 0)
    OBVIOUS
  <2> QED
    BY <2>1
<1>2. ASSUME NEW m \in Nat, m \in S PROVE m + 1 \in S
  <2>1. PICK f : To(f, m)
    BY <1>2
  <2> DEFINE g == [n \in 0 .. m + 1 |-> IF n <= m THEN f[n] ELSE f[m] + Size(R[m + 1])]
  <2>2. \A n \in 0 .. m + 1 : g[n] = IF n = 0 THEN 0 ELSE g[n - 1] + Size(R[n])
    <3> TAKE n \in 0 .. m + 1
    <3>1. CASE n = 0
      BY <2>1, <3>1
    <3>2. CASE n \in 1 .. m
      BY <2>1, <3>2
    <3>3. CASE n = m + 1
      BY <3>3
    <3> QED
      BY <3>1, <3>2, <3>3
  <2>3. g = [n \in 0 .. m + 1 |-> g[n]]
    OBVIOUS
  <2> HIDE DEF g
  <2>4. To(g, m + 1)
    BY <2>2, <2>3
  <2> QED
    BY <2>4
<1> HIDE DEF S
<1>3. MaxRows \in S
  BY <1>1, <1>2, Induction, BoundsAssumption
<1> QED
  BY <1>3 DEF S, Sums

\* Total is the last of the sums of the table.
LEMMA TotalSums == \E f : Sums(f, rows) /\ Total = f[MaxRows]
<1>1. \E f : Sums(f, rows)
  BY SumExists
<1> QED
  BY <1>1 DEF Total, Sums, Size

\* If no size grows but that of row i, and that by d at most, so does the total.
LEMMA SumGrows ==
  ASSUME NEW R, NEW Q, NEW f, NEW g, Sums(f, R), Sums(g, Q), NEW i, NEW d \in Nat,
         \A n \in Ids : Size(R[n]) \in Nat /\ Size(Q[n]) \in Nat,
         \A n \in Ids \ {i} : Size(Q[n]) <= Size(R[n]),
         i \in Ids => Size(Q[i]) <= Size(R[i]) + d
  PROVE  /\ f[MaxRows] \in Nat /\ g[MaxRows] \in Nat
         /\ g[MaxRows] <= f[MaxRows] + d
<1> DEFINE S == {n \in Nat : n <= MaxRows =>
                    /\ f[n] \in Nat /\ g[n] \in Nat
                    /\ IF i \in 1 .. n THEN g[n] <= f[n] + d ELSE g[n] <= f[n]}
<1>1. 0 \in S
  BY BoundsAssumption DEF Sums
<1>2. ASSUME NEW n \in Nat, n \in S PROVE n + 1 \in S
  <2> SUFFICES ASSUME n + 1 <= MaxRows PROVE n + 1 \in S
    OBVIOUS
  <2>1. n + 1 \in Ids /\ n + 1 \in 0 .. MaxRows /\ n <= MaxRows
    BY BoundsAssumption DEF Ids
  <2>2. f[n + 1] = f[n] + Size(R[n + 1]) /\ g[n + 1] = g[n] + Size(Q[n + 1])
    BY <2>1 DEF Sums
  <2> HIDE DEF Size
  <2>3. CASE n + 1 = i
    BY <1>2, <2>1, <2>2, <2>3
  <2>4. CASE n + 1 # i
    BY <1>2, <2>1, <2>2, <2>4
  <2> QED
    BY <2>3, <2>4
<1> HIDE DEF S
<1>3. MaxRows \in S
  BY <1>1, <1>2, Induction, BoundsAssumption
<1> QED
  BY <1>3, BoundsAssumption DEF S
-----------------------------------------------------------------------------
(* What is under a row.                                                    *)

Reaches(f, A, S) ==
    f = [n \in 0 .. MaxRows |->
           IF n = 0 THEN A ELSE f[n - 1] \cup {j \in S : rows[j].parent \in f[n - 1]}]

\* The rounds in which Reach collects rows exist, as a function.
LEMMA ReachExists ==
  ASSUME NEW A, NEW S
  PROVE  \E f : Reaches(f, A, S)
<1> DEFINE Under(X) == X \cup {j \in S : rows[j].parent \in X}
           To(f, m) == f = [n \in 0 .. m |-> IF n = 0 THEN A ELSE Under(f[n - 1])]
           M == {m \in Nat : \E f : To(f, m)}
<1> HIDE DEF Under
<1>1. 0 \in M
  <2> DEFINE f == [n \in 0 .. 0 |-> A]
  <2>1. To(f, 0)
    OBVIOUS
  <2> QED
    BY <2>1
<1>2. ASSUME NEW m \in Nat, m \in M PROVE m + 1 \in M
  <2>1. PICK f : To(f, m)
    BY <1>2
  <2> DEFINE g == [n \in 0 .. m + 1 |-> IF n <= m THEN f[n] ELSE Under(f[m])]
  <2>2. \A n \in 0 .. m + 1 : g[n] = IF n = 0 THEN A ELSE Under(g[n - 1])
    <3> TAKE n \in 0 .. m + 1
    <3>1. CASE n = 0
      BY <2>1, <3>1
    <3>2. CASE n \in 1 .. m
      BY <2>1, <3>2
    <3>3. CASE n = m + 1
      BY <3>3
    <3> QED
      BY <3>1, <3>2, <3>3
  <2>3. g = [n \in 0 .. m + 1 |-> g[n]]
    OBVIOUS
  <2> HIDE DEF g
  <2>4. To(g, m + 1)
    BY <2>2, <2>3
  <2> QED
    BY <2>4
<1> HIDE DEF M
<1>3. MaxRows \in M
  BY <1>1, <1>2, Induction, BoundsAssumption
<1> QED
  BY <1>3 DEF M, Under, Reaches

\* What is reached is the least set with A that has what is under it.
LEMMA ReachIs ==
  ASSUME NEW A \in SUBSET Ids, NEW S \in SUBSET Ids
  PROVE  /\ A \subseteq Reach(A, S) /\ Reach(A, S) \subseteq A \cup S
         /\ \A j \in S : rows[j].parent \in Reach(A, S) => j \in Reach(A, S)
         /\ \A j \in Reach(A, S) \ A : rows[j].parent \in Reach(A, S)
         /\ \A X : A \subseteq X /\ (\A j \in S : rows[j].parent \in X => j \in X) => Reach(A, S) \subseteq X
<1> DEFINE Under(X) == X \cup {j \in S : rows[j].parent \in X}
           Closed(X) == \A j \in S : rows[j].parent \in X => j \in X
<1>1. PICK f : Reaches(f, A, S) /\ Reach(A, S) = f[MaxRows]
  <2>1. \E f : Reaches(f, A, S)
    BY ReachExists
  <2> QED
    BY <2>1 DEF Reach, Reaches
<1>2. f[0] = A
  BY <1>1, BoundsAssumption DEF Reaches
<1>9. ASSUME NEW n \in 0 .. MaxRows - 1 PROVE f[n + 1] = Under(f[n])
  <2>1. n + 1 \in 0 .. MaxRows /\ n + 1 # 0 /\ (n + 1) - 1 = n
    BY BoundsAssumption
  <2>2. f[n + 1] = f[(n + 1) - 1] \cup {j \in S : rows[j].parent \in f[(n + 1) - 1]}
    BY <1>1, <2>1 DEF Reaches
  <2> QED
    BY <2>1, <2>2
<1> DEFINE Grown == {n \in Nat : n <= MaxRows =>
              /\ A \subseteq f[n] /\ f[n] \subseteq A \cup S
              /\ \A j \in f[n] \ A : rows[j].parent \in f[n]
              /\ \A X : A \subseteq X /\ Closed(X) => f[n] \subseteq X
              /\ Closed(f[n]) \/ Cardinality(f[n]) >= n + 1}
<1>3. IsFiniteSet(Ids) /\ Cardinality(Ids) = MaxRows
  BY FS_Interval, BoundsAssumption DEF Ids
<1>4. 0 \in Grown
  <2>1. Closed(A) \/ Cardinality(A) >= 0 + 1
    <3>1. CASE A = {}
      BY <3>1
    <3>2. CASE A # {}
      <4>1. IsFiniteSet(A)
        BY <1>3, FS_Subset
      <4>2. Cardinality(A) \in Nat /\ Cardinality(A) # 0
        BY <3>2, <4>1, FS_CardinalityType, FS_EmptySet
      <4> QED
        BY <4>2
    <3> QED
      BY <3>1, <3>2
  <2> HIDE DEF Closed
  <2>2. \A X : A \subseteq X /\ Closed(X) => A \subseteq X
    OBVIOUS
  <2> QED
    BY <1>2, <2>1, <2>2
<1>5. ASSUME NEW n \in Nat, n \in Grown PROVE n + 1 \in Grown
  <2> SUFFICES ASSUME n + 1 <= MaxRows PROVE n + 1 \in Grown
    OBVIOUS
  <2>1. f[n + 1] = Under(f[n])
    BY <1>9, BoundsAssumption
  <2>2. /\ A \subseteq f[n] /\ f[n] \subseteq A \cup S
        /\ \A j \in f[n] \ A : rows[j].parent \in f[n]
        /\ \A X : A \subseteq X /\ Closed(X) => f[n] \subseteq X
        /\ Closed(f[n]) \/ Cardinality(f[n]) >= n + 1
    BY <1>5, BoundsAssumption
  <2>3. /\ A \subseteq f[n + 1] /\ f[n + 1] \subseteq A \cup S
        /\ \A j \in f[n + 1] \ A : rows[j].parent \in f[n + 1]
    BY <2>1, <2>2
  <2>4. \A X : A \subseteq X /\ Closed(X) => f[n + 1] \subseteq X
    BY <2>1, <2>2
  <2>5. Closed(f[n + 1]) \/ Cardinality(f[n + 1]) >= n + 2
    <3>1. CASE Closed(f[n])
      <4>1. f[n + 1] = f[n]
        BY <2>1, <3>1
      <4> QED
        BY <3>1, <4>1
    <3>2. CASE ~Closed(f[n])
      <4>1. PICK j \in S : rows[j].parent \in f[n] /\ j \notin f[n]
        BY <3>2
      <4>2. IsFiniteSet(f[n]) /\ IsFiniteSet(f[n + 1])
        BY <1>3, <2>2, <2>3, FS_Subset
      <4>3. f[n] \cup {j} \subseteq f[n + 1]
        BY <2>1, <4>1
      <4>4. /\ IsFiniteSet(f[n] \cup {j})
            /\ Cardinality(f[n] \cup {j}) = Cardinality(f[n]) + 1
        <5>1. \A F, x : IsFiniteSet(F) /\ x \notin F =>
                 IsFiniteSet(F \cup {x}) /\ Cardinality(F \cup {x}) = Cardinality(F) + 1
          BY FS_AddElement
        <5> QED
          BY <4>1, <4>2, <5>1
      <4>5. Cardinality(f[n] \cup {j}) <= Cardinality(f[n + 1])
        BY <4>2, <4>3, FS_Subset
      <4>6. Cardinality(f[n]) \in Nat /\ Cardinality(f[n + 1]) \in Nat
        BY <4>2, FS_CardinalityType
      <4> HIDE DEF Closed
      <4> QED
        BY <2>2, <3>2, <4>4, <4>5, <4>6
    <3> QED
      BY <3>1, <3>2
  <2> HIDE DEF Closed
  <2> QED
    BY <2>3, <2>4, <2>5
<1> HIDE DEF Grown
<1>6. MaxRows \in Grown
  BY <1>4, <1>5, Induction, BoundsAssumption
<1>7. /\ A \subseteq f[MaxRows] /\ f[MaxRows] \subseteq A \cup S
      /\ \A j \in f[MaxRows] \ A : rows[j].parent \in f[MaxRows]
      /\ \A X : A \subseteq X /\ Closed(X) => f[MaxRows] \subseteq X
      /\ Closed(f[MaxRows]) \/ Cardinality(f[MaxRows]) >= MaxRows + 1
  BY <1>6, BoundsAssumption DEF Grown
<1>8. Closed(f[MaxRows])
  <2>1. Cardinality(f[MaxRows]) <= MaxRows /\ Cardinality(f[MaxRows]) \in Nat
    BY <1>3, <1>7, FS_Subset, FS_CardinalityType
  <2> HIDE DEF Closed
  <2> QED
    BY <1>7, <2>1, BoundsAssumption
<1> DEFINE R == Reach(A, S)
<1>10. R = f[MaxRows]
  BY <1>1
<1> HIDE DEF R
<1>11. /\ A \subseteq R /\ R \subseteq A \cup S
       /\ \A j \in S : rows[j].parent \in R => j \in R
       /\ \A j \in R \ A : rows[j].parent \in R
       /\ \A X : A \subseteq X /\ (\A j \in S : rows[j].parent \in X => j \in X) => R \subseteq X
  BY <1>7, <1>8, <1>10
<1> QED
  BY <1>11 DEF R

\* What is under i with a flag, and all that is under i.
LEMMA TreeIs ==
  ASSUME NEW i, NEW b
  PROVE  /\ Tree(i, b) \subseteq {j \in Present : rows[j].inBin = b}
         /\ i \in Present /\ rows[i].inBin = b => i \in Tree(i, b)
         /\ \A j \in Present : rows[j].inBin = b /\ rows[j].parent \in Tree(i, b) => j \in Tree(i, b)
         /\ \A j \in Tree(i, b) \ {i} : rows[j].parent \in Tree(i, b)
         /\ \A X : (i \in Tree(i, b) => i \in X)
                   /\ (\A j \in Present : rows[j].inBin = b /\ rows[j].parent \in X => j \in X)
                   => Tree(i, b) \subseteq X
<1> DEFINE S == {j \in Present : rows[j].inBin = b}
           A == {i} \cap S
           T == Reach(A, S)
<1>1. S \in SUBSET Ids /\ A \in SUBSET Ids /\ A \subseteq S
  BY DEF Present
<1> HIDE DEF T, A
<1>2. /\ A \subseteq T /\ T \subseteq A \cup S
      /\ \A j \in S : rows[j].parent \in T => j \in T
      /\ \A j \in T \ A : rows[j].parent \in T
      /\ \A X : A \subseteq X /\ (\A j \in S : rows[j].parent \in X => j \in X) => T \subseteq X
  <2> HIDE DEF S
  <2> QED
    BY <1>1, ReachIs DEF T
<1>3. Tree(i, b) = T
  BY DEF Tree, T, A
<1>4. A = {i} \cap S
  BY DEF A
<1> HIDE DEF S
<1>5. /\ T \subseteq S
      /\ i \in S => i \in T
      /\ \A j \in T \ {i} : rows[j].parent \in T
      /\ \A X : (i \in T => i \in X) /\ (\A j \in S : rows[j].parent \in X => j \in X) => T \subseteq X
  BY <1>1, <1>2, <1>4
<1> USE DEF S
<1> QED
  BY <1>2, <1>3, <1>5

\* A tree holds rows that are there.
LEMMA TreeIn ==
  ASSUME NEW i, NEW b
  PROVE  Tree(i, b) \subseteq Present
<1>1. Tree(i, b) \subseteq {j \in Present : rows[j].inBin = b}
  BY TreeIs
<1> QED
  BY <1>1

-----------------------------------------------------------------------------
(* Names and paths.                                                        *)

Names == [title : Titles(STRING), ext : STRING]
Paths == {p \in Seq(Names) : Len(p) > 0}

\* Names have a title, and keep it under another extension.
LEMMA NamesAre ==
  /\ Names \subseteq FullName
  /\ \A n \in FullName : n.title # <<>> => n \in Names
  /\ \A n \in Names : n.title \in Titles(STRING) /\ n.ext \in STRING
  /\ \A n \in Names : [n EXCEPT !.ext = "enc"] \in Names /\ [n EXCEPT !.ext = "enc"].title = n.title
  /\ \A t \in Titles(STRING), e \in STRING : [title |-> t, ext |-> e] \in Names
<1>1. Word = Words(STRING)
  BY DEF Word, Words
<1>2. \A t \in Titles(STRING) : t \in Seq(Word)
  BY <1>1 DEF Titles
<1>3. \A t \in Seq(Word) : t # <<>> => t \in Titles(STRING)
  <2> HIDE DEF Word
  <2>1. ASSUME NEW t \in Seq(Word), t # <<>> PROVE Len(t) > 0
    BY <2>1, EmptySeq, LenProperties
  <2> QED
    BY <1>1, <2>1 DEF Titles
<1> QED
  BY <1>2, <1>3, NamesAssumption DEF Names, FullName

\* What clients send are names.
LEMMA SentNames ==
  ASSUME NEW n \in FileNamesSent \cup FolderNamesSent
  PROVE  n \in Names
BY NamesAssumption, NamesAre

\* One name more, and one less.
LEMMA OneMore ==
  ASSUME NEW N, NEW p \in Seq(N), NEW n \in N
  PROVE  /\ p \o <<n>> \in Seq(N) /\ p \o <<n>> = Append(p, n) /\ Len(p \o <<n>>) = Len(p) + 1
         /\ Last(p \o <<n>>) = n /\ Front(p \o <<n>>) = p
<1> DEFINE x == Append(p, n)
<1>1. /\ x \in Seq(N) /\ Len(x) = Len(p) + 1 /\ x[Len(p) + 1] = n
      /\ \A i \in 1 .. Len(p) : x[i] = p[i]
      /\ Len(p) \in Nat
  BY AppendProperties, LenProperties
<1>2. p \o <<n>> = x
  BY AppendIsConcat
<1> HIDE DEF x
<1>3. /\ Front(x) \in Seq(N) /\ Len(Front(x)) = Len(p)
      /\ \A i \in 1 .. Len(p) : Front(x)[i] = x[i]
  BY <1>1, FrontLast
<1>4. Front(x) = p
  BY <1>1, <1>3, SeqEqual
<1>5. Last(x) = n
  BY <1>1 DEF Last
<1> QED
  BY <1>1, <1>2, <1>4, <1>5 DEF x

\* A path that is not empty is its front and its last name.
LEMMA OneLess ==
  ASSUME NEW N, NEW p \in Seq(N), Len(p) > 0
  PROVE  /\ Front(p) \in Seq(N) /\ Last(p) \in N /\ Len(Front(p)) = Len(p) - 1
         /\ p = Append(Front(p), Last(p))
<1> DEFINE f == Front(p)
           l == Last(p)
           x == Append(f, l)
<1>1. /\ f \in Seq(N) /\ l \in N /\ Len(f) = Len(p) - 1 /\ Len(p) \in Nat
      /\ \A i \in 1 .. Len(p) - 1 : f[i] = p[i]
      /\ l = p[Len(p)]
  BY FrontLast DEF Last
<1> HIDE DEF f, l
<1>2. /\ x \in Seq(N) /\ Len(x) = Len(f) + 1 /\ x[Len(f) + 1] = l
      /\ \A i \in 1 .. Len(f) : x[i] = f[i]
  BY <1>1, AppendProperties
<1> HIDE DEF x
<1>3. Len(x) = Len(p) /\ \A i \in 1 .. Len(x) : x[i] = p[i]
  BY <1>1, <1>2
<1>4. x = p
  BY <1>2, <1>3, SeqEqual
<1> QED
  BY <1>1, <1>4 DEF f, l, x

\* What is left of a path below a path above it.
LEMMA RestIs ==
  ASSUME NEW N, NEW p \in Seq(N), NEW q \in Seq(N), Above(p, q)
  PROVE  Rest(p, q) \in Seq(N) /\ q = p \o Rest(p, q)
<1> DEFINE r == Rest(p, q)
           s == p \o r
<1>1. Len(p) \in Nat /\ Len(q) \in Nat /\ Len(p) <= Len(q) /\ SubSeq(q, 1, Len(p)) = p
  BY LenProperties DEF Above
<1>2. \A i \in 1 .. Len(q) : q[i] \in N
  BY ElementOfSeq
<1>3. /\ r \in Seq(N) /\ Len(r) = Len(q) - Len(p)
      /\ \A i \in 1 .. Len(q) - Len(p) : r[i] = q[Len(p) + i]
  <2>1. \A i \in Len(p) + 1 .. Len(q) : q[i] \in N
    BY <1>1, <1>2
  <2>2. /\ r \in Seq(N)
        /\ Len(r) = IF Len(p) + 1 <= Len(q) THEN Len(q) - (Len(p) + 1) + 1 ELSE 0
        /\ \A i \in 1 .. Len(q) - (Len(p) + 1) + 1 : r[i] = q[(Len(p) + 1) + i - 1]
    BY <1>1, <2>1, SubSeqProperties DEF Rest
  <2> HIDE DEF r
  <2>3. \A i \in 1 .. Len(q) - Len(p) : (Len(p) + 1) + i - 1 = Len(p) + i
    BY <1>1
  <2>4. Len(q) - (Len(p) + 1) + 1 = Len(q) - Len(p)
    BY <1>1
  <2>5. Len(r) = Len(q) - Len(p)
    BY <1>1, <2>2
  <2>6. ASSUME NEW i \in 1 .. Len(q) - Len(p) PROVE r[i] = q[Len(p) + i]
    BY <2>2, <2>3, <2>4
  <2> QED
    BY <2>2, <2>5, <2>6
<1>4. \A i \in 1 .. Len(p) : p[i] = q[i]
  <2>1. \A i \in 1 .. Len(p) : q[i] \in N
    BY <1>1, <1>2
  <2>2. \A i \in 1 .. Len(p) - 1 + 1 : SubSeq(q, 1, Len(p))[i] = q[1 + i - 1]
    BY <1>1, <2>1, SubSeqProperties
  <2> SUFFICES ASSUME NEW i \in 1 .. Len(p) PROVE p[i] = q[i]
    OBVIOUS
  <2>3. i \in 1 .. Len(p) - 1 + 1 /\ 1 + i - 1 = i
    BY <1>1
  <2> QED
    BY <1>1, <2>2, <2>3
<1> HIDE DEF r
<1>5. /\ s \in Seq(N) /\ Len(s) = Len(p) + Len(r)
      /\ \A i \in 1 .. Len(p) + Len(r) : s[i] = IF i <= Len(p) THEN p[i] ELSE r[i - Len(p)]
  BY <1>3, ConcatProperties
<1> HIDE DEF s
<1>6. Len(s) = Len(q)
  BY <1>1, <1>3, <1>5
<1>7. ASSUME NEW i \in 1 .. Len(s) PROVE s[i] = q[i]
  <2>1. CASE i <= Len(p)
    BY <1>1, <1>3, <1>4, <1>5, <2>1
  <2>2. CASE i > Len(p)
    <3>1. i - Len(p) \in 1 .. Len(q) - Len(p) /\ Len(p) + (i - Len(p)) = i
      BY <1>1, <1>6, <2>2
    <3>2. s[i] = r[i - Len(p)]
      BY <1>1, <1>3, <1>5, <1>6, <2>2
    <3> QED
      BY <1>3, <3>1, <3>2
  <2> QED
    BY <1>1, <2>1, <2>2
<1>8. s = q
  BY <1>5, <1>6, <1>7, SeqEqual
<1> QED
  BY <1>3, <1>8 DEF r, s

\* Paths, with what they are made of kept from view.
LEMMA PathOps ==
  ASSUME NEW p \in Seq(Names), NEW q \in Seq(Names)
  PROVE  /\ p \o q \in Seq(Names) /\ Len(p \o q) = Len(p) + Len(q)
         /\ \A n \in Names : /\ p \o <<n>> \in Paths /\ p \o <<n>> = Append(p, n)
                             /\ Last(p \o <<n>>) = n /\ Front(p \o <<n>>) = p
                             /\ Len(p \o <<n>>) = Len(p) + 1
         /\ p \in Paths => /\ Last(p) \in Names /\ p = Append(Front(p), Last(p))
                           /\ Front(p) \in Seq(Names) /\ Len(Front(p)) = Len(p) - 1
         /\ Above(p, q) => Rest(p, q) \in Seq(Names) /\ q = p \o Rest(p, q)
         /\ \A n \in 1 .. Len(p) : SubSeq(p, 1, n) \in Paths
<1> Len(p) \in Nat /\ Len(q) \in Nat
  BY LenProperties
<1>1. p \o q \in Seq(Names) /\ Len(p \o q) = Len(p) + Len(q)
  BY ConcatProperties
<1>2. ASSUME NEW n \in Names
      PROVE  /\ p \o <<n>> \in Paths /\ p \o <<n>> = Append(p, n)
             /\ Last(p \o <<n>>) = n /\ Front(p \o <<n>>) = p
             /\ Len(p \o <<n>>) = Len(p) + 1
  BY OneMore DEF Paths
<1>3. p \in Paths => /\ Last(p) \in Names /\ p = Append(Front(p), Last(p))
                    /\ Front(p) \in Seq(Names) /\ Len(Front(p)) = Len(p) - 1
  BY OneLess DEF Paths
<1>4. Above(p, q) => Rest(p, q) \in Seq(Names) /\ q = p \o Rest(p, q)
  BY RestIs
<1>5. ASSUME NEW n \in 1 .. Len(p) PROVE SubSeq(p, 1, n) \in Paths
  <2>1. \A i \in 1 .. n : p[i] \in Names
    BY ElementOfSeq
  <2>2. SubSeq(p, 1, n) \in Seq(Names) /\ Len(SubSeq(p, 1, n)) = n - 1 + 1
    BY <2>1, SubSeqProperties
  <2> QED
    BY <2>2 DEF Paths
<1> QED
  BY <1>1, <1>2, <1>3, <1>4, <1>5

\* What is below a path that is put in front of another.
LEMMA RestOf ==
  ASSUME NEW p \in Seq(Names), NEW x \in Seq(Names)
  PROVE  Rest(p, p \o x) = x /\ Above(p, p \o x)
<1> DEFINE q == p \o x
           r == Rest(p, q)
<1>1. Len(p) \in Nat /\ Len(x) \in Nat
  BY LenProperties
<1>2. /\ q \in Seq(Names) /\ Len(q) = Len(p) + Len(x)
      /\ \A i \in 1 .. Len(p) + Len(x) : q[i] = IF i <= Len(p) THEN p[i] ELSE x[i - Len(p)]
  BY ConcatProperties
<1>3. \A i \in 1 .. Len(q) : q[i] \in Names
  BY <1>2, ElementOfSeq
<1> HIDE DEF q
<1>4. /\ r \in Seq(Names)
      /\ Len(r) = IF Len(p) + 1 <= Len(q) THEN Len(q) - (Len(p) + 1) + 1 ELSE 0
      /\ \A i \in 1 .. Len(q) - (Len(p) + 1) + 1 : r[i] = q[(Len(p) + 1) + i - 1]
  <2>1. \A i \in Len(p) + 1 .. Len(q) : q[i] \in Names
    BY <1>1, <1>2, <1>3
  <2> QED
    BY <1>1, <1>2, <2>1, SubSeqProperties DEF Rest
<1>5. r = x
  <2> HIDE DEF r
  <2>1. Len(r) = Len(x) /\ Len(q) - (Len(p) + 1) + 1 = Len(x)
    BY <1>1, <1>2, <1>4
  <2>2. ASSUME NEW i \in 1 .. Len(r) PROVE r[i] = x[i]
    <3>1. i \in 1 .. Len(q) - (Len(p) + 1) + 1 /\ (Len(p) + 1) + i - 1 = Len(p) + i
      BY <1>1, <2>1
    <3>2. r[i] = q[Len(p) + i]
      BY <1>4, <3>1
    <3>3. Len(p) + i \in 1 .. Len(p) + Len(x) /\ ~(Len(p) + i <= Len(p)) /\ Len(p) + i - Len(p) = i
      BY <1>1, <2>1
    <3> QED
      BY <1>2, <3>2, <3>3
  <2> QED
    BY <1>4, <2>1, <2>2, SeqEqual
<1>6. Above(p, q)
  <2> DEFINE s == SubSeq(q, 1, Len(p))
  <2>1. \A i \in 1 .. Len(p) : q[i] \in Names
    BY <1>1, <1>2, <1>3
  <2>2. /\ s \in Seq(Names) /\ Len(s) = IF 1 <= Len(p) THEN Len(p) - 1 + 1 ELSE 0
        /\ \A i \in 1 .. Len(p) - 1 + 1 : s[i] = q[1 + i - 1]
    BY <1>1, <2>1, SubSeqProperties
  <2>3. s = p
    <3> HIDE DEF s
    <3>1. Len(s) = Len(p) /\ Len(p) - 1 + 1 = Len(p)
      BY <1>1, <2>2
    <3>2. ASSUME NEW i \in 1 .. Len(s) PROVE s[i] = p[i]
      <4>1. i \in 1 .. Len(p) - 1 + 1 /\ 1 + i - 1 = i
        BY <1>1, <3>1
      <4>2. s[i] = q[i]
        BY <2>2, <4>1
      <4>3. i \in 1 .. Len(p) + Len(x) /\ i <= Len(p)
        BY <1>1, <3>1
      <4> QED
        BY <1>2, <4>2, <4>3
    <3> QED
      BY <2>2, <3>1, <3>2, SeqEqual
  <2> QED
    BY <1>1, <1>2, <2>3 DEF Above
<1> QED
  BY <1>5, <1>6 DEF q, r

-----------------------------------------------------------------------------
(* Types, whatever requests overlap.                                       *)

Kinds == {"none", "upload", "folder", "encrypt", "bin", "restore", "forget", "clean"}
Phases == {"idle", "quota", "match", "number", "find", "replace", "write", "commit", "delete",
           "remove", "issue", "throw", "flip", "move", "insert"}

FullRow == [file : BOOLEAN, path : Paths, depth : Int, parent : 0 .. MaxRows,
            root : 0 .. MaxRows, inBin : BOOLEAN, size : Nat, enc : BOOLEAN]
Tables == [Ids -> FullRow \cup {None}]

\* Only directories belong to no row.
Lies(tree) ==
    \A p \in DOMAIN tree : /\ p \in Seq(Names) /\ tree[p] \in Entry
                           /\ tree[p].of = 0 => tree[p] = Dir

\* What a transaction will make of rows: other rows, or none.
Writes == UNION {[D -> FullRow \cup {None}] : D \in SUBSET Ids}

Job == [kind : Kinds, pc : Phases, fs : 0 .. MaxRows, parent : 0 .. MaxRows, root : 0 .. MaxRows,
        path : Seq(Names), extra : Nat, keep : BOOLEAN, victim : 0 .. MaxRows,
        key : 0 .. MaxKeys, old : Seq(Names), depth : Int, writes : Writes,
        unbin : SUBSET Ids, risk : SUBSET Ids, touched : BOOLEAN]

\* A request knows its row, the row's key in the bin and its path, if it needs them.
JobOK(j) ==
    /\ j \in Job
    /\ j.kind \notin {"none", "clean"} => j.fs \in Ids
    /\ j.kind \in {"bin", "restore", "forget"} => j.key \in Keys
    /\ j.kind \in {"upload", "folder", "encrypt", "bin", "restore"} => j.path \in Paths
    /\ j.kind = "upload" => j.extra = 1
    /\ j.kind = "folder" => j.extra = 0

TablesOK == rows \in Tables /\ bins \in [Ids -> 0 .. MaxKeys]
DiskOK ==
    /\ Lies(content) /\ removing \subseteq Seq(Names)
    /\ trash = [k \in Keys |-> trash[k]] /\ \A k \in Keys : Lies(trash[k])
JobsOK == op = [h \in Handlers |-> op[h]] /\ \A h \in Handlers : JobOK(op[h])
NotesOK == astray \subseteq Ids /\ dirty \in BOOLEAN

Typed ==
    /\ TablesOK /\ DiskOK /\ JobsOK /\ NotesOK
    /\ nextRow \in 1 .. MaxRows + 1 /\ nextKey \in 1 .. MaxKeys + 1

\* What a transaction may have written, built row by row or for a set of rows.
LEMMA WritesAre ==
  /\ \A w \in Writes : /\ DOMAIN w \in SUBSET Ids
                       /\ \A i \in DOMAIN w : w[i] \in FullRow \cup {None}
  /\ \A D \in SUBSET Ids : \A w : w \in [D -> FullRow \cup {None}] => w \in Writes
  /\ Nothing \in Writes /\ DOMAIN Nothing = {}
  /\ \A D \in SUBSET Ids : [i \in D |-> None] \in Writes
  /\ \A i \in Ids, r \in FullRow : [x \in {i} |-> r] \in Writes
<1> HIDE DEF FullRow
<1>1. \A w \in Writes : \E D \in SUBSET Ids : w \in [D -> FullRow \cup {None}]
  BY DEF Writes
<1>2. \A D \in SUBSET Ids : \A w : w \in [D -> FullRow \cup {None}] => w \in Writes
  BY DEF Writes
<1>3. \A w \in Writes : /\ DOMAIN w \in SUBSET Ids
                        /\ \A i \in DOMAIN w : w[i] \in FullRow \cup {None}
  BY <1>1
<1>4. \A D \in SUBSET Ids : [i \in D |-> None] \in Writes
  BY <1>2
<1>5. \A i \in Ids, r \in FullRow : [x \in {i} |-> r] \in Writes
  <2> TAKE i \in Ids, r \in FullRow
  <2>1. {i} \in SUBSET Ids /\ [x \in {i} |-> r] \in [{i} -> FullRow \cup {None}]
    OBVIOUS
  <2> QED
    BY <1>2, <2>1
<1>6. Nothing \in Writes /\ DOMAIN Nothing = {}
  <2>1. {} \in SUBSET Ids /\ Nothing \in [{} -> FullRow \cup {None}] /\ DOMAIN Nothing = {}
    BY DEF Nothing
  <2> QED
    BY <1>2, <2>1
<1> QED
  BY <1>2, <1>3, <1>4, <1>5, <1>6

\* A request that has not begun is a request.
LEMMA IdleOK == JobOK(Idle) /\ Idle.kind = "none" /\ Idle.pc = "idle" /\ DOMAIN Idle.writes = {}
<1>1. <<>> \in Seq(Names)
  BY EmptySeq
<1> QED
  BY <1>1, WritesAre, BoundsAssumption DEF Idle, JobOK, Job, Kinds, Phases

\* The vault begins with the right types.
LEMMA InitTyped == Init => Typed
<1> SUFFICES ASSUME Init PROVE Typed
  OBVIOUS
<1>1. TablesOK /\ NotesOK /\ nextRow \in 1 .. MaxRows + 1 /\ nextKey \in 1 .. MaxKeys + 1
  <2>1. rows \in Tables
    <3> HIDE DEF FullRow
    <3> QED
      BY DEF Init, Tables
  <2>2. bins \in [Ids -> 0 .. MaxKeys]
    BY BoundsAssumption DEF Init
  <2>3. nextRow \in 1 .. MaxRows + 1 /\ nextKey \in 1 .. MaxKeys + 1
    BY BoundsAssumption DEF Init
  <2>4. NotesOK
    BY DEF Init, NotesOK
  <2> QED
    BY <2>1, <2>2, <2>3, <2>4 DEF TablesOK
<1>2. DiskOK
  BY DEF Init, DiskOK, Lies, Nothing
<1>3. JobsOK
  BY IdleOK DEF Init, JobsOK
<1> QED
  BY <1>1, <1>2, <1>3 DEF Typed

\* A step that gives one request another job of the right type.
LEMMA JobStep ==
  ASSUME JobsOK, NEW h \in Handlers, NEW r, JobOK(r), op' = [op EXCEPT ![h] = r]
  PROVE  JobsOK' /\ op'[h] = r /\ \A g \in Handlers \ {h} : op'[g] = op[g]
BY DEF JobsOK

\* A request that ends.
LEMMA DoneStep ==
  ASSUME JobsOK, NEW h \in Handlers, Done(h)
  PROVE  JobsOK' /\ op'[h] = Idle /\ \A g \in Handlers \ {h} : op'[g] = op[g]
BY IdleOK, JobStep DEF Done

\* A request that goes to its next phase.
LEMMA GotoStep ==
  ASSUME JobsOK, NEW h \in Handlers, NEW pc \in Phases, Goto(h, pc)
  PROVE  /\ JobsOK' /\ op'[h] = [op[h] EXCEPT !.pc = pc]
         /\ \A g \in Handlers \ {h} : op'[g] = op[g]
<1>1. JobOK(op[h])
  BY DEF JobsOK
<1>2. PICK r : r = [op[h] EXCEPT !.pc = pc]
  OBVIOUS
<1>3. JobOK(r)
  BY <1>1, <1>2 DEF JobOK, Job
<1>4. op' = [op EXCEPT ![h] = r]
  BY <1>2 DEF Goto
<1> QED
  BY <1>2, <1>3, <1>4, JobStep

\* A request that gives up.
LEMMA AbortStep ==
  ASSUME JobsOK, NotesOK, NEW h \in Handlers, Abort(h)
  PROVE  /\ JobsOK' /\ NotesOK' /\ astray \subseteq astray'
         /\ op'[h] = Idle /\ \A g \in Handlers \ {h} : op'[g] = op[g]
<1>1. op[h].risk \subseteq Ids /\ op[h].touched \in BOOLEAN
  BY DEF JobsOK, JobOK, Job
<1>2. NotesOK' /\ astray \subseteq astray'
  BY <1>1 DEF Abort, NotesOK
<1> QED
  BY <1>2, DoneStep DEF Abort

\* The rows that are there, what they are made of, and those in view.
LEMMA RowsAre ==
  ASSUME TablesOK
  PROVE  /\ Live \subseteq Present /\ Present \subseteq Ids
         /\ \A i \in Present : rows[i] \in FullRow /\ Name(i) \in Names
         /\ \A i \in Present : i \in Live <=> rows[i].inBin = FALSE
<1>1. \A i \in Present : rows[i] \in FullRow
  BY DEF TablesOK, Tables, Present
<1>2. ASSUME NEW i \in Present PROVE Name(i) \in Names
  <2>1. rows[i].path \in Paths
    BY <1>1 DEF FullRow
  <2>2. rows[i].path \in Seq(Names)
    BY <2>1 DEF Paths
  <2> QED
    BY <2>1, <2>2, PathOps DEF Name
<1> QED
  BY <1>1, <1>2 DEF Live, Present, FullRow

\* Deleting rows leaves a table, and cuts the rows left off from the rows deleted.
LEMMA WithoutTyped ==
  ASSUME NEW R \in Tables, NEW D
  PROVE  /\ Without(R, D) \in Tables
         /\ \A i \in Ids : /\ i \in D \/ R[i] = None => Without(R, D)[i] = None
                           /\ i \notin D /\ R[i] # None =>
                                 \/ Without(R, D)[i] = R[i] /\ R[i].parent \notin D
                                 \/ Without(R, D)[i] = [R[i] EXCEPT !.parent = 0] /\ R[i].parent \in D
<1>1. \A r \in FullRow : [r EXCEPT !.parent = 0] \in FullRow
  BY BoundsAssumption DEF FullRow
<1>2. \A i \in Ids : R[i] \in FullRow \cup {None}
  BY DEF Tables
<1> HIDE DEF FullRow
<1>3. Without(R, D) = [i \in Ids |-> Without(R, D)[i]]
  BY DEF Without
<1>4. \A i \in Ids : /\ i \in D \/ R[i] = None => Without(R, D)[i] = None
                     /\ i \notin D /\ R[i] # None =>
                           \/ Without(R, D)[i] = R[i] /\ R[i].parent \notin D
                           \/ Without(R, D)[i] = [R[i] EXCEPT !.parent = 0] /\ R[i].parent \in D
  BY DEF Without
<1>5. \A i \in Ids : Without(R, D)[i] \in FullRow \cup {None}
  BY <1>1, <1>2, <1>4
<1> QED
  BY <1>3, <1>4, <1>5 DEF Tables

\* A step that stores new tables, and notes what has become odd in them.
LEMMA StoreStep ==
  ASSUME Typed, NEW R \in Tables, NEW B \in [Ids -> 0 .. MaxKeys], Store(R, B)
  PROVE  TablesOK' /\ astray' \subseteq Ids /\ astray \subseteq astray'
BY DEF Store, Typed, TablesOK, NotesOK, Odd

\* What is at a path is rows.
LEMMA ClashIn ==
  ASSUME Typed, NEW h \in Handlers, op[h].kind \in {"upload", "folder", "encrypt", "restore"},
         NEW p, NEW V
  PROVE  Clash(h, p, V) \subseteq Ids
<1>1. \A g \in Handlers : op[g].kind \in {"upload", "folder", "encrypt", "restore"} => op[g].fs \in Ids
  BY DEF Typed, JobsOK, JobOK
<1>2. Live \subseteq Ids
  BY DEF Live, Present
<1> QED
  BY <1>1, <1>2 DEF Clash, Open

-----------------------------------------------------------------------------
(* The steps keep the types.                                               *)

\* The numbers at the end of the titles of rows are bounded.
LEMMA NumbersBounded ==
  ASSUME TablesOK
  PROVE  \E N \in Nat : \A i \in Live : Last(Name(i).title).n <= N
<1>1. \A i \in Live : i \in Ids /\ Last(Name(i).title).n \in Nat
  <2> TAKE i \in Live
  <2>1. i \in Ids /\ Name(i).title \in Titles(STRING)
    BY RowsAre, NamesAre
  <2>2. Last(Name(i).title) \in Words(STRING)
    BY <2>1, FrontLast DEF Titles
  <2> QED
    BY <2>1, <2>2 DEF Words
<1> DEFINE num(i) == Last(Name(i).title).n
           M == {m \in Nat : \E N \in Nat : \A i \in Live : i <= m => num(i) <= N}
<1> HIDE DEF num
<1>2. \A i \in Live : i \in 1 .. MaxRows /\ num(i) \in Nat
  BY <1>1 DEF num, Ids
<1>3. 0 \in M
  BY <1>2
<1>4. ASSUME NEW m \in Nat, m \in M PROVE m + 1 \in M
  <2>1. PICK N \in Nat : \A i \in Live : i <= m => num(i) <= N
    BY <1>4
  <2>2. PICK K \in Nat : K >= N /\ (m + 1 \in Live => K >= num(m + 1))
    <3>1. CASE m + 1 \in Live
      <4>1. N + num(m + 1) \in Nat /\ N + num(m + 1) >= N /\ N + num(m + 1) >= num(m + 1)
        BY <1>2, <3>1
      <4> QED
        BY <4>1
    <3>2. CASE m + 1 \notin Live
      BY <3>2
    <3> QED
      BY <3>1, <3>2
  <2>3. \A i \in Live : i <= m + 1 => num(i) <= K
    BY <1>2, <2>1, <2>2
  <2> QED
    BY <2>3
<1> HIDE DEF M
<1>5. MaxRows \in M
  BY <1>3, <1>4, Induction, BoundsAssumption
<1>6. PICK N \in Nat : \A i \in Live : i <= MaxRows => num(i) <= N
  BY <1>5 DEF M
<1> QED
  BY <1>2, <1>6, BoundsAssumption DEF num

\* The title that keeping both files gives is a title, and no row in view has it.
LEMMA KeptTitle ==
  ASSUME TablesOK, NEW p, NEW file, NEW t \in Titles(STRING)
  PROVE  LET new == NextTitle(TitlesSeen(p, file), t)
         IN new \in Titles(STRING) /\ (Last(new).n < Exact => new \notin TitlesSeen(p, file))
<1>1. PICK N \in Nat : \A i \in Live : Last(Name(i).title).n <= N
  BY NumbersBounded
<1>2. TitlesSeen(p, file) \in SUBSET Titles(STRING)
  BY RowsAre, NamesAre DEF TitlesSeen
<1>3. \A x \in TitlesSeen(p, file) : Last(x).n <= N
  BY <1>1 DEF TitlesSeen
<1>4. \A x \in Titles(STRING) : Last(x).n \in Nat
  <2> TAKE x \in Titles(STRING)
  <2>1. Last(x) \in Words(STRING)
    BY FrontLast DEF Titles
  <2> QED
    BY <2>1 DEF Words
<1>5. PICK K \in Nat : \A x \in TitlesSeen(p, file) \cup {t} : Last(x).n <= K
  <2>1. N + Last(t).n \in Nat /\ Last(t).n \in Nat
    BY <1>4
  <2>2. \A x \in TitlesSeen(p, file) \cup {t} : Last(x).n <= N + Last(t).n
    BY <1>2, <1>3, <1>4, <2>1
  <2> QED
    BY <2>1, <2>2
<1> QED
  BY <1>2, <1>5, NextTitleIsNew, NamesAssumption

\* The path of a parent is a path.
LEMMA PathOfIs ==
  ASSUME TablesOK, NEW p, ParentOk(p)
  PROVE  PathOf(p) \in Seq(Names) /\ (p # 0 => p \in Ids /\ rows[p] \in FullRow)
<1>1. CASE p = 0
  BY <1>1, EmptySeq DEF PathOf
<1>2. CASE p # 0
  BY <1>2, RowsAre DEF ParentOk, PathOf, FullRow, Paths
<1> QED
  BY <1>1, <1>2

\* The request that makes a file or a folder, as it begins.
Made(j, kind, p, name, keep) ==
    /\ j.kind = kind /\ j.fs = nextRow /\ j.parent = p /\ j.keep = keep
    /\ j.pc = (IF kind = "upload" THEN "quota" ELSE Naming(keep))
    /\ j.path = PathOf(p) \o <<name>>
    /\ j.depth = IF p = 0 THEN 0 ELSE rows[p].depth + 1
    /\ DOMAIN j.writes = {} /\ j.unbin = {} /\ j.victim = 0

\* The beginning of an upload or of a new folder keeps the types.
LEMMA CreationStep ==
  ASSUME Typed, NEW h \in Handlers, NEW kind \in {"upload", "folder"}, NEW p, NEW name \in Names,
         NEW keep \in BOOLEAN,
         Creation(h, kind, IF kind = "upload" THEN "quota" ELSE Naming(keep), p, name, keep,
                  IF kind = "upload" THEN 1 ELSE 0)
  PROVE  /\ Typed' /\ Made(op'[h], kind, p, name, keep)
         /\ \A g \in Handlers \ {h} : op'[g] = op[g]
<1> DEFINE extra == IF kind = "upload" THEN 1 ELSE 0
           pc == IF kind = "upload" THEN "quota" ELSE Naming(keep)
<1>1. extra \in Nat /\ pc \in Phases
  BY DEF Naming, Phases
<1>2. Creation(h, kind, pc, p, name, keep, extra)
  OBVIOUS
<1> HIDE DEF pc, extra
<1>3. PathOf(p) \o <<name>> \in Paths /\ PathOf(p) \o <<name>> \in Seq(Names)
  BY <1>2, PathOfIs, PathOps DEF Typed, Creation, Paths
<1>4. RootOf(p) \in 0 .. MaxRows /\ p \in 0 .. MaxRows
  BY <1>2, PathOfIs, BoundsAssumption DEF Typed, Creation, RootOf, FullRow, Ids
<1>5. (IF p = 0 THEN 0 ELSE rows[p].depth + 1) \in Int
  BY <1>2, PathOfIs DEF Typed, Creation, FullRow
<1>6. nextRow \in Ids /\ nextRow' \in 1 .. MaxRows + 1
  BY <1>2, BoundsAssumption DEF Typed, Creation, Ids
<1>7. PICK d : d = IF p = 0 THEN 0 ELSE rows[p].depth + 1
  OBVIOUS
<1>8. PICK x : x = PathOf(p) \o <<name>>
  OBVIOUS
<1>9. PICK w : w = RootOf(p)
  OBVIOUS
<1>10. PICK r : r = [Idle EXCEPT
                    !.kind = kind, !.pc = pc, !.fs = nextRow,
                    !.parent = p, !.root = w, !.path = x, !.depth = d, !.extra = extra, !.keep = keep]
  OBVIOUS
<1>11. /\ r.kind = kind /\ r.fs = nextRow /\ r.parent = p /\ r.keep = keep
       /\ r.pc = pc /\ r.path = x /\ r.depth = d
       /\ r.writes = Nothing /\ r.unbin = {} /\ r.victim = 0
  BY <1>10 DEF Idle
<1>12. JobOK(r)
  <2>1. /\ r.kind \in Kinds /\ r.pc \in Phases /\ r.path \in Seq(Names) /\ r.depth \in Int
        /\ r.fs \in Ids /\ r.extra = extra /\ r.path \in Paths
    BY <1>1, <1>3, <1>5, <1>6, <1>7, <1>8, <1>10, <1>11 DEF Kinds, Idle
  <2>2. r \in Job
    <3>1. Idle \in Job
      BY IdleOK DEF JobOK
    <3>2. /\ w \in 0 .. MaxRows /\ x \in Seq(Names) /\ d \in Int /\ extra \in Nat
          /\ p \in 0 .. MaxRows /\ nextRow \in 0 .. MaxRows
      BY <1>1, <1>3, <1>4, <1>5, <1>6, <1>7, <1>8, <1>9, BoundsAssumption DEF Ids
    <3> QED
      BY <1>1, <1>10, <3>1, <3>2 DEF Job, Kinds
  <2> QED
    BY <1>11, <2>1, <2>2 DEF JobOK, extra
<1>13. op' = [op EXCEPT ![h] = r]
  BY <1>2, <1>7, <1>8, <1>9, <1>10 DEF Creation
<1>14. JobsOK' /\ op'[h] = r /\ \A g \in Handlers \ {h} : op'[g] = op[g]
  BY <1>12, <1>13, JobStep DEF Typed
<1>15. Typed'
  <2>1. TablesOK' /\ DiskOK' /\ NotesOK' /\ nextKey' = nextKey
    BY <1>2 DEF Typed, Creation, disk, TablesOK, DiskOK, NotesOK, Lies
  <2> QED
    BY <1>6, <1>14, <2>1 DEF Typed
<1>16. Made(r, kind, p, name, keep)
  BY <1>7, <1>8, <1>11, WritesAre DEF Made, pc
<1> QED
  BY <1>14, <1>15, <1>16

\* What the disk becomes is as it was: paths of names, and rows' files.
LEMMA CutLies ==
  ASSUME Lies(content), NEW p
  PROVE  Lies(Cut(p))
BY DEF Lies, Cut

\* Writing a file at a path leaves a directory tree.
LEMMA PutLies ==
  ASSUME Lies(content), NEW p \in Seq(Names), NEW e \in Entry, e.of # 0
  PROVE  Lies(Put(p, e))
BY DEF Lies, Put

\* Taking away what is below a path leaves a directory tree.
LEMMA TakenLies ==
  ASSUME Lies(content), NEW p \in Seq(Names)
  PROVE  Lies(Taken(p))
<1>1. ASSUME NEW x \in DOMAIN content, Above(p, x)
      PROVE  Rest(p, x) \in Seq(Names) /\ p \o Rest(p, x) = x
  <2>1. x \in Seq(Names)
    BY DEF Lies
  <2> QED
    BY <1>1, <2>1, PathOps
<1>2. ASSUME NEW q \in DOMAIN Taken(p)
      PROVE  /\ q \in Seq(Names) /\ Taken(p)[q] \in Entry
             /\ Taken(p)[q].of = 0 => Taken(p)[q] = Dir
  <2>1. PICK x \in DOMAIN content : Above(p, x) /\ q = Rest(p, x)
    BY DEF Taken
  <2>2. Taken(p)[q] = content[p \o q]
    BY DEF Taken
  <2>3. q \in Seq(Names) /\ Taken(p)[q] = content[x]
    BY <1>1, <2>1, <2>2
  <2> QED
    BY <2>3 DEF Lies
<1> QED
  BY <1>2 DEF Lies

\* Laying a tree at a path leaves a directory tree.
LEMMA LaidLies ==
  ASSUME Lies(content), NEW p \in Seq(Names), NEW tree, Lies(tree)
  PROVE  Lies(Laid(p, tree))
<1>1. ASSUME NEW x \in DOMAIN tree
      PROVE  p \o x \in Seq(Names) /\ Rest(p, p \o x) = x
  <2>1. x \in Seq(Names)
    BY DEF Lies
  <2> QED
    BY <2>1, PathOps, RestOf
<1> DEFINE new == {p \o x : x \in DOMAIN tree}
<1>2. ASSUME NEW q \in DOMAIN content \cup new
      PROVE  /\ q \in Seq(Names) /\ Laid(p, tree)[q] \in Entry
             /\ Laid(p, tree)[q].of = 0 => Laid(p, tree)[q] = Dir
  <2>1. CASE q \in new
    <3>1. PICK x \in DOMAIN tree : q = p \o x
      BY <2>1
    <3>2. q \in Seq(Names) /\ Laid(p, tree)[q] = tree[x]
      BY <1>1, <2>1, <3>1 DEF Laid
    <3> QED
      BY <3>2 DEF Lies
  <2>2. CASE q \notin new
    <3>1. q \in DOMAIN content /\ Laid(p, tree)[q] = content[q]
      BY <2>2 DEF Laid
    <3> QED
      BY <3>1 DEF Lies
  <2> QED
    BY <2>1, <2>2
<1>3. DOMAIN Laid(p, tree) = DOMAIN content \cup new
  BY DEF Laid
<1> HIDE DEF new
<1> QED
  BY <1>2, <1>3 DEF Lies

\* What a step leaves alone keeps its type.
LEMMA Same ==
  ASSUME Typed
  PROVE  /\ UNCHANGED <<rows, bins>> => TablesOK'
         /\ UNCHANGED disk => DiskOK'
         /\ UNCHANGED <<content, removing>> /\ trash' = trash => DiskOK'
         /\ Lies(content') /\ UNCHANGED <<trash, removing>> => DiskOK'
         /\ UNCHANGED <<astray, dirty>> => NotesOK'
         /\ UNCHANGED op => JobsOK'
BY DEF Typed, TablesOK, DiskOK, NotesOK, JobsOK, JobOK, disk, Lies

\* The job of a request is what its type says, field by field.
LEMMA JobIs ==
  ASSUME Typed, NEW h \in Handlers
  PROVE  /\ JobOK(op[h]) /\ op[h] \in Job
         /\ op[h].kind \in Kinds /\ op[h].pc \in Phases /\ op[h].path \in Seq(Names)
         /\ op[h].old \in Seq(Names) /\ op[h].writes \in Writes /\ op[h].unbin \subseteq Ids
         /\ op[h].risk \subseteq Ids /\ op[h].touched \in BOOLEAN /\ op[h].depth \in Int
         /\ op[h].extra \in Nat /\ op[h].parent \in 0 .. MaxRows /\ op[h].root \in 0 .. MaxRows
         /\ op[h].fs \in 0 .. MaxRows /\ op[h].key \in 0 .. MaxKeys
BY DEF Typed, JobsOK, JobOK, Job

\* Looking for what is at the path keeps the types.
LEMMA FindTyped ==
  ASSUME Typed, NEW h \in Handlers, NEW kind \in Kinds, NEW after \in Phases, Find(h, kind, after)
  PROVE  Typed'
<1>1. TablesOK' /\ DiskOK' /\ NotesOK' /\ nextRow' = nextRow /\ nextKey' = nextKey
  BY Same DEF Find, aside
<1>2. JobsOK'
  <2>1. CASE Goto(h, "write")
    BY <2>1, GotoStep DEF Phases, Typed
  <2>2. ASSUME NEW v \in Live, op' = [op EXCEPT ![h].victim = v, ![h].pc = after]
        PROVE  JobsOK'
    <3>1. PICK r : r = [op[h] EXCEPT !.victim = v, !.pc = after]
      OBVIOUS
    <3>2. v \in 0 .. MaxRows
      BY RowsAre, BoundsAssumption DEF Typed, Ids
    <3>3. JobOK(r)
      <4>1. PICK j : j = op[h]
        OBVIOUS
      <4>2. j \in Job /\ JobOK(j)
        BY <4>1, JobIs
      <4>3. r = [j EXCEPT !.victim = v, !.pc = after]
        BY <3>1, <4>1
      <4>4. r \in Job
        BY <3>2, <4>2, <4>3 DEF Job
      <4> QED
        BY <4>2, <4>3, <4>4 DEF JobOK
    <3>4. op' = [op EXCEPT ![h] = r]
      BY <2>2, <3>1
    <3> QED
      BY <3>3, <3>4, JobStep DEF Typed
  <2> QED
    BY <2>1, <2>2 DEF Find
<1> QED
  BY <1>1, <1>2 DEF Typed

\* The quota, and the first of the numbering's queries, keep the types.
LEMMA UploadQuotaTyped ==
  ASSUME Typed, NEW h \in Handlers, UploadQuota(h)
  PROVE  Typed'
<1>1. TablesOK' /\ DiskOK' /\ NotesOK' /\ nextRow' = nextRow /\ nextKey' = nextKey
  BY Same DEF UploadQuota, aside
<1>2. PICK pc : pc = Naming(op[h].keep)
  OBVIOUS
<1>3. pc \in Phases
  BY <1>2 DEF Naming, Phases
<1>4. CASE Goto(h, pc)
  BY <1>1, <1>3, <1>4, GotoStep DEF Typed
<1>5. CASE Done(h)
  BY <1>1, <1>5, DoneStep DEF Typed
<1> QED
  BY <1>2, <1>4, <1>5 DEF UploadQuota

LEMMA MatchTyped ==
  ASSUME Typed, NEW h \in Handlers, NEW kind, Match(h, kind)
  PROVE  Typed'
<1>1. TablesOK' /\ DiskOK' /\ NotesOK' /\ nextRow' = nextRow /\ nextKey' = nextKey
  BY Same DEF Match, aside
<1>2. PICK pc : pc = IF Asked(h) \in Seen(h) THEN "number" ELSE "write"
  OBVIOUS
<1>3. pc \in Phases /\ Goto(h, pc)
  BY <1>2 DEF Match, Phases
<1> QED
  BY <1>1, <1>3, GotoStep DEF Typed

\* A path with another title is a path, in the same directory.
LEMMA TitledIs ==
  ASSUME NEW p \in Paths, NEW t \in Titles(STRING)
  PROVE  /\ Titled(p, t) \in Paths /\ Front(Titled(p, t)) = Front(p) /\ Len(Titled(p, t)) = Len(p)
         /\ Last(Titled(p, t)).title = t /\ Last(Titled(p, t)).ext = Last(p).ext
         /\ Last(Titled(p, t)) = [Last(p) EXCEPT !.title = t]
<1>1. p \in Seq(Names)
  BY DEF Paths
<1>2. Front(p) \in Seq(Names) /\ Last(p) \in Names /\ Len(Front(p)) = Len(p) - 1 /\ Len(p) \in Nat
  BY <1>1, PathOps, LenProperties
<1>3. PICK n : n = [Last(p) EXCEPT !.title = t]
  OBVIOUS
<1>4. n \in Names /\ n.title = t /\ n.ext = Last(p).ext
  BY <1>2, <1>3 DEF Names
<1>5. Titled(p, t) = Front(p) \o <<n>>
  BY <1>3 DEF Titled
<1>6. /\ Front(p) \o <<n>> \in Paths /\ Last(Front(p) \o <<n>>) = n
      /\ Front(Front(p) \o <<n>>) = Front(p) /\ Len(Front(p) \o <<n>>) = Len(Front(p)) + 1
  BY <1>2, <1>4, PathOps
<1>7. PICK x : x = Front(p) \o <<n>>
  OBVIOUS
<1>8. Last(x) = n /\ Front(x) = Front(p) /\ Len(x) = Len(p) /\ x \in Paths
  BY <1>2, <1>6, <1>7
<1>9. Titled(p, t) = x
  BY <1>5, <1>7
<1> QED
  BY <1>3, <1>4, <1>8, <1>9

\* The number that a title is given makes a title, which no row in view has.
LEMMA NextIs ==
  ASSUME Typed, NEW h \in Handlers, op[h].path \in Paths
  PROVE  LET new == NextTitle(Seen(h), Asked(h))
         IN new \in Titles(STRING) /\ (Last(new).n < Exact => new \notin Seen(h))
<1>1. op[h].path \in Seq(Names)
  BY DEF Paths
<1>2. Asked(h) \in Titles(STRING)
  BY <1>1, PathOps, NamesAre DEF Asked
<1> QED
  BY <1>2, KeptTitle DEF Typed, Seen

\* A request that takes the title with a number for its own.
LEMMA NumberStep ==
  ASSUME Typed, NEW h \in Handlers, NEW kind \in {"upload", "folder"}, Number(h, kind)
  PROVE  LET p == Titled(op[h].path, NextTitle(Seen(h), Asked(h)))
         IN /\ JobsOK' /\ op[h].path \in Paths /\ p \in Paths
            /\ op'[h] = [op[h] EXCEPT !.pc = "write", !.path = p]
            /\ \A g \in Handlers \ {h} : op'[g] = op[g]
<1>1. op[h].path \in Paths /\ JobOK(op[h])
  BY JobIs DEF JobOK, Number, At
<1>2. PICK p : p = Titled(op[h].path, NextTitle(Seen(h), Asked(h)))
  OBVIOUS
<1>3. p \in Paths /\ p \in Seq(Names)
  BY <1>1, <1>2, NextIs, TitledIs DEF Paths
<1>4. PICK r : r = [op[h] EXCEPT !.pc = "write", !.path = p]
  OBVIOUS
<1>5. JobOK(r)
  <2>1. r \in Job
    BY <1>1, <1>3, <1>4 DEF JobOK, Job, Phases
  <2> QED
    BY <1>1, <1>3, <1>4, <2>1 DEF JobOK
<1>6. op' = [op EXCEPT ![h] = r]
  <2>1. op' = [op EXCEPT ![h].pc = "write", ![h].path = p]
    BY <1>2 DEF Number
  <2> QED
    BY <1>4, <2>1
<1> QED
  BY <1>1, <1>2, <1>3, <1>4, <1>5, <1>6, JobStep DEF Typed

LEMMA NumberTyped ==
  ASSUME Typed, NEW h \in Handlers, NEW kind \in {"upload", "folder"}, Number(h, kind)
  PROVE  Typed'
<1>1. TablesOK' /\ DiskOK' /\ NotesOK' /\ nextRow' = nextRow /\ nextKey' = nextKey
  BY Same DEF Number, aside
<1> QED
  BY <1>1, NumberStep DEF Typed

\* Deleting the file that an upload replaces keeps the types.
LEMMA UploadReplaceTyped ==
  ASSUME Typed, NEW h \in Handlers, UploadReplace(h)
  PROVE  Typed'
<1> DEFINE p == op[h].path
           v == op[h].victim
<1>1. TablesOK' /\ nextRow' = nextRow /\ nextKey' = nextKey /\ UNCHANGED <<trash, removing>>
  BY Same DEF UploadReplace, aside
<1>2. CASE v \in Live /\ ~Referred(v) /\ Exists(Front(p))
  <2>1. content' = Cut(p) /\ dirty' = dirty /\ astray' = astray \cup Clash(h, p, {v})
    BY <1>2 DEF UploadReplace
  <2>2. DiskOK'
    BY <1>1, <2>1, CutLies, Same DEF Typed, DiskOK
  <2>3. NotesOK'
    BY <2>1, ClashIn DEF Typed, NotesOK, UploadReplace, At
  <2>4. PICK w : w = [x \in {v} |-> None]
    OBVIOUS
  <2>5. PICK r : r = [op[h] EXCEPT !.pc = "write", !.writes = w, !.risk = {v}, !.touched = TRUE]
    OBVIOUS
  <2>6. v \in Ids
    BY <1>2, RowsAre DEF Typed
  <2>7. w \in Writes
    BY <2>4, <2>6, WritesAre
  <2>8. JobOK(r)
    <3>1. JobOK(op[h])
      BY JobIs
    <3>2. r \in Job
      BY <2>5, <2>6, <2>7, <3>1 DEF JobOK, Job, Phases
    <3> QED
      BY <2>5, <3>1, <3>2 DEF JobOK
  <2>9. op' = [op EXCEPT ![h] = r]
    BY <1>2, <2>4, <2>5 DEF UploadReplace
  <2> QED
    BY <1>1, <2>2, <2>3, <2>8, <2>9, JobStep DEF Typed
<1>3. CASE ~(v \in Live /\ ~Referred(v) /\ Exists(Front(p)))
  <2>1. Abort(h) /\ content' = content
    BY <1>3 DEF UploadReplace
  <2> QED
    BY <1>1, <2>1, AbortStep, Same DEF Typed
<1> QED
  BY <1>2, <1>3

\* Writing the uploaded file keeps the types.
LEMMA UploadWriteTyped ==
  ASSUME Typed, NEW h \in Handlers, UploadWrite(h)
  PROVE  Typed'
<1> DEFINE p == op[h].path
<1>1. TablesOK' /\ nextRow' = nextRow /\ nextKey' = nextKey /\ UNCHANGED <<trash, removing>>
  BY Same DEF UploadWrite, aside
<1>2. CASE IsDir(Front(p)) /\ ~IsDir(p)
  <2>1. /\ content' = Put(p, File(op[h].fs)) /\ dirty' = dirty
        /\ astray' = astray \cup Clash(h, p, {op[h].victim})
        /\ op' = [op EXCEPT ![h].pc = "commit", ![h].touched = TRUE]
    BY <1>2 DEF UploadWrite
  <2>2. op[h].kind = "upload" /\ op[h].fs \in Ids
    BY JobIs DEF UploadWrite, At, JobOK
  <2>3. DiskOK'
    <3>1. File(op[h].fs) \in Entry /\ File(op[h].fs).of # 0
      BY <2>2, BoundsAssumption DEF File, Entry, Ids
    <3> QED
      BY <1>1, <2>1, <3>1, PutLies, JobIs, Same DEF Typed, DiskOK
  <2>4. NotesOK'
    BY <2>1, <2>2, ClashIn DEF Typed, NotesOK
  <2>5. PICK r : r = [op[h] EXCEPT !.pc = "commit", !.touched = TRUE]
    OBVIOUS
  <2>6. JobOK(r)
    <3>1. JobOK(op[h])
      BY JobIs
    <3>2. r \in Job
      BY <2>5, <3>1 DEF JobOK, Job, Phases
    <3> QED
      BY <2>5, <3>1, <3>2 DEF JobOK
  <2>7. op' = [op EXCEPT ![h] = r]
    BY <2>1, <2>5
  <2> QED
    BY <1>1, <2>3, <2>4, <2>6, <2>7, JobStep DEF Typed
<1>3. CASE ~(IsDir(Front(p)) /\ ~IsDir(p))
  <2>1. Abort(h) /\ content' = content
    BY <1>3 DEF UploadWrite
  <2> QED
    BY <1>1, <2>1, AbortStep, Same DEF Typed
<1> QED
  BY <1>2, <1>3

\* Inserting the row that was made keeps the types.
LEMMA InsertTyped ==
  ASSUME Typed, NEW h \in Handlers, NEW file \in BOOLEAN, Insert(h, file),
         op[h].kind \in {"upload", "folder"}
  PROVE  Typed'
<1> DEFINE p == op[h].parent
           W == Without(rows, DOMAIN op[h].writes)
<1>1. DiskOK' /\ nextRow' = nextRow /\ nextKey' = nextKey
  BY Same DEF Insert, aside
<1>2. CASE p \in (Present \ DOMAIN op[h].writes) \cup {0}
  <2>1. /\ Store([W EXCEPT ![op[h].fs] = NewRow(h, file)], bins)
        /\ Done(h) /\ dirty' = dirty
    BY <1>2 DEF Insert
  <2>2. NewRow(h, file) \in FullRow
    <3>1. op[h].path \in Paths
      BY JobIs DEF JobOK
    <3> QED
      BY <3>1, JobIs DEF NewRow, FullRow
  <2>3. W \in Tables
    BY WithoutTyped DEF Typed, TablesOK
  <2> HIDE DEF W
  <2>4. [W EXCEPT ![op[h].fs] = NewRow(h, file)] \in Tables
    <3> HIDE DEF FullRow
    <3> QED
      BY <2>2, <2>3 DEF Tables
  <2>5. TablesOK' /\ astray' \subseteq Ids
    BY <2>1, <2>4, StoreStep DEF Typed, TablesOK
  <2> QED
    BY <1>1, <2>1, <2>5, DoneStep DEF Typed, NotesOK
<1>3. CASE ~(p \in (Present \ DOMAIN op[h].writes) \cup {0})
  <2>1. Abort(h) /\ UNCHANGED <<rows, bins>>
    BY <1>3 DEF Insert
  <2> QED
    BY <1>1, <2>1, AbortStep, Same DEF Typed
<1> QED
  BY <1>2, <1>3

\* Deleting the rows of the folder that is replaced keeps the types.
LEMMA FolderDeleteTyped ==
  ASSUME Typed, NEW h \in Handlers, FolderDelete(h)
  PROVE  Typed'
<1> DEFINE D == Tree(op[h].victim, FALSE)
<1>1. DiskOK' /\ nextRow' = nextRow /\ nextKey' = nextKey
  BY Same DEF FolderDelete, aside
<1>2. CASE \E i \in D : Referred(i)
  <2>1. Abort(h) /\ UNCHANGED <<rows, bins>>
    BY <1>2 DEF FolderDelete
  <2> QED
    BY <1>1, <2>1, AbortStep, Same DEF Typed
<1>3. CASE ~(\E i \in D : Referred(i))
  <2>1. /\ Store(Without(rows, D), bins) /\ dirty' = dirty
        /\ op' = [op EXCEPT ![h].pc = "remove", ![h].touched = TRUE]
    BY <1>3 DEF FolderDelete
  <2>2. TablesOK' /\ astray' \subseteq Ids
    BY <2>1, WithoutTyped, StoreStep DEF Typed, TablesOK
  <2>3. PICK r : r = [op[h] EXCEPT !.pc = "remove", !.touched = TRUE]
    OBVIOUS
  <2>4. JobOK(r)
    <3>1. JobOK(op[h])
      BY JobIs
    <3>2. r \in Job
      BY <2>3, <3>1 DEF JobOK, Job, Phases
    <3> QED
      BY <2>3, <3>1, <3>2 DEF JobOK
  <2>5. op' = [op EXCEPT ![h] = r]
    BY <2>1, <2>3
  <2> QED
    BY <1>1, <2>1, <2>2, <2>4, <2>5, JobStep DEF Typed, NotesOK
<1> QED
  BY <1>2, <1>3

\* Removing the directory of the folder that is replaced keeps the types.
LEMMA FolderRemoveTyped ==
  ASSUME Typed, NEW h \in Handlers, FolderRemove(h)
  PROVE  Typed'
<1> DEFINE p == op[h].path
<1>1. TablesOK' /\ nextRow' = nextRow /\ nextKey' = nextKey /\ UNCHANGED <<trash, removing>>
  BY Same DEF FolderRemove, aside
<1>2. CASE Exists(p)
  <2>1. /\ content' = Cut(p) /\ Goto(h, "write") /\ dirty' = dirty
        /\ astray' = astray \cup Clash(h, p, {})
    BY <1>2 DEF FolderRemove
  <2>2. DiskOK'
    BY <1>1, <2>1, CutLies, Same DEF Typed, DiskOK
  <2>3. NotesOK'
    BY <2>1, ClashIn DEF Typed, NotesOK, FolderRemove, At
  <2> QED
    BY <1>1, <2>1, <2>2, <2>3, GotoStep DEF Typed, Phases
<1>3. CASE ~Exists(p)
  <2>1. Abort(h) /\ content' = content
    BY <1>3 DEF FolderRemove
  <2> QED
    BY <1>1, <2>1, AbortStep, Same DEF Typed
<1> QED
  BY <1>2, <1>3

\* Making the directory keeps the types.
LEMMA FolderWriteTyped ==
  ASSUME Typed, NEW h \in Handlers, FolderWrite(h)
  PROVE  Typed'
<1> DEFINE p == op[h].path
           made == {SubSeq(p, 1, n) : n \in 1 .. Len(p)}
           ok == Exists(p) \/ \A q \in made : Exists(q) => IsDir(q)
<1>1. TablesOK' /\ nextRow' = nextRow /\ nextKey' = nextKey /\ UNCHANGED <<trash, removing>>
  BY Same DEF FolderWrite, aside
<1>2. CASE ok
  <2>1. /\ content' = IF Exists(p) THEN content
                      ELSE [q \in DOMAIN content \cup made |->
                               IF q \in DOMAIN content THEN content[q] ELSE Dir]
        /\ op' = [op EXCEPT ![h].pc = "commit", ![h].touched = TRUE]
        /\ UNCHANGED <<astray, dirty>>
    BY <1>2 DEF FolderWrite
  <2>2. Lies(content')
    <3>1. made \subseteq Seq(Names)
      BY JobIs, PathOps DEF Paths
    <3>2. Dir \in Entry
      BY BoundsAssumption DEF Dir, Entry
    <3>3. Lies(content)
      BY DEF Typed, DiskOK
    <3> HIDE DEF made
    <3> QED
      BY <2>1, <3>1, <3>2, <3>3 DEF Lies
  <2>3. PICK r : r = [op[h] EXCEPT !.pc = "commit", !.touched = TRUE]
    OBVIOUS
  <2>4. JobOK(r)
    <3>1. JobOK(op[h])
      BY JobIs
    <3>2. r \in Job
      BY <2>3, <3>1 DEF JobOK, Job, Phases
    <3> QED
      BY <2>3, <3>1, <3>2 DEF JobOK
  <2>5. op' = [op EXCEPT ![h] = r]
    BY <2>1, <2>3
  <2> QED
    BY <1>1, <2>1, <2>2, <2>4, <2>5, JobStep, Same DEF Typed
<1>3. CASE ~ok
  <2>1. Abort(h) /\ content' = content
    BY <1>3 DEF FolderWrite
  <2> QED
    BY <1>1, <2>1, AbortStep, Same DEF Typed
<1> QED
  BY <1>2, <1>3

\* Beginning to encrypt keeps the types.
LEMMA EncryptBeginTyped ==
  ASSUME Typed, NEW h \in Handlers, NEW i \in Ids, EncryptBegin(h, i)
  PROVE  Typed'
<1>1. TablesOK' /\ DiskOK' /\ NotesOK' /\ nextRow' = nextRow /\ nextKey' = nextKey
  BY Same DEF EncryptBegin, aside
<1>2. rows[i] \in FullRow
  BY RowsAre DEF Typed, EncryptBegin
<1>3. rows[i].path \in Paths /\ rows[i].size \in Nat /\ rows[i].path \in Seq(Names)
  BY <1>2 DEF FullRow, Paths
<1>4. Encrypted(rows[i].path) \in Paths /\ Encrypted(rows[i].path) \in Seq(Names)
  <2>1. Front(rows[i].path) \in Seq(Names) /\ Last(rows[i].path) \in Names
    BY <1>3, PathOps
  <2>2. [Last(rows[i].path) EXCEPT !.ext = "enc"] \in Names
    BY <2>1, NamesAre
  <2> QED
    BY <2>1, <2>2, PathOps DEF Encrypted, Paths
<1>5. PICK e : e = Encrypted(rows[i].path)
  OBVIOUS
<1>6. PICK r : r = [Idle EXCEPT !.kind = "encrypt", !.pc = "issue", !.fs = i, !.path = e,
                                !.old = rows[i].path, !.extra = rows[i].size + 1]
  OBVIOUS
<1>7. JobOK(r)
  <2>1. Idle \in Job
    BY IdleOK DEF JobOK
  <2>2. rows[i].size + 1 \in Nat /\ i \in 0 .. MaxRows
    BY <1>3, BoundsAssumption DEF Ids
  <2>3. r \in Job
    BY <1>3, <1>4, <1>5, <1>6, <2>1, <2>2 DEF Job, Kinds, Phases
  <2>4. r.kind = "encrypt" /\ r.fs = i /\ r.path = e
    BY <1>6 DEF Idle
  <2> QED
    BY <1>4, <1>5, <2>3, <2>4 DEF JobOK
<1>8. op' = [op EXCEPT ![h] = r]
  BY <1>5, <1>6 DEF EncryptBegin
<1> QED
  BY <1>1, <1>7, <1>8, JobStep DEF Typed

\* Writing the encrypted row in the transaction keeps the types.
LEMMA EncryptIssueTyped ==
  ASSUME Typed, NEW h \in Handlers, EncryptIssue(h)
  PROVE  Typed'
<1> DEFINE i == op[h].fs
           row == [rows[i] EXCEPT !.enc = TRUE, !.size = op[h].extra, !.path = op[h].path]
           written == IF i \notin Live \/ rows[i].enc THEN Nothing ELSE [x \in {i} |-> row]
           pc == IF i \in Live /\ ~rows[i].enc THEN "write" ELSE "throw"
<1>1. TablesOK' /\ NotesOK' /\ nextRow' = nextRow /\ nextKey' = nextKey
  BY Same DEF EncryptIssue, aside
<1>2. JobOK(op[h]) /\ op[h].kind = "encrypt" /\ i \in Ids /\ op[h].path \in Paths /\ op[h].extra \in Nat
  BY JobIs DEF EncryptIssue, At, JobOK
<1>3. DiskOK'
  <2>1. removing' \subseteq Seq(Names)
    BY JobIs DEF EncryptIssue, Typed, DiskOK
  <2> QED
    BY <2>1 DEF EncryptIssue, Typed, DiskOK, Lies
<1>4. i \in Live => row \in FullRow
  BY <1>2, RowsAre DEF Typed, FullRow
<1>5. written \in Writes
  <2> HIDE DEF row
  <2> QED
    BY <1>2, <1>4, WritesAre
<1>6. PICK w : w = written
  OBVIOUS
<1>7. PICK c : c = pc
  OBVIOUS
<1>8. PICK r : r = [op[h] EXCEPT !.pc = c, !.risk = {i}, !.touched = TRUE, !.writes = w]
  OBVIOUS
<1>9. JobOK(r)
  <2>1. w \in Writes /\ c \in Phases
    BY <1>5, <1>6, <1>7 DEF Phases
  <2>2. r \in Job
    BY <1>2, <1>8, <2>1 DEF JobOK, Job
  <2> QED
    BY <1>2, <1>8, <2>2 DEF JobOK
<1>10. op' = [op EXCEPT ![h] = r]
  BY <1>6, <1>7, <1>8 DEF EncryptIssue
<1> QED
  BY <1>1, <1>3, <1>9, <1>10, JobStep DEF Typed

\* Writing the encrypted file keeps the types.
LEMMA EncryptWriteTyped ==
  ASSUME Typed, NEW h \in Handlers, EncryptWrite(h)
  PROVE  Typed'
<1> DEFINE p == op[h].path
           e == [of |-> op[h].fs, enc |-> TRUE]
<1>1. TablesOK' /\ nextRow' = nextRow /\ nextKey' = nextKey /\ UNCHANGED <<trash, removing>>
  BY Same DEF EncryptWrite, aside
<1>2. CASE IsDir(Front(p)) /\ ~IsDir(p)
  <2>1. /\ content' = Put(p, e) /\ dirty' = (dirty \/ op[h].pc = "throw")
        /\ astray' = astray \cup Clash(h, p, {}) \cup IF op[h].pc = "write" THEN {} ELSE op[h].risk
        /\ Goto(h, "commit") \/ Done(h)
    BY <1>2 DEF EncryptWrite
  <2>2. op[h].kind = "encrypt" /\ op[h].fs \in Ids /\ op[h].risk \subseteq Ids
    BY JobIs DEF EncryptWrite, JobOK
  <2>3. DiskOK'
    <3>1. e \in Entry /\ e.of # 0
      BY <2>2, BoundsAssumption DEF Entry, Ids
    <3> QED
      BY <1>1, <2>1, <3>1, PutLies, JobIs, Same DEF Typed, DiskOK
  <2>4. NotesOK'
    <3>1. Clash(h, p, {}) \subseteq Ids
      BY <2>2, ClashIn
    <3> QED
      BY <2>1, <2>2, <3>1 DEF Typed, NotesOK
  <2>5. JobsOK'
    BY <2>1, GotoStep, DoneStep DEF Typed, Phases
  <2> QED
    BY <1>1, <2>3, <2>4, <2>5 DEF Typed
<1>3. CASE ~(IsDir(Front(p)) /\ ~IsDir(p))
  <2>1. Abort(h) /\ content' = content
    BY <1>3 DEF EncryptWrite
  <2> QED
    BY <1>1, <2>1, AbortStep, Same DEF Typed
<1> QED
  BY <1>2, <1>3

\* What a transaction that commits makes of the rows.
LEMMA MergedIs ==
  ASSUME Typed, NEW h \in Handlers
  PROVE  /\ Merged(h) \in Tables
         /\ \A i \in Ids :
              LET r == IF i \in DOMAIN op[h].writes THEN op[h].writes[i] ELSE rows[i]
              IN /\ r \in FullRow \cup {None}
                 /\ r = None => Merged(h)[i] = None
                 /\ r # None => Merged(h)[i] = r \/ Merged(h)[i] = [r EXCEPT !.parent = 0]
<1> DEFINE w == op[h].writes
           R == [i \in Ids |-> IF i \in DOMAIN w THEN w[i] ELSE rows[i]]
           D == {i \in DOMAIN w : w[i] = None}
<1>1. \A i \in DOMAIN w : w[i] \in FullRow \cup {None}
  BY JobIs, WritesAre
<1>2. rows \in Tables
  BY DEF Typed, TablesOK
<1> HIDE DEF FullRow
<1>3. R \in Tables
  BY <1>1, <1>2 DEF Tables
<1>4. \A i \in Ids : R[i] \in FullRow \cup {None} /\ (i \in D => R[i] = None)
  BY <1>3 DEF Tables
<1>5. Merged(h) = Without(R, D)
  BY DEF Merged
<1>6. \A i \in Ids : R[i] = IF i \in DOMAIN w THEN w[i] ELSE rows[i]
  OBVIOUS
<1> HIDE DEF R, D
<1>7. /\ Merged(h) \in Tables
      /\ \A i \in Ids : /\ R[i] = None => Merged(h)[i] = None
                        /\ R[i] # None => Merged(h)[i] = R[i] \/ Merged(h)[i] = [R[i] EXCEPT !.parent = 0]
  BY <1>3, <1>4, <1>5, WithoutTyped
<1> QED
  BY <1>4, <1>6, <1>7

\* Committing keeps the types.
LEMMA CommitTyped ==
  ASSUME Typed, NEW h \in Handlers, Commit(h)
  PROVE  Typed'
<1> DEFINE B == [i \in Ids |-> IF i \in op[h].unbin THEN 0 ELSE bins[i]]
<1>1. DiskOK' /\ nextRow' = nextRow /\ nextKey' = nextKey
  BY Same DEF Commit, aside
<1>2. B \in [Ids -> 0 .. MaxKeys]
  BY BoundsAssumption DEF Typed, TablesOK
<1>3. Store(Merged(h), B) /\ Done(h) /\ dirty' = dirty
  BY DEF Commit
<1>4. TablesOK' /\ astray' \subseteq Ids
  BY <1>2, <1>3, MergedIs, StoreStep
<1> QED
  BY <1>1, <1>3, <1>4, DoneStep DEF Typed, NotesOK

\* Removing the plain file, at its own time keeps the types.
LEMMA RemoveOldTyped ==
  ASSUME Typed, NEW p \in removing, RemoveOld(p)
  PROVE  Typed'
<1> DEFINE lost == {content[q] : q \in {x \in DOMAIN content : Above(p, x)}} \ {Dir}
<1>1. TablesOK' /\ JobsOK' /\ nextRow' = nextRow /\ nextKey' = nextKey /\ trash' = trash
  BY Same DEF RemoveOld, aside
<1>2. DiskOK'
  <2>1. Lies(content')
    BY CutLies DEF RemoveOld, Typed, DiskOK
  <2>2. removing' \subseteq removing
    BY DEF RemoveOld
  <2> QED
    BY <1>1, <2>1, <2>2 DEF Typed, DiskOK, Lies
<1>3. NotesOK'
  <2>1. \A f \in lost : f.of \in Ids
    BY DEF Typed, DiskOK, Lies, Entry, Ids
  <2>2. astray' \subseteq astray \cup {f.of : f \in lost}
    BY DEF RemoveOld
  <2>3. astray' \subseteq Ids
    BY <2>1, <2>2 DEF Typed, NotesOK
  <2> QED
    BY <2>3 DEF RemoveOld, Typed, NotesOK
<1> QED
  BY <1>1, <1>2, <1>3 DEF Typed

\* Beginning to move to the bin keeps the types.
LEMMA BinBeginTyped ==
  ASSUME Typed, NEW h \in Handlers, NEW i \in Ids, BinBegin(h, i)
  PROVE  Typed'
<1>1. TablesOK' /\ DiskOK' /\ NotesOK' /\ nextRow' = nextRow
  BY Same DEF BinBegin
<1>2. nextKey \in Keys /\ nextKey' \in 1 .. MaxKeys + 1
  BY BoundsAssumption DEF Typed, BinBegin, Keys
<1>3. rows[i] \in FullRow
  BY RowsAre DEF Typed, BinBegin
<1>4. rows[i].path \in Paths /\ rows[i].path \in Seq(Names) /\ rows[i].file \in BOOLEAN
  BY <1>3 DEF FullRow, Paths
<1>5. PICK r : r = [Idle EXCEPT !.kind = "bin", !.pc = "flip", !.fs = i,
                                !.path = rows[i].path, !.keep = rows[i].file, !.key = nextKey]
  OBVIOUS
<1>6. JobOK(r)
  <2>1. Idle \in Job
    BY IdleOK DEF JobOK
  <2>2. i \in 0 .. MaxRows /\ nextKey \in 0 .. MaxKeys
    BY <1>2, BoundsAssumption DEF Ids, Keys
  <2>3. r \in Job
    BY <1>4, <1>5, <2>1, <2>2 DEF Job, Kinds, Phases
  <2>4. r.kind = "bin" /\ r.fs = i /\ r.path = rows[i].path /\ r.key = nextKey
    BY <1>5 DEF Idle
  <2> QED
    BY <1>2, <1>4, <2>3, <2>4 DEF JobOK
<1>7. op' = [op EXCEPT ![h] = r]
  BY <1>5 DEF BinBegin
<1> QED
  BY <1>1, <1>2, <1>6, <1>7, JobStep DEF Typed

\* Flagging the rows keeps the types.
LEMMA BinFlipTyped ==
  ASSUME Typed, NEW h \in Handlers, BinFlip(h)
  PROVE  Typed'
<1> DEFINE T == Tree(op[h].fs, FALSE)
           R == [i \in Ids |-> IF i \in T THEN [rows[i] EXCEPT !.inBin = TRUE] ELSE rows[i]]
<1>1. DiskOK' /\ nextRow' = nextRow /\ nextKey' = nextKey /\ dirty' = dirty
  BY Same DEF BinFlip, aside
<1>2. JobOK(op[h]) /\ op[h].kind = "bin" /\ op[h].fs \in Ids
  BY JobIs DEF BinFlip, At, JobOK
<1>3. T \subseteq Present
  BY TreeIn
<1>4. R \in Tables
  <2>1. \A i \in T : [rows[i] EXCEPT !.inBin = TRUE] \in FullRow
    BY <1>3, RowsAre DEF Typed, FullRow
  <2>2. rows \in Tables
    BY DEF Typed, TablesOK
  <2> HIDE DEF T, FullRow
  <2> QED
    BY <2>1, <2>2 DEF Tables
<1>5. TablesOK' /\ astray' \subseteq Ids
  BY <1>4, StoreStep DEF BinFlip, Typed, TablesOK
<1>6. PICK X : X = T
  OBVIOUS
<1>7. X \subseteq Ids
  BY <1>3, <1>6, RowsAre DEF Typed
<1>8. PICK r : r = [op[h] EXCEPT !.pc = "move", !.risk = X, !.touched = TRUE]
  OBVIOUS
<1>9. JobOK(r)
  <2>1. r \in Job
    BY <1>2, <1>7, <1>8 DEF JobOK, Job, Phases
  <2> QED
    BY <1>2, <1>8, <2>1 DEF JobOK
<1>10. op' = [op EXCEPT ![h] = r]
  BY <1>6, <1>8 DEF BinFlip
<1> QED
  BY <1>1, <1>5, <1>9, <1>10, JobStep DEF Typed, NotesOK

\* Moving the directory to the bin keeps the types.
LEMMA BinMoveTyped ==
  ASSUME Typed, NEW h \in Handlers, BinMove(h)
  PROVE  Typed'
<1> DEFINE p == op[h].path
<1>1. TablesOK' /\ nextRow' = nextRow /\ nextKey' = nextKey /\ removing' = removing
  BY Same DEF BinMove, aside
<1>2. CASE Exists(p) /\ (op[h].keep \/ IsDir(p))
  <2>1. /\ content' = Cut(p) /\ trash' = [trash EXCEPT ![op[h].key] = Taken(p)]
        /\ Goto(h, "insert") /\ astray' = astray
        /\ dirty' = (dirty \/ \E q \in removing : Above(p, q))
    BY <1>2 DEF BinMove
  <2>2. DiskOK'
    <3>1. Lies(Cut(p)) /\ Lies(Taken(p))
      BY CutLies, TakenLies, JobIs DEF Typed, DiskOK
    <3>2. ASSUME NEW k \in Keys PROVE Lies(trash'[k])
      BY <2>1, <3>1 DEF Typed, DiskOK
    <3>3. trash' = [k \in Keys |-> trash'[k]]
      BY <2>1 DEF Typed, DiskOK
    <3>4. Lies(content') /\ removing' \subseteq Seq(Names)
      BY <1>1, <2>1, <3>1 DEF Typed, DiskOK
    <3>5. \A k \in Keys : Lies(trash'[k])
      BY <3>2
    <3> QED
      BY <3>3, <3>4, <3>5 DEF DiskOK, Lies
  <2>3. NotesOK'
    BY <2>1 DEF Typed, NotesOK
  <2> QED
    BY <1>1, <2>1, <2>2, <2>3, GotoStep DEF Typed, Phases
<1>3. CASE ~(Exists(p) /\ (op[h].keep \/ IsDir(p)))
  <2>1. Abort(h) /\ UNCHANGED <<content, trash>>
    BY <1>3 DEF BinMove
  <2> QED
    BY <1>1, <2>1, AbortStep, Same DEF Typed
<1> QED
  BY <1>2, <1>3

\* Inserting the row of the bin keeps the types.
LEMMA BinInsertTyped ==
  ASSUME Typed, NEW h \in Handlers, BinInsert(h)
  PROVE  Typed'
<1> DEFINE i == op[h].fs
<1>1. DiskOK' /\ nextRow' = nextRow /\ nextKey' = nextKey
  BY Same DEF BinInsert, aside
<1>2. CASE i \in Present /\ bins[i] = 0
  <2>1. Store(rows, [bins EXCEPT ![i] = op[h].key]) /\ Done(h) /\ dirty' = dirty
    BY <1>2 DEF BinInsert
  <2>2. TablesOK' /\ astray' \subseteq Ids
    BY <2>1, JobIs, StoreStep DEF Typed, TablesOK
  <2> QED
    BY <1>1, <2>1, <2>2, DoneStep DEF Typed, NotesOK
<1>3. CASE ~(i \in Present /\ bins[i] = 0)
  <2>1. Abort(h) /\ UNCHANGED <<rows, bins>>
    BY <1>3 DEF BinInsert
  <2> QED
    BY <1>1, <2>1, AbortStep, Same DEF Typed
<1> QED
  BY <1>2, <1>3

\* Beginning to restore keeps the types.
LEMMA RestoreBeginTyped ==
  ASSUME Typed, NEW h \in Handlers, NEW i \in Ids, NEW q \in 0 .. MaxRows, RestoreBegin(h, i, q)
  PROVE  Typed'
<1>1. TablesOK' /\ DiskOK' /\ NotesOK' /\ nextRow' = nextRow /\ nextKey' = nextKey
  BY Same DEF RestoreBegin, aside
<1>2. rows[i] \in FullRow /\ Name(i) \in Names
  BY RowsAre DEF Typed, RestoreBegin
<1>3. rows[i].path \in Seq(Names) /\ rows[i].file \in BOOLEAN
  BY <1>2 DEF FullRow, Paths
<1>4. bins[i] \in Keys
  BY DEF RestoreBegin, BinRow, Typed, TablesOK, Keys
<1>5. PathOf(q) \o <<Name(i)>> \in Paths /\ PathOf(q) \o <<Name(i)>> \in Seq(Names)
  BY <1>2, PathOfIs, PathOps DEF RestoreBegin, Typed, Paths
<1>6. PICK x : x = PathOf(q) \o <<Name(i)>>
  OBVIOUS
<1>7. PICK w : w = IF q = 0 THEN 0 ELSE rows[q].root
  OBVIOUS
<1>8. PICK d : d = IF q = 0 THEN 0 ELSE rows[q].depth + 1
  OBVIOUS
<1>9. q # 0 => rows[q] \in FullRow
  BY PathOfIs DEF RestoreBegin, Typed
<1>10. w \in 0 .. MaxRows /\ d \in Int
  BY <1>7, <1>8, <1>9, BoundsAssumption DEF FullRow
<1>11. PICK r : r = [Idle EXCEPT
                    !.kind = "restore", !.pc = "move", !.fs = i, !.parent = q, !.root = w,
                    !.path = x, !.old = rows[i].path, !.key = bins[i], !.keep = rows[i].file,
                    !.depth = d]
  OBVIOUS
<1>12. JobOK(r)
  <2>1. Idle \in Job
    BY IdleOK DEF JobOK
  <2>2. i \in 0 .. MaxRows /\ bins[i] \in 0 .. MaxKeys
    BY <1>4, BoundsAssumption DEF Ids, Keys
  <2>3. r \in Job
    BY <1>3, <1>5, <1>6, <1>10, <1>11, <2>1, <2>2 DEF Job, Kinds, Phases
  <2>4. r.kind = "restore" /\ r.fs = i /\ r.path = x /\ r.key = bins[i]
    BY <1>11 DEF Idle
  <2> QED
    BY <1>4, <1>5, <1>6, <2>3, <2>4 DEF JobOK
<1>13. op' = [op EXCEPT ![h] = r]
  BY <1>6, <1>7, <1>8, <1>11 DEF RestoreBegin
<1> QED
  BY <1>1, <1>12, <1>13, JobStep DEF Typed

\* The rounds in which the readings of a path are collected exist, as a function.
Reads(f, p) ==
    f = [n \in 0 .. Len(p) |->
           IF n = 0 THEN {<<>>} ELSE UNION {{q \o r : r \in Turns(p[n])} : q \in f[n - 1]}]

LEMMA ReadsExist ==
  ASSUME NEW p, Len(p) \in Nat
  PROVE  \E f : Reads(f, p)
<1> DEFINE More(X, n) == UNION {{q \o r : r \in Turns(p[n])} : q \in X}
           To(f, m) == f = [n \in 0 .. m |-> IF n = 0 THEN {<<>>} ELSE More(f[n - 1], n)]
           M == {m \in Nat : \E f : To(f, m)}
<1> HIDE DEF More
<1>1. 0 \in M
  <2> DEFINE f == [n \in 0 .. 0 |-> {<<>>}]
  <2>1. To(f, 0)
    OBVIOUS
  <2> QED
    BY <2>1
<1>2. ASSUME NEW m \in Nat, m \in M PROVE m + 1 \in M
  <2>1. PICK f : To(f, m)
    BY <1>2
  <2> DEFINE g == [n \in 0 .. m + 1 |-> IF n <= m THEN f[n] ELSE More(f[m], m + 1)]
  <2>2. \A n \in 0 .. m + 1 : g[n] = IF n = 0 THEN {<<>>} ELSE More(g[n - 1], n)
    <3> TAKE n \in 0 .. m + 1
    <3>1. CASE n = 0
      BY <2>1, <3>1
    <3>2. CASE n \in 1 .. m
      <4>1. n \in 0 .. m /\ n - 1 \in 0 .. m /\ n \in 0 .. m + 1 /\ n - 1 \in 0 .. m + 1
            /\ n <= m /\ n - 1 <= m /\ n # 0
        BY <3>2
      <4>2. g[n] = f[n] /\ g[n - 1] = f[n - 1] /\ f[n] = More(f[n - 1], n)
        BY <2>1, <4>1
      <4> QED
        BY <4>1, <4>2
    <3>3. CASE n = m + 1
      BY <3>3
    <3> QED
      BY <3>1, <3>2, <3>3
  <2>3. g = [n \in 0 .. m + 1 |-> g[n]]
    OBVIOUS
  <2> HIDE DEF g
  <2>4. To(g, m + 1)
    BY <2>2, <2>3
  <2> QED
    BY <2>4
<1> HIDE DEF M
<1>3. Len(p) \in M
  BY <1>1, <1>2, Induction
<1>4. PICK f : To(f, Len(p))
  BY <1>3 DEF M
<1>5. Reads(f, p)
  BY <1>4 DEF More, Reads
<1> QED
  BY <1>5

\* A path up to a name, and with it.
LEMMA UpTo ==
  ASSUME NEW p \in Seq(Names), NEW n \in Nat, n < Len(p)
  PROVE  /\ SubSeq(p, 1, n) \o <<p[n + 1]>> = SubSeq(p, 1, n + 1)
         /\ p[n + 1] \in Names
<1> DEFINE u == SubSeq(p, 1, n)
           v == SubSeq(p, 1, n + 1)
           x == u \o <<p[n + 1]>>
<1>1. Len(p) \in Nat /\ \A i \in 1 .. Len(p) : p[i] \in Names
  BY LenProperties, ElementOfSeq
<1>2. p[n + 1] \in Names
  BY <1>1
<1>3. u \in Seq(Names) /\ Len(u) = n /\ \A i \in 1 .. n : u[i] = p[i]
  <2>1. \A i \in 1 .. n : p[i] \in Names
    BY <1>1
  <2>2. /\ u \in Seq(Names) /\ Len(u) = IF 1 <= n THEN n - 1 + 1 ELSE 0
        /\ \A i \in 1 .. n - 1 + 1 : u[i] = p[1 + i - 1]
    BY <2>1, SubSeqProperties
  <2> HIDE DEF u
  <2>3. Len(u) = n
    BY <2>2
  <2>4. ASSUME NEW i \in 1 .. n PROVE u[i] = p[i]
    <3>1. i \in 1 .. n - 1 + 1 /\ 1 + i - 1 = i
      OBVIOUS
    <3> QED
      BY <2>2, <3>1
  <2> QED
    BY <2>2, <2>3, <2>4
<1>4. v \in Seq(Names) /\ Len(v) = n + 1 /\ \A i \in 1 .. n + 1 : v[i] = p[i]
  <2>1. \A i \in 1 .. n + 1 : p[i] \in Names
    BY <1>1
  <2>2. /\ v \in Seq(Names) /\ Len(v) = IF 1 <= n + 1 THEN n + 1 - 1 + 1 ELSE 0
        /\ \A i \in 1 .. n + 1 - 1 + 1 : v[i] = p[1 + i - 1]
    BY <2>1, SubSeqProperties
  <2> HIDE DEF v
  <2>3. Len(v) = n + 1
    BY <2>2
  <2>4. ASSUME NEW i \in 1 .. n + 1 PROVE v[i] = p[i]
    <3>1. i \in 1 .. n + 1 - 1 + 1 /\ 1 + i - 1 = i
      OBVIOUS
    <3> QED
      BY <2>2, <3>1
  <2> QED
    BY <2>2, <2>3, <2>4
<1> HIDE DEF u, v
<1>5. x = Append(u, p[n + 1])
  BY <1>2, <1>3, OneMore
<1>6. /\ x \in Seq(Names) /\ Len(x) = n + 1 /\ x[n + 1] = p[n + 1]
      /\ \A i \in 1 .. n : x[i] = u[i]
  BY <1>2, <1>3, <1>5, AppendProperties
<1> HIDE DEF x
<1>7. ASSUME NEW i \in 1 .. n + 1 PROVE x[i] = v[i]
  <2>1. CASE i = n + 1
    BY <1>4, <1>6, <2>1
  <2>2. CASE i \in 1 .. n
    BY <1>3, <1>4, <1>6, <2>2
  <2> QED
    BY <2>1, <2>2
<1>8. x = v
  BY <1>4, <1>6, <1>7, SeqEqual
<1> QED
  BY <1>2, <1>8 DEF u, v, x

\* What a name turns into is one or more names.
LEMMA TurnsAre ==
  ASSUME NEW n \in Names
  PROVE  /\ \A r \in Turns(n) : r \in Seq(Names) /\ Len(r) > 0
         /\ n \notin DOMAIN Expansions => Turns(n) = {<<n>>}
<1>1. CASE n \in DOMAIN Expansions
  <2> SUFFICES ASSUME NEW r \in Turns(n) PROVE r \in Seq(Names) /\ Len(r) > 0
    BY <1>1
  <2>1. /\ r \in Seq(FullName) /\ Len(r) > 0
        /\ \A k \in DOMAIN r : r[k].title # <<>>
    BY <1>1, ExpansionsAssumption DEF Turns
  <2>2. Len(r) \in Nat /\ DOMAIN r = 1 .. Len(r) /\ r = [k \in 1 .. Len(r) |-> r[k]]
    BY <2>1, LenProperties
  <2>3. \A k \in 1 .. Len(r) : r[k] \in FullName
    BY <2>1, ElementOfSeq
  <2>4. \A k \in 1 .. Len(r) : r[k] \in Names
    BY <2>1, <2>2, <2>3, NamesAre
  <2>5. r \in Seq(Names)
    BY <2>2, <2>4, IsASeq
  <2> QED
    BY <2>1, <2>5
<1>2. CASE n \notin DOMAIN Expansions
  <2>1. Turns(n) = {<<n>>}
    BY <1>2 DEF Turns
  <2>2. <<n>> \in Seq(Names) /\ Len(<<n>>) = 1
    OBVIOUS
  <2> QED
    BY <2>1, <2>2
<1> QED
  BY <1>1, <1>2

\* What a path may come out as is paths, and the path itself when no name of it
\* has a pattern.
LEMMA ReadingsAre ==
  ASSUME NEW p \in Paths
  PROVE  /\ Readings(p) \subseteq Paths
         /\ ~Patterned(p) => Readings(p) = {p}
<1>1. p \in Seq(Names) /\ Len(p) \in Nat /\ Len(p) > 0
  BY LenProperties DEF Paths
<1>2. PICK f : Reads(f, p) /\ Readings(p) = f[Len(p)]
  <2>1. PICK f : Reads(f, p)
    BY <1>1, ReadsExist
  <2> QED
    BY <2>1 DEF Readings, Reads
<1>3. f[0] = {<<>>}
  BY <1>1, <1>2 DEF Reads
<1>4. ASSUME NEW n \in Nat, n < Len(p)
      PROVE  f[n + 1] = UNION {{q \o r : r \in Turns(p[n + 1])} : q \in f[n]}
  <2>1. n + 1 \in 0 .. Len(p) /\ n + 1 # 0 /\ (n + 1) - 1 = n
    BY <1>1, <1>4
  <2>2. f[n + 1] = UNION {{q \o r : r \in Turns(p[n + 1])} : q \in f[(n + 1) - 1]}
    BY <1>2, <2>1 DEF Reads
  <2> QED
    BY <2>1, <2>2
<1> DEFINE Good == {n \in Nat : n <= Len(p) =>
                      /\ f[n] \subseteq Seq(Names)
                      /\ n > 0 => \A q \in f[n] : Len(q) > 0
                      /\ ~Patterned(p) => f[n] = {SubSeq(p, 1, n)}}
<1>5. 0 \in Good
  <2>1. <<>> \in Seq(Names) /\ SubSeq(p, 1, 0) = <<>>
    <3>1. \A i \in 1 .. 0 : p[i] \in Names
      OBVIOUS
    <3>2. SubSeq(p, 1, 0) \in Seq(Names) /\ Len(SubSeq(p, 1, 0)) = 0
      BY <3>1, SubSeqProperties
    <3> QED
      BY <3>2, EmptySeq
  <2> QED
    BY <1>3, <2>1
<1>6. ASSUME NEW n \in Nat, n \in Good PROVE n + 1 \in Good
  <2> SUFFICES ASSUME n + 1 <= Len(p) PROVE n + 1 \in Good
    OBVIOUS
  <2>1. n < Len(p) /\ n + 1 > 0
    BY <1>1
  <2>2. f[n] \subseteq Seq(Names) /\ (~Patterned(p) => f[n] = {SubSeq(p, 1, n)})
    BY <1>1, <1>6, <2>1
  <2>3. f[n + 1] = UNION {{q \o r : r \in Turns(p[n + 1])} : q \in f[n]}
    BY <1>4, <2>1
  <2>4. p[n + 1] \in Names /\ SubSeq(p, 1, n) \o <<p[n + 1]>> = SubSeq(p, 1, n + 1)
    BY <1>1, <2>1, UpTo
  <2>5. \A r \in Turns(p[n + 1]) : r \in Seq(Names) /\ Len(r) > 0
    BY <2>4, TurnsAre
  <2>6. ASSUME NEW x \in f[n + 1] PROVE x \in Seq(Names) /\ Len(x) > 0
    <3>1. PICK q \in f[n], r \in Turns(p[n + 1]) : x = q \o r
      BY <2>3
    <3>2. /\ q \in Seq(Names) /\ r \in Seq(Names) /\ Len(q) \in Nat /\ Len(r) \in Nat /\ Len(r) > 0
      BY <2>2, <2>5, LenProperties
    <3>3. x \in Seq(Names) /\ Len(x) = Len(q) + Len(r)
      BY <3>1, <3>2, PathOps
    <3> QED
      BY <3>2, <3>3
  <2>7. ~Patterned(p) => f[n + 1] = {SubSeq(p, 1, n + 1)}
    <3> SUFFICES ASSUME ~Patterned(p) PROVE f[n + 1] = {SubSeq(p, 1, n + 1)}
      OBVIOUS
    <3>1. p[n + 1] \notin DOMAIN Expansions
      BY <1>1, <2>1 DEF Patterned
    <3>2. Turns(p[n + 1]) = {<<p[n + 1]>>}
      BY <2>4, <3>1, TurnsAre
    <3>4. PICK x, y : x = SubSeq(p, 1, n) /\ y = <<p[n + 1]>>
      OBVIOUS
    <3>5. f[n] = {x} /\ Turns(p[n + 1]) = {y}
      BY <2>2, <3>2, <3>4
    <3> DEFINE All(X, Y) == UNION {{q \o r : r \in Y} : q \in X}
    <3>7. All({x}, {y}) = {x \o y}
      OBVIOUS
    <3>8. f[n + 1] = All(f[n], Turns(p[n + 1]))
      BY <2>3
    <3> HIDE DEF All
    <3>6. f[n + 1] = All({x}, {y})
      BY <3>5, <3>8
    <3>3. f[n + 1] = {SubSeq(p, 1, n) \o <<p[n + 1]>>}
      BY <3>4, <3>6, <3>7
    <3> QED
      BY <2>4, <3>3
  <2> QED
    BY <2>6, <2>7
<1> HIDE DEF Good
<1>7. Len(p) \in Good
  BY <1>1, <1>5, <1>6, Induction
<1>8. SubSeq(p, 1, Len(p)) = p
  BY <1>1, SubSeqFull
<1> QED
  BY <1>1, <1>2, <1>7, <1>8 DEF Good, Paths

\* A path in which another takes the place of the old one is a path; when no name
\* of the new one has a pattern, what lies below the old path goes below the new
\* one.
LEMMA MovedAre ==
  ASSUME NEW h \in Handlers, op[h].path \in Paths, op[h].old \in Seq(Names), NEW p \in Paths
  PROVE  /\ Moved(h, p) \subseteq Paths
         /\ ~Patterned(op[h].path) /\ Above(op[h].old, p) =>
               Moved(h, p) = {op[h].path \o Rest(op[h].old, p)}
<1> DEFINE old == op[h].old
           new == op[h].path
           found == {k \in 0 .. Len(p) - Len(old) : SubSeq(p, k + 1, k + Len(old)) = old}
           k == CHOOSE k \in found : \A m \in found : k <= m
           put == {SubSeq(p, 1, k) \o q \o SubSeq(p, k + Len(old) + 1, Len(p)) : q \in Readings(new)}
<1>1. /\ p \in Seq(Names) /\ Len(p) \in Nat /\ Len(old) \in Nat
      /\ \A i \in 1 .. Len(p) : p[i] \in Names
  BY LenProperties, ElementOfSeq DEF Paths
<1>2. Moved(h, p) = IF found = {} THEN {p} ELSE put
  BY DEF Moved
<1>6. found # {} => k \in found /\ \A m \in found : k <= m
  <2> SUFFICES ASSUME found # {} PROVE k \in found /\ \A m \in found : k <= m
    OBVIOUS
  <2>1. found \subseteq Nat
    BY <1>1
  <2> HIDE DEF found
  <2>2. \E m \in found : \A j \in found : m <= j
    BY <2>1, LeastIs
  <2> QED
    BY <2>2
<1> HIDE DEF k
<1>3. ASSUME found # {}, NEW q \in Readings(new)
      PROVE  SubSeq(p, 1, k) \o q \o SubSeq(p, k + Len(old) + 1, Len(p)) \in Paths
  <2>1. k \in 0 .. Len(p)
    <3>1. k \in found
      BY <1>3, <1>6
    <3>2. k \in 0 .. Len(p) - Len(old)
      BY <3>1
    <3> QED
      BY <1>1, <3>2
  <2>2. SubSeq(p, 1, k) \in Seq(Names)
    <3>1. \A i \in 1 .. k : p[i] \in Names
      BY <1>1, <2>1
    <3> QED
      BY <2>1, <3>1, SubSeqProperties
  <2>3. SubSeq(p, k + Len(old) + 1, Len(p)) \in Seq(Names)
    <3>1. \A i \in k + Len(old) + 1 .. Len(p) : p[i] \in Names
      BY <1>1, <2>1
    <3>2. k + Len(old) + 1 \in Int /\ Len(p) \in Int
      BY <1>1, <2>1
    <3>3. PICK m : m = k + Len(old) + 1
      OBVIOUS
    <3> QED
      BY <3>1, <3>2, <3>3, SubSeqProperties
  <2>4. q \in Seq(Names) /\ Len(q) > 0
    BY ReadingsAre DEF Paths
  <2>5. PICK a, b : a = SubSeq(p, 1, k) /\ b = SubSeq(p, k + Len(old) + 1, Len(p))
    OBVIOUS
  <2>6. a \o q \in Seq(Names) /\ Len(a \o q) = Len(a) + Len(q) /\ Len(a) \in Nat /\ Len(q) \in Nat
    BY <2>2, <2>4, <2>5, PathOps, LenProperties
  <2>7. PICK c : c = a \o q
    OBVIOUS
  <2>8. /\ c \o b \in Seq(Names) /\ Len(c \o b) = Len(c) + Len(b)
        /\ Len(b) \in Nat /\ Len(c) \in Nat /\ Len(c) > 0
    <3>1. c \in Seq(Names) /\ Len(c) = Len(a) + Len(q)
      BY <2>6, <2>7
    <3>2. Len(c) \in Nat /\ Len(c) > 0
      BY <2>4, <2>6, <3>1
    <3>3. b \in Seq(Names) /\ Len(b) \in Nat
      BY <2>3, <2>5, LenProperties
    <3> QED
      BY <3>1, <3>2, <3>3, PathOps
  <2>9. c \o b \in Paths
    BY <2>8 DEF Paths
  <2> QED
    BY <2>5, <2>7, <2>9
<1>4. Moved(h, p) \subseteq Paths
  BY <1>2, <1>3
<1>5. ASSUME ~Patterned(new), Above(old, p)
      PROVE  Moved(h, p) = {new \o Rest(old, p)}
  <2>1. Len(old) <= Len(p) /\ SubSeq(p, 1, Len(old)) = old
    BY <1>5 DEF Above
  <2>2. 0 \in found
    BY <1>1, <2>1
  <2>3. \A m \in found : 0 <= m /\ m \in Int
    BY <1>1
  <2>4. k = 0
    <3> HIDE DEF found
    <3> QED
      BY <1>6, <2>2, <2>3
  <2>5. Readings(new) = {new}
    BY <1>5, ReadingsAre
  <2>6. put = {SubSeq(p, 1, 0) \o new \o SubSeq(p, 0 + Len(old) + 1, Len(p))}
    BY <2>4, <2>5
  <2>7. SubSeq(p, 1, 0) = <<>>
    <3>1. \A i \in 1 .. 0 : p[i] \in Names
      OBVIOUS
    <3>2. SubSeq(p, 1, 0) \in Seq(Names) /\ Len(SubSeq(p, 1, 0)) = 0
      BY <3>1, SubSeqProperties
    <3> QED
      BY <3>2, EmptySeq
  <2>8. <<>> \o new = new
    BY ConcatEmptySeq DEF Paths
  <2>9. SubSeq(p, 0 + Len(old) + 1, Len(p)) = Rest(old, p)
    <3>1. 0 + Len(old) + 1 = Len(old) + 1
      BY <1>1
    <3> QED
      BY <3>1 DEF Rest
  <2> HIDE DEF put
  <2>10. put = {new \o Rest(old, p)}
    BY <2>6, <2>7, <2>8, <2>9, Zenon
  <2> HIDE DEF found
  <2> QED
    BY <1>2, <2>2, <2>10
<1> QED
  BY <1>4, <1>5

\* The rows that restoring writes are rows.
LEMMA RestoredAre ==
  ASSUME Typed, NEW h \in Handlers, op[h].kind = "restore", NEW T \in SUBSET Present,
         op[h].fs \in Present, NEW new \in Moves(h, T \ {op[h].fs})
  PROVE  /\ Restored(h, T, new) \in Writes /\ DOMAIN Restored(h, T, new) = T
         /\ \A j \in T : LET r == Restored(h, T, new)[j]
                         IN /\ r \in FullRow /\ r.size = rows[j].size /\ r.enc = rows[j].enc
                            /\ r.file = rows[j].file /\ r.inBin = FALSE
                            /\ j = op[h].fs => /\ r.path = op[h].path /\ r.depth = op[h].depth
                                               /\ r.parent = op[h].parent
                            /\ j # op[h].fs =>
                                 /\ r.path = new[j] /\ new[j] \in Moved(h, rows[j].path) /\ r.parent = rows[j].parent
                                 /\ r.depth = rows[j].depth + op[h].depth - rows[op[h].fs].depth
<1> DEFINE i == op[h].fs
           q == op[h].parent
           childRoot == IF q = 0 THEN i ELSE IF op[h].root # 0 THEN op[h].root ELSE q
           first == [rows[i] EXCEPT !.inBin = FALSE, !.path = op[h].path,
                             !.depth = op[h].depth, !.parent = q, !.root = op[h].root]
           under(j) == [rows[j] EXCEPT !.inBin = FALSE, !.path = new[j],
                    !.depth = rows[j].depth + op[h].depth - rows[i].depth, !.root = childRoot]
<1>1. JobOK(op[h]) /\ op[h].path \in Paths /\ op[h].old \in Seq(Names) /\ op[h].depth \in Int
      /\ q \in 0 .. MaxRows /\ op[h].root \in 0 .. MaxRows /\ i \in 0 .. MaxRows
  BY JobIs DEF JobOK
<1>2. childRoot \in 0 .. MaxRows
  BY <1>1
<1>3. \A j \in Present : rows[j] \in FullRow
  BY RowsAre DEF Typed
<1>4. \A j \in T \ {i} : new[j] \in Paths
  <2> TAKE j \in T \ {i}
  <2>1. rows[j].path \in Paths
    BY <1>3 DEF FullRow
  <2> QED
    BY <1>1, <2>1, MovedAre DEF Moves
<1>5. /\ first \in FullRow /\ first.size = rows[i].size /\ first.enc = rows[i].enc
      /\ first.file = rows[i].file /\ first.inBin = FALSE /\ first.path = op[h].path
      /\ first.depth = op[h].depth /\ first.parent = q
  <2>1. rows[i] \in FullRow
    BY <1>3
  <2>2. PICK p, d, w : p = op[h].path /\ d = op[h].depth /\ w = op[h].root
    OBVIOUS
  <2>3. first = [rows[i] EXCEPT !.inBin = FALSE, !.path = p, !.depth = d, !.parent = q, !.root = w]
    BY <2>2
  <2>4. p \in Paths /\ d \in Int /\ q \in 0 .. MaxRows /\ w \in 0 .. MaxRows
    BY <1>1, <2>2
  <2> HIDE DEF first, q
  <2>5. /\ first \in FullRow /\ first.size = rows[i].size /\ first.enc = rows[i].enc
        /\ first.file = rows[i].file /\ first.inBin = FALSE /\ first.path = p
        /\ first.depth = d /\ first.parent = q
    BY <2>1, <2>3, <2>4 DEF FullRow
  <2> QED
    BY <2>2, <2>5
<1>6. ASSUME NEW j \in T \ {i}
      PROVE  /\ under(j) \in FullRow /\ under(j).size = rows[j].size /\ under(j).enc = rows[j].enc
             /\ under(j).file = rows[j].file /\ under(j).inBin = FALSE
             /\ under(j).path = new[j] /\ new[j] \in Moved(h, rows[j].path) /\ under(j).parent = rows[j].parent
             /\ under(j).depth = rows[j].depth + op[h].depth - rows[i].depth
  <2> DEFINE d == rows[j].depth + op[h].depth - rows[i].depth
             m == new[j]
             row == rows[j]
  <2>1. rows[j] \in FullRow /\ rows[i] \in FullRow
    BY <1>3
  <2>2. d \in Int /\ m \in Paths /\ childRoot \in 0 .. MaxRows
    <3>1. rows[j].path \in Paths /\ rows[j].depth \in Int /\ rows[i].depth \in Int
      BY <2>1 DEF FullRow
    <3>2. m \in Paths
      BY <1>4
    <3>3. d \in Int
      BY <1>1, <3>1
    <3> QED
      BY <1>2, <3>2, <3>3
  <2>3. row \in FullRow /\ under(j) = [row EXCEPT !.inBin = FALSE, !.path = m, !.depth = d, !.root = childRoot]
    BY <2>1
  <2> HIDE DEF d, m, childRoot, row
  <2>4. /\ under(j) \in FullRow /\ under(j).size = row.size /\ under(j).enc = row.enc
        /\ under(j).file = row.file /\ under(j).inBin = FALSE
        /\ under(j).path = m /\ under(j).parent = row.parent /\ under(j).depth = d
    BY <2>2, <2>3 DEF FullRow
  <2>5. new[j] \in Moved(h, rows[j].path)
    BY DEF Moves
  <2> QED
    BY <2>4, <2>5 DEF d, m, row
<1>7. Restored(h, T, new) = [j \in T |-> IF j = i THEN first ELSE under(j)]
  BY DEF Restored
<1> HIDE DEF first, under, FullRow
<1>8. \A j \in T : Restored(h, T, new)[j] = IF j = i THEN first ELSE under(j)
  BY <1>7
<1>9. T \in SUBSET Ids
  BY RowsAre DEF Typed
<1>10. Restored(h, T, new) \in [T -> FullRow \cup {None}]
  BY <1>5, <1>6, <1>7
<1>11. Restored(h, T, new) \in Writes /\ DOMAIN Restored(h, T, new) = T
  BY <1>7, <1>9, <1>10, WritesAre
<1> SUFFICES ASSUME NEW j \in T
             PROVE  LET r == Restored(h, T, new)[j]
                    IN /\ r \in FullRow /\ r.size = rows[j].size /\ r.enc = rows[j].enc
                       /\ r.file = rows[j].file /\ r.inBin = FALSE
                       /\ j = op[h].fs => /\ r.path = op[h].path /\ r.depth = op[h].depth
                                          /\ r.parent = op[h].parent
                       /\ j # op[h].fs =>
                            /\ r.path = new[j] /\ new[j] \in Moved(h, rows[j].path) /\ r.parent = rows[j].parent
                            /\ r.depth = rows[j].depth + op[h].depth - rows[op[h].fs].depth
  BY <1>11
<1>12. CASE j = op[h].fs
  <2>1. Restored(h, T, new)[j] = first
    BY <1>8, <1>12
  <2> QED
    BY <1>5, <1>12, <2>1
<1>13. CASE j # op[h].fs
  <2>1. Restored(h, T, new)[j] = under(j)
    BY <1>8, <1>13
  <2> QED
    BY <1>6, <1>13, <2>1
<1> QED
  BY <1>12, <1>13

\* Moving the directory back and writing the rows in the transaction keeps the types.
LEMMA RestoreMoveTyped ==
  ASSUME Typed, NEW h \in Handlers, RestoreMove(h)
  PROVE  Typed'
<1> DEFINE i == op[h].fs
           T == IF op[h].keep THEN {i} ELSE Tree(i, TRUE)
           p == op[h].path
           tree == trash[op[h].key]
           ok == /\ i \in Present \ Live /\ bins[i] = op[h].key /\ op[h].parent \in Present \cup {0}
                 /\ tree # Nothing /\ IsDir(Front(p)) /\ Fits(p, tree)
<1>1. TablesOK' /\ nextRow' = nextRow /\ nextKey' = nextKey /\ removing' = removing
  BY Same DEF RestoreMove, aside
<1>2. JobOK(op[h]) /\ op[h].kind = "restore" /\ i \in Ids /\ op[h].key \in Keys /\ p \in Seq(Names)
  BY JobIs DEF RestoreMove, At, JobOK
<1>3. CASE ok
  <2>1. /\ content' = Laid(p, tree) /\ trash' = [trash EXCEPT ![op[h].key] = Nothing]
        /\ \E new \in Moves(h, T \ {i}) :
             op' = [op EXCEPT ![h].pc = "commit", ![h].writes = Restored(h, T, new),
                              ![h].unbin = {i}, ![h].risk = T, ![h].touched = TRUE]
        /\ astray' = astray \cup Clash(h, p, {}) /\ dirty' = dirty
    BY <1>3 DEF RestoreMove
  <2>2. DiskOK'
    <3>1. Lies(Laid(p, tree)) /\ Lies(Nothing)
      <4>1. Lies(Nothing)
        BY DEF Lies, Nothing
      <4> QED
        BY <1>2, <4>1, LaidLies DEF Typed, DiskOK
    <3>2. trash' = [k \in Keys |-> trash'[k]]
      BY <2>1 DEF Typed, DiskOK
    <3>3. \A k \in Keys : Lies(trash'[k])
      BY <2>1, <3>1 DEF Typed, DiskOK
    <3>4. Lies(content') /\ removing' \subseteq Seq(Names)
      BY <1>1, <2>1, <3>1 DEF Typed, DiskOK
    <3> QED
      BY <3>2, <3>3, <3>4 DEF DiskOK, Lies
  <2>3. NotesOK'
    BY <1>2, <2>1, ClashIn DEF Typed, NotesOK
  <2>4. T \subseteq Present /\ T \subseteq Ids
    BY <1>2, <1>3, TreeIn, RowsAre DEF Typed
  <2>5. PICK X : X = T
    OBVIOUS
  <2>11. PICK new \in Moves(h, X \ {i}) :
            op' = [op EXCEPT ![h].pc = "commit", ![h].writes = Restored(h, X, new),
                             ![h].unbin = {i}, ![h].risk = X, ![h].touched = TRUE]
    BY <2>1, <2>5
  <2>6. PICK w : w = Restored(h, X, new)
    OBVIOUS
  <2>7. w \in Writes
    BY <1>2, <1>3, <2>4, <2>5, <2>6, RestoredAre
  <2>8. PICK r : r = [op[h] EXCEPT !.pc = "commit", !.writes = w, !.unbin = {i}, !.risk = X, !.touched = TRUE]
    OBVIOUS
  <2>9. JobOK(r)
    <3>1. X \subseteq Ids
      BY <2>4, <2>5
    <3>2. r \in Job
      BY <1>2, <2>7, <2>8, <3>1 DEF JobOK, Job, Phases
    <3> QED
      BY <1>2, <2>8, <3>2 DEF JobOK
  <2>10. op' = [op EXCEPT ![h] = r]
    BY <2>6, <2>8, <2>11
  <2> QED
    BY <1>1, <2>2, <2>3, <2>9, <2>10, JobStep DEF Typed
<1>4. CASE ~ok
  <2>1. Abort(h) /\ UNCHANGED <<content, trash>>
    BY <1>4 DEF RestoreMove
  <2> QED
    BY <1>1, <2>1, AbortStep, Same DEF Typed
<1> QED
  BY <1>3, <1>4

\* Beginning to delete for good keeps the types.
LEMMA ForgetBeginTyped ==
  ASSUME Typed, NEW h \in Handlers, NEW i \in Ids, ForgetBegin(h, i)
  PROVE  Typed'
<1>1. TablesOK' /\ DiskOK' /\ NotesOK' /\ nextRow' = nextRow /\ nextKey' = nextKey
  BY Same DEF ForgetBegin, aside
<1>2. rows[i] \in FullRow
  BY RowsAre DEF Typed, ForgetBegin
<1>3. bins[i] \in Keys /\ rows[i].file \in BOOLEAN
  BY <1>2 DEF ForgetBegin, BinRow, Typed, TablesOK, Keys, FullRow
<1>4. PICK r : r = [Idle EXCEPT !.kind = "forget", !.pc = "move", !.fs = i,
                                !.key = bins[i], !.keep = rows[i].file]
  OBVIOUS
<1>5. JobOK(r)
  <2>1. Idle \in Job
    BY IdleOK DEF JobOK
  <2>2. i \in 0 .. MaxRows /\ bins[i] \in 0 .. MaxKeys
    BY <1>3, BoundsAssumption DEF Ids, Keys
  <2>3. r \in Job
    BY <1>3, <1>4, <2>1, <2>2 DEF Job, Kinds, Phases
  <2>4. r.kind = "forget" /\ r.fs = i /\ r.key = bins[i]
    BY <1>4 DEF Idle
  <2> QED
    BY <1>3, <2>3, <2>4 DEF JobOK
<1>6. op' = [op EXCEPT ![h] = r]
  BY <1>4 DEF ForgetBegin
<1> QED
  BY <1>1, <1>5, <1>6, JobStep DEF Typed

\* Deleting for good keeps the types.
LEMMA ForgetMoveTyped ==
  ASSUME Typed, NEW h \in Handlers, ForgetMove(h)
  PROVE  Typed'
<1> DEFINE i == op[h].fs
           k == op[h].key
           D == IF op[h].keep THEN {i} ELSE Tree(i, TRUE)
           ok == /\ i \in Present \ Live /\ bins[i] = k /\ trash[k] # Nothing
                 /\ \A j \in D : IF j = i THEN ~rows[i].enc ELSE ~Referred(j)
<1>1. TablesOK' /\ nextRow' = nextRow /\ nextKey' = nextKey /\ UNCHANGED <<content, removing>>
  BY Same DEF ForgetMove, aside
<1>2. JobOK(op[h]) /\ i \in Ids /\ k \in Keys
  BY JobIs DEF ForgetMove, At, JobOK
<1>3. CASE ok
  <2>1. /\ trash' = [trash EXCEPT ![k] = Nothing]
        /\ op' = [op EXCEPT ![h].pc = "commit", ![h].unbin = {i}, ![h].risk = D,
                            ![h].writes = [j \in D |-> None], ![h].touched = TRUE]
        /\ UNCHANGED <<astray, dirty>>
    BY <1>3 DEF ForgetMove
  <2>2. DiskOK'
    <3>1. Lies(Nothing)
      BY DEF Lies, Nothing
    <3>2. trash' = [x \in Keys |-> trash'[x]] /\ \A x \in Keys : Lies(trash'[x])
      BY <2>1, <3>1 DEF Typed, DiskOK
    <3>3. Lies(content') /\ removing' \subseteq Seq(Names)
      BY <1>1 DEF Typed, DiskOK
    <3> QED
      BY <3>2, <3>3 DEF DiskOK, Lies
  <2>3. D \subseteq Ids
    BY <1>2, TreeIn, RowsAre DEF Typed
  <2>4. PICK X : X = D
    OBVIOUS
  <2>5. PICK w : w = [j \in X |-> None]
    OBVIOUS
  <2>6. w \in Writes /\ X \subseteq Ids
    BY <2>3, <2>4, <2>5, WritesAre
  <2>7. PICK r : r = [op[h] EXCEPT !.pc = "commit", !.unbin = {i}, !.risk = X, !.writes = w, !.touched = TRUE]
    OBVIOUS
  <2>8. JobOK(r)
    <3>1. r \in Job
      BY <1>2, <2>6, <2>7 DEF JobOK, Job, Phases
    <3> QED
      BY <1>2, <2>7, <3>1 DEF JobOK
  <2>9. op' = [op EXCEPT ![h] = r]
    BY <2>1, <2>4, <2>5, <2>7
  <2> QED
    BY <1>1, <2>1, <2>2, <2>8, <2>9, JobStep, Same DEF Typed
<1>4. CASE ~ok
  <2>1. Abort(h) /\ trash' = trash
    BY <1>4 DEF ForgetMove
  <2> QED
    BY <1>1, <2>1, AbortStep, Same DEF Typed
<1> QED
  BY <1>3, <1>4

\* Cleaning up keeps the types.
LEMMA CleanUpTyped ==
  ASSUME Typed, NEW h \in Handlers, CleanUp(h)
  PROVE  Typed'
<1>1. TablesOK' /\ NotesOK' /\ nextRow' = nextRow /\ nextKey' = nextKey
  BY Same DEF CleanUp, aside
<1>2. DiskOK'
  BY DEF CleanUp, Typed, DiskOK, Lies, Nothing
<1>3. Present \subseteq Ids
  BY DEF Present
<1>4. PICK w : w = [i \in Present |-> None]
  OBVIOUS
<1>5. w \in Writes
  BY <1>3, <1>4, WritesAre
<1>6. PICK r : r = [Idle EXCEPT !.kind = "clean", !.pc = "commit", !.unbin = Ids,
                                !.writes = w, !.risk = Present, !.touched = TRUE]
  OBVIOUS
<1>7. JobOK(r)
  <2>1. Idle \in Job
    BY IdleOK DEF JobOK
  <2>2. r \in Job
    BY <1>3, <1>5, <1>6, <2>1 DEF Job, Kinds, Phases
  <2>3. r.kind = "clean"
    BY <1>6 DEF Idle
  <2> QED
    BY <2>2, <2>3 DEF JobOK
<1>8. op' = [op EXCEPT ![h] = r]
  BY <1>4, <1>6 DEF CleanUp
<1> QED
  BY <1>1, <1>2, <1>7, <1>8, JobStep DEF Typed

\* Failing keeps the types.
LEMMA FailTyped ==
  ASSUME Typed, NEW h \in Handlers, Fail(h)
  PROVE  Typed'
BY AbortStep, Same DEF Fail, aside, Typed

\* Every step keeps the types.
LEMMA NextTyped == Typed /\ [Next]_vars => Typed'
<1> SUFFICES ASSUME Typed, [Next]_vars PROVE Typed'
  OBVIOUS
<1>1. ASSUME NEW h \in Handlers, NEW p \in 0 .. MaxRows, NEW keep \in BOOLEAN,
             NEW n \in FileNamesSent, UploadBegin(h, p, n, keep)
      PROVE  Typed'
  BY <1>1, SentNames, CreationStep DEF UploadBegin
<1>2. ASSUME NEW h \in Handlers, NEW p \in 0 .. MaxRows, NEW keep \in BOOLEAN,
             NEW n \in FolderNamesSent, FolderBegin(h, p, n, keep)
      PROVE  Typed'
  BY <1>2, SentNames, CreationStep DEF FolderBegin
<1>3. ASSUME NEW h \in Handlers, NEW i \in Ids,
             EncryptBegin(h, i) \/ BinBegin(h, i) \/ ForgetBegin(h, i)
      PROVE  Typed'
  BY <1>3, EncryptBeginTyped, BinBeginTyped, ForgetBeginTyped
<1>4. ASSUME NEW h \in Handlers, NEW i \in Ids, NEW q \in 0 .. MaxRows, RestoreBegin(h, i, q)
      PROVE  Typed'
  BY <1>4, RestoreBeginTyped
<1>5. ASSUME NEW h \in Handlers, CleanUp(h) \/ Fail(h) PROVE Typed'
  BY <1>5, CleanUpTyped, FailTyped
<1>6. ASSUME NEW h \in Handlers, Upload(h) PROVE Typed'
  <2>1. CASE UploadFind(h)
    BY <2>1, FindTyped DEF UploadFind, Kinds, Phases
  <2>2. CASE UploadCommit(h)
    BY <2>2, InsertTyped DEF UploadCommit, At
  <2> QED
    BY <1>6, <2>1, <2>2, UploadQuotaTyped, MatchTyped, NumberTyped, UploadReplaceTyped, UploadWriteTyped
    DEF Upload
<1>7. ASSUME NEW h \in Handlers, MakeFolder(h) PROVE Typed'
  <2>1. CASE FolderFind(h)
    BY <2>1, FindTyped DEF FolderFind, Kinds, Phases
  <2>2. CASE FolderCommit(h)
    BY <2>2, InsertTyped DEF FolderCommit, At
  <2> QED
    BY <1>7, <2>1, <2>2, MatchTyped, NumberTyped, FolderDeleteTyped, FolderRemoveTyped, FolderWriteTyped
    DEF MakeFolder
<1>8. ASSUME NEW h \in Handlers, Encrypt(h) \/ ToBin(h) PROVE Typed'
  BY <1>8, EncryptIssueTyped, EncryptWriteTyped, BinFlipTyped, BinMoveTyped, BinInsertTyped
  DEF Encrypt, ToBin
<1>9. ASSUME NEW h \in Handlers, RestoreMove(h) \/ ForgetMove(h) \/ Commit(h) PROVE Typed'
  BY <1>9, RestoreMoveTyped, ForgetMoveTyped, CommitTyped
<1>10. ASSUME NEW p \in removing, RemoveOld(p) PROVE Typed'
  BY <1>10, RemoveOldTyped
<1>11. CASE UNCHANGED vars
  BY <1>11, Same DEF vars, disk, aside, Typed
<1> QED
  BY <1>1, <1>2, <1>3, <1>4, <1>5, <1>6, <1>7, <1>8, <1>9, <1>10, <1>11 DEF Next, Step

\* The types hold after any sequence of requests.
LEMMA AlwaysTyped == Spec => []Typed
BY InitTyped, NextTyped, PTL DEF Spec

-----------------------------------------------------------------------------
(* What a step of a request does to the tables and to what it will write.  *)

\* It leaves the other requests alone.
Others(h) == \A g \in Handlers \ {h} : op'[g] = op[g]

\* A request that will insert a row.
Maker(j) == j.kind \in {"upload", "folder"}

\* It has found what it replaces.
Found(h) ==
    LET v == op'[h].victim
    IN /\ Maker(op[h]) /\ v \in Live /\ UNCHANGED <<rows, bins>>
       /\ rows[v].file = (op[h].kind = "upload") /\ rows[v].path = op[h].path

\* It leaves its first phases, each for the reason there is.
Onward(h) ==
    /\ op'[h].pc # "quota" /\ op[h].pc # "number"
    /\ op[h].pc = "quota" => WithinLimit(1)
    /\ op'[h].pc \in {"match", "number"} => op[h].pc = "match" \/ op[h].keep
    /\ op[h].pc = "match" /\ op'[h].pc = "write" => Maker(op[h]) /\ Asked(h) \notin Seen(h)

\* The request goes on, with what it began with.
GoesOn(h) ==
    LET j == op[h]
        k == op'[h]
    IN /\ k.kind = j.kind /\ k.fs = j.fs /\ k.parent = j.parent /\ k.path = j.path
       /\ k.extra = j.extra /\ k.keep = j.keep /\ k.old = j.old /\ k.depth = j.depth
       /\ k.root = j.root /\ (k.victim = j.victim \/ Found(h)) /\ Onward(h)

\* Its transaction writes nothing in this step.
SameWrites(h) == op'[h].writes = op[h].writes /\ op'[h].unbin = op[h].unbin

Ends(h) == op'[h] = Idle

\* The kinds of step.  A request begins, looking at the rows: ...
Starts(h, kind) ==
    /\ MayStart(h, kind) /\ op'[h].kind = kind /\ op'[h].victim = 0
    /\ UNCHANGED <<rows, bins>>

Makes(h) ==
    /\ nextRow \in Ids /\ nextRow' = nextRow + 1
    /\ \E kind \in {"upload", "folder"}, p \in 0 .. MaxRows, name \in Names, keep \in BOOLEAN :
         /\ Starts(h, kind) /\ ParentOk(p) /\ Made(op'[h], kind, p, name, keep)
         /\ kind = "folder" /\ keep => name.ext = ""

StartsEncrypt(h) ==
    /\ Starts(h, "encrypt") /\ WithinLimit(1)
    /\ LET j == op'[h]
       IN /\ j.fs \in Live /\ ~Folder(j.fs) /\ ~rows[j.fs].enc
          /\ j.path = Encrypted(rows[j.fs].path)
          /\ j.extra = rows[j.fs].size + 1 /\ j.writes = Nothing

StartsRestore(h) ==
    /\ Starts(h, "restore")
    /\ LET j == op'[h]
           i == j.fs
           q == j.parent
       IN /\ i \in Present \ Live /\ ParentOk(q)
          /\ j.path = PathOf(q) \o <<Name(i)>> /\ j.old = rows[i].path /\ j.keep = rows[i].file
          /\ j.depth = IF q = 0 THEN 0 ELSE rows[q].depth + 1
          /\ j.writes = Nothing

StartsOther(h) ==
    /\ Starts(h, "bin") \/ Starts(h, "forget")
    /\ op'[h].writes = Nothing

StartsClean(h) ==
    /\ Starts(h, "clean") /\ \A i \in Present : Free(h, i)
    /\ op'[h].writes = [i \in Present |-> None] /\ op'[h].unbin = Ids

\* ... it goes on or ends, and leaves the rows alone; ...
Goes(h) == GoesOn(h) /\ SameWrites(h) /\ UNCHANGED <<rows, bins>>
GivesUp(h) == Ends(h) /\ UNCHANGED <<rows, bins>>

\* ... it takes another title than was asked for; ...
Renames(h) ==
    LET j == op[h]
        k == op'[h]
    IN /\ Maker(j) /\ j.pc = "number" /\ UNCHANGED <<rows, bins>> /\ j.path \in Paths
       /\ k = [j EXCEPT !.pc = "write", !.path = Titled(j.path, NextTitle(Seen(h), Asked(h)))]

\* ... an upload deletes, in its transaction, the file it replaces; ...
Replaces(h) ==
    LET v == op[h].victim
    IN /\ op[h].kind = "upload" /\ GoesOn(h) /\ UNCHANGED <<rows, bins>>
       /\ v \in Live /\ Unhung(h, {v}) /\ Free(h, v) /\ ~Referred(v)
       /\ op'[h].writes = [x \in {v} |-> None] /\ op'[h].unbin = op[h].unbin

\* ... an upload or a new folder commits, ...
Inserts(h) ==
    LET file == op[h].kind = "upload"
    IN /\ Maker(op[h]) /\ Ends(h) /\ op[h].parent \in (Present \ DOMAIN op[h].writes) \cup {0}
       /\ op[h].pc = "commit"
       /\ rows' = [Without(rows, DOMAIN op[h].writes) EXCEPT ![op[h].fs] = NewRow(h, file)]
       /\ bins' = bins

\* ... a new folder deletes at once all that it replaces; ...
Deletes(h) ==
    /\ op[h].kind = "folder" /\ GoesOn(h) /\ SameWrites(h)
    /\ \E v \in 0 .. MaxRows : /\ rows' = Without(rows, Tree(v, FALSE))
                               /\ Unhung(h, Tree(v, FALSE))
                               /\ \A i \in Tree(v, FALSE) : Free(h, i) /\ ~Referred(i)
    /\ bins' = bins

\* ... an encryption writes the row in its transaction; ...
Issues(h) ==
    LET i == op[h].fs
    IN /\ op[h].kind = "encrypt" /\ GoesOn(h) /\ UNCHANGED <<rows, bins>> /\ Free(h, i)
       /\ op'[h].unbin = op[h].unbin
       /\ op'[h].writes =
             IF i \notin Live \/ rows[i].enc THEN Nothing
             ELSE [x \in {i} |-> [rows[i] EXCEPT !.enc = TRUE, !.size = op[h].extra, !.path = op[h].path]]

\* ... a tree is flagged as in the bin, and then a row of the bin refers to it; ...
Flips(h) ==
    LET T == Tree(op[h].fs, FALSE)
    IN /\ op[h].kind = "bin" /\ GoesOn(h) /\ SameWrites(h) /\ op[h].fs \in Ids
       /\ rows' = [i \in Ids |-> IF i \in T THEN [rows[i] EXCEPT !.inBin = TRUE] ELSE rows[i]]
       /\ bins' = bins

Bins(h) ==
    LET i == op[h].fs
    IN /\ op[h].kind = "bin" /\ Ends(h) /\ rows' = rows
       /\ i \in Present /\ Free(h, i) /\ bins' = [bins EXCEPT ![i] = op[h].key]

\* ... restoring and deleting for good write in their transactions; ...
Restores(h) ==
    LET i == op[h].fs
        T == IF op[h].keep THEN {i} ELSE Tree(i, TRUE)
    IN /\ op[h].kind = "restore" /\ GoesOn(h) /\ UNCHANGED <<rows, bins>>
       /\ i \in Present \ Live /\ op[h].parent \in Present \cup {0}
       /\ Stands(h, op[h].parent) /\ \A j \in T : Free(h, j)
       /\ \E new \in Moves(h, T \ {i}) : op'[h].writes = Restored(h, T, new)
       /\ op'[h].unbin = {i} /\ (garbled' \/ T = {i} \/ ~Patterned(op[h].path))

Forgets(h) ==
    LET i == op[h].fs
        D == IF op[h].keep THEN {i} ELSE Tree(i, TRUE)
    IN /\ op[h].kind = "forget" /\ GoesOn(h) /\ UNCHANGED <<rows, bins>>
       /\ i \in Present \ Live /\ Unhung(h, D)
       /\ \A j \in D : Free(h, j) /\ (j # i => ~Referred(j))
       /\ op'[h].writes = [j \in D |-> None] /\ op'[h].unbin = {i}

\* ... and what a transaction wrote comes true.
Commits(h) ==
    /\ ~Maker(op[h]) /\ Ends(h)
    /\ rows' = Merged(h) /\ bins' = [i \in Ids |-> IF i \in op[h].unbin THEN 0 ELSE bins[i]]

Works(h) ==
    \/ Makes(h)
    \/ /\ nextRow' = nextRow
       /\ \/ StartsEncrypt(h) \/ StartsRestore(h) \/ StartsOther(h) \/ StartsClean(h)
          \/ Goes(h) \/ GivesUp(h) \/ Renames(h)
          \/ Replaces(h) \/ Inserts(h) \/ Deletes(h) \/ Issues(h) \/ Flips(h) \/ Bins(h)
          \/ Restores(h) \/ Forgets(h) \/ Commits(h)

Notes ==
    /\ astray \subseteq astray' /\ (garbled => garbled')
    /\ UNCHANGED <<rows, bins>> \/ Odd(rows, bins)' \subseteq astray'

\* A step that gives one request another job leaves the others alone.
LEMMA Only ==
  ASSUME JobsOK, NEW h \in Handlers, NEW r, op' = [op EXCEPT ![h] = r]
  PROVE  op'[h] = r /\ Others(h)
BY DEF JobsOK, Others

\* Giving up.
LEMMA AbortWorks ==
  ASSUME Typed, NEW h \in Handlers, Abort(h), UNCHANGED <<rows, bins, nextRow, garbled>>
  PROVE  Others(h) /\ Works(h) /\ Notes
<1>1. op'[h] = Idle /\ Others(h)
  BY Only DEF Abort, Done, Typed
<1>2. GivesUp(h)
  BY <1>1 DEF GivesUp, Ends
<1>3. Notes
  BY DEF Abort, Notes
<1> QED
  BY <1>1, <1>2, <1>3 DEF Works

\* A step that only moves the request to another phase.
LEMMA GoesWorks ==
  ASSUME Typed, NEW h \in Handlers, NEW r, NEW pc,
         \E risk, touched : r = [op[h] EXCEPT !.pc = pc, !.risk = risk, !.touched = touched],
         op' = [op EXCEPT ![h] = r], op'[h].pc = pc => Onward(h)
  PROVE  Others(h) /\ GoesOn(h) /\ SameWrites(h)
<1>1. op'[h] = r /\ Others(h)
  BY Only DEF Typed
<1>2. op[h] \in Job
  BY JobIs
<1>3. PICK risk, touched : r = [op[h] EXCEPT !.pc = pc, !.risk = risk, !.touched = touched]
  OBVIOUS
<1>4. /\ r.kind = op[h].kind /\ r.fs = op[h].fs /\ r.parent = op[h].parent /\ r.path = op[h].path
      /\ r.extra = op[h].extra /\ r.keep = op[h].keep /\ r.old = op[h].old /\ r.depth = op[h].depth
      /\ r.root = op[h].root /\ r.victim = op[h].victim
      /\ r.writes = op[h].writes /\ r.unbin = op[h].unbin /\ r.pc = pc
  BY <1>2, <1>3 DEF Job
<1>5. Onward(h)
  BY <1>1, <1>4
<1> QED
  BY <1>1, <1>4, <1>5 DEF GoesOn, SameWrites

\* Beginning an upload or a new folder, as one of the kinds of step above.
LEMMA MakesWorks ==
  ASSUME Typed, NEW h \in Handlers, NEW kind \in {"upload", "folder"}, NEW p \in 0 .. MaxRows,
         NEW name \in Names, NEW keep \in BOOLEAN,
         Creation(h, kind, IF kind = "upload" THEN "quota" ELSE Naming(keep), p, name, keep,
                  IF kind = "upload" THEN 1 ELSE 0),
         kind = "folder" /\ keep => name.ext = ""
  PROVE  Others(h) /\ Works(h) /\ Notes
<1>1. Made(op'[h], kind, p, name, keep) /\ Others(h)
  BY CreationStep DEF Others
<1>2. Starts(h, kind) /\ ParentOk(p) /\ nextRow \in Ids /\ nextRow' = nextRow + 1
  BY <1>1 DEF Creation, Starts, Made
<1>3. Makes(h)
  BY <1>1, <1>2 DEF Makes
<1>4. Notes
  BY DEF Creation, Notes
<1> QED
  BY <1>1, <1>3, <1>4 DEF Works

\* Beginning to encrypt, as one of the kinds of step above.
LEMMA EncryptBeginWorks ==
  ASSUME Typed, NEW h \in Handlers, NEW i \in Ids, EncryptBegin(h, i)
  PROVE  Others(h) /\ Works(h) /\ Notes
<1>1. PICK e : e = Encrypted(rows[i].path)
  OBVIOUS
<1>2. PICK r : r = [Idle EXCEPT !.kind = "encrypt", !.pc = "issue", !.fs = i, !.path = e,
                                !.old = rows[i].path, !.extra = rows[i].size + 1]
  OBVIOUS
<1>3. /\ r.kind = "encrypt" /\ r.fs = i /\ r.path = e /\ r.extra = rows[i].size + 1
      /\ r.writes = Nothing /\ r.victim = 0
  BY <1>2 DEF Idle
<1>4. op'[h] = r /\ Others(h)
  BY <1>1, <1>2, Only DEF EncryptBegin, Typed
<1>5. Starts(h, "encrypt")
  BY <1>3, <1>4 DEF Starts, EncryptBegin
<1>6. StartsEncrypt(h)
  BY <1>1, <1>3, <1>4, <1>5 DEF StartsEncrypt, EncryptBegin
<1> QED
  BY <1>4, <1>6 DEF Works, Notes, EncryptBegin, aside

\* Beginning to move to the bin, as one of the kinds of step above.
LEMMA BinBeginWorks ==
  ASSUME Typed, NEW h \in Handlers, NEW i \in Ids, BinBegin(h, i)
  PROVE  Others(h) /\ Works(h) /\ Notes
<1>1. PICK r : r = [Idle EXCEPT !.kind = "bin", !.pc = "flip", !.fs = i,
                                !.path = rows[i].path, !.keep = rows[i].file, !.key = nextKey]
  OBVIOUS
<1>2. r.kind = "bin" /\ r.writes = Nothing /\ r.victim = 0
  BY <1>1 DEF Idle
<1>3. op'[h] = r /\ Others(h)
  BY <1>1, Only DEF BinBegin, Typed
<1>4. StartsOther(h)
  BY <1>2, <1>3 DEF Starts, StartsOther, BinBegin
<1> QED
  BY <1>3, <1>4 DEF Works, Notes, BinBegin

\* Beginning to restore, as one of the kinds of step above.
LEMMA RestoreBeginWorks ==
  ASSUME Typed, NEW h \in Handlers, NEW i \in Ids, NEW q \in 0 .. MaxRows, RestoreBegin(h, i, q)
  PROVE  Others(h) /\ Works(h) /\ Notes
<1>1. PICK x : x = PathOf(q) \o <<Name(i)>>
  OBVIOUS
<1>2. PICK w : w = IF q = 0 THEN 0 ELSE rows[q].root
  OBVIOUS
<1>3. PICK d : d = IF q = 0 THEN 0 ELSE rows[q].depth + 1
  OBVIOUS
<1>4. PICK r : r = [Idle EXCEPT
                    !.kind = "restore", !.pc = "move", !.fs = i, !.parent = q, !.root = w,
                    !.path = x, !.old = rows[i].path, !.key = bins[i], !.keep = rows[i].file,
                    !.depth = d]
  OBVIOUS
<1>5. /\ r.kind = "restore" /\ r.fs = i /\ r.parent = q /\ r.path = x /\ r.old = rows[i].path
      /\ r.keep = rows[i].file /\ r.depth = d /\ r.writes = Nothing /\ r.victim = 0
  BY <1>4 DEF Idle
<1>6. op'[h] = r /\ Others(h)
  BY <1>1, <1>2, <1>3, <1>4, Only DEF RestoreBegin, Typed
<1>7. Starts(h, "restore")
  BY <1>5, <1>6 DEF Starts, RestoreBegin
<1>8. StartsRestore(h)
  BY <1>1, <1>3, <1>5, <1>6, <1>7 DEF StartsRestore, RestoreBegin
<1> QED
  BY <1>6, <1>8 DEF Works, Notes, RestoreBegin, aside

\* Beginning to delete for good, as one of the kinds of step above.
LEMMA ForgetBeginWorks ==
  ASSUME Typed, NEW h \in Handlers, NEW i \in Ids, ForgetBegin(h, i)
  PROVE  Others(h) /\ Works(h) /\ Notes
<1>1. PICK r : r = [Idle EXCEPT !.kind = "forget", !.pc = "move", !.fs = i,
                                !.key = bins[i], !.keep = rows[i].file]
  OBVIOUS
<1>2. r.kind = "forget" /\ r.writes = Nothing /\ r.victim = 0
  BY <1>1 DEF Idle
<1>3. op'[h] = r /\ Others(h)
  BY <1>1, Only DEF ForgetBegin, Typed
<1>4. StartsOther(h)
  BY <1>2, <1>3 DEF Starts, StartsOther, ForgetBegin
<1> QED
  BY <1>3, <1>4 DEF Works, Notes, ForgetBegin, aside

\* Cleaning up, as one of the kinds of step above.
LEMMA CleanUpWorks ==
  ASSUME Typed, NEW h \in Handlers, CleanUp(h)
  PROVE  Others(h) /\ Works(h) /\ Notes
<1>1. PICK w : w = [i \in Present |-> None]
  OBVIOUS
<1>2. PICK r : r = [Idle EXCEPT !.kind = "clean", !.pc = "commit", !.unbin = Ids,
                                !.writes = w, !.risk = Present, !.touched = TRUE]
  OBVIOUS
<1>3. r.kind = "clean" /\ r.unbin = Ids /\ r.writes = w /\ r.victim = 0
  BY <1>2 DEF Idle
<1>4. op'[h] = r /\ Others(h)
  BY <1>1, <1>2, Only DEF CleanUp, Typed
<1>5. StartsClean(h)
  BY <1>1, <1>3, <1>4 DEF Starts, StartsClean, CleanUp
<1> QED
  BY <1>4, <1>5 DEF Works, Notes, CleanUp, aside

\* Looking for what is at the path, as one of the kinds of step above.
LEMMA FindWorks ==
  ASSUME Typed, NEW h \in Handlers, NEW kind \in {"upload", "folder"}, NEW after, Find(h, kind, after),
         after \notin {"quota", "match", "number"}
  PROVE  Others(h) /\ Works(h) /\ Notes
<1>1. /\ op[h].kind = kind /\ UNCHANGED <<rows, bins, nextRow, astray, garbled>>
      /\ op[h].pc = "find"
  BY DEF Find, At, aside
<1>2. CASE Goto(h, "write")
  <2>1. PICK r : r = [op[h] EXCEPT !.pc = "write"]
    OBVIOUS
  <2>2. r = [op[h] EXCEPT !.pc = "write", !.risk = op[h].risk, !.touched = op[h].touched]
    BY <2>1, JobIs DEF Job
  <2>3. op' = [op EXCEPT ![h] = r]
    BY <1>2, <2>1 DEF Goto
  <2>4. op'[h].pc = "write" => Onward(h)
    BY <1>1 DEF Onward
  <2>5. Others(h) /\ GoesOn(h) /\ SameWrites(h)
    BY <2>2, <2>3, <2>4, GoesWorks
  <2> QED
    BY <1>1, <2>5 DEF Works, Goes, Notes
<1>3. ASSUME NEW v \in Live, rows[v].file = (kind = "upload"), rows[v].path = op[h].path,
             op' = [op EXCEPT ![h].victim = v, ![h].pc = after]
      PROVE  Others(h) /\ Works(h) /\ Notes
  <2>1. PICK r : r = [op[h] EXCEPT !.victim = v, !.pc = after]
    OBVIOUS
  <2>2. /\ r.kind = op[h].kind /\ r.fs = op[h].fs /\ r.parent = op[h].parent /\ r.path = op[h].path
        /\ r.extra = op[h].extra /\ r.keep = op[h].keep /\ r.old = op[h].old /\ r.depth = op[h].depth
        /\ r.root = op[h].root /\ r.victim = v /\ r.pc = after
        /\ r.writes = op[h].writes /\ r.unbin = op[h].unbin
    BY <2>1, JobIs DEF Job
  <2>3. op'[h] = r /\ Others(h)
    <3>1. op' = [op EXCEPT ![h] = r]
      BY <1>3, <2>1
    <3> QED
      BY <3>1, Only DEF Typed
  <2>4. Found(h)
    BY <1>1, <1>3, <2>2, <2>3 DEF Found, Maker
  <2>5. Goes(h)
    BY <1>1, <2>2, <2>3, <2>4 DEF Goes, GoesOn, SameWrites, Onward
  <2> QED
    BY <1>1, <2>3, <2>5 DEF Works, Notes
<1> QED
  BY <1>1, <1>2, <1>3 DEF Find

\* Deleting the file that an upload replaces, as one of the kinds of step above.
LEMMA UploadReplaceWorks ==
  ASSUME Typed, NEW h \in Handlers, UploadReplace(h)
  PROVE  Others(h) /\ Works(h) /\ Notes
<1> DEFINE p == op[h].path
           v == op[h].victim
           ok == v \in Live /\ ~Referred(v) /\ Exists(Front(p))
<1>1. /\ op[h].kind = "upload" /\ UNCHANGED <<rows, bins, nextRow, garbled>> /\ Free(h, v)
      /\ Unhung(h, {v}) /\ op[h].pc = "replace"
  BY DEF UploadReplace, At, aside
<1>2. CASE ok
  <2>1. PICK w : w = [x \in {v} |-> None]
    OBVIOUS
  <2>2. PICK r : r = [op[h] EXCEPT !.pc = "write", !.writes = w, !.risk = {v}, !.touched = TRUE]
    OBVIOUS
  <2>3. /\ r.kind = op[h].kind /\ r.fs = op[h].fs /\ r.parent = op[h].parent /\ r.path = op[h].path
        /\ r.extra = op[h].extra /\ r.keep = op[h].keep /\ r.old = op[h].old /\ r.depth = op[h].depth
        /\ r.root = op[h].root /\ r.victim = op[h].victim /\ r.pc = "write"
        /\ r.writes = w /\ r.unbin = op[h].unbin
    BY <2>2, JobIs DEF Job
  <2>4. op' = [op EXCEPT ![h] = r]
    BY <1>2, <2>1, <2>2 DEF UploadReplace
  <2>5. op'[h] = r /\ Others(h)
    BY <2>4, Only DEF Typed
  <2>6. Replaces(h)
    BY <1>1, <1>2, <2>1, <2>3, <2>5 DEF Replaces, GoesOn, Onward
  <2>7. Notes
    BY <1>1, <1>2 DEF UploadReplace, Notes
  <2> QED
    BY <1>1, <2>5, <2>6, <2>7 DEF Works
<1>3. CASE ~ok
  <2>1. Abort(h)
    BY <1>3 DEF UploadReplace
  <2> QED
    BY <1>1, <2>1, AbortWorks
<1> QED
  BY <1>2, <1>3

\* A phase of a request that leaves the tables alone, and may be its last.
LEMMA MovesWorks ==
  ASSUME Typed, NEW h \in Handlers, UNCHANGED <<rows, bins, nextRow, garbled>>,
         astray \subseteq astray', NEW pc, NEW touched, op'[h].pc = pc => Onward(h),
         op' = [op EXCEPT ![h].pc = pc, ![h].touched = touched] \/ Goto(h, pc)
  PROVE  Others(h) /\ Works(h) /\ Notes
<1>1. Others(h) /\ GoesOn(h) /\ SameWrites(h)
  <2>1. CASE op' = [op EXCEPT ![h].pc = pc, ![h].touched = touched]
    <3>1. PICK r : r = [op[h] EXCEPT !.pc = pc, !.touched = touched]
      OBVIOUS
    <3>2. r = [op[h] EXCEPT !.pc = pc, !.risk = op[h].risk, !.touched = touched]
      BY <3>1, JobIs DEF Job
    <3>3. op' = [op EXCEPT ![h] = r]
      BY <2>1, <3>1
    <3> QED
      BY <3>2, <3>3, GoesWorks
  <2>2. CASE Goto(h, pc)
    <3>1. PICK r : r = [op[h] EXCEPT !.pc = pc]
      OBVIOUS
    <3>2. r = [op[h] EXCEPT !.pc = pc, !.risk = op[h].risk, !.touched = op[h].touched]
      BY <3>1, JobIs DEF Job
    <3>3. op' = [op EXCEPT ![h] = r]
      BY <2>2, <3>1 DEF Goto
    <3> QED
      BY <3>2, <3>3, GoesWorks
  <2> QED
    BY <2>1, <2>2
<1> QED
  BY <1>1 DEF Works, Goes, Notes

\* Giving up, without more ado.
LEMMA DoneWorks ==
  ASSUME Typed, NEW h \in Handlers, Done(h), UNCHANGED <<rows, bins, nextRow, garbled>>,
         astray \subseteq astray'
  PROVE  Others(h) /\ Works(h) /\ Notes
<1>1. op'[h] = Idle /\ Others(h)
  BY Only DEF Done, Typed
<1> QED
  BY <1>1 DEF GivesUp, Ends, Works, Notes

\* Comparing with the limit, as one of the kinds of step above.
LEMMA UploadQuotaWorks ==
  ASSUME Typed, NEW h \in Handlers, UploadQuota(h)
  PROVE  Others(h) /\ Works(h) /\ Notes
<1>1. UNCHANGED <<rows, bins, nextRow, astray, garbled>> /\ op[h].pc = "quota"
  BY DEF UploadQuota, aside, At
<1>2. PICK pc : pc = Naming(op[h].keep)
  OBVIOUS
<1>3. CASE WithinLimit(1)
  <2>1. Goto(h, pc)
    BY <1>2, <1>3 DEF UploadQuota
  <2>2. op'[h].pc = pc => Onward(h)
    BY <1>1, <1>2, <1>3 DEF Onward, Naming
  <2> QED
    BY <1>1, <2>1, <2>2, MovesWorks
<1>4. CASE ~WithinLimit(1)
  <2>1. Done(h)
    BY <1>4 DEF UploadQuota
  <2> QED
    BY <1>1, <2>1, DoneWorks
<1> QED
  BY <1>3, <1>4

\* Looking for the title asked for, as one of the kinds of step above.
LEMMA MatchWorks ==
  ASSUME Typed, NEW h \in Handlers, NEW kind \in {"upload", "folder"}, Match(h, kind)
  PROVE  Others(h) /\ Works(h) /\ Notes
<1>1. UNCHANGED <<rows, bins, nextRow, astray, garbled>> /\ op[h].pc = "match" /\ Maker(op[h])
  BY DEF Match, aside, At, Maker
<1>2. PICK pc : pc = IF Asked(h) \in Seen(h) THEN "number" ELSE "write"
  OBVIOUS
<1>3. Goto(h, pc)
  BY <1>2 DEF Match
<1>4. op'[h].pc = pc => Onward(h)
  BY <1>1, <1>2 DEF Onward
<1> QED
  BY <1>1, <1>3, <1>4, MovesWorks

\* Numbering the title, as one of the kinds of step above.
LEMMA NumberWorks ==
  ASSUME Typed, NEW h \in Handlers, NEW kind \in {"upload", "folder"}, Number(h, kind)
  PROVE  Others(h) /\ Works(h) /\ Notes
<1>1. UNCHANGED <<rows, bins, nextRow, astray, garbled>> /\ op[h].pc = "number" /\ Maker(op[h])
  BY DEF Number, aside, At, Maker
<1>2. Renames(h) /\ Others(h)
  BY <1>1, NumberStep DEF Renames, Others
<1> QED
  BY <1>1, <1>2 DEF Works, Notes

\* A phase that works on the directories alone, as one of the kinds of step above.
LEMMA DiskWorks ==
  ASSUME Typed, NEW h \in Handlers,
         UploadWrite(h) \/ FolderRemove(h) \/ FolderWrite(h) \/ EncryptWrite(h) \/ BinMove(h)
  PROVE  Others(h) /\ Works(h) /\ Notes
<1>1. /\ UNCHANGED <<rows, bins, nextRow, garbled>>
      /\ op[h].pc \in {"write", "remove", "throw", "move"}
  BY DEF UploadWrite, FolderRemove, FolderWrite, EncryptWrite, BinMove, aside, At
<1>4. /\ op'[h].pc = "commit" => Onward(h)
      /\ op'[h].pc = "write" => Onward(h)
      /\ op'[h].pc = "insert" => Onward(h)
  BY <1>1 DEF Onward
<1>2. CASE Abort(h)
  BY <1>1, <1>2, AbortWorks
<1>3. CASE ~Abort(h)
  <2>1. CASE UploadWrite(h)
    <3>1. op' = [op EXCEPT ![h].pc = "commit", ![h].touched = TRUE] /\ astray \subseteq astray'
      BY <1>3, <2>1 DEF UploadWrite
    <3> QED
      BY <1>1, <1>4, <3>1, MovesWorks
  <2>2. CASE FolderRemove(h)
    <3>1. Goto(h, "write") /\ astray \subseteq astray'
      BY <1>3, <2>2 DEF FolderRemove
    <3> QED
      BY <1>1, <1>4, <3>1, MovesWorks
  <2>3. CASE FolderWrite(h)
    <3>1. op' = [op EXCEPT ![h].pc = "commit", ![h].touched = TRUE] /\ astray \subseteq astray'
      BY <1>3, <2>3 DEF FolderWrite
    <3> QED
      BY <1>1, <1>4, <3>1, MovesWorks
  <2>4. CASE EncryptWrite(h)
    <3>1. (Goto(h, "commit") \/ Done(h)) /\ astray \subseteq astray'
      BY <1>3, <2>4 DEF EncryptWrite
    <3> QED
      BY <1>1, <1>4, <3>1, MovesWorks, DoneWorks
  <2>5. CASE BinMove(h)
    <3>1. Goto(h, "insert") /\ astray \subseteq astray'
      BY <1>3, <2>5 DEF BinMove
    <3> QED
      BY <1>1, <1>4, <3>1, MovesWorks
  <2> QED
    BY <2>1, <2>2, <2>3, <2>4, <2>5
<1> QED
  BY <1>2, <1>3

\* Inserting the row that was made, as one of the kinds of step above.
LEMMA InsertWorks ==
  ASSUME Typed, NEW h \in Handlers, UploadCommit(h) \/ FolderCommit(h)
  PROVE  Others(h) /\ Works(h) /\ Notes
<1> DEFINE file == op[h].kind = "upload"
           p == op[h].parent
           R == [Without(rows, DOMAIN op[h].writes) EXCEPT ![op[h].fs] = NewRow(h, file)]
<1>1. Maker(op[h]) /\ Insert(h, file) /\ op[h].pc = "commit"
  BY DEF UploadCommit, FolderCommit, At, Maker
<1>2. nextRow' = nextRow /\ garbled' = garbled
  BY <1>1 DEF Insert, aside
<1>3. CASE p \in (Present \ DOMAIN op[h].writes) \cup {0}
  <2>1. Store(R, bins) /\ Done(h)
    BY <1>1, <1>3 DEF Insert
  <2>2. op'[h] = Idle /\ Others(h)
    BY <2>1, Only DEF Done, Typed
  <2>3. rows' = R /\ bins' = bins
    BY <2>1 DEF Store
  <2>4. Inserts(h)
    BY <1>1, <1>3, <2>2, <2>3 DEF Inserts, Ends
  <2>5. Notes
    BY <1>2, <2>1, <2>3 DEF Store, Notes
  <2> QED
    BY <1>2, <2>2, <2>4, <2>5 DEF Works
<1>4. CASE ~(p \in (Present \ DOMAIN op[h].writes) \cup {0})
  <2>1. Abort(h) /\ UNCHANGED <<rows, bins>>
    BY <1>1, <1>4 DEF Insert
  <2> QED
    BY <1>2, <2>1, AbortWorks
<1> QED
  BY <1>3, <1>4

\* Deleting the rows of the folder that is replaced, as one of the kinds of step above.
LEMMA FolderDeleteWorks ==
  ASSUME Typed, NEW h \in Handlers, FolderDelete(h)
  PROVE  Others(h) /\ Works(h) /\ Notes
<1> DEFINE v == op[h].victim
           D == Tree(v, FALSE)
<1>1. /\ op[h].kind = "folder" /\ nextRow' = nextRow /\ Unhung(h, D) /\ \A i \in D : Free(h, i)
      /\ garbled' = garbled /\ op[h].pc = "delete"
  BY DEF FolderDelete, At, aside
<1>2. CASE \E i \in D : Referred(i)
  <2>1. Abort(h) /\ UNCHANGED <<rows, bins>>
    BY <1>2 DEF FolderDelete
  <2> QED
    BY <1>1, <2>1, AbortWorks
<1>3. CASE ~(\E i \in D : Referred(i))
  <2>1. /\ Store(Without(rows, D), bins)
        /\ op' = [op EXCEPT ![h].pc = "remove", ![h].touched = TRUE]
    BY <1>3 DEF FolderDelete
  <2>2. PICK r : r = [op[h] EXCEPT !.pc = "remove", !.touched = TRUE]
    OBVIOUS
  <2>3. r = [op[h] EXCEPT !.pc = "remove", !.risk = op[h].risk, !.touched = TRUE]
    BY <2>2, JobIs DEF Job
  <2>4. op' = [op EXCEPT ![h] = r]
    BY <2>1, <2>2
  <2>5. Others(h) /\ GoesOn(h) /\ SameWrites(h)
    <3>1. op'[h].pc = "remove" => Onward(h)
      BY <1>1 DEF Onward
    <3> QED
      BY <2>3, <2>4, <3>1, GoesWorks
  <2>6. rows' = Without(rows, D) /\ bins' = bins
    BY <2>1 DEF Store
  <2>7. v \in 0 .. MaxRows
    BY DEF Typed, JobsOK, JobOK, Job
  <2>8. Deletes(h)
    BY <1>1, <1>3, <2>5, <2>6, <2>7 DEF Deletes
  <2>9. Notes
    BY <1>1, <2>1, <2>6 DEF Store, Notes
  <2> QED
    BY <1>1, <2>5, <2>8, <2>9 DEF Works
<1> QED
  BY <1>2, <1>3

\* Writing the encrypted row in the transaction, as one of the kinds of step above.
LEMMA EncryptIssueWorks ==
  ASSUME Typed, NEW h \in Handlers, EncryptIssue(h)
  PROVE  Others(h) /\ Works(h) /\ Notes
<1> DEFINE i == op[h].fs
           written == IF i \notin Live \/ rows[i].enc THEN Nothing
                      ELSE [x \in {i} |-> [rows[i] EXCEPT !.enc = TRUE, !.size = op[h].extra, !.path = op[h].path]]
           pc == IF i \in Live /\ ~rows[i].enc THEN "write" ELSE "throw"
<1>1. /\ op[h].kind = "encrypt" /\ Free(h, i) /\ UNCHANGED <<rows, bins, nextRow, astray, garbled>>
      /\ op[h].pc = "issue"
  BY DEF EncryptIssue, At, aside
<1>2. PICK w : w = written
  OBVIOUS
<1>3. PICK c : c = pc
  OBVIOUS
<1>4. PICK r : r = [op[h] EXCEPT !.pc = c, !.risk = {i}, !.touched = TRUE, !.writes = w]
  OBVIOUS
<1>5. /\ r.kind = op[h].kind /\ r.fs = op[h].fs /\ r.parent = op[h].parent /\ r.path = op[h].path
      /\ r.extra = op[h].extra /\ r.keep = op[h].keep /\ r.old = op[h].old /\ r.depth = op[h].depth
      /\ r.root = op[h].root /\ r.victim = op[h].victim
      /\ r.writes = w /\ r.unbin = op[h].unbin /\ r.pc \in {"write", "throw"}
  BY <1>3, <1>4, JobIs DEF Job
<1>6. op' = [op EXCEPT ![h] = r]
  BY <1>2, <1>3, <1>4 DEF EncryptIssue
<1>7. op'[h] = r /\ Others(h)
  BY <1>6, Only DEF Typed
<1>8. Issues(h)
  <2>1. GoesOn(h) /\ op'[h].unbin = op[h].unbin /\ op'[h].writes = w
    BY <1>1, <1>5, <1>7 DEF GoesOn, Onward
  <2> QED
    BY <1>1, <1>2, <2>1 DEF Issues
<1> QED
  BY <1>1, <1>7, <1>8 DEF Works, Notes

\* Flagging the rows, as one of the kinds of step above.
LEMMA BinFlipWorks ==
  ASSUME Typed, NEW h \in Handlers, BinFlip(h)
  PROVE  Others(h) /\ Works(h) /\ Notes
<1> DEFINE T == Tree(op[h].fs, FALSE)
           R == [i \in Ids |-> IF i \in T THEN [rows[i] EXCEPT !.inBin = TRUE] ELSE rows[i]]
<1>1. /\ op[h].kind = "bin" /\ op[h].fs \in Ids /\ nextRow' = nextRow /\ garbled' = garbled
      /\ op[h].pc = "flip"
  BY JobIs DEF BinFlip, At, aside, JobOK
<1>2. Store(R, bins)
  BY DEF BinFlip
<1>3. PICK X : X = T
  OBVIOUS
<1>4. PICK r : r = [op[h] EXCEPT !.pc = "move", !.risk = X, !.touched = TRUE]
  OBVIOUS
<1>5. op' = [op EXCEPT ![h] = r]
  BY <1>3, <1>4 DEF BinFlip
<1>6. Others(h) /\ GoesOn(h) /\ SameWrites(h)
  <2>1. op'[h].pc = "move" => Onward(h)
    BY <1>1 DEF Onward
  <2> QED
    BY <1>4, <1>5, <2>1, GoesWorks
<1>7. rows' = R /\ bins' = bins
  BY <1>2 DEF Store
<1>8. Flips(h)
  BY <1>1, <1>6, <1>7 DEF Flips
<1>9. Notes
  BY <1>1, <1>2, <1>7 DEF Store, Notes
<1> QED
  BY <1>1, <1>6, <1>8, <1>9 DEF Works

\* Inserting the row of the bin, as one of the kinds of step above.
LEMMA BinInsertWorks ==
  ASSUME Typed, NEW h \in Handlers, BinInsert(h)
  PROVE  Others(h) /\ Works(h) /\ Notes
<1> DEFINE i == op[h].fs
<1>1. op[h].kind = "bin" /\ Free(h, i) /\ nextRow' = nextRow /\ garbled' = garbled
  BY DEF BinInsert, At, aside
<1>2. CASE i \in Present /\ bins[i] = 0
  <2>1. Store(rows, [bins EXCEPT ![i] = op[h].key]) /\ Done(h)
    BY <1>2 DEF BinInsert
  <2>2. op'[h] = Idle /\ Others(h)
    BY <2>1, Only DEF Done, Typed
  <2>3. rows' = rows /\ bins' = [bins EXCEPT ![i] = op[h].key]
    BY <2>1 DEF Store
  <2>4. Bins(h)
    BY <1>1, <1>2, <2>2, <2>3 DEF Bins, Ends
  <2>5. Notes
    BY <1>1, <2>1, <2>3 DEF Store, Notes
  <2> QED
    BY <1>1, <2>2, <2>4, <2>5 DEF Works
<1>3. CASE ~(i \in Present /\ bins[i] = 0)
  <2>1. Abort(h) /\ UNCHANGED <<rows, bins>>
    BY <1>3 DEF BinInsert
  <2> QED
    BY <1>1, <2>1, AbortWorks
<1> QED
  BY <1>2, <1>3

\* A phase in which a transaction writes.
LEMMA WritesWorks ==
  ASSUME Typed, NEW h \in Handlers, NEW w, NEW u, NEW X, op[h].pc = "move", NEW r,
         r = [op[h] EXCEPT !.pc = "commit", !.writes = w, !.unbin = u, !.risk = X, !.touched = TRUE],
         op' = [op EXCEPT ![h] = r]
  PROVE  Others(h) /\ GoesOn(h) /\ op'[h].writes = w /\ op'[h].unbin = u
<1>1. r = [op[h] EXCEPT !.pc = "commit", !.writes = w, !.unbin = u, !.risk = X, !.touched = TRUE]
  OBVIOUS
<1>2. /\ r.kind = op[h].kind /\ r.fs = op[h].fs /\ r.parent = op[h].parent /\ r.path = op[h].path
      /\ r.extra = op[h].extra /\ r.keep = op[h].keep /\ r.old = op[h].old /\ r.depth = op[h].depth
      /\ r.root = op[h].root /\ r.victim = op[h].victim
      /\ r.writes = w /\ r.unbin = u /\ r.pc = "commit"
  BY <1>1, JobIs DEF Job
<1>3. op' = [op EXCEPT ![h] = r]
  BY <1>1
<1>4. op'[h] = r /\ Others(h)
  BY <1>3, Only DEF Typed
<1> QED
  BY <1>2, <1>4 DEF GoesOn, Onward

\* Moving the directory back and writing the rows in the transaction, as one of the kinds of step above.
LEMMA RestoreMoveWorks ==
  ASSUME Typed, NEW h \in Handlers, RestoreMove(h)
  PROVE  Others(h) /\ Works(h) /\ Notes
<1> DEFINE i == op[h].fs
           T == IF op[h].keep THEN {i} ELSE Tree(i, TRUE)
           p == op[h].path
           tree == trash[op[h].key]
           ok == /\ i \in Present \ Live /\ bins[i] = op[h].key /\ op[h].parent \in Present \cup {0}
                 /\ tree # Nothing /\ IsDir(Front(p)) /\ Fits(p, tree)
<1>1. /\ op[h].kind = "restore" /\ UNCHANGED <<rows, bins, nextRow>>
      /\ Stands(h, op[h].parent) /\ \A j \in T : Free(h, j)
  BY DEF RestoreMove, At, aside
<1>4. op[h].pc = "move"
  BY DEF RestoreMove, At
<1>2. CASE ok
  <2>1. /\ \E new \in Moves(h, T \ {i}) :
             op' = [op EXCEPT ![h].pc = "commit", ![h].writes = Restored(h, T, new),
                              ![h].unbin = {i}, ![h].risk = T, ![h].touched = TRUE]
        /\ astray' = astray \cup Clash(h, p, {})
        /\ garbled' = (garbled \/ (T # {i} /\ Patterned(p)))
    BY <1>2 DEF RestoreMove
  <2>2. PICK X : X = T
    OBVIOUS
  <2> HIDE DEF T
  <2>8. PICK new \in Moves(h, X \ {i}) :
             op' = [op EXCEPT ![h].pc = "commit", ![h].writes = Restored(h, X, new),
                              ![h].unbin = {i}, ![h].risk = X, ![h].touched = TRUE]
    BY <2>1, <2>2
  <2> USE DEF T
  <2>3. PICK w : w = Restored(h, X, new)
    OBVIOUS
  <2>4. PICK r : r = [op[h] EXCEPT !.pc = "commit", !.writes = w, !.unbin = {i}, !.risk = X, !.touched = TRUE]
    OBVIOUS
  <2>10. op' = [op EXCEPT ![h] = r]
    BY <2>3, <2>4, <2>8
  <2>11. PICK u : u = {i}
    OBVIOUS
  <2>12. r = [op[h] EXCEPT !.pc = "commit", !.writes = w, !.unbin = u, !.risk = X, !.touched = TRUE]
    BY <2>4, <2>11
  <2>5. Others(h) /\ GoesOn(h) /\ op'[h].writes = w /\ op'[h].unbin = {i}
    BY <1>4, <2>10, <2>11, <2>12, WritesWorks
  <2>9. garbled' \/ X = {i} \/ ~Patterned(p)
    BY <2>1, <2>2
  <2>6. Restores(h)
    BY <1>1, <1>2, <2>2, <2>3, <2>5, <2>8, <2>9 DEF Restores
  <2>7. Notes
    BY <1>1, <2>1 DEF Notes
  <2> QED
    BY <1>1, <2>5, <2>6, <2>7 DEF Works
<1>3. CASE ~ok
  <2>1. Abort(h) /\ garbled' = garbled
    BY <1>3 DEF RestoreMove
  <2> QED
    BY <1>1, <2>1, AbortWorks
<1> QED
  BY <1>2, <1>3

\* Deleting for good, as one of the kinds of step above.
LEMMA ForgetMoveWorks ==
  ASSUME Typed, NEW h \in Handlers, ForgetMove(h)
  PROVE  Others(h) /\ Works(h) /\ Notes
<1> DEFINE i == op[h].fs
           k == op[h].key
           D == IF op[h].keep THEN {i} ELSE Tree(i, TRUE)
           ok == /\ i \in Present \ Live /\ bins[i] = k /\ trash[k] # Nothing
                 /\ \A j \in D : IF j = i THEN ~rows[i].enc ELSE ~Referred(j)
<1>1. /\ op[h].kind = "forget" /\ UNCHANGED <<rows, bins, nextRow, garbled>>
      /\ Unhung(h, D) /\ \A j \in D : Free(h, j)
  BY DEF ForgetMove, At, aside
<1>4. op[h].pc = "move"
  BY DEF ForgetMove, At
<1>2. CASE ok
  <2>1. /\ op' = [op EXCEPT ![h].pc = "commit", ![h].unbin = {i}, ![h].risk = D,
                            ![h].writes = [j \in D |-> None], ![h].touched = TRUE]
        /\ UNCHANGED <<astray, dirty>>
    BY <1>2 DEF ForgetMove
  <2>2. PICK X : X = D
    OBVIOUS
  <2>3. PICK w : w = [j \in X |-> None]
    OBVIOUS
  <2>4. PICK r : r = [op[h] EXCEPT !.pc = "commit", !.unbin = {i}, !.risk = X, !.writes = w, !.touched = TRUE]
    OBVIOUS
  <2>9. op' = [op EXCEPT ![h] = r]
    BY <2>1, <2>2, <2>3, <2>4
  <2>10. PICK u : u = {i}
    OBVIOUS
  <2>11. r = [op[h] EXCEPT !.pc = "commit", !.writes = w, !.unbin = u, !.risk = X, !.touched = TRUE]
    BY <2>4, <2>10, JobIs DEF Job
  <2>5. Others(h) /\ GoesOn(h) /\ op'[h].writes = w /\ op'[h].unbin = {i}
    BY <1>4, <2>9, <2>10, <2>11, WritesWorks
  <2>6. \A j \in D : j # i => ~Referred(j)
    BY <1>2
  <2>7. Forgets(h)
    BY <1>1, <1>2, <2>2, <2>3, <2>5, <2>6 DEF Forgets
  <2>8. Notes
    BY <1>1, <2>1 DEF Notes
  <2> QED
    BY <1>1, <2>5, <2>7, <2>8 DEF Works
<1>3. CASE ~ok
  <2>1. Abort(h)
    BY <1>3 DEF ForgetMove
  <2> QED
    BY <1>1, <2>1, AbortWorks
<1> QED
  BY <1>2, <1>3

\* Committing, as one of the kinds of step above.
LEMMA CommitWorks ==
  ASSUME Typed, NEW h \in Handlers, Commit(h)
  PROVE  Others(h) /\ Works(h) /\ Notes
<1> DEFINE B == [i \in Ids |-> IF i \in op[h].unbin THEN 0 ELSE bins[i]]
<1>1. ~Maker(op[h]) /\ nextRow' = nextRow /\ garbled' = garbled
  BY DEF Commit, aside, Maker
<1>2. Store(Merged(h), B) /\ Done(h)
  BY DEF Commit
<1>3. op'[h] = Idle /\ Others(h)
  BY <1>2, Only DEF Done, Typed
<1>4. rows' = Merged(h) /\ bins' = B
  BY <1>2 DEF Store
<1>5. Commits(h)
  BY <1>1, <1>3, <1>4 DEF Commits, Ends
<1>6. Notes
  BY <1>1, <1>2, <1>4 DEF Store, Notes
<1> QED
  BY <1>1, <1>3, <1>5, <1>6 DEF Works

\* Every step is one of these, of one request, or leaves the tables alone.
LEMMA EveryStep ==
  ASSUME Typed, [Next]_vars
  PROVE  /\ Notes
         /\ \/ UNCHANGED <<rows, bins, op, nextRow>>
            \/ \E h \in Handlers : Others(h) /\ Works(h)
<1>1. ASSUME NEW h \in Handlers, NEW p \in 0 .. MaxRows, NEW keep \in BOOLEAN,
             NEW n \in FileNamesSent, UploadBegin(h, p, n, keep)
      PROVE  Others(h) /\ Works(h) /\ Notes
  BY <1>1, SentNames, MakesWorks DEF UploadBegin
<1>2. ASSUME NEW h \in Handlers, NEW p \in 0 .. MaxRows, NEW keep \in BOOLEAN,
             NEW n \in FolderNamesSent, FolderBegin(h, p, n, keep)
      PROVE  Others(h) /\ Works(h) /\ Notes
  BY <1>2, SentNames, MakesWorks DEF FolderBegin
<1>3. ASSUME NEW h \in Handlers, NEW i \in Ids,
             EncryptBegin(h, i) \/ BinBegin(h, i) \/ ForgetBegin(h, i)
      PROVE  Others(h) /\ Works(h) /\ Notes
  BY <1>3, EncryptBeginWorks, BinBeginWorks, ForgetBeginWorks
<1>4. ASSUME NEW h \in Handlers, NEW i \in Ids, NEW q \in 0 .. MaxRows, RestoreBegin(h, i, q)
      PROVE  Others(h) /\ Works(h) /\ Notes
  BY <1>4, RestoreBeginWorks
<1>5. ASSUME NEW h \in Handlers, CleanUp(h) \/ Fail(h)
      PROVE  Others(h) /\ Works(h) /\ Notes
  BY <1>5, CleanUpWorks, AbortWorks DEF Fail, aside
<1>6. ASSUME NEW h \in Handlers, Upload(h) \/ MakeFolder(h)
      PROVE  Others(h) /\ Works(h) /\ Notes
  <2>1. CASE UploadFind(h) \/ FolderFind(h)
    BY <2>1, FindWorks DEF UploadFind, FolderFind
  <2>2. CASE Match(h, "upload") \/ Match(h, "folder")
    BY <2>2, MatchWorks
  <2>3. CASE Number(h, "upload") \/ Number(h, "folder")
    BY <2>3, NumberWorks
  <2> QED
    BY <1>6, <2>1, <2>2, <2>3, UploadQuotaWorks, UploadReplaceWorks, DiskWorks, InsertWorks, FolderDeleteWorks DEF Upload, MakeFolder
<1>7. ASSUME NEW h \in Handlers, Encrypt(h) \/ ToBin(h)
      PROVE  Others(h) /\ Works(h) /\ Notes
  BY <1>7, EncryptIssueWorks, DiskWorks, BinFlipWorks, BinInsertWorks DEF Encrypt, ToBin
<1>8. ASSUME NEW h \in Handlers, RestoreMove(h) \/ ForgetMove(h) \/ Commit(h)
      PROVE  Others(h) /\ Works(h) /\ Notes
  BY <1>8, RestoreMoveWorks, ForgetMoveWorks, CommitWorks
<1>9. ASSUME NEW p \in removing, RemoveOld(p)
      PROVE  UNCHANGED <<rows, bins, op, nextRow>> /\ Notes
  BY <1>9 DEF RemoveOld, aside, Notes
<1>10. UNCHANGED vars => UNCHANGED <<rows, bins, op, nextRow>> /\ Notes
  BY DEF vars, aside, Notes
<1> QED
  BY <1>1, <1>2, <1>3, <1>4, <1>5, <1>6, <1>7, <1>8, <1>9, <1>10 DEF Next, Step

-----------------------------------------------------------------------------
(* Numbers of rows, and what transactions have locked, whatever overlaps.  *)

\* Requests that gave a number to the row they will insert.
Dated(j) == j.kind \in {"upload", "folder", "encrypt"}

\* The size of a file is 1, and that of an encrypted one is 2.
Sized(row) == row.file => row.size = IF row.enc THEN 2 ELSE 1

\* Numbers are given out once, and rows of the bin refer to rows.
RowsLedger ==
    /\ \A i \in Present : i < nextRow /\ Sized(rows[i])
    /\ \A i \in Ids : bins[i] # 0 => i \in Present

\* The numbers that requests gave to rows that are not there yet are their own.
NumbersOf(g) ==
    LET j == op[g]
    IN /\ Dated(j) => j.fs < nextRow
       /\ Maker(j) => /\ j.fs \notin Present
                      /\ \A k \in Handlers \ {g} : Dated(op[k]) => op[k].fs # j.fs
       /\ j.kind = "encrypt" => j.extra = 2 /\ (j.fs \in Present => ~Folder(j.fs))

\* What a transaction has written is locked for the others, and there.
LocksOf(g) ==
    LET j == op[g]
    IN /\ j.kind = "encrypt" => DOMAIN j.writes \subseteq {j.fs}
       /\ j.kind \in {"none", "folder", "bin"} => DOMAIN j.writes = {}
       /\ j.kind \in {"none", "upload", "folder"} => j.unbin = {}
       /\ j.kind = "upload" => \A i \in DOMAIN j.writes : j.writes[i] = None
       /\ \A i \in DOMAIN j.writes :
            /\ i \in Present /\ \A k \in Handlers \ {g} : i \notin DOMAIN op[k].writes
            /\ j.writes[i] = None => bins[i] = 0 \/ i \in j.unbin
            /\ j.writes[i] # None =>
                  /\ Sized(j.writes[i]) /\ j.writes[i].file = rows[i].file
                  /\ j.kind # "encrypt" => j.writes[i].size = rows[i].size

Ledger == RowsLedger /\ \A g \in Handlers : NumbersOf(g) /\ LocksOf(g)

\* No request holds anything at first.
LEMMA InitLedger == Init => Ledger
<1> SUFFICES ASSUME Init PROVE Ledger
  OBVIOUS
<1>1. Present = {} /\ \A i \in Ids : bins[i] = 0
  BY DEF Init, Present
<1>2. \A g \in Handlers : op[g].kind = "none" /\ DOMAIN op[g].writes = {} /\ op[g].unbin = {}
  BY WritesAre DEF Init, Idle
<1> QED
  BY <1>1, <1>2 DEF Ledger, RowsLedger, NumbersOf, LocksOf, Dated, Maker

\* What a step of h may do to the rows and to the rows of the bin.
Kept(h) ==
    /\ \A i \in Ids : rows[i] = None /\ rows'[i] # None => Maker(op[h]) /\ i = op[h].fs /\ Ends(h)
    /\ \A i \in Ids : rows[i] # None /\ rows'[i] = None => Unlocked(h, i)
    /\ \A i \in Ids : rows[i] # None /\ rows'[i] # None =>
          rows'[i].file = rows[i].file /\ (rows'[i].size = rows[i].size \/ Unlocked(h, i))
    /\ \A i \in Ids : rows'[i] # None => Sized(rows'[i])
    /\ \A i \in Ids : bins'[i] # 0 => rows'[i] # None /\ (bins[i] # 0 \/ Unlocked(h, i))

\* The request that adds a size of 1 at its end, from when it has been looked whether
\* there is room.
Adds(h) == op[h].kind = "encrypt" \/ (op[h].kind = "upload" /\ op[h].pc # "quota")

Grows(h) ==
    /\ \A n \in Ids \ {op[h].fs} : Size(rows'[n]) <= Size(rows[n])
    /\ op[h].fs \in Ids =>
          Size(rows'[op[h].fs]) <= Size(rows[op[h].fs]) + (IF Adds(h) /\ Ends(h) THEN 1 ELSE 0)

\* Sizes are numbers.
LEMMA SizesAre ==
  ASSUME TablesOK
  PROVE  \A i \in Ids : Size(rows[i]) \in Nat
BY DEF TablesOK, Tables, FullRow, Size

\* No row is no row.
LEMMA NoneIsNoRow == None \notin FullRow
<1>1. FullRow \subseteq Row
  BY NamesAre DEF FullRow, Row, Paths
<1> QED
  BY <1>1, NullAssumption

\* Deleting rows keeps all that the rows left are but their parents.
LEMMA WithoutKept ==
  ASSUME Typed, NEW D
  PROVE  \A i \in Ids : LET r == Without(rows, D)[i]
                        IN /\ rows[i] = None \/ i \in D => r = None
                           /\ rows[i] # None /\ i \notin D =>
                                 /\ r # None /\ r.file = rows[i].file /\ r.size = rows[i].size
                                 /\ r.enc = rows[i].enc /\ r.path = rows[i].path
                                 /\ r.inBin = rows[i].inBin /\ r.depth = rows[i].depth
                                 /\ r.parent = IF rows[i].parent \in D THEN 0 ELSE rows[i].parent
<1> TAKE i \in Ids
<1> DEFINE r == Without(rows, D)[i]
<1>1. rows \in Tables /\ None \notin FullRow
  BY NoneIsNoRow DEF Typed, TablesOK
<1>2. rows[i] \in FullRow \cup {None} /\ r \in FullRow \cup {None}
  BY <1>1, WithoutTyped DEF Tables
<1>3. /\ i \in D \/ rows[i] = None => r = None
      /\ i \notin D /\ rows[i] # None =>
            \/ r = rows[i] /\ rows[i].parent \notin D
            \/ r = [rows[i] EXCEPT !.parent = 0] /\ rows[i].parent \in D
  BY <1>1, WithoutTyped
<1>4. rows[i] # None => [rows[i] EXCEPT !.parent = 0] \in FullRow
  BY <1>2, BoundsAssumption DEF FullRow
<1>5. ASSUME rows[i] # None, i \notin D
      PROVE  /\ r # None /\ r.file = rows[i].file /\ r.size = rows[i].size
             /\ r.enc = rows[i].enc /\ r.path = rows[i].path
             /\ r.inBin = rows[i].inBin /\ r.depth = rows[i].depth
             /\ r.parent = IF rows[i].parent \in D THEN 0 ELSE rows[i].parent
  <2>1. r # None
    BY <1>1, <1>2, <1>3, <1>4, <1>5
  <2> QED
    BY <1>2, <1>3, <1>5, <2>1 DEF FullRow
<1> QED
  BY <1>3, <1>5

\* What a step does to the rows, kind by kind: a step that writes none, ...
LEMMA QuietKept ==
  ASSUME Typed, Ledger, NEW h \in Handlers, UNCHANGED <<rows, bins>>
  PROVE  Kept(h) /\ Grows(h)
<1>1. \A i \in Ids : Size(rows[i]) \in Nat
  BY SizesAre DEF Typed
<1>2. Grows(h)
  <2> HIDE DEF Size
  <2> QED
    BY <1>1 DEF Grows
<1> QED
  BY <1>2 DEF Kept, Ledger, RowsLedger, Present

\* ... that inserts one, ...
LEMMA InsertsKept ==
  ASSUME Typed, Ledger, NEW h \in Handlers, Inserts(h)
  PROVE  Kept(h) /\ Grows(h)
<1> DEFINE D == DOMAIN op[h].writes
           W == Without(rows, D)
           fs == op[h].fs
           new == NewRow(h, op[h].kind = "upload")
<1>1. JobOK(op[h]) /\ fs \in Ids /\ Maker(op[h]) /\ Ends(h) /\ bins' = bins /\ op[h].pc = "commit"
  BY JobIs DEF Inserts, Maker, JobOK
<1>2. fs \notin Present
  BY <1>1 DEF Ledger, NumbersOf
<1>3. \A i \in D : /\ i \in Present /\ Unlocked(h, i) /\ bins[i] = 0
  BY <1>1 DEF Ledger, LocksOf, Unlocked, Maker
<1>4. new \in FullRow /\ new # None /\ Sized(new) /\ new.size = IF op[h].kind = "upload" THEN 1 ELSE 0
  <2>1. op[h].path \in Paths
    BY <1>1 DEF JobOK, Maker
  <2>2. new \in FullRow
    BY <2>1, JobIs DEF NewRow, FullRow
  <2>3. new # None
    BY <2>2, NoneIsNoRow
  <2> QED
    BY <1>1, <2>2, <2>3 DEF NewRow, Sized, JobOK, Maker
<1>5. \A i \in Ids : /\ i # fs => rows'[i] = W[i]
                     /\ i = fs => rows'[i] = new
  <2>1. W = [i \in Ids |-> W[i]]
    BY DEF Without
  <2>2. rows' = [W EXCEPT ![fs] = new]
    BY DEF Inserts
  <2> HIDE DEF W, new
  <2> QED
    BY <2>1, <2>2
<1>6. \A i \in Ids : /\ rows[i] = None \/ i \in D => W[i] = None
                     /\ rows[i] # None /\ i \notin D =>
                           W[i] # None /\ W[i].file = rows[i].file /\ W[i].size = rows[i].size
                           /\ W[i].enc = rows[i].enc
  BY WithoutKept
<1>7. rows[fs] = None /\ bins[fs] = 0
  BY <1>1, <1>2 DEF Present, Ledger, RowsLedger
<1>8. \A i \in Ids : rows[i] # None => Sized(rows[i])
  BY DEF Ledger, RowsLedger, Present
<1>9. \A i \in Ids : bins[i] # 0 => rows[i] # None /\ i \notin D
  BY <1>3 DEF Ledger, RowsLedger, Present
<1> HIDE DEF W, new, D
<1>10. Kept(h)
  <2>1. \A i \in Ids : rows[i] = None /\ rows'[i] # None => Maker(op[h]) /\ i = op[h].fs /\ Ends(h)
    BY <1>1, <1>5, <1>6
  <2>2. \A i \in Ids : rows[i] # None /\ rows'[i] = None => Unlocked(h, i)
    BY <1>3, <1>4, <1>5, <1>6
  <2>3. \A i \in Ids : rows[i] # None /\ rows'[i] # None =>
          rows'[i].file = rows[i].file /\ (rows'[i].size = rows[i].size \/ Unlocked(h, i))
    BY <1>5, <1>6, <1>7
  <2>4. \A i \in Ids : rows'[i] # None => Sized(rows'[i])
    BY <1>4, <1>5, <1>6, <1>8 DEF Sized
  <2>5. \A i \in Ids : bins'[i] # 0 => rows'[i] # None /\ (bins[i] # 0 \/ Unlocked(h, i))
    BY <1>1, <1>5, <1>6, <1>7, <1>9
  <2> QED
    BY <2>1, <2>2, <2>3, <2>4, <2>5 DEF Kept
<1>11. Grows(h)
  <2>1. \A i \in Ids : Size(rows[i]) \in Nat
    BY SizesAre DEF Typed
  <2>2. \A n \in Ids \ {fs} : Size(rows'[n]) <= Size(rows[n])
    <3> TAKE n \in Ids \ {fs}
    <3>1. Size(rows'[n]) = Size(rows[n]) \/ Size(rows'[n]) = 0
      BY <1>5, <1>6 DEF Size
    <3> QED
      BY <2>1, <3>1
  <2>3. Size(rows'[fs]) <= Size(rows[fs]) + (IF Adds(h) /\ Ends(h) THEN 1 ELSE 0)
    BY <1>1, <1>4, <1>5, <1>7 DEF Size, Adds, Maker
  <2> QED
    BY <2>2, <2>3 DEF Grows
<1> QED
  BY <1>10, <1>11

\* ... that deletes a row with all under it, ...
LEMMA DeletesKept ==
  ASSUME Typed, Ledger, NEW h \in Handlers, Deletes(h)
  PROVE  Kept(h) /\ Grows(h)
<1>1. PICK v \in 0 .. MaxRows : /\ rows' = Without(rows, Tree(v, FALSE))
                                /\ \A i \in Tree(v, FALSE) : Unlocked(h, i) /\ ~Referred(i)
  BY DEF Deletes, Free
<1> DEFINE D == Tree(v, FALSE)
<1>2. bins' = bins /\ \A i \in D : Unlocked(h, i) /\ bins[i] = 0
  BY <1>1 DEF Deletes, Referred, BinRow
<1>3. \A i \in Ids : /\ rows[i] = None \/ i \in D => rows'[i] = None
                     /\ rows[i] # None /\ i \notin D =>
                           rows'[i] # None /\ rows'[i].file = rows[i].file
                           /\ rows'[i].size = rows[i].size /\ rows'[i].enc = rows[i].enc
  BY <1>1, WithoutKept
<1>4. \A i \in Ids : /\ rows[i] # None => Sized(rows[i])
                     /\ bins[i] # 0 => rows[i] # None
  BY DEF Ledger, RowsLedger, Present
<1> HIDE DEF D
<1>5. Kept(h)
  BY <1>2, <1>3, <1>4 DEF Kept, Sized
<1>6. Grows(h)
  <2>1. \A i \in Ids : Size(rows[i]) \in Nat
    BY SizesAre DEF Typed
  <2>2. \A n \in Ids : Size(rows'[n]) = Size(rows[n]) \/ Size(rows'[n]) = 0
    BY <1>3 DEF Size
  <2> HIDE DEF Size
  <2> QED
    BY <2>1, <2>2 DEF Grows
<1> QED
  BY <1>5, <1>6

\* ... that moves a tree to the bin, ...
LEMMA FlipsKept ==
  ASSUME Typed, Ledger, NEW h \in Handlers, Flips(h)
  PROVE  Kept(h) /\ Grows(h)
<1> DEFINE T == Tree(op[h].fs, FALSE)
<1>1. T \subseteq Present
  BY TreeIn
<1>2. \A i \in Present : rows[i] \in FullRow
  BY RowsAre DEF Typed
<1>3. None \notin FullRow
  BY NoneIsNoRow
<1>4. \A i \in T : LET r == [rows[i] EXCEPT !.inBin = TRUE]
                   IN /\ r # None /\ rows[i] # None /\ r.file = rows[i].file
                      /\ r.size = rows[i].size /\ r.enc = rows[i].enc
  <2> TAKE i \in T
  <2>1. rows[i] \in FullRow /\ rows[i] # None
    BY <1>1, <1>2 DEF Present
  <2>2. [rows[i] EXCEPT !.inBin = TRUE] \in FullRow
    BY <2>1 DEF FullRow
  <2> QED
    BY <1>3, <2>1, <2>2 DEF FullRow
<1>5. \A i \in Ids : rows'[i] = IF i \in T THEN [rows[i] EXCEPT !.inBin = TRUE] ELSE rows[i]
  BY DEF Flips
<1> HIDE DEF T, FullRow
<1>6. \A i \in Ids : /\ rows[i] = None => rows'[i] = None
                     /\ rows[i] # None => rows'[i] # None /\ rows'[i].file = rows[i].file
                           /\ rows'[i].size = rows[i].size /\ rows'[i].enc = rows[i].enc
  BY <1>4, <1>5
<1>7. bins' = bins
  BY DEF Flips
<1>8. \A i \in Ids : /\ rows[i] # None => Sized(rows[i])
                     /\ bins[i] # 0 => rows[i] # None
  BY DEF Ledger, RowsLedger, Present
<1>9. Kept(h)
  BY <1>6, <1>7, <1>8 DEF Kept, Sized
<1>10. Grows(h)
  <2>1. \A i \in Ids : Size(rows[i]) \in Nat
    BY SizesAre DEF Typed
  <2>2. \A n \in Ids : Size(rows'[n]) = Size(rows[n])
    BY <1>6 DEF Size
  <2> HIDE DEF Size
  <2> QED
    BY <2>1, <2>2 DEF Grows
<1> QED
  BY <1>9, <1>10

\* ... that inserts the row of the bin, ...
LEMMA BinsKept ==
  ASSUME Typed, Ledger, NEW h \in Handlers, Bins(h)
  PROVE  Kept(h) /\ Grows(h)
<1>1. \A i \in Ids : /\ rows[i] # None => Sized(rows[i])
                     /\ bins[i] # 0 => rows[i] # None
  BY DEF Ledger, RowsLedger, Present
<1>2. rows' = rows /\ rows[op[h].fs] # None /\ Unlocked(h, op[h].fs)
  BY DEF Bins, Present, Free
<1>3. \A i \in Ids : i # op[h].fs => bins'[i] = bins[i]
  BY DEF Bins, Typed, TablesOK
<1>4. Kept(h)
  BY <1>1, <1>2, <1>3 DEF Kept
<1>5. Grows(h)
  <2>1. \A i \in Ids : Size(rows[i]) \in Nat
    BY SizesAre DEF Typed
  <2> HIDE DEF Size
  <2> QED
    BY <1>2, <2>1 DEF Grows
<1> QED
  BY <1>4, <1>5

\* ... and that commits what its transaction wrote.
LEMMA CommitsKept ==
  ASSUME Typed, Ledger, NEW h \in Handlers, Commits(h)
  PROVE  Kept(h) /\ Grows(h)
<1> DEFINE D == DOMAIN op[h].writes
           w == op[h].writes
<1>1. \A i \in D : /\ i \in Present /\ Unlocked(h, i)
                   /\ w[i] = None => bins[i] = 0 \/ i \in op[h].unbin
                   /\ w[i] # None => /\ Sized(w[i]) /\ w[i].file = rows[i].file
                                     /\ op[h].kind # "encrypt" => w[i].size = rows[i].size
  BY DEF Ledger, LocksOf, Unlocked
<1>2. ASSUME NEW i \in Ids
      PROVE  /\ i \notin D /\ rows[i] = None => rows'[i] = None
             /\ i \notin D /\ rows[i] # None =>
                   /\ rows'[i] # None /\ rows'[i].file = rows[i].file
                   /\ rows'[i].size = rows[i].size /\ rows'[i].enc = rows[i].enc
             /\ i \in D /\ w[i] = None => rows'[i] = None
             /\ i \in D /\ w[i] # None =>
                   /\ rows'[i] # None /\ rows'[i].file = w[i].file
                   /\ rows'[i].size = w[i].size /\ rows'[i].enc = w[i].enc
  <2> DEFINE r == IF i \in D THEN w[i] ELSE rows[i]
  <2>1. /\ Merged(h) \in Tables /\ r \in FullRow \cup {None}
        /\ r = None => Merged(h)[i] = None
        /\ r # None => Merged(h)[i] = r \/ Merged(h)[i] = [r EXCEPT !.parent = 0]
    BY MergedIs
  <2>2. None \notin FullRow
    BY NoneIsNoRow
  <2>3. \A x \in FullRow : /\ [x EXCEPT !.parent = 0] \in FullRow
                           /\ [x EXCEPT !.parent = 0].file = x.file
                           /\ [x EXCEPT !.parent = 0].size = x.size
                           /\ [x EXCEPT !.parent = 0].enc = x.enc
    BY BoundsAssumption DEF FullRow
  <2>4. rows'[i] = Merged(h)[i]
    BY DEF Commits
  <2> HIDE DEF FullRow, r
  <2>5. /\ r = None => rows'[i] = None
        /\ r # None => /\ rows'[i] # None /\ rows'[i].file = r.file
                       /\ rows'[i].size = r.size /\ rows'[i].enc = r.enc
    BY <2>1, <2>2, <2>3, <2>4
  <2> QED
    BY <2>5 DEF r
<1>3. \A i \in Ids : /\ rows[i] # None => Sized(rows[i])
                     /\ bins[i] # 0 => rows[i] # None
  BY DEF Ledger, RowsLedger, Present
<1>4. \A i \in Ids : bins'[i] = IF i \in op[h].unbin THEN 0 ELSE bins[i]
  BY DEF Commits
<1>5. Kept(h)
  <2>1. \A i \in Ids : rows[i] = None => rows'[i] = None
    BY <1>1, <1>2 DEF Present
  <2>2. \A i \in Ids : rows[i] # None /\ rows'[i] = None => Unlocked(h, i)
    BY <1>1, <1>2
  <2>3. \A i \in Ids : rows[i] # None /\ rows'[i] # None =>
          rows'[i].file = rows[i].file /\ (rows'[i].size = rows[i].size \/ Unlocked(h, i))
    BY <1>1, <1>2
  <2>4. \A i \in Ids : rows'[i] # None => Sized(rows'[i])
    <3> TAKE i \in Ids
    <3>1. CASE i \in D
      BY <1>1, <1>2, <3>1 DEF Sized
    <3>2. CASE i \notin D
      BY <1>2, <1>3, <3>2 DEF Sized
    <3> QED
      BY <3>1, <3>2
  <2>5. \A i \in Ids : bins'[i] # 0 => rows'[i] # None /\ bins[i] # 0
    BY <1>1, <1>2, <1>3, <1>4
  <2> QED
    BY <2>1, <2>2, <2>3, <2>4, <2>5 DEF Kept
<1>6. Grows(h)
  <2>1. \A i \in Ids : Size(rows[i]) \in Nat
    BY SizesAre DEF Typed
  <2>2. ASSUME NEW n \in Ids, op[h].kind # "encrypt" \/ n \notin D
        PROVE  Size(rows'[n]) <= Size(rows[n])
    <3>1. Size(rows'[n]) = Size(rows[n]) \/ Size(rows'[n]) = 0
      BY <1>1, <1>2, <2>2 DEF Size, Present
    <3> QED
      BY <2>1, <3>1
  <2>3. CASE op[h].kind # "encrypt"
    <3> HIDE DEF Size
    <3>1. op[h].fs \in Ids => Size(rows'[op[h].fs]) <= Size(rows[op[h].fs]) + 0
      BY <2>1, <2>2, <2>3
    <3>2. op[h].fs \in Ids => Size(rows'[op[h].fs]) \in Nat
      <4>1. rows' \in Tables
        <5>1. Merged(h) \in Tables /\ rows' = Merged(h)
          BY MergedIs DEF Commits
        <5> QED
          BY <5>1
      <4> QED
        BY <4>1 DEF Tables, FullRow, Size
    <3> QED
      BY <2>1, <2>2, <2>3, <3>1, <3>2 DEF Grows
  <2>4. CASE op[h].kind = "encrypt"
    <3> DEFINE i == op[h].fs
    <3>1. i \in Ids /\ D \subseteq {i} /\ (i \in Present => rows[i].file)
      BY <2>4, JobIs DEF JobOK, Ledger, LocksOf, NumbersOf, Folder
    <3>2. Size(rows'[i]) <= Size(rows[i]) + 1
      <4>1. CASE i \in D /\ w[i] # None
        <5>1. rows'[i] # None /\ rows'[i].size = w[i].size /\ w[i].file /\ Sized(w[i])
              /\ rows[i] # None /\ rows[i].file /\ Sized(rows[i])
          BY <1>1, <1>2, <1>3, <3>1, <4>1 DEF Present
        <5>2. w[i].size \in {1, 2} /\ rows[i].size \in {1, 2}
          BY <5>1 DEF Sized
        <5> QED
          BY <5>1, <5>2 DEF Size
      <4>2. CASE ~(i \in D /\ w[i] # None)
        <5>1. Size(rows'[i]) = Size(rows[i]) \/ Size(rows'[i]) = 0
          BY <1>2, <3>1, <4>2 DEF Size
        <5> QED
          BY <2>1, <3>1, <5>1
      <4> QED
        BY <4>1, <4>2
    <3>3. \A n \in Ids \ {i} : Size(rows'[n]) <= Size(rows[n])
      BY <2>2, <3>1
    <3> QED
      BY <2>4, <3>1, <3>2, <3>3 DEF Grows, Adds, Commits
  <2> QED
    BY <2>3, <2>4
<1> QED
  BY <1>5, <1>6

\* Every step does to the rows what Kept and Grows allow.
LEMMA WorksKept ==
  ASSUME Typed, Ledger, NEW h \in Handlers, Works(h)
  PROVE  Kept(h) /\ Grows(h)
<1>1. \/ UNCHANGED <<rows, bins>> \/ Inserts(h) \/ Deletes(h) \/ Flips(h) \/ Bins(h) \/ Commits(h)
  BY DEF Works, Makes, Starts, StartsEncrypt, StartsRestore, StartsOther, StartsClean, Goes, GivesUp,
         Renames, Replaces, Issues, Restores, Forgets
<1> QED
  BY <1>1, QuietKept, InsertsKept, DeletesKept, FlipsKept, BinsKept, CommitsKept

\* What h holds after a step: its number is its old one, a new one or that of a
\* row; what it has locked was its own or nobody's.
Holds(h) ==
    /\ nextRow <= nextRow'
    /\ Dated(op'[h]) =>
          /\ op'[h].fs < nextRow'
          /\ \/ op'[h].fs = op[h].fs /\ op'[h].kind = op[h].kind
             \/ op'[h].fs = nextRow
             \/ op'[h].fs \in Present
    /\ \A i \in DOMAIN op'[h].writes : i \in DOMAIN op[h].writes \/ Unlocked(h, i)

\* A step of h leaves the numbers and the locks of the others as they were.
LEMMA OthersLedger ==
  ASSUME Typed, Typed', Ledger, NEW h \in Handlers, Others(h), Kept(h), Holds(h)
  PROVE  RowsLedger' /\ \A g \in Handlers \ {h} : NumbersOf(g)' /\ LocksOf(g)'
<1>1. \A i \in Ids : rows'[i] # None /\ i \notin Present => Maker(op[h]) /\ i = op[h].fs
  BY DEF Kept, Present
<1>2. \A i \in Ids : i \in Present' <=> rows'[i] # None
  BY DEF Present
<1>3. Present' \subseteq Ids /\ Present \subseteq Ids
  BY DEF Present
<1>4. nextRow \in Int /\ nextRow' \in Int /\ nextRow <= nextRow'
  BY DEF Typed, Holds
<1>5. \A g \in Handlers : op[g].fs \in Int
  BY JobIs, BoundsAssumption
<1>6. \A g \in Handlers : NumbersOf(g) /\ LocksOf(g)
  BY DEF Ledger
<1>7. RowsLedger'
  <2>1. ASSUME NEW i \in Present' PROVE i < nextRow' /\ Sized(rows'[i])
    <3>1. i \in Ids /\ rows'[i] # None /\ i \in Int
      BY <1>2, <1>3 DEF Ids
    <3>2. i < nextRow
      <4>1. CASE i \in Present
        BY <4>1 DEF Ledger, RowsLedger
      <4>2. CASE i \notin Present
        BY <1>1, <1>6, <3>1, <4>2 DEF NumbersOf, Dated, Maker
      <4> QED
        BY <4>1, <4>2
    <3> QED
      BY <1>4, <3>1, <3>2 DEF Kept
  <2>2. \A i \in Ids : bins'[i] # 0 => i \in Present'
    BY <1>2 DEF Kept
  <2> QED
    BY <2>1, <2>2 DEF RowsLedger, Sized
<1>8. ASSUME NEW g \in Handlers \ {h} PROVE NumbersOf(g)'
  <2>1. op'[g] = op[g] /\ NumbersOf(g) /\ NumbersOf(h)
    BY <1>6 DEF Others
  <2>2. Dated(op[g]) => op[g].fs < nextRow'
    BY <1>4, <1>5, <2>1 DEF NumbersOf
  <2>3. ASSUME Maker(op[g]) PROVE op[g].fs \notin Present'
    <3>1. Dated(op[g]) /\ op[g].fs \notin Present /\ (Maker(op[h]) => op[h].fs # op[g].fs)
      BY <2>1, <2>3 DEF NumbersOf, Dated, Maker
    <3> QED
      BY <1>1, <1>2, <1>3, <3>1
  <2>4. ASSUME Maker(op[g]), NEW k \in Handlers \ {g}, Dated(op'[k]) PROVE op'[k].fs # op[g].fs
    <3>1. CASE k = h
      <4>1. op[g].fs \notin Present /\ op[g].fs < nextRow
            /\ (Dated(op[h]) => op[h].fs # op[g].fs)
        BY <2>1, <2>4 DEF NumbersOf, Dated, Maker
      <4>2. op'[h].fs = op[h].fs /\ op'[h].kind = op[h].kind => Dated(op[h])
        BY <2>4, <3>1 DEF Dated
      <4> QED
        BY <1>4, <1>5, <2>4, <3>1, <4>1, <4>2 DEF Holds
    <3>2. CASE k # h
      BY <2>1, <2>4, <3>2 DEF Others, NumbersOf
    <3> QED
      BY <3>1, <3>2
  <2>5. ASSUME op[g].kind = "encrypt"
        PROVE  op[g].extra = 2 /\ (op[g].fs \in Present' => rows'[op[g].fs].file)
    <3>1. op[g].extra = 2 /\ (op[g].fs \in Present => rows[op[g].fs].file)
      BY <2>1, <2>5 DEF NumbersOf, Folder
    <3>2. op[g].fs \in Present' => op[g].fs \in Present
      <4>1. Maker(op[h]) => op[h].fs # op[g].fs
        BY <2>1, <2>5 DEF NumbersOf, Dated
      <4> QED
        BY <1>1, <1>2, <1>3, <4>1
    <3>3. op[g].fs \in Present' => rows'[op[g].fs].file = rows[op[g].fs].file
      BY <1>2, <1>3, <3>2 DEF Kept, Present
    <3> QED
      BY <3>1, <3>2, <3>3
  <2> QED
    BY <2>1, <2>2, <2>3, <2>4, <2>5 DEF NumbersOf, Dated, Maker, Folder
<1>9. ASSUME NEW g \in Handlers \ {h} PROVE LocksOf(g)'
  <2>1. op'[g] = op[g] /\ LocksOf(g)
    BY <1>6 DEF Others
  <2>2. ASSUME NEW i \in DOMAIN op[g].writes
        PROVE  /\ i \in Present' /\ \A k \in Handlers \ {g} : i \notin DOMAIN op'[k].writes
               /\ op[g].writes[i] = None => bins'[i] = 0 \/ i \in op[g].unbin
               /\ op[g].writes[i] # None =>
                     /\ Sized(op[g].writes[i]) /\ op[g].writes[i].file = rows'[i].file
                     /\ op[g].kind # "encrypt" => op[g].writes[i].size = rows'[i].size
    <3>1. /\ i \in Present /\ \A k \in Handlers \ {g} : i \notin DOMAIN op[k].writes
          /\ op[g].writes[i] = None => bins[i] = 0 \/ i \in op[g].unbin
          /\ op[g].writes[i] # None =>
                     /\ Sized(op[g].writes[i]) /\ op[g].writes[i].file = rows[i].file
                     /\ op[g].kind # "encrypt" => op[g].writes[i].size = rows[i].size
      BY <2>1, <2>2 DEF LocksOf
    <3>2. ~Unlocked(h, i) /\ i \in Ids /\ rows[i] # None
      BY <3>1 DEF Unlocked, Present
    <3>3. rows'[i] # None /\ rows'[i].file = rows[i].file /\ rows'[i].size = rows[i].size
      BY <3>2 DEF Kept
    <3>4. bins'[i] = 0 \/ bins[i] # 0
      BY <3>2 DEF Kept
    <3>5. ASSUME NEW k \in Handlers \ {g} PROVE i \notin DOMAIN op'[k].writes
      <4>1. CASE k = h
        BY <3>1, <3>2, <4>1 DEF Holds
      <4>2. CASE k # h
        BY <3>1, <4>2 DEF Others
      <4> QED
        BY <4>1, <4>2
    <3> QED
      BY <1>2, <3>1, <3>2, <3>3, <3>4, <3>5
  <2>3. /\ op[g].kind = "encrypt" => DOMAIN op[g].writes \subseteq {op[g].fs}
        /\ op[g].kind \in {"none", "folder", "bin"} => DOMAIN op[g].writes = {}
        /\ op[g].kind \in {"none", "upload", "folder"} => op[g].unbin = {}
        /\ op[g].kind = "upload" => \A i \in DOMAIN op[g].writes : op[g].writes[i] = None
    BY <2>1 DEF LocksOf
  <2> QED
    BY <2>1, <2>2, <2>3 DEF LocksOf, Sized
<1> QED
  BY <1>7, <1>8, <1>9

\* The same of the request that takes the step: one that ends or only goes on, ...
LEMMA EndsLedger ==
  ASSUME Typed, Ledger, NEW h \in Handlers, Ends(h), nextRow' = nextRow
  PROVE  Holds(h) /\ NumbersOf(h)' /\ LocksOf(h)'
<1>1. op'[h].kind = "none" /\ DOMAIN op'[h].writes = {} /\ op'[h].unbin = {}
  BY IdleOK DEF Ends, Idle
<1> QED
  BY <1>1 DEF Holds, NumbersOf, LocksOf, Dated, Maker, Typed

\* A request that goes on is of the kind and for the row it was.
Still(h) == op'[h].kind = op[h].kind /\ op'[h].fs = op[h].fs /\ op'[h].extra = op[h].extra

\* Also when it takes another title.
LEMMA StillIs ==
  ASSUME Typed, NEW h \in Handlers
  PROVE  (GoesOn(h) => Still(h)) /\ (Renames(h) => Still(h) /\ SameWrites(h) /\ UNCHANGED <<rows, bins>>)
<1>1. GoesOn(h) => Still(h)
  BY DEF GoesOn, Still
<1>2. ASSUME Renames(h) PROVE Still(h) /\ SameWrites(h) /\ UNCHANGED <<rows, bins>>
  <2>1. op[h] \in Job
    BY JobIs
  <2>2. PICK p : op'[h] = [op[h] EXCEPT !.pc = "write", !.path = p]
    BY <1>2 DEF Renames
  <2>3. /\ op'[h].kind = op[h].kind /\ op'[h].fs = op[h].fs /\ op'[h].extra = op[h].extra
        /\ op'[h].writes = op[h].writes /\ op'[h].unbin = op[h].unbin
    BY <2>1, <2>2 DEF Job
  <2> QED
    BY <1>2, <2>3 DEF Still, SameWrites, Renames
<1> QED
  BY <1>1, <1>2

\* A request that goes on keeps its number.
LEMMA GoesOnNumbers ==
  ASSUME Typed, Ledger, NEW h \in Handlers, Others(h), Kept(h), Still(h), nextRow' = nextRow
  PROVE  /\ NumbersOf(h)' /\ nextRow <= nextRow'
         /\ Dated(op'[h]) => op'[h].fs < nextRow' /\ op'[h].fs = op[h].fs /\ op'[h].kind = op[h].kind
<1>1. op'[h].kind = op[h].kind /\ op'[h].fs = op[h].fs /\ op'[h].extra = op[h].extra
  BY DEF Still
<1>2. NumbersOf(h)
  BY DEF Ledger
<1>3. Maker(op[h]) => ~Ends(h)
  BY <1>1, IdleOK DEF Ends, Maker
<1>4. \A i \in Ids : i \in Present' => i \in Present \/ (Maker(op[h]) /\ Ends(h))
  BY DEF Kept, Present
<1>5. Present' \subseteq Ids
  BY DEF Present
<1>6. op[h].fs \in Present' => op[h].fs \in Present /\ rows'[op[h].fs].file = rows[op[h].fs].file
  BY <1>3, <1>4, <1>5 DEF Kept, Present
<1>7. Dated(op'[h]) <=> Dated(op[h])
  BY <1>1 DEF Dated
<1>8. Maker(op'[h]) <=> Maker(op[h])
  BY <1>1 DEF Maker
<1>9. nextRow' = nextRow /\ nextRow \in Int
  BY DEF Typed
<1>10. Dated(op[h]) => op[h].fs < nextRow'
  BY <1>2, <1>9 DEF NumbersOf
<1>11. NumbersOf(h)'
  <2>1. Maker(op[h]) => op[h].fs \notin Present' /\ \A k \in Handlers \ {h} : Dated(op'[k]) => op'[k].fs # op[h].fs
    BY <1>2, <1>6 DEF NumbersOf, Others
  <2>2. op[h].kind = "encrypt" => op[h].extra = 2 /\ (op[h].fs \in Present' => rows'[op[h].fs].file)
    BY <1>2, <1>6 DEF NumbersOf, Folder
  <2> QED
    BY <1>1, <1>7, <1>8, <1>10, <2>1, <2>2 DEF NumbersOf, Folder, Dated, Maker
<1> QED
  BY <1>1, <1>7, <1>9, <1>10, <1>11

\* A request that goes on with what it has locked.
LEMMA GoesOnLedger ==
  ASSUME Typed, Ledger, NEW h \in Handlers, Others(h), Kept(h), Still(h), nextRow' = nextRow,
         SameWrites(h), UNCHANGED <<rows, bins>> \/ op[h].kind \in {"folder", "bin"}
  PROVE  Holds(h) /\ NumbersOf(h)' /\ LocksOf(h)'
<1>1. Holds(h) /\ NumbersOf(h)'
  BY GoesOnNumbers DEF SameWrites, Holds
<1>2. op'[h].kind = op[h].kind /\ op'[h].fs = op[h].fs /\ op'[h].writes = op[h].writes
      /\ op'[h].unbin = op[h].unbin
  BY DEF Still, SameWrites
<1>3. LocksOf(h)
  BY DEF Ledger
<1>4. LocksOf(h)'
  <2>1. CASE UNCHANGED <<rows, bins>>
    <3>1. Present' = Present /\ rows' = rows /\ bins' = bins
      BY <2>1 DEF Present
    <3> QED
      BY <1>2, <1>3, <3>1 DEF LocksOf, Others, Sized
  <2>2. CASE op[h].kind \in {"folder", "bin"}
    BY <1>2, <1>3, <2>2 DEF LocksOf
  <2> QED
    BY <2>1, <2>2
<1> QED
  BY <1>1, <1>4

\* ... one that begins, ...
LEMMA MakesLedger ==
  ASSUME Typed, Ledger, NEW h \in Handlers, Others(h), Makes(h)
  PROVE  Holds(h) /\ NumbersOf(h)' /\ LocksOf(h)'
<1>1. PICK kind \in {"upload", "folder"}, p \in 0 .. MaxRows, name \in Names, keep \in BOOLEAN :
        Starts(h, kind) /\ Made(op'[h], kind, p, name, keep)
  BY DEF Makes
<1>2. /\ op'[h].kind = kind /\ op'[h].fs = nextRow /\ DOMAIN op'[h].writes = {}
      /\ op'[h].unbin = {}
  BY <1>1 DEF Made
<1>3. nextRow' = nextRow + 1 /\ nextRow \in Int
  <2>1. nextRow' = nextRow + 1
    BY DEF Makes
  <2>2. nextRow \in 1 .. MaxRows + 1
    BY DEF Typed
  <2> QED
    BY <2>1, <2>2, BoundsAssumption
<1>4. Present' = Present /\ \A i \in Present : i < nextRow /\ i \in Int
  BY <1>1 DEF Starts, Present, Ledger, RowsLedger, Ids
<1>5. \A k \in Handlers \ {h} : Dated(op'[k]) => op'[k].fs < nextRow /\ op'[k].fs \in Int
  BY JobIs, BoundsAssumption DEF Others, Ledger, NumbersOf
<1> QED
  BY <1>2, <1>3, <1>4, <1>5 DEF Holds, NumbersOf, LocksOf, Dated, Maker

\* A request that begins has locked nothing.
LEMMA StartsLedger ==
  ASSUME Typed, Ledger, NEW h \in Handlers, Others(h), nextRow' = nextRow,
         StartsEncrypt(h) \/ StartsRestore(h) \/ StartsOther(h) \/ StartsClean(h)
  PROVE  Holds(h) /\ NumbersOf(h)' /\ LocksOf(h)'
<1>1. nextRow' = nextRow /\ nextRow \in Int
  BY DEF Typed
<1>2. rows' = rows /\ bins' = bins /\ Present' = Present
  BY DEF StartsEncrypt, StartsRestore, StartsOther, StartsClean, Starts, Present
<1>3. CASE StartsEncrypt(h)
  <2>1. /\ op'[h].kind = "encrypt" /\ op'[h].fs \in Present /\ rows[op'[h].fs].file
        /\ ~rows[op'[h].fs].enc /\ op'[h].extra = rows[op'[h].fs].size + 1
        /\ DOMAIN op'[h].writes = {}
    BY <1>3, WritesAre DEF StartsEncrypt, Starts, Live, Folder
  <2>2. op'[h].fs < nextRow /\ op'[h].extra = 2
    BY <2>1 DEF Ledger, RowsLedger, Sized
  <2> QED
    BY <1>1, <1>2, <2>1, <2>2 DEF Holds, NumbersOf, LocksOf, Dated, Maker, Folder
<1>4. CASE StartsRestore(h) \/ StartsOther(h)
  <2>1. op'[h].kind \in {"restore", "bin", "forget"} /\ DOMAIN op'[h].writes = {}
    BY <1>4, WritesAre DEF StartsRestore, StartsOther, Starts
  <2> QED
    BY <1>1, <2>1 DEF Holds, NumbersOf, LocksOf, Dated, Maker
<1>5. CASE StartsClean(h)
  <2>1. /\ op'[h].kind = "clean" /\ DOMAIN op'[h].writes = Present /\ op'[h].unbin = Ids
        /\ \A i \in Present : Unlocked(h, i) /\ op'[h].writes[i] = None /\ i \in Ids
    BY <1>5 DEF StartsClean, Starts, Present, Free
  <2> QED
    BY <1>1, <1>2, <2>1 DEF Holds, NumbersOf, LocksOf, Dated, Maker, Others, Unlocked
<1> QED
  BY <1>3, <1>4, <1>5

\* ... and one that writes.
LEMMA LocksLedger ==
  ASSUME Typed, Ledger, NEW h \in Handlers, Others(h), Kept(h), nextRow' = nextRow,
         Replaces(h) \/ Issues(h) \/ Restores(h) \/ Forgets(h)
  PROVE  Holds(h) /\ NumbersOf(h)' /\ LocksOf(h)'
<1> DEFINE w == op'[h].writes
<1>1. GoesOn(h) /\ rows' = rows /\ bins' = bins /\ Present' = Present
  BY DEF Replaces, Issues, Restores, Forgets, Present
<1>2. /\ op'[h].kind = op[h].kind /\ op'[h].fs = op[h].fs /\ op'[h].extra = op[h].extra
      /\ Still(h)
  BY <1>1 DEF GoesOn, Still
<1>3. \A i \in Present : Sized(rows[i]) /\ rows[i] \in FullRow
  BY RowsAre DEF Ledger, RowsLedger, Typed
<1>4. LocksOf(h) /\ NumbersOf(h)
  BY DEF Ledger
<1>5. /\ op[h].kind = "encrypt" => DOMAIN w \subseteq {op[h].fs}
      /\ op[h].kind \notin {"none", "folder", "bin"}
      /\ op[h].kind = "upload" => op'[h].unbin = {} /\ \A i \in DOMAIN w : w[i] = None
      /\ \A i \in DOMAIN w :
            /\ i \in Present /\ Unlocked(h, i)
            /\ w[i] = None => bins[i] = 0 \/ i \in op'[h].unbin
            /\ w[i] # None => /\ Sized(w[i]) /\ w[i].file = rows[i].file
                              /\ op[h].kind # "encrypt" => w[i].size = rows[i].size
  <2>1. CASE Replaces(h)
    <3>1. op[h].kind = "upload" /\ op'[h].unbin = {}
      BY <1>4, <2>1 DEF Replaces, LocksOf
    <3>2. \A i \in DOMAIN w : i = op[h].victim /\ w[i] = None
      BY <2>1 DEF Replaces
    <3>3. op[h].victim \in Present /\ Unlocked(h, op[h].victim) /\ bins[op[h].victim] = 0
      BY <2>1 DEF Replaces, Referred, BinRow, Live, Free
    <3> QED
      BY <3>1, <3>2, <3>3
  <2>2. CASE Issues(h)
    <3> DEFINE i == op[h].fs
               r == [rows[i] EXCEPT !.enc = TRUE, !.size = op[h].extra, !.path = op[h].path]
    <3>1. op[h].kind = "encrypt" /\ Unlocked(h, i) /\ op[h].extra = 2 /\ (i \in Present => rows[i].file)
      BY <1>4, <2>2 DEF Issues, NumbersOf, Folder, Free
    <3>2. CASE i \in Live /\ ~rows[i].enc
      <4>1. i \in Present /\ rows[i] \in FullRow
        BY <1>3, <3>2 DEF Live
      <4>2. Sized(r) /\ r.file = rows[i].file
        BY <3>1, <4>1 DEF Sized, FullRow
      <4>3. w = [x \in {i} |-> r]
        BY <2>2, <3>2 DEF Issues
      <4>4. r # None
        <5>1. r \in FullRow
          BY <3>1, <4>1, JobIs DEF JobOK, FullRow
        <5> QED
          BY <5>1, NoneIsNoRow
      <4> HIDE DEF r
      <4>5. DOMAIN w = {i} /\ w[i] = r
        BY <4>3
      <4> QED
        BY <3>1, <4>1, <4>2, <4>4, <4>5
    <3>3. CASE i \notin Live \/ rows[i].enc
      <4>1. DOMAIN w = {}
        BY <2>2, <3>3, WritesAre DEF Issues
      <4> QED
        BY <3>1, <4>1
    <3> QED
      BY <3>2, <3>3
  <2>3. CASE Restores(h)
    <3> DEFINE T == IF op[h].keep THEN {op[h].fs} ELSE Tree(op[h].fs, TRUE)
    <3>1. op[h].kind = "restore" /\ op[h].fs \in Present
      BY <2>3 DEF Restores
    <3>2. T \in SUBSET Present
      BY <3>1, TreeIn
    <3>3. /\ \A j \in T : Unlocked(h, j)
          /\ \E new \in Moves(h, T \ {op[h].fs}) : w = Restored(h, T, new)
      BY <2>3 DEF Restores, Free
    <3>6. PICK new \in Moves(h, T \ {op[h].fs}) : w = Restored(h, T, new)
      BY <3>3
    <3> HIDE DEF T
    <3>4. /\ DOMAIN w = T
          /\ \A j \in T : /\ w[j] \in FullRow /\ w[j].size = rows[j].size /\ w[j].enc = rows[j].enc
                          /\ w[j].file = rows[j].file
      <4> HIDE DEF w
      <4>1. /\ DOMAIN Restored(h, T, new) = T
            /\ \A j \in T : LET r == Restored(h, T, new)[j]
                            IN /\ r \in FullRow /\ r.size = rows[j].size /\ r.enc = rows[j].enc
                               /\ r.file = rows[j].file
        BY <3>1, <3>2, RestoredAre
      <4> QED
        BY <3>6, <4>1
    <3> HIDE DEF w
    <3>5. \A j \in T : w[j] # None /\ Sized(w[j])
      BY <1>3, <3>2, <3>4, NoneIsNoRow DEF Sized
    <3> QED
      BY <3>1, <3>2, <3>3, <3>4, <3>5
  <2>4. CASE Forgets(h)
    <3> DEFINE D == IF op[h].keep THEN {op[h].fs} ELSE Tree(op[h].fs, TRUE)
    <3>1. op[h].kind = "forget" /\ op[h].fs \in Present
      BY <2>4 DEF Forgets
    <3>2. D \subseteq Present
      BY <3>1, TreeIn
    <3>3. w = [j \in D |-> None] /\ op'[h].unbin = {op[h].fs}
          /\ \A j \in D : Unlocked(h, j) /\ (j # op[h].fs => bins[j] = 0)
      BY <2>4 DEF Forgets, Referred, BinRow, Free
    <3> HIDE DEF D
    <3> QED
      BY <3>1, <3>2, <3>3
  <2> QED
    BY <2>1, <2>2, <2>3, <2>4
<1>6. Holds(h) /\ NumbersOf(h)'
  <2> HIDE DEF w
  <2>1. \A i \in DOMAIN w : Unlocked(h, i)
    BY <1>5
  <2> USE DEF w
  <2> QED
    BY <1>1, <1>2, <2>1, GoesOnNumbers DEF Holds
<1>7. LocksOf(h)'
  <2>1. \A i \in DOMAIN w : \A k \in Handlers \ {h} : i \notin DOMAIN op'[k].writes
    BY <1>5 DEF Unlocked, Others
  <2>2. op[h].kind # "none" /\ op[h].kind # "folder" /\ op[h].kind # "bin"
    BY <1>5
  <2> QED
    BY <1>1, <1>2, <1>5, <2>1, <2>2 DEF LocksOf, Sized
<1> QED
  BY <1>6, <1>7

\* A step of a request keeps the ledger.
LEMMA WorksLedger ==
  ASSUME Typed, Typed', Ledger, NEW h \in Handlers, Others(h), Works(h)
  PROVE  Ledger'
<1>1. Kept(h)
  BY WorksKept
<1>2. Holds(h) /\ NumbersOf(h)' /\ LocksOf(h)'
  <2>1. CASE Makes(h)
    BY <2>1, MakesLedger
  <2>2. CASE /\ nextRow' = nextRow
             /\ StartsEncrypt(h) \/ StartsRestore(h) \/ StartsOther(h) \/ StartsClean(h)
    BY <2>2, StartsLedger
  <2>3. CASE nextRow' = nextRow /\ (Goes(h) \/ Renames(h) \/ Deletes(h) \/ Flips(h))
    BY <1>1, <2>3, GoesOnLedger, StillIs DEF Goes, Deletes, Flips
  <2>4. CASE nextRow' = nextRow /\ (GivesUp(h) \/ Inserts(h) \/ Bins(h) \/ Commits(h))
    BY <2>4, EndsLedger DEF GivesUp, Inserts, Bins, Commits
  <2>5. CASE nextRow' = nextRow /\ (Replaces(h) \/ Issues(h) \/ Restores(h) \/ Forgets(h))
    BY <1>1, <2>5, LocksLedger
  <2> QED
    BY <2>1, <2>2, <2>3, <2>4, <2>5 DEF Works
<1>3. RowsLedger' /\ \A g \in Handlers \ {h} : NumbersOf(g)' /\ LocksOf(g)'
  BY <1>1, <1>2, OthersLedger
<1> QED
  BY <1>2, <1>3 DEF Ledger

\* Every step keeps the ledger.
LEMMA NextLedger == Typed /\ Ledger /\ [Next]_vars => Ledger'
<1> SUFFICES ASSUME Typed, Ledger, [Next]_vars PROVE Ledger'
  OBVIOUS
<1>1. Typed'
  BY NextTyped
<1>2. CASE UNCHANGED <<rows, bins, op, nextRow>>
  BY <1>2 DEF Ledger, RowsLedger, NumbersOf, LocksOf, Present, Folder
<1>3. ASSUME NEW h \in Handlers, Others(h), Works(h) PROVE Ledger'
  BY <1>1, <1>3, WorksLedger
<1> QED
  BY <1>2, <1>3, EveryStep

\* The types and the ledger hold after any sequence of requests.
LEMMA AlwaysLedger == Spec => [](Typed /\ Ledger)
BY InitTyped, NextTyped, InitLedger, NextLedger, PTL DEF Spec

-----------------------------------------------------------------------------
(* The limit on what a user stores.                                        *)

\* The requests that will add to what is stored.
Adding == {h \in Handlers : Adds(h)}

\* What is stored, and what the requests under way will add to it.
Quota == Total + Cardinality(Adding) <= MaxStorage + Cardinality(Handlers) - 1

\* Total as the last of the sums.
Summed == \E f : Sums(f, rows) /\ Total = f[MaxRows]

\* Total is a sum, in every state (the form that a next state can be cited in).
LEMMA TotalSummed == Summed
BY TotalSums DEF Summed

\* A step adds 1 at most to what is stored, at the end of a request that adds.
LEMMA TotalGrows ==
  ASSUME Typed, Typed', NEW h \in Handlers, Grows(h)
  PROVE  /\ Total \in Nat /\ Total' \in Nat
         /\ Total' <= Total + (IF Adds(h) /\ Ends(h) THEN 1 ELSE 0)
<1> DEFINE fs == op[h].fs
           d == IF Adds(h) /\ Ends(h) THEN 1 ELSE 0
<1>1. PICK f : Sums(f, rows) /\ Total = f[MaxRows]
  BY TotalSums
<1>2. PICK g : Sums(g, rows') /\ Total' = g[MaxRows]
  <2>1. Summed'
    BY TotalSummed, PTL
  <2> QED
    BY <2>1 DEF Summed
<1>3. \A i \in Ids : Size(rows[i]) \in Nat /\ Size(rows'[i]) \in Nat
  <2>1. \A i \in Ids : Size(rows[i]) \in Nat
    BY SizesAre DEF Typed
  <2>2. rows' \in Tables
    BY DEF Typed, TablesOK
  <2>3. \A i \in Ids : Size(rows'[i]) \in Nat
    BY <2>2 DEF Tables, FullRow, Size
  <2> QED
    BY <2>1, <2>3
<1>4. /\ \A n \in Ids \ {fs} : Size(rows'[n]) <= Size(rows[n])
      /\ fs \in Ids => Size(rows'[fs]) <= Size(rows[fs]) + d
  BY DEF Grows
<1>5. d \in Nat
  OBVIOUS
<1> HIDE DEF fs, d
<1>6. /\ f[MaxRows] \in Nat /\ g[MaxRows] \in Nat /\ g[MaxRows] <= f[MaxRows] + d
  BY <1>1, <1>2, <1>3, <1>4, <1>5, SumGrows
<1> QED
  BY <1>1, <1>2, <1>6 DEF d

\* How many requests add: no more than there are, and one less when one ends.
LEMMA AddingIs ==
  /\ IsFiniteSet(Adding) /\ Cardinality(Adding) \in Nat /\ Cardinality(Handlers) \in Nat
  /\ Cardinality(Adding) <= Cardinality(Handlers)
<1>1. Adding \subseteq Handlers
  BY DEF Adding
<1> QED
  BY <1>1, HandlersAssumption, FS_Subset, FS_CardinalityType

\* The requests that add, after a step of one request.
LEMMA AddingLess ==
  ASSUME NEW h \in Handlers, Others(h)
  PROVE  /\ IsFiniteSet(Adding') /\ Cardinality(Adding') \in Nat
         /\ Cardinality(Adding') <= Cardinality(Handlers)
         /\ Adds(h)' = Adds(h) => Adding' = Adding
         /\ ~Adds(h)' => Cardinality(Adding') = Cardinality(Adding) - (IF Adds(h) THEN 1 ELSE 0)
<1>1. Adding' \subseteq Handlers
  BY DEF Adding
<1>2. IsFiniteSet(Adding') /\ Cardinality(Adding') \in Nat /\ Cardinality(Adding') <= Cardinality(Handlers)
  BY <1>1, HandlersAssumption, FS_Subset, FS_CardinalityType
<1>3. \A g \in Handlers \ {h} : Adds(g)' <=> Adds(g)
  BY DEF Others, Adds
<1>4. (Adds(h)' <=> Adds(h)) => Adding' = Adding
  BY <1>3 DEF Adding
<1>5. ASSUME ~Adds(h)' PROVE Cardinality(Adding') = Cardinality(Adding) - (IF Adds(h) THEN 1 ELSE 0)
  <2>1. CASE Adds(h)
    <3>1. Adding' = Adding \ {h} /\ h \in Adding
      BY <1>3, <1>5, <2>1 DEF Adding
    <3>2. \A F, x : IsFiniteSet(F) /\ x \in F => Cardinality(F \ {x}) = Cardinality(F) - 1
      BY FS_RemoveElement
    <3> QED
      BY <2>1, <3>1, <3>2, AddingIs
  <2>2. CASE ~Adds(h)
    BY <1>4, <1>5, <2>2, AddingIs
  <2> QED
    BY <2>1, <2>2
<1> QED
  BY <1>2, <1>4, <1>5

\* Nothing is stored at first.
LEMMA InitQuota == Init => Quota
<1> SUFFICES ASSUME Init PROVE Quota
  OBVIOUS
<1>1. Adding = {}
  BY DEF Init, Idle, Adding, Adds
<1>2. Cardinality(Adding) = 0
  BY <1>1, FS_EmptySet
<1>3. Cardinality(Handlers) \in Nat /\ Cardinality(Handlers) # 0
  BY HandlersAssumption, FS_CardinalityType, FS_EmptySet
<1>4. Total = 0
  <2>1. PICK f : Sums(f, rows) /\ Total = f[MaxRows]
    BY TotalSums
  <2>2. \A n \in Ids : Size(rows[n]) = 0
    BY DEF Init, Size
  <2> DEFINE S == {n \in Nat : n <= MaxRows => f[n] = 0}
  <2>3. 0 \in S
    BY <2>1, BoundsAssumption DEF Sums
  <2>4. ASSUME NEW n \in Nat, n \in S PROVE n + 1 \in S
    <3>1. CASE n + 1 <= MaxRows
      <4>1. n + 1 \in 0 .. MaxRows /\ n + 1 \in Ids /\ f[n] = 0 /\ n + 1 # 0 /\ (n + 1) - 1 = n
        BY <2>4, <3>1, BoundsAssumption DEF Ids
      <4>2. f[n + 1] = f[n] + Size(rows[n + 1])
        BY <2>1, <4>1 DEF Sums
      <4> QED
        BY <2>2, <4>1, <4>2
    <3>2. CASE ~(n + 1 <= MaxRows)
      BY <3>2
    <3> QED
      BY <3>1, <3>2
  <2> HIDE DEF S
  <2>5. MaxRows \in S
    BY <2>3, <2>4, Induction, BoundsAssumption
  <2> QED
    BY <2>1, <2>5, BoundsAssumption DEF S
<1> QED
  BY <1>2, <1>3, <1>4, BoundsAssumption DEF Quota

\* A step is the beginning of a request that adds, which has looked at the
\* total; or the end of a request; or changes nothing about which requests add.
LEMMA AddsOrNot ==
  ASSUME Typed, NEW h \in Handlers, Works(h)
  PROVE  \/ WithinLimit(1) /\ ~Adds(h) /\ ~Ends(h)
         \/ Ends(h) /\ ~Adds(h)'
         \/ ~Ends(h) /\ Adds(h)' = Adds(h)
<1>1. CASE Makes(h)
  <2>1. PICK kind \in {"upload", "folder"}, p \in 0 .. MaxRows, name \in Names, keep \in BOOLEAN :
          Starts(h, kind) /\ Made(op'[h], kind, p, name, keep)
    BY <1>1 DEF Makes
  <2>2. op[h].kind = "none" /\ op'[h].kind = kind /\ (kind = "upload" => op'[h].pc = "quota")
    BY <2>1 DEF Starts, MayStart, Idle, Made
  <2> QED
    BY <2>1, <2>2, IdleOK DEF Adds, Ends, Idle
<1>2. CASE StartsEncrypt(h)
  BY <1>2 DEF StartsEncrypt, Starts, MayStart, Idle, Adds, Ends
<1>3. CASE StartsRestore(h) \/ StartsOther(h) \/ StartsClean(h)
  BY <1>3 DEF StartsRestore, StartsOther, StartsClean, Starts, MayStart, Idle, Adds, Ends
<1>4. CASE Ends(h)
  BY <1>4 DEF Ends, Adds, Idle
<1>5. CASE GoesOn(h)
  <2>1. op'[h].kind = op[h].kind /\ op'[h].pc # "quota" /\ (op[h].pc = "quota" => WithinLimit(1))
    BY <1>5 DEF GoesOn, Onward
  <2>2. CASE op[h].kind = "upload" /\ op[h].pc = "quota"
    <3>1. ~Adds(h) /\ ~Ends(h)
      BY <2>1, <2>2 DEF Adds, Ends, Idle
    <3> QED
      BY <2>1, <2>2, <3>1
  <2>3. CASE ~(op[h].kind = "upload" /\ op[h].pc = "quota")
    <3>1. Adds(h)' <=> Adds(h)
      BY <2>1, <2>3 DEF Adds
    <3>2. Adds(h)' = Adds(h)
      BY <3>1 DEF Adds
    <3> QED
      BY <1>4, <3>2
  <2> QED
    BY <2>2, <2>3
<1>7. CASE Renames(h)
  <2>1. op'[h].kind = op[h].kind
    BY <1>7, StillIs DEF Still
  <2>2. op[h].pc = "number" /\ op'[h].pc = "write"
    BY <1>7, JobIs DEF Renames, Job
  <2>3. Adds(h)' = Adds(h)
    BY <2>1, <2>2 DEF Adds
  <2> QED
    BY <1>4, <2>3
<1>6. \/ Makes(h) \/ StartsEncrypt(h) \/ StartsRestore(h) \/ StartsOther(h) \/ StartsClean(h)
      \/ Ends(h) \/ GoesOn(h) \/ Renames(h)
  BY DEF Works, Goes, GivesUp, Replaces, Inserts, Deletes, Issues, Flips, Bins, Restores, Forgets, Commits
<1> QED
  BY <1>1, <1>2, <1>3, <1>4, <1>5, <1>6, <1>7

\* Every step keeps what is stored and what will be added within the bound.
LEMMA NextQuota == Typed /\ Ledger /\ Quota /\ [Next]_vars => Quota'
<1> SUFFICES ASSUME Typed, Ledger, Quota, [Next]_vars PROVE Quota'
  OBVIOUS
<1>1. Typed'
  BY NextTyped
<1>2. CASE UNCHANGED <<rows, bins, op, nextRow>>
  BY <1>2 DEF Quota, Total, Adding, Adds
<1>3. ASSUME NEW h \in Handlers, Others(h), Works(h) PROVE Quota'
  <2>1. Grows(h)
    BY <1>3, WorksKept
  <2>2. /\ Total \in Nat /\ Total' \in Nat
        /\ Total' <= Total + (IF Adds(h) /\ Ends(h) THEN 1 ELSE 0)
    BY <1>1, <2>1, TotalGrows
  <2> DEFINE a == Cardinality(Adding)
             b == Cardinality(Adding')
             n == Cardinality(Handlers)
             d == IF Adds(h) THEN 1 ELSE 0
  <2>3. a \in Nat /\ n \in Nat /\ b \in Nat /\ b <= n
    BY <1>3, AddingIs, AddingLess
  <2>4. Total + a <= MaxStorage + n - 1
    BY DEF Quota
  <2>5. (Adds(h)' = Adds(h) => b = a) /\ (~Adds(h)' => b = a - d)
    BY <1>3, AddingLess
  <2> HIDE DEF a, b, n
  <2>6. CASE WithinLimit(1) /\ ~Adds(h) /\ ~Ends(h)
    BY <2>2, <2>3, <2>6, BoundsAssumption DEF WithinLimit, Quota, b, n
  <2>7. CASE Ends(h) /\ ~Adds(h)'
    BY <2>2, <2>3, <2>4, <2>5, <2>7, BoundsAssumption DEF Quota, b, n
  <2>8. CASE ~Ends(h) /\ Adds(h)' = Adds(h)
    BY <2>2, <2>3, <2>4, <2>5, <2>8, BoundsAssumption DEF Quota, b, n
  <2> QED
    BY <1>3, <2>6, <2>7, <2>8, AddsOrNot
<1> QED
  BY <1>2, <1>3, EveryStep

\* Requests that run beside each other take the user past the limit by less than
\* one size for each of them (checkStorageLimit looks at what is stored already),
\* whichever kinds of request overlap.
THEOREM QuotaNearlyHeldHolds == Spec => []QuotaNearlyHeld
<1>1. Typed /\ Ledger /\ Quota => QuotaNearlyHeld
  <2> SUFFICES ASSUME Typed, Quota PROVE QuotaNearlyHeld
    OBVIOUS
  <2>1. PICK f : Sums(f, rows) /\ Total = f[MaxRows]
    BY TotalSums
  <2>2. Total \in Nat
    <3>1. \A i \in Ids : Size(rows[i]) \in Nat
      BY SizesAre DEF Typed
    <3>2. f[MaxRows] \in Nat
      <4>1. \A i \in Ids : Size(rows[i]) <= Size(rows[i]) + 0
        BY <3>1
      <4> QED
        BY <2>1, <3>1, <4>1, SumGrows
    <3> QED
      BY <2>1, <3>2
  <2> QED
    BY <2>2, AddingIs, BoundsAssumption DEF Quota, QuotaNearlyHeld
<1>2. Typed /\ Ledger /\ Quota /\ [Next]_vars => (Typed /\ Ledger /\ Quota)'
  BY NextTyped, NextLedger, NextQuota
<1> QED
  BY <1>1, <1>2, InitTyped, InitLedger, InitQuota, PTL DEF Spec

-----------------------------------------------------------------------------
(* Rows hang under rows that are there, whatever requests overlap.         *)

RowsParented == \A i \in Present : rows[i].parent \in Present \cup {0}

\* Nor does a transaction write a row under one that another deletes.
WritesParented(g) ==
    LET w == op[g].writes
    IN \A j \in DOMAIN w :
          w[j] # None => w[j].parent \in Present \cup {0} /\ Stands(g, w[j].parent)

Parented == RowsParented /\ \A g \in Handlers : WritesParented(g)

\* Another transaction hangs a row under p.
Awaits(h, p) ==
    \E g \in Handlers \ {h} : \E j \in DOMAIN op[g].writes :
       op[g].writes[j] # None /\ op[g].writes[j].parent = p

\* There are no rows at first.
LEMMA InitParented == Init => Parented
<1> SUFFICES ASSUME Init PROVE Parented
  OBVIOUS
<1>1. Present = {} /\ \A g \in Handlers : DOMAIN op[g].writes = {}
  BY WritesAre DEF Init, Present, Idle
<1> QED
  BY <1>1 DEF Parented, RowsParented, WritesParented

\* Where others hang rows is there, and the request does not delete it; ...
LEMMA AwaitedThere ==
  ASSUME Parented, NEW h \in Handlers, NEW p, Awaits(h, p)
  PROVE  p \in Present \cup {0} /\ ~Doomed(h, p)
<1>1. PICK g \in Handlers \ {h} : \E j \in DOMAIN op[g].writes :
         op[g].writes[j] # None /\ op[g].writes[j].parent = p
  BY DEF Awaits
<1>2. PICK j \in DOMAIN op[g].writes : op[g].writes[j] # None /\ op[g].writes[j].parent = p
  BY <1>1
<1> HIDE DEF Doomed
<1> QED
  BY <1>1, <1>2 DEF Parented, WritesParented, Stands

\* ... and it deletes no row whose deletion has to wait for them.
LEMMA UnhungNotAwaited ==
  ASSUME NEW h \in Handlers, NEW D, Unhung(h, D)
  PROVE  \A p \in D : ~Awaits(h, p)
BY DEF Unhung, Awaits

\* A step that leaves a parent to its rows, to what it writes and to what others write.
LEMMA ParentStep ==
  ASSUME NEW h \in Handlers, Others(h), RowsParented', WritesParented(h)', Parented,
         \A p : Awaits(h, p) => p \in Present' \cup {0} /\ ~Doomed(h, p)'
  PROVE  Parented'
<1>1. ASSUME NEW g \in Handlers \ {h} PROVE WritesParented(g)'
  <2> SUFFICES ASSUME NEW j \in DOMAIN op'[g].writes, op'[g].writes[j] # None
               PROVE  /\ op'[g].writes[j].parent \in Present' \cup {0}
                      /\ \A k \in Handlers \ {g} : ~Doomed(k, op[g].writes[j].parent)'
    BY <1>1 DEF WritesParented, Others, Stands
  <2> PICK p : p = op[g].writes[j].parent
    OBVIOUS
  <2>1. op'[g] = op[g]
    BY DEF Others
  <2>2. Awaits(h, p)
    BY <2>1 DEF Awaits
  <2>3. p \in Present' \cup {0} /\ ~Doomed(h, p)'
    BY <2>2
  <2>4. \A k \in Handlers \ {g} : ~Doomed(k, p)
    BY <2>1 DEF Parented, WritesParented, Stands
  <2>5. \A k \in Handlers \ {h} : Doomed(k, p)' <=> Doomed(k, p)
    BY DEF Doomed, Others
  <2> HIDE DEF Doomed
  <2> QED
    BY <2>1, <2>3, <2>4, <2>5
<1> QED
  BY <1>1 DEF Parented

\* What a request writes does not matter when it writes no row, ...
LEMMA WritesNoRow ==
  ASSUME NEW h \in Handlers, \A j \in DOMAIN op'[h].writes : op'[h].writes[j] = None
  PROVE  WritesParented(h)'
BY DEF WritesParented

\* ... nor to others when it deletes none.
LEMMA DoomsNone ==
  ASSUME NEW h \in Handlers, \A j \in DOMAIN op'[h].writes : op'[h].writes[j] # None
  PROVE  \A p : ~Doomed(h, p)'
BY DEF Doomed

\* Steps that leave the rows where they are and write nothing: ...
LEMMA QuietParented ==
  ASSUME Parented, NEW h \in Handlers, Others(h), Present' = Present, RowsParented',
         op'[h].writes = op[h].writes \/ DOMAIN op'[h].writes = {}
  PROVE  Parented'
<1>1. \A p : Doomed(h, p)' => Doomed(h, p)
  BY DEF Doomed
<1>2. \A p : Awaits(h, p) => p \in Present' \cup {0} /\ ~Doomed(h, p)'
  BY <1>1, AwaitedThere
<1>3. WritesParented(h)'
  <2>1. CASE DOMAIN op'[h].writes = {}
    BY <2>1, WritesNoRow
  <2>2. CASE op'[h].writes = op[h].writes
    <3> SUFFICES ASSUME NEW j \in DOMAIN op'[h].writes, op'[h].writes[j] # None
                 PROVE  /\ op'[h].writes[j].parent \in Present' \cup {0}
                        /\ \A k \in Handlers \ {h} : ~Doomed(k, op[h].writes[j].parent)'
      BY <2>2 DEF WritesParented, Stands
    <3>1. /\ op[h].writes[j].parent \in Present \cup {0}
          /\ \A k \in Handlers \ {h} : ~Doomed(k, op[h].writes[j].parent)
      BY <2>2 DEF Parented, WritesParented, Stands
    <3>2. \A k \in Handlers \ {h} :
             Doomed(k, op[h].writes[j].parent)' <=> Doomed(k, op[h].writes[j].parent)
      BY DEF Doomed, Others
    <3> HIDE DEF Doomed
    <3> QED
      BY <2>2, <3>1, <3>2
  <2> QED
    BY <2>1, <2>2
<1> QED
  BY <1>2, <1>3, ParentStep

\* ... transactions that delete rows nobody hangs rows under, ...
LEMMA DoomingParented ==
  ASSUME Parented, NEW h \in Handlers, Others(h), rows' = rows,
         \A j \in DOMAIN op'[h].writes : op'[h].writes[j] = None /\ ~Awaits(h, j)
  PROVE  Parented'
<1>1. Present' = Present
  BY DEF Present
<1>2. \A p : Doomed(h, p)' => ~Awaits(h, p)
  BY DEF Doomed
<1>3. \A p : Awaits(h, p) => p \in Present' \cup {0} /\ ~Doomed(h, p)'
  BY <1>1, <1>2, AwaitedThere
<1>4. RowsParented'
  BY <1>1 DEF Parented, RowsParented
<1>5. WritesParented(h)'
  BY WritesNoRow
<1> QED
  BY <1>3, <1>4, <1>5, ParentStep

\* ... that write rows under what nobody else deletes, ...
LEMMA HangingParented ==
  ASSUME Parented, NEW h \in Handlers, Others(h), rows' = rows,
         \A j \in DOMAIN op'[h].writes :
            /\ op'[h].writes[j] # None /\ op'[h].writes[j].parent \in Present \cup {0}
            /\ \A k \in Handlers \ {h} : ~Doomed(k, op'[h].writes[j].parent)
  PROVE  Parented'
<1>1. Present' = Present
  BY DEF Present
<1>2. \A p : ~Doomed(h, p)'
  BY DoomsNone
<1>3. \A p : Awaits(h, p) => p \in Present' \cup {0} /\ ~Doomed(h, p)'
  BY <1>1, <1>2, AwaitedThere
<1>4. RowsParented'
  BY <1>1 DEF Parented, RowsParented
<1>5. \A k \in Handlers \ {h} : \A p : Doomed(k, p)' <=> Doomed(k, p)
  BY DEF Doomed, Others
<1>6. WritesParented(h)'
  <2> HIDE DEF Doomed
  <2>1. PICK w : w = op'[h].writes
    OBVIOUS
  <2>2. \A j \in DOMAIN w : /\ w[j] # None /\ w[j].parent \in Present' \cup {0}
                            /\ \A k \in Handlers \ {h} : ~Doomed(k, w[j].parent)'
    BY <1>1, <1>5, <2>1
  <2> QED
    BY <2>1, <2>2 DEF WritesParented, Stands
<1> QED
  BY <1>3, <1>4, <1>6, ParentStep

\* ... and steps that take away rows nobody hangs rows under.
LEMMA RemovingParented ==
  ASSUME Parented, NEW h \in Handlers, Others(h), RowsParented', DOMAIN op'[h].writes = {},
         \A p \in Present : Awaits(h, p) => p \in Present'
  PROVE  Parented'
<1>1. WritesParented(h)' /\ \A p : ~Doomed(h, p)'
  BY WritesNoRow, DoomsNone
<1>2. \A p : Awaits(h, p) => p \in Present' \cup {0} /\ ~Doomed(h, p)'
  BY <1>1, AwaitedThere
<1> QED
  BY <1>1, <1>2, ParentStep

\* There is a row p in the table R, or none is meant.
Under(R, p) == p = 0 \/ (p \in Ids /\ R[p] # None)

\* Rows hang under rows, in these terms.
LEMMA RowsUnder ==
  RowsParented <=> \A i \in Ids : rows[i] # None => Under(rows, rows[i].parent)
<1>1. \A p : p \in Present \cup {0} <=> Under(rows, p)
  BY DEF Under, Present
<1> QED
  BY <1>1 DEF RowsParented, Present

\* Where the rows that are left hang after those of D are deleted.
LEMMA WithoutParented ==
  ASSUME Typed, NEW R \in Tables, NEW D,
         \A i \in Ids : R[i] # None => Under(R, R[i].parent) \/ R[i].parent \in D
  PROVE  \A i \in Ids :
            LET r == Without(R, D)[i]
            IN /\ r # None <=> R[i] # None /\ i \notin D
               /\ r # None => Under(Without(R, D), r.parent)
<1>1. /\ Without(R, D) \in Tables
      /\ \A i \in Ids : /\ i \in D \/ R[i] = None => Without(R, D)[i] = None
                        /\ i \notin D /\ R[i] # None =>
                              \/ Without(R, D)[i] = R[i] /\ R[i].parent \notin D
                              \/ Without(R, D)[i] = [R[i] EXCEPT !.parent = 0] /\ R[i].parent \in D
  BY WithoutTyped
<1>2. \A i \in Ids : R[i] \in FullRow \cup {None}
  BY DEF Tables
<1>3. \A r \in FullRow : [r EXCEPT !.parent = 0] \in FullRow /\ [r EXCEPT !.parent = 0].parent = 0
  BY BoundsAssumption DEF FullRow
<1>4. None \notin FullRow
  BY NoneIsNoRow
<1> PICK W : W = Without(R, D)
  OBVIOUS
<1> HIDE DEF FullRow
<1>5. ASSUME NEW i \in Ids
      PROVE  /\ W[i] # None <=> R[i] # None /\ i \notin D
             /\ W[i] # None => W[i].parent = 0 \/ (W[i].parent = R[i].parent /\ R[i].parent \notin D)
  <2>1. CASE i \in D \/ R[i] = None
    BY <1>1, <2>1
  <2>2. CASE i \notin D /\ R[i] # None
    <3>1. R[i] \in FullRow
      BY <1>2, <2>2
    <3> PICK cut : cut = [R[i] EXCEPT !.parent = 0]
      OBVIOUS
    <3>2. cut # None /\ cut.parent = 0
      BY <1>3, <1>4, <3>1
    <3>3. (W[i] = R[i] /\ R[i].parent \notin D) \/ W[i] = cut
      BY <1>1, <2>2
    <3> QED
      BY <2>2, <3>2, <3>3
  <2> QED
    BY <2>1, <2>2
<1>6. \A p : Under(R, p) /\ p \notin D => Under(W, p)
  BY <1>5 DEF Under
<1>7. Under(W, 0)
  BY DEF Under
<1>8. \A i \in Ids : W[i] # None => Under(W, W[i].parent)
  BY <1>5, <1>6, <1>7
<1> QED
  BY <1>5, <1>8

\* A new folder deletes what it replaces, ...
LEMMA DeletesParented ==
  ASSUME Typed, Ledger, Parented, NEW h \in Handlers, Others(h), Deletes(h)
  PROVE  Parented'
<1>1. PICK v \in 0 .. MaxRows : /\ rows' = Without(rows, Tree(v, FALSE))
                                /\ Unhung(h, Tree(v, FALSE))
  BY DEF Deletes
<1>2. PICK D : rows' = Without(rows, D) /\ Unhung(h, D)
  BY <1>1
<1>3. \A i \in Ids : rows[i] # None => Under(rows, rows[i].parent)
  BY RowsUnder DEF Parented
<1>4. \A i \in Ids : LET r == rows'[i]
                     IN /\ r # None <=> rows[i] # None /\ i \notin D
                        /\ r # None => Under(rows', r.parent)
  BY <1>2, <1>3, WithoutParented DEF Typed, TablesOK
<1>5. RowsParented'
  <2>1. (\A i \in Ids : rows[i] # None => Under(rows, rows[i].parent))'
    BY <1>4
  <2> QED
    BY <2>1, RowsUnder, PTL
<1>6. \A p \in Present : Awaits(h, p) => p \in Present'
  BY <1>2, <1>4, UnhungNotAwaited DEF Present
<1>7. DOMAIN op'[h].writes = {}
  BY DEF Deletes, SameWrites, Ledger, LocksOf
<1> QED
  BY <1>5, <1>6, <1>7, RemovingParented

\* ... an upload or a new folder inserts its row, under one that is there, ...
LEMMA InsertsParented ==
  ASSUME Typed, Ledger, Parented, NEW h \in Handlers, Others(h), Inserts(h)
  PROVE  Parented'
<1>1. PICK D : D = DOMAIN op[h].writes
  OBVIOUS
<1>2. PICK W : W = Without(rows, D)
  OBVIOUS
<1>3. PICK new : new = NewRow(h, op[h].kind = "upload")
  OBVIOUS
<1>4. op[h].fs \in Ids /\ Maker(op[h]) /\ Ends(h)
  BY JobIs DEF Inserts, Maker, JobOK
<1>5. new # None /\ new.parent = op[h].parent
  <2>1. op[h].path \in Paths
    BY <1>4, JobIs DEF JobOK, Maker
  <2>2. new \in FullRow
    BY <1>3, <2>1, JobIs DEF NewRow, FullRow
  <2> QED
    BY <1>3, <2>2, NoneIsNoRow DEF NewRow
<1>6. W = [i \in Ids |-> W[i]]
  BY <1>2 DEF Without
<1>7. \A i \in Ids : rows'[i] = IF i = op[h].fs THEN new ELSE W[i]
  BY <1>1, <1>2, <1>3, <1>6 DEF Inserts
<1>8. \A i \in Ids : rows[i] # None => Under(rows, rows[i].parent)
  BY RowsUnder DEF Parented
<1>9. \A i \in Ids : LET r == W[i]
                     IN /\ r # None <=> rows[i] # None /\ i \notin D
                        /\ r # None => Under(W, r.parent)
  BY <1>2, <1>8, WithoutParented DEF Typed, TablesOK
<1>10. Under(W, op[h].parent)
  BY <1>1, <1>9 DEF Inserts, Present, Under
<1>11. \A i \in Ids : rows'[i] # None => Under(rows', rows'[i].parent)
  <2>1. \A p : Under(W, p) => Under(rows', p)
    BY <1>5, <1>7 DEF Under
  <2> QED
    BY <1>5, <1>7, <1>9, <1>10, <2>1
<1>12. RowsParented'
  <2>1. (\A i \in Ids : rows[i] # None => Under(rows, rows[i].parent))'
    BY <1>11
  <2> QED
    BY <2>1, RowsUnder, PTL
<1>13. \A p \in Present : Awaits(h, p) => p \in Present'
  <2> SUFFICES ASSUME NEW p \in Present, Awaits(h, p) PROVE p \in Present'
    OBVIOUS
  <2>1. ~Doomed(h, p)
    BY AwaitedThere
  <2>2. \A i \in D : op[h].writes[i] = None
    BY <1>1, <1>4 DEF Ledger, LocksOf, Maker
  <2>3. p \in Ids /\ rows[p] # None /\ p \notin D
    BY <1>1, <2>1, <2>2 DEF Doomed, Present
  <2> QED
    BY <1>5, <1>7, <1>9, <2>3 DEF Present
<1>14. DOMAIN op'[h].writes = {}
  BY <1>4, IdleOK DEF Ends
<1> QED
  BY <1>12, <1>13, <1>14, RemovingParented

\* ... a transaction commits, ...
LEMMA CommitsParented ==
  ASSUME Typed, Ledger, Parented, NEW h \in Handlers, Others(h), Commits(h)
  PROVE  Parented'
<1>1. PICK w : w = op[h].writes
  OBVIOUS
<1>2. PICK R : R = [i \in Ids |-> IF i \in DOMAIN w THEN w[i] ELSE rows[i]]
  OBVIOUS
<1>3. PICK D : D = {i \in DOMAIN w : w[i] = None}
  OBVIOUS
<1>4. rows' = Without(R, D) /\ Ends(h)
  BY <1>1, <1>2, <1>3 DEF Commits, Merged
<1>5. \A i \in DOMAIN w : w[i] \in FullRow \cup {None} /\ i \in Present
  BY <1>1, JobIs, WritesAre DEF Ledger, LocksOf
<1>6. R \in Tables
  <2> HIDE DEF FullRow
  <2> QED
    BY <1>2, <1>5 DEF Tables, Typed, TablesOK
<1>7. \A i \in Ids : /\ i \in Present => R[i] # None \/ i \in D
                     /\ i \notin Present => R[i] = None
                     /\ i \in D => R[i] = None
  BY <1>2, <1>3, <1>5 DEF Present
<1>8. \A i \in Ids : R[i] # None => R[i].parent \in Present \cup {0}
  <2>1. \A i \in DOMAIN w : w[i] # None => w[i].parent \in Present \cup {0}
    BY <1>1 DEF Parented, WritesParented
  <2> QED
    BY <1>2, <2>1 DEF Parented, RowsParented, Present
<1>9. Present \subseteq Ids
  BY DEF Present
<1>10. \A i \in Ids : R[i] # None => Under(R, R[i].parent) \/ R[i].parent \in D
  BY <1>7, <1>8, <1>9 DEF Under
<1>11. \A i \in Ids : LET r == rows'[i]
                      IN /\ r # None <=> R[i] # None /\ i \notin D
                         /\ r # None => Under(rows', r.parent)
  BY <1>4, <1>6, <1>10, WithoutParented
<1>12. RowsParented'
  <2>1. (\A i \in Ids : rows[i] # None => Under(rows, rows[i].parent))'
    BY <1>11
  <2> QED
    BY <2>1, RowsUnder, PTL
<1>13. \A p \in Present : Awaits(h, p) => p \in Present'
  <2> SUFFICES ASSUME NEW p \in Present, Awaits(h, p) PROVE p \in Present'
    OBVIOUS
  <2>1. p \notin D
    BY <1>1, <1>3, AwaitedThere DEF Doomed
  <2> QED
    BY <1>7, <1>9, <1>11, <2>1 DEF Present
<1>14. DOMAIN op'[h].writes = {}
  BY <1>4, IdleOK DEF Ends
<1> QED
  BY <1>12, <1>13, <1>14, RemovingParented

\* ... a tree is flagged, ...
LEMMA FlipsParented ==
  ASSUME Typed, Parented, NEW h \in Handlers, Others(h), Flips(h)
  PROVE  Parented'
<1>1. PICK T : rows' = [i \in Ids |-> IF i \in T THEN [rows[i] EXCEPT !.inBin = TRUE] ELSE rows[i]]
               /\ T \subseteq Present
  BY TreeIn DEF Flips
<1>2. \A i \in Present : rows[i] \in FullRow
  BY RowsAre DEF Typed
<1>3. \A r \in FullRow : [r EXCEPT !.inBin = TRUE] \in FullRow /\ [r EXCEPT !.inBin = TRUE].parent = r.parent
  BY DEF FullRow
<1> HIDE DEF FullRow
<1>4. \A i \in Ids : /\ rows'[i] # None <=> rows[i] # None
                     /\ rows[i] # None => rows'[i].parent = rows[i].parent
  <2> TAKE i \in Ids
  <2>1. CASE i \in T
    <3>1. i \in Present /\ rows[i] # None /\ rows[i] \in FullRow
      BY <1>1, <1>2, <2>1 DEF Present
    <3> PICK flagged : flagged = [rows[i] EXCEPT !.inBin = TRUE]
      OBVIOUS
    <3>2. flagged # None /\ flagged.parent = rows[i].parent
      BY <1>3, <3>1, NoneIsNoRow
    <3>3. rows'[i] = flagged
      BY <1>1, <2>1
    <3> QED
      BY <3>1, <3>2, <3>3
  <2>2. CASE i \notin T
    <3>1. rows'[i] = rows[i]
      BY <1>1, <2>2
    <3> QED
      BY <3>1
  <2> QED
    BY <2>1, <2>2
<1>5. Present' = Present
  BY <1>4 DEF Present
<1>6. RowsParented'
  BY <1>4, <1>5 DEF Parented, RowsParented, Present
<1>7. op'[h].writes = op[h].writes
  BY DEF Flips, SameWrites
<1> QED
  BY <1>5, <1>6, <1>7, QuietParented

\* ... a row is encrypted where it is, ...
LEMMA IssuesParented ==
  ASSUME Typed, Parented, NEW h \in Handlers, Others(h), Issues(h)
  PROVE  Parented'
<1>1. PICK i : i = op[h].fs
  OBVIOUS
<1>2. rows' = rows
  BY DEF Issues
<1>3. CASE i \notin Live \/ rows[i].enc
  <2>1. DOMAIN op'[h].writes = {}
    BY <1>1, <1>3, WritesAre DEF Issues
  <2>2. Present' = Present /\ RowsParented'
    BY <1>2 DEF Present, Parented, RowsParented
  <2> QED
    BY <2>1, <2>2, QuietParented
<1>4. CASE i \in Live /\ ~rows[i].enc
  <2>1. i \in Present /\ rows[i] \in FullRow
    BY <1>4, RowsAre DEF Typed
  <2>2. PICK r : r = [rows[i] EXCEPT !.enc = TRUE, !.size = op[h].extra, !.path = op[h].path]
    OBVIOUS
  <2>3. op'[h].writes = [x \in {i} |-> r]
    BY <1>1, <1>4, <2>2 DEF Issues
  <2>4. r # None /\ r.parent = rows[i].parent
    <3>1. op[h].kind = "encrypt"
      BY DEF Issues
    <3>2. op[h].path \in Paths /\ op[h].extra \in Nat
      BY <3>1, JobIs DEF JobOK
    <3>3. r \in FullRow /\ r.parent = rows[i].parent
      BY <2>1, <2>2, <3>2 DEF FullRow
    <3> QED
      BY <3>3, NoneIsNoRow
  <2>5. rows[i].parent \in Present \cup {0} /\ \A k \in Handlers \ {h} : ~Doomed(k, rows[i].parent)
    <3>1. Attached(h, i)
      BY <1>1 DEF Issues, Free
    <3> QED
      BY <2>1, <3>1 DEF Attached, Parented, RowsParented, Stands
  <2>6. \A j \in DOMAIN op'[h].writes :
            /\ op'[h].writes[j] # None /\ op'[h].writes[j].parent \in Present \cup {0}
            /\ \A k \in Handlers \ {h} : ~Doomed(k, op'[h].writes[j].parent)
    <3> HIDE DEF Doomed
    <3> QED
      BY <2>3, <2>4, <2>5
  <2> QED
    BY <1>2, <2>6, HangingParented
<1> QED
  BY <1>3, <1>4

\* ... a tree is restored, under a row that nobody else deletes, ...
LEMMA RestoresParented ==
  ASSUME Typed, Parented, NEW h \in Handlers, Others(h), Restores(h)
  PROVE  Parented'
<1>1. PICK T : /\ T = IF op[h].keep THEN {op[h].fs} ELSE Tree(op[h].fs, TRUE)
               /\ \E new \in Moves(h, T \ {op[h].fs}) : op'[h].writes = Restored(h, T, new)
               /\ Stands(h, op[h].parent) /\ \A j \in T : Free(h, j)
  BY DEF Restores
<1>2. rows' = rows /\ op[h].kind = "restore" /\ op[h].fs \in Present /\ op[h].parent \in Present \cup {0}
  BY DEF Restores
<1>3. T \in SUBSET Present
  BY <1>1, <1>2, TreeIn
<1>10. PICK new \in Moves(h, T \ {op[h].fs}) : op'[h].writes = Restored(h, T, new)
  BY <1>1
<1>4. PICK w : w = Restored(h, T, new)
  OBVIOUS
<1>5. DOMAIN w = T /\ \A j \in T : /\ w[j] \in FullRow
                                   /\ w[j].parent = IF j = op[h].fs THEN op[h].parent ELSE rows[j].parent
  <2> HIDE DEF FullRow
  <2> QED
    BY <1>2, <1>3, <1>4, RestoredAre
<1>6. ASSUME NEW k \in Handlers \ {h}
      PROVE  ~Doomed(k, op[h].parent) /\ \A j \in T : ~Doomed(k, rows[j].parent)
  <2>1. ~Doomed(k, op[h].parent)
    BY <1>1 DEF Stands
  <2>2. \A j \in T : ~Doomed(k, rows[j].parent)
    BY <1>1, <1>3 DEF Free, Attached, Stands
  <2> QED
    BY <2>1, <2>2
<1>7. \A j \in T : rows[j].parent \in Present \cup {0}
  BY <1>3 DEF Parented, RowsParented
<1>8. \A j \in DOMAIN w : /\ w[j] # None /\ w[j].parent \in Present \cup {0}
                          /\ \A k \in Handlers \ {h} : ~Doomed(k, w[j].parent)
  <2> HIDE DEF Doomed, FullRow
  <2> QED
    BY <1>2, <1>5, <1>6, <1>7, NoneIsNoRow
<1>9. op'[h].writes = w
  BY <1>4, <1>10
<1> QED
  BY <1>2, <1>8, <1>9, HangingParented

\* ... and a file is replaced, a tree deleted for good, or the vault emptied.
LEMMA DoomsParented ==
  ASSUME Typed, Ledger, Parented, NEW h \in Handlers, Others(h),
         Replaces(h) \/ Forgets(h) \/ StartsClean(h)
  PROVE  Parented'
<1>1. PICK D : op'[h].writes = [j \in D |-> None] /\ (Unhung(h, D) \/ \A i \in Present : Free(h, i))
  BY DEF Replaces, Forgets, StartsClean
<1>2. rows' = rows
  BY DEF Replaces, Forgets, StartsClean, Starts
<1>3. \A j \in D : ~Awaits(h, j)
  <2>1. CASE Unhung(h, D)
    BY <2>1, UnhungNotAwaited
  <2>2. CASE \A i \in Present : Free(h, i)
    <3>1. \A g \in Handlers \ {h} : DOMAIN op[g].writes = {}
      BY <2>2 DEF Free, Unlocked, Ledger, LocksOf
    <3> QED
      BY <3>1 DEF Awaits
  <2> QED
    BY <1>1, <2>1, <2>2
<1>4. DOMAIN op'[h].writes = D /\ \A j \in D : op'[h].writes[j] = None
  BY <1>1
<1> QED
  BY <1>2, <1>3, <1>4, DoomingParented

\* So does every step.
LEMMA NextParented == Typed /\ Ledger /\ Parented /\ [Next]_vars => Parented'
<1> SUFFICES ASSUME Typed, Ledger, Parented, [Next]_vars PROVE Parented'
  OBVIOUS
<1>1. CASE UNCHANGED <<rows, bins, op, nextRow>>
  BY <1>1 DEF Parented, RowsParented, WritesParented, Doomed, Present, Stands
<1>2. ASSUME NEW h \in Handlers, Others(h), Works(h) PROVE Parented'
  <2>1. ASSUME rows' = rows PROVE Present' = Present /\ RowsParented'
    BY <2>1 DEF Present, Parented, RowsParented
  <2>2. DOMAIN Nothing = {} /\ DOMAIN Idle.writes = {}
    BY WritesAre, IdleOK
  <2>3. CASE Makes(h)
    BY <1>2, <2>1, <2>3, QuietParented DEF Makes, Starts, Made
  <2>4. CASE StartsEncrypt(h) \/ StartsRestore(h) \/ StartsOther(h)
    BY <1>2, <2>1, <2>2, <2>4, QuietParented DEF StartsEncrypt, StartsRestore, StartsOther, Starts
  <2>5. CASE Goes(h) \/ GivesUp(h) \/ Bins(h)
    BY <1>2, <2>1, <2>2, <2>5, QuietParented DEF Goes, GivesUp, Bins, SameWrites, Ends
  <2>9. CASE Renames(h)
    <3>1. rows' = rows /\ op'[h].writes = op[h].writes
      BY <2>9, StillIs DEF SameWrites
    <3> QED
      BY <1>2, <2>1, <3>1, QuietParented
  <2>6. CASE Inserts(h) \/ Deletes(h) \/ Commits(h)
    BY <1>2, <2>6, InsertsParented, DeletesParented, CommitsParented
  <2>7. CASE Issues(h) \/ Flips(h) \/ Restores(h)
    BY <1>2, <2>7, IssuesParented, FlipsParented, RestoresParented
  <2>8. CASE Replaces(h) \/ Forgets(h) \/ StartsClean(h)
    BY <1>2, <2>8, DoomsParented
  <2> QED
    BY <1>2, <2>3, <2>4, <2>5, <2>6, <2>7, <2>8, <2>9 DEF Works
<1> QED
  BY <1>1, <1>2, EveryStep

\* What is said of `$` patterns is yes or no.
LEMMA NextGarbled == [Next]_vars => (garbled \in BOOLEAN => garbled' \in BOOLEAN)
<1> SUFFICES ASSUME [Next]_vars, garbled \in BOOLEAN PROVE garbled' \in BOOLEAN
  OBVIOUS
<1>1. ASSUME NEW h \in Handlers, RestoreMove(h) PROVE garbled' \in BOOLEAN
  BY <1>1 DEF RestoreMove
<1>2. ASSUME NEW h \in Handlers, Step(h), ~RestoreMove(h) PROVE garbled' = garbled
  <2>1. CASE Upload(h) \/ MakeFolder(h)
    BY <2>1 DEF Upload, MakeFolder, UploadQuota, Match, Number, UploadFind, UploadReplace, UploadWrite,
                UploadCommit, FolderFind, FolderDelete, FolderRemove, FolderWrite, FolderCommit, Find,
                Insert, aside
  <2>2. CASE Encrypt(h) \/ ToBin(h) \/ ForgetMove(h) \/ Commit(h)
    BY <2>2 DEF Encrypt, EncryptIssue, EncryptWrite, ToBin, BinFlip, BinMove, BinInsert, ForgetMove,
                Commit, aside
  <2> QED
    BY <1>2, <2>1, <2>2 DEF Step
<1>3. ASSUME NEW h \in Handlers, NEW p \in 0 .. MaxRows, NEW keep \in BOOLEAN,
             \/ \E n \in FileNamesSent : UploadBegin(h, p, n, keep)
             \/ \E n \in FolderNamesSent : FolderBegin(h, p, n, keep)
      PROVE  garbled' = garbled
  BY <1>3 DEF UploadBegin, FolderBegin, Creation
<1>4. ASSUME NEW h \in Handlers, NEW i \in Ids,
             EncryptBegin(h, i) \/ BinBegin(h, i) \/ ForgetBegin(h, i)
                \/ \E q \in 0 .. MaxRows : RestoreBegin(h, i, q)
      PROVE  garbled' = garbled
  BY <1>4 DEF EncryptBegin, BinBegin, ForgetBegin, RestoreBegin, aside
<1>5. ASSUME NEW h \in Handlers, CleanUp(h) \/ Fail(h) PROVE garbled' = garbled
  BY <1>5 DEF CleanUp, Fail, aside
<1>6. ASSUME NEW p \in removing, RemoveOld(p) PROVE garbled' = garbled
  BY <1>6 DEF RemoveOld, aside
<1>7. CASE UNCHANGED vars
  BY <1>7 DEF vars
<1> QED
  BY <1>1, <1>2, <1>3, <1>4, <1>5, <1>6, <1>7 DEF Next

\* Whichever kinds of request overlap, the tables and directories keep their types,
\* and rows of the bin and parents refer to rows that are there: whatever is
\* uploaded, made, replaced, restored, encrypted and deleted at once, and whatever
\* fails half-way, no row is left, nor put back by a transaction that read it
\* before, under a parent that another request has deleted.
THEOREM TypeOKHolds == Spec => []TypeOK
<1>1. Typed /\ Ledger /\ Parented /\ garbled \in BOOLEAN => TypeOK
  <2> SUFFICES ASSUME Typed, Ledger, Parented, garbled \in BOOLEAN PROVE TypeOK
    OBVIOUS
  <2>1. rows \in [Ids -> Row \cup {None}]
    <3>1. FullRow \subseteq Row
      BY NamesAre DEF FullRow, Row, Paths
    <3>2. rows \in [Ids -> FullRow \cup {None}]
      BY DEF Typed, TablesOK, Tables
    <3> HIDE DEF FullRow, Row
    <3> QED
      BY <3>1, <3>2
  <2>2. bins \in [Ids -> Keys \cup {0}]
    <3>1. 0 .. MaxKeys = Keys \cup {0}
      BY BoundsAssumption DEF Keys
    <3> QED
      BY <3>1 DEF Typed, TablesOK
  <2>3. \A i \in Ids : bins[i] # 0 => i \in Present
    BY DEF Ledger, RowsLedger
  <2>4. \A i \in Present : i < nextRow /\ rows[i].parent \in Present \cup {0}
    BY DEF Ledger, RowsLedger, Parented, RowsParented
  <2>5. ASSUME NEW t, Lies(t) PROVE IsTree(t)
    <3>1. Seq(Names) \subseteq Seq(FullName)
      BY NamesAre
    <3> QED
      BY <2>5, <3>1 DEF Lies, IsTree
  <2>6. IsTree(content) /\ \A k \in Keys : IsTree(trash[k])
    BY <2>5 DEF Typed, DiskOK
  <2>7. \A p \in removing : p \in Seq(FullName)
    BY NamesAre DEF Typed, DiskOK
  <2> QED
    BY <2>1, <2>2, <2>3, <2>4, <2>6, <2>7 DEF TypeOK, Typed, NotesOK
<1>2. Typed /\ Ledger /\ Parented /\ garbled \in BOOLEAN /\ [Next]_vars
        => (Typed /\ Ledger /\ Parented /\ garbled \in BOOLEAN)'
  BY NextTyped, NextLedger, NextParented, NextGarbled
<1>3. Init => Typed /\ Ledger /\ Parented /\ garbled \in BOOLEAN
  BY InitTyped, InitLedger, InitParented DEF Init
<1> QED
  BY <1>1, <1>2, <1>3, PTL DEF Spec

-----------------------------------------------------------------------------
(* The shape of the tree, when only uploads and new folders overlap.       *)

\* What the rest of the module supposes: other kinds of request come one at a time.
\* Moving to the bin, restoring and encrypting read the rows long before they write
\* them, so that a request of these kinds beside another may leave rows whose path
\* does not go on from that of their parent.
Regime == Overlapping \subseteq {"upload", "folder"}

\* The kinds that come one at a time, and that they do.
Lone(j) == j.kind \in {"encrypt", "bin", "restore", "forget", "clean"}

Alone == \A g \in Handlers : Lone(op[g]) => \A k \in Handlers \ {g} : op[k].kind = "none"

\* The row i hangs where its parent is.
Hangs(i) ==
    LET p == rows[i].parent
    IN IF p = 0
         THEN i \in Live => Len(rows[i].path) = 1 /\ rows[i].depth = 0
         ELSE /\ p \in Present /\ Folder(p)
              /\ rows[i].path = Append(rows[p].path, Name(i))
              /\ rows[i].depth = rows[p].depth + 1
              /\ i \in Live => p \in Live

\* No row will get this number any more.
Settled(i) == i < nextRow /\ \A k \in Handlers : Maker(op[k]) => op[k].fs # i

\* A request that makes something knows where; its parent may be gone by now.
MakerOK(g) ==
    LET j == op[g]
        p == j.parent
        v == j.victim
    IN Maker(j) =>
          /\ p = 0 => Len(j.path) = 1 /\ j.depth = 0
          /\ p # 0 => /\ Settled(p)
                      /\ p \in Present =>
                            /\ p \in Live /\ Folder(p) /\ j.depth = rows[p].depth + 1
                            /\ j.path = Append(rows[p].path, Last(j.path))
          /\ v # 0 => Settled(v) /\ (v \in Present => rows[v].file = (j.kind = "upload"))
          /\ \A i \in DOMAIN j.writes : rows[i].file
          /\ j.pc \in {"match", "number"} => j.keep
          /\ j.kind = "folder" /\ j.keep => Last(j.path).ext = ""

EncryptOK(g) ==
    LET j == op[g]
    IN j.kind = "encrypt" =>
          /\ j.fs \in Present /\ rows[j.fs].file /\ j.path = Encrypted(rows[j.fs].path)
          /\ \A x \in DOMAIN j.writes :
                /\ j.writes[x] # None /\ j.writes[x].path = j.path
                /\ j.writes[x].depth = rows[x].depth /\ j.writes[x].parent = rows[x].parent
                /\ j.writes[x].inBin = rows[x].inBin

\* What is restored: all of the bin that is under the row.
RestoreOK(g) ==
    LET j == op[g]
        i == j.fs
        q == j.parent
        w == j.writes
    IN j.kind = "restore" =>
          /\ i \in Present \ Live /\ j.old = rows[i].path /\ j.keep = rows[i].file
          /\ j.path = PathOf(q) \o <<Name(i)>>
          /\ q # 0 => q \in Live /\ Folder(q)
          /\ j.depth = IF q = 0 THEN 0 ELSE rows[q].depth + 1
          /\ DOMAIN w # {} =>
                /\ i \in DOMAIN w
                /\ \A x \in Present \ Live : rows[x].parent \in DOMAIN w => x \in DOMAIN w
          /\ \A x \in DOMAIN w :
                /\ x \in Present \ Live
                /\ Above(j.old, rows[x].path)
                /\ w[x] # None /\ w[x].inBin = FALSE
                /\ w[x].path = j.path \o Rest(j.old, rows[x].path)
                /\ w[x].depth = rows[x].depth + j.depth - rows[i].depth
                /\ w[x].parent = IF x = i THEN q ELSE rows[x].parent
                /\ x # i => rows[x].parent \in DOMAIN w

GoneOK(g) ==
    LET j == op[g]
    IN /\ j.kind = "forget" => \A x \in DOMAIN j.writes : j.writes[x] = None /\ x \notin Live
       /\ j.kind = "clean" => DOMAIN j.writes = Present /\ \A x \in Present : j.writes[x] = None

Shape ==
    /\ Alone /\ \A i \in Present : Hangs(i)
    /\ \A g \in Handlers : MakerOK(g) /\ EncryptOK(g) /\ RestoreOK(g) /\ GoneOK(g)

\* The tree is empty at first, and no request is under way.
LEMMA InitShape == Init => Shape
<1> SUFFICES ASSUME Init PROVE Shape
  OBVIOUS
<1>1. Present = {} /\ \A g \in Handlers : op[g].kind = "none"
  BY DEF Init, Present, Idle
<1> QED
  BY <1>1 DEF Shape, Alone, Lone, Maker, MakerOK, EncryptOK, RestoreOK, GoneOK

\* A step begins a request, ends it, or goes on with it.
LEMMA Phase ==
  ASSUME Typed, NEW h \in Handlers, Works(h)
  PROVE  \/ /\ op[h].kind = "none" /\ ~Maker(op[h]) /\ ~Lone(op[h])
            /\ MayStart(h, op'[h].kind) /\ UNCHANGED <<rows, bins>>
            /\ Makes(h) \/ (nextRow' = nextRow /\ ~Maker(op'[h]))
         \/ Ends(h) /\ nextRow' = nextRow /\ ~Maker(op'[h]) /\ ~Lone(op'[h])
         \/ (GoesOn(h) \/ Renames(h)) /\ nextRow' = nextRow /\ op'[h].kind = op[h].kind
<1>1. CASE Makes(h)
  <2>1. PICK kind \in {"upload", "folder"}, p \in 0 .. MaxRows, name \in Names, keep \in BOOLEAN :
          Starts(h, kind)
    BY <1>1 DEF Makes
  <2>2. MayStart(h, op'[h].kind) /\ UNCHANGED <<rows, bins>>
    BY <2>1 DEF Starts
  <2>3. op[h].kind = "none"
    BY <2>2 DEF MayStart, Idle
  <2> QED
    BY <1>1, <2>2, <2>3 DEF Maker, Lone
<1>2. CASE /\ nextRow' = nextRow
           /\ StartsEncrypt(h) \/ StartsRestore(h) \/ StartsOther(h) \/ StartsClean(h)
  <2>1. PICK kind \in {"encrypt", "restore", "bin", "forget", "clean"} : Starts(h, kind)
    BY <1>2 DEF StartsEncrypt, StartsRestore, StartsOther, StartsClean
  <2>2. MayStart(h, op'[h].kind) /\ UNCHANGED <<rows, bins>> /\ ~Maker(op'[h])
    BY <2>1 DEF Starts, Maker
  <2>3. op[h].kind = "none"
    BY <2>2 DEF MayStart, Idle
  <2> QED
    BY <1>2, <2>2, <2>3 DEF Maker, Lone
<1>3. CASE Ends(h) /\ nextRow' = nextRow
  BY <1>3 DEF Ends, Idle, Maker, Lone
<1>4. CASE GoesOn(h) /\ nextRow' = nextRow
  <2>1. op'[h].kind = op[h].kind
    BY <1>4 DEF GoesOn
  <2> QED
    BY <1>4, <2>1
<1>5. \/ Makes(h)
      \/ /\ nextRow' = nextRow
         /\ \/ StartsEncrypt(h) \/ StartsRestore(h) \/ StartsOther(h) \/ StartsClean(h)
            \/ Ends(h) \/ GoesOn(h) \/ Renames(h)
  BY DEF Works, Goes, GivesUp, Replaces, Inserts, Deletes, Issues, Flips, Bins, Restores, Forgets, Commits
<1>6. CASE Renames(h) /\ nextRow' = nextRow
  <2>1. op'[h].kind = op[h].kind
    BY <1>6, StillIs DEF Still
  <2> QED
    BY <1>6, <2>1
<1> QED
  BY <1>1, <1>2, <1>3, <1>4, <1>5, <1>6

\* What is numbered gets another name in the same directory.
LEMMA RenamedIs ==
  ASSUME Typed, NEW h \in Handlers, Renames(h)
  PROVE  LET j == op[h]
             k == op'[h]
         IN /\ k.kind = j.kind /\ k.parent = j.parent /\ k.depth = j.depth /\ k.victim = j.victim
            /\ k.writes = j.writes /\ k.fs = j.fs /\ k.keep = j.keep /\ k.pc = "write"
            /\ Last(k.path).ext = Last(j.path).ext /\ Last(k.path).title = NextTitle(Seen(h), Asked(h))
            /\ j.path \in Paths /\ k.path \in Paths /\ Len(k.path) = Len(j.path)
            /\ Front(k.path) = Front(j.path)
            /\ \A a \in Seq(Names) : j.path = Append(a, Last(j.path)) => k.path = Append(a, Last(k.path))
<1>1. PICK t : t = NextTitle(Seen(h), Asked(h))
  OBVIOUS
<1>2. t \in Titles(STRING) /\ op[h].path \in Paths
  BY <1>1, NextIs DEF Renames
<1>3. PICK r : r = Titled(op[h].path, t)
  OBVIOUS
<1>4. /\ r \in Paths /\ Front(r) = Front(op[h].path) /\ Len(r) = Len(op[h].path)
      /\ Last(r).ext = Last(op[h].path).ext /\ Last(r).title = t
  BY <1>2, <1>3, TitledIs
<1>5. op'[h] = [op[h] EXCEPT !.pc = "write", !.path = r]
  BY <1>1, <1>3 DEF Renames
<1>6. /\ op'[h].path = r /\ op'[h].kind = op[h].kind /\ op'[h].parent = op[h].parent
      /\ op'[h].depth = op[h].depth /\ op'[h].victim = op[h].victim
      /\ op'[h].writes = op[h].writes /\ op'[h].fs = op[h].fs /\ op'[h].keep = op[h].keep
      /\ op'[h].pc = "write"
  BY <1>5, JobIs DEF Job
<1>7. ASSUME NEW a \in Seq(Names), op[h].path = Append(a, Last(op[h].path)) PROVE r = Append(a, Last(r))
  <2>1. op[h].path \in Seq(Names) /\ r \in Seq(Names)
    BY <1>2, <1>4 DEF Paths
  <2>2. PICK n : n = Last(op[h].path)
    OBVIOUS
  <2>3. n \in Names /\ r = Append(Front(r), Last(r))
    BY <1>2, <1>4, <2>1, <2>2, PathOps
  <2>4. a \o <<n>> = Append(a, n) /\ Front(a \o <<n>>) = a
    BY <2>3, PathOps
  <2>5. Front(op[h].path) = a
    BY <1>7, <2>2, <2>4
  <2> QED
    BY <1>4, <2>3, <2>5
<1> QED
  BY <1>1, <1>2, <1>4, <1>6, <1>7

\* A request that must run alone still does.
LEMMA AloneStep ==
  ASSUME Regime, Typed, Alone, NEW h \in Handlers, Others(h), Works(h)
  PROVE  Alone'
<1> SUFFICES ASSUME NEW g \in Handlers, Lone(op[g])', NEW k \in Handlers \ {g}
             PROVE  op'[k].kind = "none"
  BY DEF Alone
<1>1. CASE MayStart(h, op'[h].kind)
  <2>1. \A x \in Handlers : op[x] # Idle => {op'[h].kind, op[x].kind} \subseteq {"upload", "folder"}
    BY <1>1 DEF MayStart, Regime, Open
  <2>2. Idle.kind = "none"
    BY DEF Idle
  <2>3. CASE g = h
    BY <2>1, <2>2, <2>3 DEF Lone, Others
  <2>4. CASE g # h
    <3>1. Lone(op[g])
      BY <2>4 DEF Others, Lone
    <3> QED
      BY <2>1, <2>2, <3>1 DEF Lone
  <2> QED
    BY <2>3, <2>4
<1>2. CASE Ends(h)
  BY <1>2 DEF Ends, Idle, Alone, Lone, Others
<1>3. CASE op'[h].kind = op[h].kind
  BY <1>3 DEF Alone, Lone, Others
<1> QED
  BY <1>1, <1>2, <1>3, Phase

\* While no request runs that must run alone, rows stay where they are, appear
\* at the end of the request that makes them, or go.
Stays(h) ==
    \A i \in Present' :
       \/ /\ i \in Present /\ rows'[i].path = rows[i].path /\ rows'[i].depth = rows[i].depth
          /\ rows'[i].file = rows[i].file /\ rows'[i].inBin = rows[i].inBin
       \/ Maker(op[h]) /\ Ends(h) /\ i = op[h].fs

\* A request that need not run alone moves no row.
LEMMA StaysIs ==
  ASSUME Typed, Ledger, NEW h \in Handlers, Works(h), ~Lone(op[h])
  PROVE  Stays(h)
<1>1. Present' = {i \in Ids : rows'[i] # None} /\ Present = {i \in Ids : rows[i] # None}
  BY DEF Present
<1>2. CASE UNCHANGED rows
  BY <1>1, <1>2 DEF Stays
<1>3. ASSUME NEW D, \A i \in Ids : rows'[i] = Without(rows, D)[i] \/ (Maker(op[h]) /\ Ends(h) /\ i = op[h].fs)
      PROVE  Stays(h)
  <2>1. \A i \in Ids : LET r == Without(rows, D)[i]
                       IN /\ rows[i] = None \/ i \in D => r = None
                          /\ rows[i] # None /\ i \notin D =>
                                /\ r # None /\ r.file = rows[i].file /\ r.path = rows[i].path
                                /\ r.inBin = rows[i].inBin /\ r.depth = rows[i].depth
    BY WithoutKept
  <2> QED
    BY <1>1, <1>3, <2>1 DEF Stays
<1>4. CASE Inserts(h)
  <2> DEFINE W == Without(rows, DOMAIN op[h].writes)
  <2>1. Maker(op[h]) /\ Ends(h) /\ W = [i \in Ids |-> W[i]]
    BY <1>4 DEF Inserts, Without
  <2>2. rows' = [W EXCEPT ![op[h].fs] = NewRow(h, op[h].kind = "upload")]
    BY <1>4 DEF Inserts
  <2> HIDE DEF W
  <2>3. \A i \in Ids : rows'[i] = W[i] \/ i = op[h].fs
    BY <2>1, <2>2
  <2> QED
    BY <1>3, <2>1, <2>3 DEF W
<1>5. CASE Deletes(h)
  <2>1. PICK v \in 0 .. MaxRows : rows' = Without(rows, Tree(v, FALSE))
    BY <1>5 DEF Deletes
  <2> QED
    BY <1>3, <2>1
<1>6. CASE Commits(h)
  <2>1. op[h].kind = "none"
    BY <1>6, JobIs DEF Commits, Maker, Lone, Kinds
  <2>2. DOMAIN op[h].writes = {}
    BY <2>1 DEF Ledger, LocksOf
  <2>3. \A i \in Ids : /\ rows[i] = None => rows'[i] = None
                       /\ rows[i] # None => rows'[i] = rows[i] \/ rows'[i] = [rows[i] EXCEPT !.parent = 0]
    BY <1>6, <2>2, MergedIs DEF Commits
  <2>4. \A i \in Ids : rows[i] # None => rows[i] \in FullRow
    BY RowsAre DEF Typed, Present
  <2>5. \A r \in FullRow : LET x == [r EXCEPT !.parent = 0]
                           IN x.path = r.path /\ x.depth = r.depth /\ x.file = r.file /\ x.inBin = r.inBin
    BY DEF FullRow
  <2> QED
    BY <1>1, <2>3, <2>4, <2>5 DEF Stays
<1>7. Inserts(h) \/ Deletes(h) \/ Commits(h) \/ UNCHANGED rows
  <2>1. ~Flips(h)
    BY DEF Flips, Lone
  <2>2. CASE Makes(h)
    BY <2>2 DEF Makes, Starts
  <2>3. CASE StartsEncrypt(h) \/ StartsRestore(h) \/ StartsOther(h) \/ StartsClean(h)
    BY <2>3 DEF StartsEncrypt, StartsRestore, StartsOther, StartsClean, Starts
  <2>4. CASE Goes(h) \/ GivesUp(h) \/ Renames(h) \/ Replaces(h) \/ Issues(h) \/ Bins(h) \/ Restores(h) \/ Forgets(h)
    BY <2>4 DEF Goes, GivesUp, Renames, Replaces, Issues, Bins, Restores, Forgets
  <2> QED
    BY <2>1, <2>2, <2>3, <2>4 DEF Works
<1> QED
  BY <1>2, <1>4, <1>5, <1>6, <1>7

\* The numbers of the rows that are there are settled, and remain so.
LEMMA SettledPresent ==
  ASSUME Ledger, NEW i \in Present
  PROVE  Settled(i)
BY DEF Ledger, RowsLedger, NumbersOf, Settled

\* A settled number stays settled, whatever request takes the step.
LEMMA SettledStill ==
  ASSUME Typed, NEW h \in Handlers, Others(h), Works(h), NEW i \in 0 .. MaxRows, Settled(i)
  PROVE  Settled(i)' /\ (Maker(op[h]) => op[h].fs # i)
<1>1. nextRow \in Int /\ i \in Int
  <2>1. nextRow \in 1 .. MaxRows + 1
    BY DEF Typed
  <2> QED
    BY <2>1, BoundsAssumption
<1>2. Maker(op[h]) => op[h].fs # i
  BY DEF Settled
<1>3. \A k \in Handlers \ {h} : Maker(op'[k]) => op'[k].fs # i
  BY DEF Settled, Others
<1>4. CASE Makes(h)
  <2>1. nextRow' = nextRow + 1 /\ op'[h].fs = nextRow
    BY <1>4 DEF Makes, Made
  <2> QED
    BY <1>1, <1>2, <1>3, <2>1 DEF Settled
<1>5. CASE nextRow' = nextRow /\ ~Maker(op'[h])
  BY <1>2, <1>3, <1>5 DEF Settled
<1>6. CASE (GoesOn(h) \/ Renames(h)) /\ nextRow' = nextRow
  <2>1. op'[h].fs = op[h].fs /\ op'[h].kind = op[h].kind
    BY <1>6, StillIs DEF Still
  <2>2. Maker(op'[h]) => op'[h].fs # i
    BY <1>2, <2>1 DEF Maker
  <2> QED
    BY <1>2, <1>3, <1>6, <2>2 DEF Settled
<1> QED
  BY <1>4, <1>5, <1>6, Phase

\* A request that is making something and goes on, beside whatever else happens.
LEMMA MakerStill ==
  ASSUME Typed, Ledger, Ledger', Shape, NEW h \in Handlers, Others(h), Works(h), ~Lone(op[h]),
         NEW g \in Handlers, Maker(op[g]), g = h => GoesOn(h) \/ Renames(h)
  PROVE  MakerOK(g)'
<1> DEFINE j == op[g]
           k == op'[g]
<1>0. PICK p, v : p = j.parent /\ v = k.victim
  OBVIOUS
<1>1. /\ k.kind = j.kind /\ k.parent = p /\ k.depth = j.depth
      /\ v = j.victim \/ (g = h /\ Found(h))
      /\ Len(k.path) = Len(j.path)
      /\ \A a \in Seq(Names) : j.path = Append(a, Last(j.path)) => k.path = Append(a, Last(k.path))
  <2>1. CASE g # h
    BY <1>0, <2>1 DEF Others
  <2>2. CASE g = h /\ GoesOn(h)
    BY <1>0, <2>2 DEF GoesOn
  <2>3. CASE g = h /\ Renames(h)
    BY <1>0, <2>3, RenamedIs
  <2> QED
    BY <2>1, <2>2, <2>3
<1>2. Stays(h) /\ MakerOK(g)
  BY StaysIs DEF Shape
<1>3. j.victim \in 0 .. MaxRows /\ p \in 0 .. MaxRows /\ Present \subseteq 0 .. MaxRows
  <2>1. Present \subseteq Ids /\ Ids \subseteq 0 .. MaxRows
    BY BoundsAssumption DEF Present, Ids
  <2>2. j.victim \in 0 .. MaxRows
    BY JobIs DEF Job
  <2> QED
    BY <1>0, <2>1, <2>2, JobIs
<1>4. \A i \in 0 .. MaxRows : Settled(i) /\ i \in Present' =>
         /\ Settled(i)' /\ i \in Present
         /\ rows'[i].path = rows[i].path /\ rows'[i].depth = rows[i].depth
         /\ rows'[i].file = rows[i].file /\ (i \in Live' <=> i \in Live)
  <2> SUFFICES ASSUME NEW i \in 0 .. MaxRows, Settled(i), i \in Present'
               PROVE  /\ Settled(i)' /\ i \in Present
                      /\ rows'[i].path = rows[i].path /\ rows'[i].depth = rows[i].depth
                      /\ rows'[i].file = rows[i].file /\ (i \in Live' <=> i \in Live)
    OBVIOUS
  <2>1. Settled(i)' /\ (Maker(op[h]) => op[h].fs # i)
    BY SettledStill
  <2>2. /\ i \in Present /\ rows'[i].path = rows[i].path /\ rows'[i].depth = rows[i].depth
        /\ rows'[i].file = rows[i].file /\ rows'[i].inBin = rows[i].inBin
    BY <1>2, <2>1 DEF Stays
  <2> QED
    BY <2>1, <2>2 DEF Live
<1>5. p = 0 => Len(k.path) = 1 /\ k.depth = 0
  BY <1>0, <1>1, <1>2 DEF MakerOK
<1>6. ASSUME p # 0
      PROVE  /\ Settled(p)'
             /\ p \in Present' => /\ p \in Live' /\ ~rows'[p].file /\ k.depth = rows'[p].depth + 1
                                  /\ k.path = Append(rows'[p].path, Last(k.path))
  <2>1. /\ Settled(p)
        /\ p \in Present => /\ p \in Live /\ ~rows[p].file /\ j.depth = rows[p].depth + 1
                            /\ j.path = Append(rows[p].path, Last(j.path))
    BY <1>0, <1>2, <1>6 DEF MakerOK, Folder
  <2>2. Settled(p)'
    BY <1>3, <2>1, SettledStill
  <2>3. p \in Present => rows[p].path \in Seq(Names)
    BY RowsAre DEF Typed, FullRow, Paths
  <2>4. p \in Present => k.path = Append(rows[p].path, Last(k.path))
    BY <1>1, <2>1, <2>3
  <2> QED
    BY <1>1, <1>3, <1>4, <2>1, <2>2, <2>4
<1>7. ASSUME v # 0
      PROVE  Settled(v)' /\ (v \in Present' => rows'[v].file = (k.kind = "upload"))
  <2>1. Settled(v) /\ (v \in Present => rows[v].file = (k.kind = "upload"))
    <3>1. CASE v = j.victim
      BY <1>1, <1>2, <1>7, <3>1 DEF MakerOK
    <3>2. CASE g = h /\ Found(h)
      <4>1. v \in Present /\ rows[v].file = (k.kind = "upload")
        BY <1>0, <1>1, <3>2 DEF Found, Live
      <4> QED
        BY <4>1, SettledPresent
    <3> QED
      BY <1>1, <3>1, <3>2
  <2>2. v \in 0 .. MaxRows
    BY <1>0, <1>1, <1>3 DEF Found, Live
  <2>3. Settled(v)'
    BY <2>1, <2>2, SettledStill
  <2> QED
    BY <1>4, <2>1, <2>2, <2>3
<1>8. ASSUME NEW i \in DOMAIN k.writes PROVE rows'[i].file
  <2>1. i \in Present'
    BY DEF Ledger, LocksOf
  <2>2. i \in Present /\ rows[i].file
    <3>1. CASE k.writes = j.writes
      <4>1. i \in DOMAIN j.writes
        BY <3>1
      <4> QED
        BY <1>2, <4>1 DEF Ledger, LocksOf, MakerOK
    <3>2. CASE g = h /\ Replaces(h)
      <4>1. i = j.victim /\ j.victim \in Present /\ j.kind = "upload"
        BY <3>2 DEF Replaces, Live
      <4>2. j.victim # 0
        BY <4>1, BoundsAssumption DEF Present, Ids
      <4> QED
        BY <1>2, <4>1, <4>2 DEF MakerOK
    <3>3. CASE g # h
      BY <3>1, <3>3 DEF Others
    <3>4. CASE g = h
      <4>1. op[h].kind \in {"upload", "folder"} /\ ~Ends(h)
        BY <1>1, <3>4 DEF Maker, Ends, Idle
      <4>2. CASE Goes(h) \/ Deletes(h)
        BY <3>1, <3>4, <4>2 DEF Goes, Deletes, SameWrites
      <4>6. CASE Renames(h)
        BY <3>1, <3>4, <4>6, RenamedIs
      <4>3. ~Issues(h) /\ ~Flips(h) /\ ~Bins(h) /\ ~Restores(h) /\ ~Forgets(h)
        BY <4>1 DEF Issues, Flips, Bins, Restores, Forgets
      <4>4. ~Inserts(h) /\ ~Commits(h) /\ ~GivesUp(h)
        BY <4>1 DEF Inserts, Commits, GivesUp
      <4>5. ~Makes(h) /\ ~StartsEncrypt(h) /\ ~StartsRestore(h) /\ ~StartsOther(h) /\ ~StartsClean(h)
        <5>1. op[h] # Idle
          BY <4>1 DEF Idle
        <5> QED
          BY <5>1 DEF Makes, StartsEncrypt, StartsRestore, StartsOther, StartsClean, Starts, MayStart
      <4> QED
        BY <3>2, <3>4, <4>2, <4>3, <4>4, <4>5, <4>6 DEF Works
    <3> QED
      BY <3>3, <3>4
  <2>3. Settled(i)
    BY <2>2, SettledPresent
  <2> QED
    BY <1>3, <1>4, <2>1, <2>2, <2>3
<1>9. /\ k.pc \in {"match", "number"} => k.keep
      /\ k.kind = "folder" /\ k.keep => Last(k.path).ext = ""
  <2>1. /\ j.pc \in {"match", "number"} => j.keep
        /\ j.kind = "folder" /\ j.keep => Last(j.path).ext = ""
    BY <1>2 DEF MakerOK
  <2>2. CASE g # h
    BY <2>1, <2>2 DEF Others
  <2>3. CASE g = h /\ GoesOn(h)
    BY <2>1, <2>3 DEF GoesOn, Onward
  <2>4. CASE g = h /\ Renames(h)
    BY <2>1, <2>4, RenamedIs
  <2> QED
    BY <2>2, <2>3, <2>4
<1> QED
  BY <1>0, <1>1, <1>5, <1>6, <1>7, <1>8, <1>9 DEF MakerOK, Folder

\* ... and one that begins.
LEMMA MakerStarts ==
  ASSUME Typed, Typed', Ledger, Ledger', NEW h \in Handlers, Others(h), Makes(h)
  PROVE  MakerOK(h)'
<1> DEFINE k == op'[h]
<1>1. PICK kind \in {"upload", "folder"}, p \in 0 .. MaxRows, name \in Names, keep \in BOOLEAN :
        /\ Starts(h, kind) /\ ParentOk(p) /\ Made(k, kind, p, name, keep)
        /\ kind = "folder" /\ keep => name.ext = ""
  BY DEF Makes
<1> DEFINE n == name
<1>2. rows' = rows /\ Present' = Present /\ Live' = Live
  BY <1>1 DEF Starts, Present, Live
<1>3. k.parent = p /\ k.victim = 0 /\ DOMAIN k.writes = {} /\ k.path = PathOf(p) \o <<n>>
      /\ k.depth = IF p = 0 THEN 0 ELSE rows[p].depth + 1
  BY <1>1 DEF Made
<1>5. /\ PathOf(p) \in Seq(Names) /\ k.path = Append(PathOf(p), n) /\ Last(k.path) = n
      /\ Len(k.path) = Len(PathOf(p)) + 1
  <2>1. PICK a : a = PathOf(p)
    OBVIOUS
  <2>2. a \in Seq(Names)
    BY <1>1, <2>1, PathOfIs DEF Typed
  <2> QED
    BY <1>3, <2>1, <2>2, OneMore
<1>6. p = 0 => Len(k.path) = 1 /\ k.depth = 0
  <2>1. Len(<<>>) = 0
    BY EmptySeq
  <2> QED
    BY <1>3, <1>5, <2>1 DEF PathOf
<1>7. ASSUME p # 0
      PROVE  /\ Settled(p)' /\ p \in Live' /\ ~rows'[p].file /\ k.depth = rows'[p].depth + 1
             /\ k.path = Append(rows'[p].path, Last(k.path))
  <2>1. p \in Live /\ ~rows[p].file /\ PathOf(p) = rows[p].path /\ p \in Present
    BY <1>1, <1>7 DEF ParentOk, Folder, PathOf, Live
  <2>2. Settled(p)'
    <3>1. Settled(p)
      BY <2>1, SettledPresent
    <3>2. Works(h)
      BY DEF Works
    <3> QED
      BY <3>1, <3>2, SettledStill
  <2> QED
    BY <1>2, <1>3, <1>5, <1>7, <2>1, <2>2
<1>8. /\ k.pc \in {"match", "number"} => k.keep
      /\ k.kind = "folder" /\ k.keep => Last(k.path).ext = ""
  BY <1>1, <1>5 DEF Made, Naming
<1> QED
  BY <1>3, <1>6, <1>7, <1>8 DEF MakerOK, Folder

\* A request that makes something, after any step.
LEMMA MakerStep ==
  ASSUME Regime, Typed, Typed', Ledger, Ledger', Shape, NEW h \in Handlers, Others(h), Works(h),
         NEW g \in Handlers
  PROVE  MakerOK(g)'
<1> SUFFICES ASSUME Maker(op[g])' PROVE MakerOK(g)'
  BY DEF MakerOK
<1>1. CASE g = h /\ Makes(h)
  BY <1>1, MakerStarts
<1>2. CASE g = h /\ (GoesOn(h) \/ Renames(h))
  <2>1. Maker(op[h]) /\ ~Lone(op[h])
    BY <1>2, StillIs DEF Still, Maker, Lone
  <2> QED
    BY <1>2, <2>1, MakerStill
<1>3. CASE g # h
  <2>1. Maker(op[g])
    BY <1>3 DEF Others, Maker
  <2>2. ~Lone(op[h])
    BY <1>3, <2>1 DEF Shape, Alone, Maker
  <2> QED
    BY <1>3, <2>1, <2>2, MakerStill
<1> QED
  BY <1>1, <1>2, <1>3, Phase

\* Three parts of a path.
LEMMA ConcatThree ==
  ASSUME NEW a \in Seq(Names), NEW b \in Seq(Names), NEW c \in Seq(Names)
  PROVE  (a \o b) \o c = a \o (b \o c)
BY ConcatAssociative

\* What is in the bin under a row of the bin.
LEMMA BinTree ==
  ASSUME Typed, NEW i \in Present \ Live
  PROVE  LET T == Tree(i, TRUE)
         IN /\ T \subseteq Present \ Live /\ i \in T
            /\ \A x \in Present \ Live : rows[x].parent \in T => x \in T
            /\ \A x \in T : x # i => rows[x].parent \in T
            /\ \A X : i \in X /\ (\A x \in Present : rows[x].parent \in X => x \in X) => T \subseteq X
<1> DEFINE T == Tree(i, TRUE)
<1>1. PICK b : b = TRUE
  OBVIOUS
<1>2. \A x \in Present : rows[x].inBin = b <=> x \notin Live
  BY <1>1, RowsAre DEF Typed, FullRow
<1>3. /\ Tree(i, b) \subseteq {j \in Present : rows[j].inBin = b}
      /\ i \in Present /\ rows[i].inBin = b => i \in Tree(i, b)
      /\ \A j \in Present : rows[j].inBin = b /\ rows[j].parent \in Tree(i, b) => j \in Tree(i, b)
      /\ \A j \in Tree(i, b) \ {i} : rows[j].parent \in Tree(i, b)
      /\ \A X : (i \in Tree(i, b) => i \in X)
                /\ (\A j \in Present : rows[j].inBin = b /\ rows[j].parent \in X => j \in X)
                => Tree(i, b) \subseteq X
  BY TreeIs
<1>4. T = Tree(i, b)
  BY <1>1
<1> HIDE DEF T
<1>5. /\ T \subseteq Present \ Live /\ i \in T
      /\ \A x \in Present \ Live : rows[x].parent \in T => x \in T
      /\ \A x \in T : x # i => rows[x].parent \in T
  BY <1>2, <1>3, <1>4
<1>6. \A X : i \in X /\ (\A x \in Present : rows[x].parent \in X => x \in X) => T \subseteq X
  BY <1>3, <1>4
<1> QED
  BY <1>5, <1>6 DEF T

\* A path and what is below it, put in another place.
LEMMA MovedMore ==
  ASSUME NEW p \in Seq(Names), NEW q \in Seq(Names), NEW x \in Seq(Names), Above(p, x),
         NEW n \in Names
  PROVE  /\ Above(p, Append(x, n))
         /\ q \o Rest(p, Append(x, n)) = Append(q \o Rest(p, x), n)
         /\ Append(x, n) \in Seq(Names)
<1> DEFINE r == Rest(p, x)
           one == <<n>>
<1>1. r \in Seq(Names) /\ x = p \o r
  BY PathOps
<1>2. one \in Seq(Names)
  BY PathOps, EmptySeq DEF Paths
<1>3. Append(x, n) = x \o one /\ x \o one \in Seq(Names)
  BY PathOps DEF Paths
<1>4. Append(q \o r, n) = (q \o r) \o one /\ r \o one \in Seq(Names)
  <2>1. q \o r \in Seq(Names)
    BY <1>1, PathOps
  <2> QED
    BY <1>1, <2>1, PathOps DEF Paths
<1> HIDE DEF r, one
<1>5. x \o one = p \o (r \o one) /\ (q \o r) \o one = q \o (r \o one)
  <2>0. r \in Seq(Names)
    BY <1>1
  <2>1. (p \o r) \o one = p \o (r \o one)
    BY <1>2, <2>0, ConcatThree
  <2>2. (q \o r) \o one = q \o (r \o one)
    BY <1>2, <2>0, ConcatThree
  <2> QED
    BY <1>1, <2>1, <2>2
<1>6. Above(p, x \o one) /\ Rest(p, x \o one) = r \o one
  BY <1>4, <1>5, RestOf
<1> QED
  BY <1>3, <1>4, <1>5, <1>6 DEF r

\* A path is below itself, and nothing is left of it there.
LEMMA MovedSelf ==
  ASSUME NEW p \in Seq(Names), NEW q \in Seq(Names)
  PROVE  Above(p, p) /\ q \o Rest(p, p) = q
<1>1. <<>> \in Seq(Names) /\ p \o <<>> = p /\ q \o <<>> = q
  BY EmptySeq, ConcatEmptySeq
<1>2. Rest(p, p \o <<>>) = <<>> /\ Above(p, p \o <<>>)
  BY <1>1, RestOf
<1> QED
  BY <1>1, <1>2

\* The row above, for rows that hang where they should.
LEMMA HangsUnder ==
  ASSUME Typed, Shape, NEW i \in Present, rows[i].parent # 0
  PROVE  LET p == rows[i].parent
         IN /\ p \in Present /\ ~rows[p].file /\ (i \in Live => p \in Live)
            /\ rows[i].path = Append(rows[p].path, Name(i)) /\ rows[i].depth = rows[p].depth + 1
            /\ rows[p].path \in Seq(Names) /\ Name(i) \in Names
<1>1. Hangs(i)
  BY DEF Shape
<1>2. rows[i].parent \in Present
  BY <1>1 DEF Hangs
<1>3. rows[rows[i].parent].path \in Seq(Names)
  BY <1>2, RowsAre DEF Typed, FullRow, Paths
<1>4. Name(i) \in Names
  BY RowsAre DEF Typed
<1> QED
  BY <1>1, <1>2, <1>3, <1>4 DEF Hangs, Folder

\* A request that restores has found the row in the bin and where it is to go.
LEMMA RestoreStarts ==
  ASSUME Typed, NEW h \in Handlers, StartsRestore(h)
  PROVE  RestoreOK(h)'
<1>1. rows' = rows /\ Present' = Present /\ Live' = Live /\ DOMAIN op'[h].writes = {}
  BY WritesAre DEF StartsRestore, Starts, Present, Live
<1>2. /\ op'[h].fs \in Present \ Live /\ ParentOk(op'[h].parent)
      /\ op'[h].path = PathOf(op'[h].parent) \o <<Name(op'[h].fs)>>
      /\ op'[h].old = rows[op'[h].fs].path /\ op'[h].keep = rows[op'[h].fs].file
      /\ op'[h].depth = IF op'[h].parent = 0 THEN 0 ELSE rows[op'[h].parent].depth + 1
  BY DEF StartsRestore
<1> QED
  BY <1>1, <1>2 DEF RestoreOK, ParentOk, Folder, PathOf, Name

\* What it writes is the rows of the bin under the row, moved with it.
LEMMA RestoreWrites ==
  ASSUME Typed, Ledger, Shape, ~garbled', NEW h \in Handlers, Restores(h)
  PROVE  RestoreOK(h)'
<1> DEFINE j == op[h]
           k == op'[h]
           i == j.fs
           q == j.parent
           T == IF j.keep THEN {i} ELSE Tree(i, TRUE)
           w == k.writes
<1>1. rows' = rows /\ Present' = Present /\ Live' = Live
  BY DEF Restores, Present, Live
<1>2. /\ k.kind = j.kind /\ k.fs = i /\ k.parent = q /\ k.path = j.path /\ k.keep = j.keep
      /\ k.old = j.old /\ k.depth = j.depth /\ k.root = j.root /\ j.kind = "restore"
  BY DEF Restores, GoesOn
<1>3. /\ i \in Present \ Live /\ j.old = rows[i].path /\ j.keep = rows[i].file
      /\ j.path = PathOf(q) \o <<Name(i)>>
      /\ q # 0 => q \in Live /\ Folder(q)
      /\ j.depth = IF q = 0 THEN 0 ELSE rows[q].depth + 1
  BY <1>2 DEF Shape, RestoreOK
<1>4. /\ j.old \in Seq(Names) /\ j.path \in Seq(Names) /\ j.depth \in Int
      /\ \A x \in Present : rows[x].path \in Seq(Names) /\ rows[x].depth \in Int
                            /\ (x \in Live <=> rows[x].inBin = FALSE) /\ rows[x].inBin \in BOOLEAN
  BY JobIs, RowsAre DEF Typed, FullRow, Paths
<1>5. /\ T \subseteq Present \ Live /\ i \in T
      /\ \A x \in Present \ Live : rows[x].parent \in T => x \in T
      /\ \A x \in T : x # i => rows[x].parent \in T
      /\ \A x \in T : Above(j.old, rows[x].path)
  <2>1. Above(j.old, rows[i].path)
    BY <1>3, <1>4, MovedSelf
  <2>2. CASE j.keep
    <3>1. \A x \in Present : rows[x].parent # i
      <4> SUFFICES ASSUME NEW x \in Present, rows[x].parent = i PROVE FALSE
        OBVIOUS
      <4>1. i # 0
        BY <1>3, BoundsAssumption DEF Present, Ids
      <4> QED
        BY <1>3, <2>2, <4>1, HangsUnder
    <3> QED
      BY <1>3, <2>1, <2>2, <3>1
  <2>3. CASE ~j.keep
    <3> DEFINE X == {x \in Present : Above(j.old, rows[x].path)}
    <3>1. T = Tree(i, TRUE)
      BY <2>3
    <3> HIDE DEF T
    <3>3. /\ T \subseteq Present \ Live /\ i \in T
          /\ \A x \in Present \ Live : rows[x].parent \in T => x \in T
          /\ \A x \in T : x # i => rows[x].parent \in T
          /\ \A Y : i \in Y /\ (\A x \in Present : rows[x].parent \in Y => x \in Y) => T \subseteq Y
      BY <1>3, <3>1, BinTree
    <3>4. i \in X
      BY <1>3, <2>1
    <3>5. ASSUME NEW x \in Present, rows[x].parent \in X PROVE x \in X
      <4>1. rows[x].parent # 0
        BY <3>5, BoundsAssumption DEF Present, Ids
      <4>2. rows[x].path = Append(rows[rows[x].parent].path, Name(x)) /\ Name(x) \in Names
        BY <4>1, HangsUnder
      <4>3. Above(j.old, rows[rows[x].parent].path) /\ rows[rows[x].parent].path \in Seq(Names)
        BY <1>4, <3>5
      <4>4. Above(j.old, rows[x].path)
        BY <1>4, <4>2, <4>3, MovedMore
      <4> QED
        BY <4>4
    <3> HIDE DEF X
    <3>6. T \subseteq X
      BY <3>3, <3>4, <3>5
    <3> USE DEF X
    <3> QED
      BY <3>3, <3>6
  <2> QED
    BY <2>2, <2>3
<1>6. PICK new \in Moves(h, T \ {i}) : w = Restored(h, T, new)
  BY DEF Restores
<1>13. T = {i} \/ ~Patterned(j.path)
  BY DEF Restores
<1> HIDE DEF T, w
<1>7. DOMAIN w = T /\ \A x \in T :
         /\ w[x] \in FullRow /\ w[x].inBin = FALSE
         /\ x = i => w[x].path = j.path /\ w[x].depth = j.depth /\ w[x].parent = q
         /\ x # i => /\ w[x].path \in Moved(h, rows[x].path) /\ w[x].parent = rows[x].parent
                     /\ w[x].depth = rows[x].depth + j.depth - rows[i].depth
  <2>1. T \in SUBSET Present
    BY <1>5
  <2>2. /\ DOMAIN Restored(h, T, new) = T
        /\ \A x \in T : LET r == Restored(h, T, new)[x]
                        IN /\ r \in FullRow /\ r.inBin = FALSE
                           /\ x = i => /\ r.path = j.path /\ r.depth = j.depth /\ r.parent = q
                           /\ x # i => /\ r.path \in Moved(h, rows[x].path) /\ r.parent = rows[x].parent
                                       /\ r.depth = rows[x].depth + j.depth - rows[i].depth
    <3>1. op[h].kind = "restore" /\ i \in Present
      BY <1>2, <1>3
    <3>2. PICK S \in SUBSET Present : S = T
      BY <2>1
    <3>3. PICK e \in Moves(h, S \ {op[h].fs}) : e = new
      BY <1>6, <3>2
    <3>4. /\ DOMAIN Restored(h, S, e) = S
          /\ \A x \in S : LET r == Restored(h, S, e)[x]
                          IN /\ r \in FullRow /\ r.inBin = FALSE
                             /\ x = op[h].fs => /\ r.path = op[h].path /\ r.depth = op[h].depth
                                                /\ r.parent = op[h].parent
                             /\ x # op[h].fs =>
                                  /\ r.path = e[x] /\ e[x] \in Moved(h, rows[x].path) /\ r.parent = rows[x].parent
                                  /\ r.depth = rows[x].depth + op[h].depth - rows[op[h].fs].depth
      <4>1. op[h].fs \in Present /\ S \in SUBSET Present /\ e \in Moves(h, S \ {op[h].fs})
        BY <3>1, <3>2, <3>3
      <4> QED
        BY <3>1, <4>1, RestoredAre
    <3>5. Restored(h, S, e) = Restored(h, T, new)
      BY <3>2, <3>3
    <3> QED
      BY <3>2, <3>4, <3>5
  <2> QED
    BY <1>6, <2>2
<1>8. ASSUME NEW x \in T
      PROVE  /\ w[x] # None /\ w[x].inBin = FALSE
             /\ w[x].path = j.path \o Rest(j.old, rows[x].path)
             /\ w[x].depth = rows[x].depth + j.depth - rows[i].depth
             /\ w[x].parent = IF x = i THEN q ELSE rows[x].parent
  <2>1. w[x] # None /\ w[x].inBin = FALSE
    BY <1>7, NoneIsNoRow
  <2>2. CASE x = i
    <3>1. j.path \o Rest(j.old, rows[x].path) = j.path
      <4>1. PICK p, o : p = j.path /\ o = j.old
        OBVIOUS
      <4>2. p \in Seq(Names) /\ o \in Seq(Names) /\ rows[x].path = o
        BY <1>3, <1>4, <2>2, <4>1
      <4>3. p \o Rest(o, o) = p
        BY <4>2, MovedSelf
      <4> QED
        BY <4>1, <4>2, <4>3
    <3>2. rows[x].depth + j.depth - rows[i].depth = j.depth
      BY <1>3, <1>4, <2>2
    <3> QED
      BY <1>7, <2>1, <2>2, <3>1, <3>2
  <2>3. CASE x # i
    <3>1. Moved(h, rows[x].path) = {j.path \o Rest(j.old, rows[x].path)}
      <4>1. ~Patterned(j.path) /\ Above(j.old, rows[x].path)
        BY <1>3, <1>5, <1>13, <2>3
      <4>2. rows[x].path \in Paths /\ j.path \in Paths
        BY <1>2, <1>5, RowsAre, JobIs DEF Typed, FullRow, JobOK
      <4> QED
        BY <1>4, <4>1, <4>2, MovedAre
    <3> QED
      BY <1>7, <2>1, <2>3, <3>1
  <2> QED
    BY <2>2, <2>3
<1>9. /\ k.path = (IF q = 0 THEN <<>> ELSE rows'[q].path) \o <<Last(rows'[i].path)>>
  BY <1>1, <1>2, <1>3 DEF PathOf, Name
<1>10. /\ k.fs \in Present' \ Live' /\ k.old = rows'[k.fs].path /\ k.keep = rows'[k.fs].file
       /\ k.parent # 0 => k.parent \in Live' /\ ~rows'[k.parent].file
       /\ k.depth = IF k.parent = 0 THEN 0 ELSE rows'[k.parent].depth + 1
  BY <1>1, <1>2, <1>3 DEF Folder
<1>11. /\ k.fs \in DOMAIN w
       /\ \A x \in Present' \ Live' : rows'[x].parent \in DOMAIN w => x \in DOMAIN w
  BY <1>1, <1>2, <1>5, <1>7
<1>12. \A x \in DOMAIN w :
         /\ x \in Present' \ Live' /\ Above(k.old, rows'[x].path)
         /\ w[x] # None /\ w[x].inBin = FALSE
         /\ w[x].path = k.path \o Rest(k.old, rows'[x].path)
         /\ w[x].depth = rows'[x].depth + k.depth - rows'[k.fs].depth
         /\ w[x].parent = IF x = k.fs THEN k.parent ELSE rows'[x].parent
         /\ x # k.fs => rows'[x].parent \in DOMAIN w
  <2> SUFFICES ASSUME NEW x \in T
               PROVE  /\ x \in Present' \ Live' /\ Above(k.old, rows'[x].path)
                      /\ w[x] # None /\ w[x].inBin = FALSE
                      /\ w[x].path = k.path \o Rest(k.old, rows'[x].path)
                      /\ w[x].depth = rows'[x].depth + k.depth - rows'[k.fs].depth
                      /\ w[x].parent = IF x = k.fs THEN k.parent ELSE rows'[x].parent
                      /\ x # k.fs => rows'[x].parent \in T
    BY <1>7
  <2>1. x \in Present' \ Live' /\ Above(k.old, rows'[x].path)
    BY <1>1, <1>2, <1>5
  <2>2. x # k.fs => rows'[x].parent \in T
    BY <1>1, <1>2, <1>5
  <2>3. /\ w[x] # None /\ w[x].inBin = FALSE
        /\ w[x].path = k.path \o Rest(k.old, rows'[x].path)
        /\ w[x].depth = rows'[x].depth + k.depth - rows'[k.fs].depth
        /\ w[x].parent = IF x = k.fs THEN k.parent ELSE rows'[x].parent
    <3>1. /\ k.path = j.path /\ k.old = j.old /\ k.depth = j.depth /\ k.fs = i /\ k.parent = q
          /\ rows' = rows
      BY <1>1, <1>2
    <3>2. PICK e : e = w[x]
      OBVIOUS
    <3>3. /\ e # None /\ e.inBin = FALSE
          /\ e.path = j.path \o Rest(j.old, rows[x].path)
          /\ e.depth = rows[x].depth + j.depth - rows[i].depth
          /\ e.parent = IF x = i THEN q ELSE rows[x].parent
      BY <1>8, <3>2
    <3> QED
      BY <3>1, <3>2, <3>3
  <2> QED
    BY <2>1, <2>2, <2>3
<1> QED
  BY <1>2, <1>9, <1>10, <1>11, <1>12 DEF RestoreOK, Folder, PathOf, Name, w

\* The requests that run alone, after any step.
LEMMA LoneStep ==
  ASSUME Regime, Typed, Typed', Ledger, Ledger', Shape, ~garbled',
         NEW h \in Handlers, Others(h), Works(h), NEW g \in Handlers
  PROVE  EncryptOK(g)' /\ RestoreOK(g)' /\ GoneOK(g)'
<1> SUFFICES ASSUME op'[g].kind \in {"encrypt", "restore", "forget", "clean"}
             PROVE  EncryptOK(g)' /\ RestoreOK(g)' /\ GoneOK(g)'
  BY DEF EncryptOK, RestoreOK, GoneOK
<1>1. ~Ends(g)
  BY DEF Ends, Idle
<1>0. g = h => ~Renames(h)
  BY StillIs DEF Renames, Still, Maker
<1>2. CASE g = h /\ ~GoesOn(h)
  <2>1. /\ UNCHANGED <<rows, bins>>
        /\ StartsEncrypt(h) \/ StartsRestore(h) \/ StartsOther(h) \/ StartsClean(h)
    <3>1. MayStart(h, op'[h].kind) /\ UNCHANGED <<rows, bins>>
      BY <1>0, <1>1, <1>2, Phase
    <3>2. ~Makes(h)
      BY <1>2 DEF Makes, Made
    <3> QED
      BY <1>0, <1>1, <1>2, <3>1, <3>2
      DEF Works, Goes, GivesUp, Replaces, Inserts, Deletes, Issues, Flips, Bins, Restores, Forgets, Commits
  <2>2. rows' = rows /\ Present' = Present /\ Live' = Live
    BY <2>1 DEF Present, Live
  <2>3. CASE StartsEncrypt(h)
    <3>1. /\ op'[h].kind = "encrypt" /\ op'[h].fs \in Present /\ rows[op'[h].fs].file
          /\ op'[h].path = Encrypted(rows[op'[h].fs].path) /\ DOMAIN op'[h].writes = {}
      BY <2>3, WritesAre DEF StartsEncrypt, Starts, Folder, Live
    <3> QED
      BY <1>2, <2>2, <3>1 DEF EncryptOK, RestoreOK, GoneOK
  <2>4. CASE StartsRestore(h)
    <3>1. op'[h].kind = "restore"
      BY <2>4 DEF StartsRestore, Starts
    <3> QED
      BY <1>2, <2>4, <3>1, RestoreStarts DEF EncryptOK, GoneOK
  <2>5. CASE StartsOther(h)
    <3>1. op'[h].kind \in {"bin", "forget"} /\ DOMAIN op'[h].writes = {}
      BY <2>5, WritesAre DEF StartsOther, Starts
    <3> QED
      BY <1>2, <3>1 DEF EncryptOK, RestoreOK, GoneOK
  <2>6. CASE StartsClean(h)
    <3>1. /\ op'[h].kind = "clean" /\ DOMAIN op'[h].writes = Present
          /\ \A x \in Present : op'[h].writes[x] = None
      BY <2>6 DEF StartsClean, Starts
    <3> QED
      BY <1>2, <2>2, <3>1 DEF EncryptOK, RestoreOK, GoneOK
  <2> QED
    BY <2>1, <2>3, <2>4, <2>5, <2>6
<1>3. CASE g # h \/ GoesOn(h)
  <2>1. EncryptOK(g) /\ RestoreOK(g) /\ GoneOK(g)
    BY DEF Shape
  <2>2. /\ op'[g].kind = op[g].kind /\ op'[g].fs = op[g].fs /\ op'[g].parent = op[g].parent
        /\ op'[g].path = op[g].path /\ op'[g].keep = op[g].keep /\ op'[g].old = op[g].old
        /\ op'[g].depth = op[g].depth
    BY <1>3 DEF Others, GoesOn
  <2>3. rows' = rows /\ Present' = Present /\ Live' = Live
    <3>1. CASE g # h
      <4>1. op[h].kind = "none"
        BY <2>2, <3>1 DEF Shape, Alone, Lone
      <4>2. UNCHANGED <<rows, bins>> \/ Ends(h) \/ GoesOn(h)
        BY Phase, StillIs
      <4>3. ASSUME GoesOn(h) \/ Ends(h) PROVE rows' = rows
        <5>1. CASE Commits(h)
          <6>1. DOMAIN op[h].writes = {}
            BY <4>1 DEF Ledger, LocksOf
          <6>2. \A i \in Ids : rows'[i] = rows[i]
            <7>1. Merged(h) = Without([i \in Ids |-> rows[i]], {})
              BY <6>1 DEF Merged
            <7>2. rows' = Merged(h)
              BY <5>1 DEF Commits
            <7>3. \A i \in Ids : rows'[i] = rows[i]
              BY <7>1, <7>2 DEF Without
            <7> QED
              BY <7>3
          <6>3. rows = [i \in Ids |-> rows[i]] /\ rows' = [i \in Ids |-> rows'[i]]
            <7>1. rows \in Tables /\ rows' \in Tables
              BY DEF Typed, TablesOK
            <7> QED
              BY <7>1 DEF Tables
          <6> QED
            BY <6>2, <6>3
        <5>2. CASE ~Commits(h)
          BY <4>1, <4>3, <5>2
          DEF Works, Makes, StartsEncrypt, StartsRestore, StartsOther, StartsClean, Starts, Renames,
              Goes, GivesUp, Replaces, Inserts, Deletes, Issues, Flips, Bins, Restores, Forgets, Maker
        <5> QED
          BY <5>1, <5>2
      <4> QED
        BY <4>2, <4>3 DEF Present, Live
    <3>2. CASE g = h
      <4>1. op[h].kind \in {"encrypt", "restore", "forget", "clean"} /\ ~Ends(h)
        BY <1>1, <2>2, <3>2
      <4>2. ~Inserts(h) /\ ~Deletes(h) /\ ~Flips(h) /\ ~Bins(h) /\ ~Commits(h)
        BY <4>1 DEF Inserts, Deletes, Flips, Bins, Commits, Maker
      <4>3. rows' = rows
        BY <1>0, <3>2, <4>2
        DEF Works, Makes, StartsEncrypt, StartsRestore, StartsOther, StartsClean, Starts,
            Goes, GivesUp, Replaces, Issues, Restores, Forgets
      <4> QED
        BY <4>3 DEF Present, Live
    <3> QED
      BY <3>1, <3>2
  <2>4. CASE op'[g].writes = op[g].writes
    <3>1. EncryptOK(g)'
      BY <2>1, <2>2, <2>3, <2>4 DEF EncryptOK
    <3>2. RestoreOK(g)'
      <4> SUFFICES ASSUME op[g].kind = "restore" PROVE RestoreOK(g)'
        BY <2>2 DEF RestoreOK
      <4>1. PICK i, q, w : i = op[g].fs /\ q = op[g].parent /\ w = op[g].writes
        OBVIOUS
      <4>2. op'[g].fs = i /\ op'[g].parent = q /\ op'[g].writes = w
        BY <2>2, <2>4, <4>1
      <4>3. /\ i \in Present' \ Live' /\ op'[g].old = rows'[i].path /\ op'[g].keep = rows'[i].file
            /\ op'[g].path = (IF q = 0 THEN <<>> ELSE rows'[q].path) \o <<Last(rows'[i].path)>>
            /\ q # 0 => q \in Live' /\ ~rows'[q].file
            /\ op'[g].depth = IF q = 0 THEN 0 ELSE rows'[q].depth + 1
        BY <2>1, <2>2, <2>3, <4>1 DEF RestoreOK, PathOf, Name, Folder
      <4>4. DOMAIN w # {} =>
               /\ i \in DOMAIN w
               /\ \A x \in Present' \ Live' : rows'[x].parent \in DOMAIN w => x \in DOMAIN w
        BY <2>1, <2>3, <4>1 DEF RestoreOK
      <4>5. \A x \in DOMAIN w :
               /\ x \in Present' \ Live' /\ Above(op'[g].old, rows'[x].path)
               /\ w[x] # None /\ w[x].inBin = FALSE
               /\ w[x].path = op'[g].path \o Rest(op'[g].old, rows'[x].path)
               /\ w[x].depth = rows'[x].depth + op'[g].depth - rows'[i].depth
               /\ w[x].parent = IF x = i THEN q ELSE rows'[x].parent
               /\ x # i => rows'[x].parent \in DOMAIN w
        <5>1. \A x \in DOMAIN w :
                 /\ x \in Present \ Live /\ Above(op[g].old, rows[x].path)
                 /\ w[x] # None /\ w[x].inBin = FALSE
                 /\ w[x].path = op[g].path \o Rest(op[g].old, rows[x].path)
                 /\ w[x].depth = rows[x].depth + op[g].depth - rows[i].depth
                 /\ w[x].parent = IF x = i THEN q ELSE rows[x].parent
                 /\ x # i => rows[x].parent \in DOMAIN w
          BY <2>1, <4>1 DEF RestoreOK
        <5> QED
          BY <2>2, <2>3, <5>1
      <4>6. /\ op'[g].path = PathOf(q)' \o <<Name(i)'>>
            /\ q # 0 => q \in Live' /\ Folder(q)'
        BY <4>3 DEF PathOf, Name, Folder
      <4>7. /\ op'[g].old = rows'[i].path /\ op'[g].keep = rows'[i].file
            /\ op'[g].depth = IF q = 0 THEN 0 ELSE rows'[q].depth + 1
        BY <4>3
      <4>8. i \in Present' \ Live'
        BY <4>3
      <4> QED
        BY <4>2, <4>4, <4>5, <4>6, <4>7, <4>8, Zenon DEF RestoreOK
    <3>3. GoneOK(g)'
      BY <2>1, <2>2, <2>3, <2>4 DEF GoneOK
    <3> QED
      BY <3>1, <3>2, <3>3
  <2>5. CASE op'[g].writes # op[g].writes
    <3>1. g = h /\ GoesOn(h)
      BY <1>3, <2>5 DEF Others
    <3>2. Issues(h) \/ Restores(h) \/ Forgets(h)
      <4>1. ~Makes(h) /\ ~StartsEncrypt(h) /\ ~StartsRestore(h) /\ ~StartsOther(h) /\ ~StartsClean(h)
        <5>1. op[h] # Idle
          BY <2>2, <3>1 DEF Idle
        <5> QED
          BY <5>1 DEF Makes, StartsEncrypt, StartsRestore, StartsOther, StartsClean, Starts, MayStart
      <4>2. ~Goes(h) /\ ~Deletes(h) /\ ~Flips(h) /\ ~Replaces(h)
        BY <2>2, <2>5, <3>1 DEF Goes, Deletes, Flips, Replaces, SameWrites
      <4>3. ~GivesUp(h) /\ ~Inserts(h) /\ ~Bins(h) /\ ~Commits(h)
        BY <1>1, <3>1 DEF GivesUp, Inserts, Bins, Commits
      <4> QED
        BY <1>0, <3>1, <4>1, <4>2, <4>3 DEF Works
    <3>3. CASE Issues(h)
      <4> DEFINE i == op[h].fs
                 r == [rows[i] EXCEPT !.enc = TRUE, !.size = op[h].extra, !.path = op[h].path]
                 w == op'[h].writes
      <4>1. op[h].kind = "encrypt" /\ i \in Present /\ rows[i].file /\ op[h].path = Encrypted(rows[i].path)
        BY <2>1, <3>1, <3>3 DEF Issues, EncryptOK
      <4>2. rows[i] \in FullRow /\ op[h].path \in Paths /\ op[h].extra \in Nat
        BY <4>1, RowsAre, JobIs DEF Typed, JobOK
      <4>3. /\ r \in FullRow /\ r.path = op[h].path /\ r.depth = rows[i].depth
            /\ r.parent = rows[i].parent /\ r.inBin = rows[i].inBin
        BY <4>2 DEF FullRow
      <4> HIDE DEF r
      <4>4. \A x \in DOMAIN w : x = i /\ w[x] = r
        <5>1. w = IF i \notin Live \/ rows[i].enc THEN Nothing ELSE [x \in {i} |-> r]
          BY <3>3 DEF Issues, r
        <5> HIDE DEF w
        <5> QED
          BY <5>1, WritesAre
      <4> HIDE DEF w
      <4>5. \A x \in DOMAIN w :
               /\ w[x] # None /\ w[x].path = op[h].path /\ w[x].depth = rows[x].depth
               /\ w[x].parent = rows[x].parent /\ w[x].inBin = rows[x].inBin
        BY <4>3, <4>4, NoneIsNoRow
      <4> QED
        BY <2>2, <2>3, <3>1, <4>1, <4>5 DEF EncryptOK, RestoreOK, GoneOK, w
    <3>4. CASE Restores(h)
      <4>1. op'[g].kind = "restore"
        BY <2>2, <3>1, <3>4 DEF Restores
      <4> QED
        BY <3>1, <3>4, <4>1, RestoreWrites DEF EncryptOK, GoneOK
    <3>5. CASE Forgets(h)
      <4> DEFINE D == IF op[h].keep THEN {op[h].fs} ELSE Tree(op[h].fs, TRUE)
      <4>1. op'[g].kind = "forget" /\ op[h].fs \in Present \ Live
        BY <2>2, <3>1, <3>5 DEF Forgets
      <4>2. \A x \in D : x \notin Live
        BY <4>1, BinTree
      <4>3. op'[g].writes = [x \in D |-> None]
        BY <3>1, <3>5 DEF Forgets
      <4> HIDE DEF D
      <4> QED
        BY <2>3, <4>1, <4>2, <4>3 DEF EncryptOK, RestoreOK, GoneOK
    <3> QED
      BY <3>2, <3>3, <3>4, <3>5
  <2> QED
    BY <2>4, <2>5
<1> QED
  BY <1>2, <1>3

\* A row that stays where it is still hangs where its parent is, if its parent
\* does, or if it has none any more and is in the bin.
LEMMA HangsStill ==
  ASSUME Shape, NEW i \in Present, i \in Present',
         rows'[i].path = rows[i].path, rows'[i].depth = rows[i].depth, i \in Live' => i \in Live,
         NEW p, p = rows[i].parent,
         \/ /\ rows'[i].parent = p
            /\ p # 0 => /\ p \in Present' /\ rows'[p].path = rows[p].path
                        /\ rows'[p].depth = rows[p].depth /\ rows'[p].file = rows[p].file
                        /\ i \in Live' /\ p \in Live => p \in Live'
         \/ rows'[i].parent = 0 /\ i \notin Live'
  PROVE  Hangs(i)'
<1>1. Hangs(i)
  BY DEF Shape
<1> QED
  BY <1>1 DEF Hangs, Folder, Name

\* Rows are deleted: no live row is under them that is not deleted with them.
LEMMA GoneHangs ==
  ASSUME Typed, Shape, NEW D, \A x \in Present : x \notin D /\ rows[x].parent \in D => x \notin Live,
         \A y \in Present : rows'[y] = Without(rows, D)[y],
         NEW i \in Present, i \in Present'
  PROVE  Hangs(i)'
<1>1. Present \subseteq Ids /\ Present' = {x \in Ids : rows'[x] # None} /\ \A x \in Present : rows[x] # None
  BY DEF Present
<1>2. \A x \in Present : LET r == rows'[x]
                         IN /\ x \in D => r = None
                            /\ x \notin D =>
                                  /\ r # None /\ r.file = rows[x].file /\ r.path = rows[x].path
                                  /\ r.inBin = rows[x].inBin /\ r.depth = rows[x].depth
                                  /\ r.parent = IF rows[x].parent \in D THEN 0 ELSE rows[x].parent
  <2>1. \A x \in Ids : LET r == Without(rows, D)[x]
                       IN /\ rows[x] = None \/ x \in D => r = None
                          /\ rows[x] # None /\ x \notin D =>
                                /\ r # None /\ r.file = rows[x].file /\ r.size = rows[x].size
                                /\ r.enc = rows[x].enc /\ r.path = rows[x].path
                                /\ r.inBin = rows[x].inBin /\ r.depth = rows[x].depth
                                /\ r.parent = IF rows[x].parent \in D THEN 0 ELSE rows[x].parent
    BY WithoutKept
  <2> QED
    BY <1>1, <2>1
<1>3. i \notin D /\ \A x \in Present : x \notin D => x \in Present' /\ (x \in Live' <=> x \in Live)
  BY <1>1, <1>2 DEF Live
<1>4. PICK p : p = rows[i].parent
  OBVIOUS
<1>5. CASE p \in D
  <2>1. rows'[i].parent = 0 /\ i \notin Live'
    BY <1>2, <1>3, <1>4, <1>5
  <2>2. rows'[i].path = rows[i].path /\ rows'[i].depth = rows[i].depth
    BY <1>2, <1>3
  <2> QED
    BY <1>4, <2>1, <2>2, HangsStill
<1>6. CASE p \notin D
  <2>1. rows'[i].path = rows[i].path /\ rows'[i].depth = rows[i].depth /\ rows'[i].parent = p
    BY <1>2, <1>3, <1>4, <1>6
  <2>2. p # 0 => p \in Present
    BY <1>4, HangsUnder
  <2>3. p # 0 => /\ p \in Present' /\ rows'[p].path = rows[p].path
                 /\ rows'[p].depth = rows[p].depth /\ rows'[p].file = rows[p].file
                 /\ i \in Live' /\ p \in Live => p \in Live'
    BY <1>2, <1>3, <1>6, <2>2
  <2>4. i \in Live' => i \in Live
    BY <1>3
  <2> QED
    BY <1>4, <2>1, <2>3, <2>4, HangsStill
<1> QED
  BY <1>5, <1>6

\* What is live under a row.
LEMMA LiveTree ==
  ASSUME Typed, NEW i
  PROVE  /\ Tree(i, FALSE) \subseteq Live
         /\ \A x \in Live : rows[x].parent \in Tree(i, FALSE) => x \in Tree(i, FALSE)
<1> DEFINE T == Tree(i, FALSE)
<1>1. PICK b : b = FALSE
  OBVIOUS
<1>2. \A x \in Present : rows[x].inBin = b <=> x \in Live
  BY <1>1, RowsAre DEF Typed, FullRow
<1>3. /\ Tree(i, b) \subseteq {j \in Present : rows[j].inBin = b}
      /\ \A j \in Present : rows[j].inBin = b /\ rows[j].parent \in Tree(i, b) => j \in Tree(i, b)
  BY TreeIs
<1>4. T = Tree(i, b)
  BY <1>1
<1> HIDE DEF T
<1>5. T \subseteq Live /\ \A x \in Live : rows[x].parent \in T => x \in T
  BY <1>2, <1>3, <1>4 DEF Live
<1> QED
  BY <1>5 DEF T

\* Every row hangs from its parent after a step that inserts one, ...
LEMMA InsertsHangs ==
  ASSUME Typed, Ledger, Shape, NEW h \in Handlers, Inserts(h), NEW i \in Present'
  PROVE  Hangs(i)'
<1> DEFINE D == DOMAIN op[h].writes
           W == Without(rows, D)
<1>1. PICK fs, p, new : fs = op[h].fs /\ p = op[h].parent /\ new = NewRow(h, op[h].kind = "upload")
  OBVIOUS
<1>2. Maker(op[h]) /\ fs \in Ids /\ fs \notin Present /\ p \in Present \cup {0}
  BY <1>1, JobIs DEF Inserts, Maker, JobOK, Ledger, NumbersOf
<1>3. /\ new.path = op[h].path /\ new.depth = op[h].depth /\ new.parent = p
      /\ new.inBin = FALSE
  BY <1>1 DEF NewRow
<1>4. rows' = [W EXCEPT ![fs] = new] /\ W = [x \in Ids |-> W[x]]
  BY <1>1 DEF Inserts, Without
<1>5. MakerOK(h) /\ \A x \in D : x \in Present /\ rows[x].file
  BY <1>2 DEF Shape, MakerOK, Ledger, LocksOf
<1>6. Present \subseteq Ids /\ Present' = {x \in Ids : rows'[x] # None} /\ \A x \in Ids : x \notin Present => rows[x] = None
  BY DEF Present
<1> HIDE DEF W
<1>7. rows'[fs] = new /\ \A x \in Ids : x # fs => rows'[x] = W[x]
  BY <1>2, <1>4
<1>8. \A y \in Present : rows'[y] = Without(rows, D)[y]
  BY <1>2, <1>6, <1>7 DEF W
<1>9. \A x \in Present : rows[x].parent \notin D
  <2> SUFFICES ASSUME NEW x \in Present, rows[x].parent \in D PROVE FALSE
    OBVIOUS
  <2>1. rows[x].parent # 0
    BY <1>5, <1>6, BoundsAssumption DEF Ids
  <2> QED
    BY <1>5, <2>1, HangsUnder
<1>10. CASE i \in Present
  BY <1>8, <1>9, <1>10, GoneHangs
<1>11. CASE i \notin Present
  <2>1. i = fs
    <3>1. \A x \in Ids : rows[x] = None => W[x] = None
      BY DEF W, Without
    <3> QED
      BY <1>6, <1>7, <1>11, <3>1
  <2>2. i \in Live' /\ rows'[i] = new
    BY <1>3, <1>7, <2>1 DEF Live
  <2>3. CASE p = 0
    <3>1. Len(op[h].path) = 1 /\ op[h].depth = 0
      BY <1>1, <1>2, <1>5, <2>3 DEF MakerOK
    <3> QED
      BY <1>3, <2>2, <2>3, <3>1 DEF Hangs
  <2>4. CASE p # 0
    <3>1. /\ p \in Present /\ p \in Live /\ ~rows[p].file /\ op[h].depth = rows[p].depth + 1
          /\ op[h].path = Append(rows[p].path, Last(op[h].path))
      BY <1>1, <1>2, <1>5, <2>4 DEF MakerOK, Folder
    <3>2. p \notin D /\ p \in Ids
      BY <1>5, <1>6, <3>1
    <3>3. LET r == rows'[p]
          IN r # None /\ r.file = rows[p].file /\ r.path = rows[p].path
             /\ r.inBin = rows[p].inBin /\ r.depth = rows[p].depth
      <4>1. \A x \in Ids : LET r == Without(rows, D)[x]
                           IN /\ rows[x] = None \/ x \in D => r = None
                              /\ rows[x] # None /\ x \notin D =>
                                    /\ r # None /\ r.file = rows[x].file /\ r.path = rows[x].path
                                    /\ r.inBin = rows[x].inBin /\ r.depth = rows[x].depth
        BY WithoutKept
      <4>2. rows'[p] = Without(rows, D)[p] /\ rows[p] # None
        BY <1>8, <3>1 DEF Present
      <4> QED
        BY <3>2, <4>1, <4>2
    <3>4. p \in Present' /\ p \in Live'
      BY <1>6, <3>1, <3>2, <3>3 DEF Live
    <3> QED
      BY <1>3, <2>2, <2>4, <3>1, <3>3, <3>4 DEF Hangs, Folder, Name
  <2> QED
    BY <2>3, <2>4
<1> QED
  BY <1>10, <1>11

\* ... that deletes a row with all under it, ...
LEMMA DeletesHangs ==
  ASSUME Typed, Ledger, Shape, NEW h \in Handlers, Deletes(h), NEW i \in Present'
  PROVE  Hangs(i)'
<1>1. PICK v \in 0 .. MaxRows : rows' = Without(rows, Tree(v, FALSE))
  BY DEF Deletes
<1>2. PICK D : D = Tree(v, FALSE)
  OBVIOUS
<1>3. \A x \in Present : x \notin D /\ rows[x].parent \in D => x \notin Live
  BY <1>2, LiveTree
<1>4. \A y \in Present : rows'[y] = Without(rows, D)[y]
  BY <1>1, <1>2
<1>5. i \in Present
  BY <1>1 DEF Present, Without
<1> QED
  BY <1>3, <1>4, <1>5, GoneHangs

\* ... that moves a tree to the bin, ...
LEMMA FlipsHangs ==
  ASSUME Typed, Ledger, Shape, NEW h \in Handlers, Flips(h), NEW i \in Present'
  PROVE  Hangs(i)'
<1>1. PICK T : T = Tree(op[h].fs, FALSE)
  OBVIOUS
<1>2. T \subseteq Live /\ \A x \in Live : rows[x].parent \in T => x \in T
  BY <1>1, LiveTree
<1>3. \A x \in Ids : rows'[x] = IF x \in T THEN [rows[x] EXCEPT !.inBin = TRUE] ELSE rows[x]
  BY <1>1 DEF Flips
<1>4. \A x \in Present : rows[x] \in FullRow
  BY RowsAre DEF Typed
<1>5. \A r \in FullRow : LET y == [r EXCEPT !.inBin = TRUE]
                         IN /\ y \in FullRow /\ y.path = r.path /\ y.depth = r.depth /\ y.file = r.file
                            /\ y.parent = r.parent /\ y.inBin = TRUE
  BY DEF FullRow
<1>6. \A x \in Present : /\ rows'[x] # None /\ rows'[x].path = rows[x].path
                         /\ rows'[x].depth = rows[x].depth /\ rows'[x].file = rows[x].file
                         /\ rows'[x].parent = rows[x].parent
                         /\ rows'[x].inBin = IF x \in T THEN TRUE ELSE rows[x].inBin
  <2>1. Present \subseteq Ids /\ \A x \in Present : rows[x] # None
    BY DEF Present
  <2> QED
    BY <1>3, <1>4, <1>5, <2>1, NoneIsNoRow
<1>7. /\ Present' = Present
      /\ \A x \in Present : x \in Live' <=> x \in Live /\ x \notin T
  <2>1. \A x \in Ids : rows[x] = None => rows'[x] = None
    BY <1>2, <1>3 DEF Live, Present
  <2>2. Present' = Present
    BY <1>6, <2>1 DEF Present
  <2> QED
    BY <1>6, <2>2 DEF Live
<1>8. PICK p : p = rows[i].parent
  OBVIOUS
<1>9. p # 0 => p \in Present
  BY <1>7, <1>8, HangsUnder
<1>10. p # 0 => /\ p \in Present' /\ rows'[p].path = rows[p].path
                /\ rows'[p].depth = rows[p].depth /\ rows'[p].file = rows[p].file
                /\ i \in Live' /\ p \in Live => p \in Live'
  BY <1>2, <1>6, <1>7, <1>8, <1>9
<1> QED
  BY <1>6, <1>7, <1>8, <1>10, HangsStill

\* What a commit makes of the rows: nothing but what was written, when that
\* deletes none, ...
LEMMA MergedAll ==
  ASSUME NEW h \in Handlers, \A x \in DOMAIN op[h].writes : op[h].writes[x] # None, NEW i \in Ids
  PROVE  Merged(h)[i] = IF i \in DOMAIN op[h].writes THEN op[h].writes[i] ELSE rows[i]
<1> DEFINE w == op[h].writes
           R == [x \in Ids |-> IF x \in DOMAIN w THEN w[x] ELSE rows[x]]
<1>1. {x \in DOMAIN w : w[x] = None} = {}
  OBVIOUS
<1>2. Merged(h) = Without(R, {})
  BY <1>1 DEF Merged
<1> HIDE DEF R
<1>3. Without(R, {})[i] = R[i]
  BY DEF Without
<1> QED
  BY <1>2, <1>3 DEF R

\* ... and the rows without those written, when it deletes them all.
LEMMA MergedNone ==
  ASSUME NEW h \in Handlers, \A x \in DOMAIN op[h].writes : op[h].writes[x] = None, NEW i \in Ids
  PROVE  Merged(h)[i] = Without(rows, DOMAIN op[h].writes)[i]
<1> DEFINE w == op[h].writes
           D == DOMAIN w
           R == [x \in Ids |-> IF x \in D THEN w[x] ELSE rows[x]]
<1>1. {x \in DOMAIN w : w[x] = None} = D
  OBVIOUS
<1>2. Merged(h) = Without(R, D)
  BY <1>1 DEF Merged
<1>3. i \notin D => R[i] = rows[i]
  OBVIOUS
<1> HIDE DEF R, D
<1>4. Without(R, D)[i] = Without(rows, D)[i]
  BY <1>3 DEF Without
<1> QED
  BY <1>2, <1>4 DEF D

\* An encrypted file lies beside the file it was.
LEMMA EncryptedIs ==
  ASSUME NEW p \in Paths
  PROVE  /\ Encrypted(p) = Append(Front(p), Last(Encrypted(p)))
         /\ Len(Encrypted(p)) = Len(p)
<1>1. Last(p) \in Names /\ Front(p) \in Seq(Names) /\ Len(Front(p)) = Len(p) - 1 /\ p \in Seq(Names)
  BY PathOps, EmptySeq DEF Paths
<1>2. PICK n : n = [Last(p) EXCEPT !.ext = "enc"]
  OBVIOUS
<1>3. n \in Names
  BY <1>1, <1>2, NamesAre
<1>4. Encrypted(p) = Front(p) \o <<n>>
  BY <1>2 DEF Encrypted
<1>5. /\ Front(p) \o <<n>> = Append(Front(p), n) /\ Last(Front(p) \o <<n>>) = n
      /\ Len(Front(p) \o <<n>>) = Len(Front(p)) + 1
  BY <1>1, <1>3, OneMore
<1>6. Len(p) \in Nat
  BY <1>1, LenProperties
<1> QED
  BY <1>1, <1>4, <1>5, <1>6

\* ... that commits an encryption, ...
LEMMA EncryptHangs ==
  ASSUME Typed, Ledger, Shape, NEW h \in Handlers, Commits(h), op[h].kind = "encrypt",
         NEW i \in Present'
  PROVE  Hangs(i)'
<1>1. PICK e, w : e = op[h].fs /\ w = op[h].writes
  OBVIOUS
<1>2. /\ DOMAIN w \subseteq {e} /\ e \in Present /\ rows[e].file
      /\ op[h].path = Encrypted(rows[e].path)
      /\ \A x \in DOMAIN w :
            /\ w[x] # None /\ w[x].path = op[h].path /\ w[x].depth = rows[x].depth
            /\ w[x].parent = rows[x].parent /\ w[x].inBin = rows[x].inBin
            /\ w[x].file = rows[x].file
  BY <1>1 DEF Shape, EncryptOK, Ledger, LocksOf
<1>3. \A x \in Ids : rows'[x] = IF x \in DOMAIN w THEN w[x] ELSE rows[x]
  BY <1>1, <1>2, MergedAll DEF Commits
<1>4. \A x \in Present : /\ rows'[x] # None /\ rows'[x].file = rows[x].file
                         /\ rows'[x].depth = rows[x].depth /\ rows'[x].parent = rows[x].parent
                         /\ rows'[x].inBin = rows[x].inBin
                         /\ x # e => rows'[x].path = rows[x].path
  <2>1. Present \subseteq Ids /\ \A x \in Present : rows[x] # None
    BY DEF Present
  <2> QED
    BY <1>2, <1>3, <2>1
<1>5. Present' = Present /\ Live' = Live
  <2>1. \A x \in Ids : rows[x] = None => rows'[x] = None
    BY <1>2, <1>3 DEF Present
  <2>2. Present' = Present
    BY <1>4, <2>1 DEF Present
  <2> QED
    BY <1>4, <2>2 DEF Live
<1>6. PICK p : p = rows[i].parent
  OBVIOUS
<1>7. p # 0 => p \in Present /\ p # e /\ (i \in Live => p \in Live)
  BY <1>2, <1>5, <1>6, HangsUnder
<1>8. CASE rows'[i].path = rows[i].path
  BY <1>4, <1>5, <1>6, <1>7, <1>8, HangsStill
<1>9. CASE i = e /\ rows'[i].path = op[h].path
  <2>1. rows[e].path \in Paths /\ rows[e].path \in Seq(Names)
    BY <1>2, RowsAre DEF Typed, FullRow, Paths
  <2>2. op[h].path = Append(Front(rows[e].path), Last(op[h].path)) /\ Len(op[h].path) = Len(rows[e].path)
    BY <1>2, <2>1, EncryptedIs
  <2>3. Hangs(e)
    BY <1>2 DEF Shape
  <2>4. CASE p = 0
    BY <1>4, <1>5, <1>6, <1>9, <2>2, <2>3, <2>4 DEF Hangs
  <2>5. CASE p # 0
    <3>1. /\ p \in Present /\ ~rows[p].file /\ (i \in Live => p \in Live)
          /\ rows[i].path = Append(rows[p].path, Name(i)) /\ rows[i].depth = rows[p].depth + 1
          /\ rows[p].path \in Seq(Names) /\ Name(i) \in Names
      BY <1>5, <1>6, <2>5, HangsUnder
    <3>2. Front(rows[i].path) = rows[p].path
      <4>1. rows[p].path \o <<Name(i)>> = Append(rows[p].path, Name(i))
            /\ Front(rows[p].path \o <<Name(i)>>) = rows[p].path
        BY <3>1, OneMore
      <4> QED
        BY <3>1, <4>1
    <3>3. rows'[i].path = Append(rows'[p].path, Last(rows'[i].path))
      BY <1>4, <1>7, <1>9, <2>2, <2>5, <3>1, <3>2
    <3> QED
      BY <1>4, <1>5, <1>6, <2>5, <3>1, <3>3 DEF Hangs, Folder, Name
  <2> QED
    BY <2>4, <2>5
<1>10. rows'[i].path = rows[i].path \/ (i = e /\ rows'[i].path = op[h].path)
  <2>1. i \in Ids
    BY <1>5 DEF Present
  <2> QED
    BY <1>2, <1>3, <2>1
<1> QED
  BY <1>8, <1>9, <1>10

\* ... that commits a restoring, ...
LEMMA RestoreHangs ==
  ASSUME Typed, Ledger, Shape, NEW h \in Handlers, Commits(h), op[h].kind = "restore",
         NEW i \in Present'
  PROVE  Hangs(i)'
<1>1. PICK e, q, w, old, path : /\ e = op[h].fs /\ q = op[h].parent /\ w = op[h].writes
                                /\ old = op[h].old /\ path = op[h].path
  OBVIOUS
<1>2. PICK T : T = DOMAIN w
  OBVIOUS
<1>3. /\ e \in Present \ Live /\ old = rows[e].path
      /\ path = PathOf(q) \o <<Name(e)>>
      /\ q # 0 => q \in Live /\ ~rows[q].file
      /\ op[h].depth = IF q = 0 THEN 0 ELSE rows[q].depth + 1
      /\ T # {} => /\ e \in T
                   /\ \A x \in Present \ Live : rows[x].parent \in T => x \in T
  BY <1>1, <1>2 DEF Shape, RestoreOK, Folder
<1>4. \A x \in T :
         /\ x \in Present \ Live /\ Above(old, rows[x].path)
         /\ w[x] # None /\ w[x].inBin = FALSE
         /\ w[x].path = path \o Rest(old, rows[x].path)
         /\ w[x].depth = rows[x].depth + op[h].depth - rows[e].depth
         /\ w[x].parent = IF x = e THEN q ELSE rows[x].parent
         /\ x # e => rows[x].parent \in T
  <2>1. RestoreOK(h)
    BY DEF Shape
  <2>2. \A x \in DOMAIN op[h].writes :
           /\ x \in Present \ Live /\ Above(op[h].old, rows[x].path)
           /\ op[h].writes[x] # None /\ op[h].writes[x].inBin = FALSE
           /\ op[h].writes[x].path = op[h].path \o Rest(op[h].old, rows[x].path)
           /\ op[h].writes[x].depth = rows[x].depth + op[h].depth - rows[op[h].fs].depth
           /\ op[h].writes[x].parent = IF x = op[h].fs THEN op[h].parent ELSE rows[x].parent
           /\ x # op[h].fs => rows[x].parent \in DOMAIN op[h].writes
    BY <2>1 DEF RestoreOK
  <2> QED
    BY <1>1, <1>2, <2>2
<1>5. \A x \in T : w[x].file = rows[x].file
  BY <1>1, <1>2, <1>4 DEF Ledger, LocksOf
<1>6. \A x \in Ids : rows'[x] = IF x \in T THEN w[x] ELSE rows[x]
  <2>1. \A x \in DOMAIN op[h].writes : op[h].writes[x] # None
    BY <1>1, <1>2, <1>4
  <2>2. rows' = Merged(h)
    BY DEF Commits
  <2>3. \A x \in Ids : Merged(h)[x] = IF x \in DOMAIN op[h].writes THEN op[h].writes[x] ELSE rows[x]
    BY <2>1, MergedAll
  <2> QED
    BY <1>1, <1>2, <2>2, <2>3
<1>7. /\ old \in Seq(Names) /\ path \in Seq(Names) /\ op[h].depth \in Int
      /\ \A x \in Present : rows[x].path \in Seq(Names) /\ rows[x].depth \in Int
  BY <1>1, JobIs, RowsAre DEF Typed, FullRow, Paths
<1>8. Present' = Present /\ \A x \in Present : x \in Ids /\ (x \in Live' <=> x \in Live \/ x \in T)
  <2>1. T \subseteq Present /\ Present \subseteq Ids
    BY <1>4 DEF Present
  <2>2. \A x \in Ids : rows'[x] = None <=> rows[x] = None
    BY <1>4, <1>6, <2>1 DEF Present
  <2>3. Present' = Present
    BY <2>2 DEF Present
  <2>4. \A x \in Present : x \in Live' <=> x \in Live \/ x \in T
    BY <1>4, <1>6, <2>1, <2>3 DEF Live
  <2> QED
    BY <2>1, <2>3, <2>4
<1>9. PICK p : p = rows[i].parent
  OBVIOUS
<1>10. CASE i \notin T
  <2>1. rows'[i] = rows[i] /\ i \in Present /\ (i \in Live' <=> i \in Live)
    BY <1>6, <1>8, <1>10
  <2>2. p # 0 => p \in Present /\ (i \in Live => p \in Live)
    BY <1>9, <2>1, HangsUnder
  <2>3. p # 0 => p \notin T
    BY <1>3, <1>4, <1>9, <1>10, <2>1, <2>2
  <2>4. p # 0 => rows'[p] = rows[p] /\ p \in Present' /\ (p \in Live => p \in Live')
    BY <1>6, <1>8, <2>2, <2>3
  <2> QED
    BY <1>9, <2>1, <2>2, <2>4, HangsStill
<1>11. CASE i \in T /\ i = e
  <2>1. /\ rows'[i] = w[e] /\ i \in Live' /\ w[e].parent = q
        /\ w[e].path = path /\ w[e].depth = op[h].depth
    <3>1. path \o Rest(old, rows[e].path) = path
      BY <1>3, <1>7, MovedSelf
    <3>2. rows[e].depth + op[h].depth - rows[e].depth = op[h].depth
      BY <1>3, <1>7
    <3> QED
      BY <1>3, <1>4, <1>6, <1>8, <1>11, <3>1, <3>2
  <2>2. Name(e) \in Names
    BY <1>3, RowsAre DEF Typed
  <2>3. CASE q = 0
    <3>1. Len(path) = 1
      <4>1. <<>> \in Seq(Names) /\ Len(<<>>) = 0
        BY EmptySeq
      <4>2. path = <<>> \o <<Name(e)>>
        BY <1>3, <2>3 DEF PathOf
      <4> QED
        BY <2>2, <4>1, <4>2, OneMore
    <3> QED
      BY <1>3, <2>1, <2>3, <3>1 DEF Hangs
  <2>4. CASE q # 0
    <3>1. q \in Present /\ q \in Live /\ ~rows[q].file /\ rows[q].path \in Seq(Names)
      BY <1>3, <1>7, <2>4 DEF Live
    <3>2. rows'[q] = rows[q] /\ q \in Present' /\ q \in Live'
      BY <1>4, <1>6, <1>8, <3>1
    <3>3. path = Append(rows[q].path, Last(path))
      <4>1. path = rows[q].path \o <<Name(e)>>
        BY <1>3, <2>4 DEF PathOf
      <4> QED
        BY <2>2, <3>1, <4>1, OneMore
    <3> QED
      BY <1>3, <2>1, <2>4, <3>1, <3>2, <3>3 DEF Hangs, Folder, Name
  <2> QED
    BY <2>3, <2>4
<1>12. CASE i \in T /\ i # e
  <2>1. p \in T /\ i \in Present /\ p \in Present /\ p # 0
    <3>1. p \in T /\ i \in Present
      BY <1>4, <1>9, <1>12
    <3>2. p \in Ids
      BY <1>4, <1>8, <3>1
    <3> QED
      BY <1>4, <3>1, <3>2, BoundsAssumption DEF Ids
  <2>2. /\ rows'[i] = w[i] /\ rows'[p] = w[p] /\ p \in Live' /\ p \in Present'
    BY <1>4, <1>6, <1>8, <1>12, <2>1
  <2>3. /\ rows[i].path = Append(rows[p].path, Name(i)) /\ rows[i].depth = rows[p].depth + 1
        /\ rows[p].path \in Seq(Names) /\ Name(i) \in Names /\ ~rows[p].file
    BY <1>9, <2>1, HangsUnder
  <2>4. w[i].path = Append(w[p].path, Name(i))
    <3>1. Above(old, rows[p].path)
      BY <1>4, <2>1
    <3>2. path \o Rest(old, Append(rows[p].path, Name(i))) = Append(path \o Rest(old, rows[p].path), Name(i))
      BY <1>7, <2>3, <3>1, MovedMore
    <3> QED
      BY <1>4, <1>12, <2>1, <2>3, <3>2
  <2>5. Last(w[i].path) = Name(i)
    <3>1. w[p].path \in Seq(Names)
      <4>1. Rest(old, rows[p].path) \in Seq(Names)
        BY <1>4, <1>7, <2>1, PathOps
      <4>2. path \o Rest(old, rows[p].path) \in Seq(Names)
        BY <1>7, <4>1, PathOps
      <4> QED
        BY <1>4, <2>1, <4>2
    <3>2. w[p].path \o <<Name(i)>> = Append(w[p].path, Name(i)) /\ Last(w[p].path \o <<Name(i)>>) = Name(i)
      BY <2>3, <3>1, OneMore
    <3> QED
      BY <2>4, <3>2
  <2>6. w[i].depth = w[p].depth + 1
    <3>1. w[i].depth = rows[i].depth + op[h].depth - rows[e].depth
          /\ w[p].depth = rows[p].depth + op[h].depth - rows[e].depth
      BY <1>4, <1>12, <2>1
    <3>2. rows[i].depth \in Int /\ rows[p].depth \in Int /\ rows[e].depth \in Int
      BY <1>3, <1>7, <2>1
    <3> QED
      BY <1>7, <2>3, <3>1, <3>2
  <2>7. w[i].parent = p /\ ~w[p].file
    BY <1>4, <1>5, <1>9, <1>12, <2>1, <2>3
  <2> QED
    BY <2>1, <2>2, <2>4, <2>5, <2>6, <2>7 DEF Hangs, Folder, Name
<1> QED
  BY <1>10, <1>11, <1>12

\* ... and that commits anything.
LEMMA CommitsHangs ==
  ASSUME Typed, Ledger, Shape, NEW h \in Handlers, Commits(h), NEW i \in Present'
  PROVE  Hangs(i)'
<1>1. op[h].kind \in {"none", "bin", "encrypt", "restore", "forget", "clean"}
  BY JobIs DEF Commits, Maker, Kinds
<1>2. CASE op[h].kind \in {"none", "bin", "forget", "clean"}
  <2>1. PICK D : D = DOMAIN op[h].writes
    OBVIOUS
  <2>2. \A x \in D : op[h].writes[x] = None
    BY <1>2, <2>1 DEF Ledger, LocksOf, Shape, GoneOK
  <2>3. \A x \in Ids : rows'[x] = Without(rows, D)[x]
    BY <2>1, <2>2, MergedNone DEF Commits
  <2>4. i \in Present
    <3>1. i \in Ids /\ rows'[i] # None
      BY DEF Present
    <3>2. \A x \in Ids : rows[x] = None => Without(rows, D)[x] = None
      BY DEF Without
    <3> QED
      BY <2>3, <3>1, <3>2 DEF Present
  <2>5. \A x \in Present : x \notin D /\ rows[x].parent \in D => x \notin Live
    <3> SUFFICES ASSUME NEW x \in Present, x \notin D, rows[x].parent \in D, x \in Live PROVE FALSE
      OBVIOUS
    <3>1. D # {} /\ D \subseteq Ids
      BY <2>1, JobIs, WritesAre
    <3>2. op[h].kind \in {"forget", "clean"}
      BY <1>2, <2>1, <3>1 DEF Ledger, LocksOf
    <3>3. CASE op[h].kind = "clean"
      BY <2>1, <3>3 DEF Shape, GoneOK
    <3>4. CASE op[h].kind = "forget"
      <4>1. rows[x].parent \notin Live
        BY <2>1, <3>4 DEF Shape, GoneOK
      <4>2. rows[x].parent # 0
        BY <3>1, BoundsAssumption DEF Ids
      <4> QED
        BY <4>1, <4>2, HangsUnder
    <3> QED
      BY <3>2, <3>3, <3>4
  <2>6. \A y \in Present : rows'[y] = Without(rows, D)[y]
    BY <2>3 DEF Present
  <2> QED
    BY <2>4, <2>5, <2>6, GoneHangs
<1> QED
  BY <1>1, <1>2, EncryptHangs, RestoreHangs

\* A step of a request keeps the shape.
LEMMA WorksShape ==
  ASSUME Regime, Typed, Typed', Ledger, Ledger', Shape, ~garbled',
         NEW h \in Handlers, Others(h), Works(h)
  PROVE  Shape'
<1>1. ASSUME NEW i \in Present' PROVE Hangs(i)'
  <2>1. CASE UNCHANGED rows
    <3>1. rows' = rows /\ Present' = Present /\ Live' = Live
      BY <2>1 DEF Present, Live
    <3>2. Hangs(i)
      BY <1>1, <3>1 DEF Shape
    <3> QED
      BY <3>1, <3>2 DEF Hangs, Folder, Name
  <2>2. CASE Inserts(h) \/ Deletes(h) \/ Flips(h) \/ Commits(h)
    BY <2>2, InsertsHangs, DeletesHangs, FlipsHangs, CommitsHangs
  <2>3. UNCHANGED rows \/ Inserts(h) \/ Deletes(h) \/ Flips(h) \/ Commits(h)
    BY DEF Works, Makes, StartsEncrypt, StartsRestore, StartsOther, StartsClean, Starts,
           Goes, GivesUp, Renames, Replaces, Issues, Bins, Restores, Forgets
  <2> QED
    BY <2>1, <2>2, <2>3
<1>2. Alone'
  BY AloneStep DEF Shape
<1>3. \A g \in Handlers : MakerOK(g)' /\ EncryptOK(g)' /\ RestoreOK(g)' /\ GoneOK(g)'
  BY MakerStep, LoneStep
<1> QED
  BY <1>1, <1>2, <1>3 DEF Shape

\* Every step keeps the shape, unless a `$` pattern gets into the paths.
LEMMA NextShape ==
  ASSUME Regime
  PROVE  Typed /\ Ledger /\ Shape /\ ~garbled' /\ [Next]_vars => Shape'
<1> SUFFICES ASSUME Typed, Ledger, Shape, ~garbled', [Next]_vars PROVE Shape'
  OBVIOUS
<1>1. Typed' /\ Ledger'
  BY NextTyped, NextLedger
<1>2. ASSUME UNCHANGED <<rows, bins, op, nextRow>>
      PROVE  Shape'
  <2>1. rows' = rows /\ op' = op /\ nextRow' = nextRow /\ Present' = Present /\ Live' = Live
    BY <1>2 DEF Present, Live
  <2>2. Alone'
    BY <2>1 DEF Shape, Alone
  <2>3. \A i \in Present' : Hangs(i)'
    BY <2>1 DEF Shape, Hangs, Folder, Name
  <2>4. ASSUME NEW g \in Handlers PROVE MakerOK(g)' /\ GoneOK(g)'
    BY <2>1 DEF Shape, MakerOK, GoneOK, Settled, Folder
  <2>5. ASSUME NEW g \in Handlers PROVE EncryptOK(g)' /\ RestoreOK(g)'
    <3>1. EncryptOK(g) /\ RestoreOK(g)
      BY DEF Shape
    <3> QED
      BY <2>1, <3>1 DEF EncryptOK, RestoreOK, Folder, PathOf, Name
  <2> QED
    BY <2>2, <2>3, <2>4, <2>5 DEF Shape
<1>3. ASSUME NEW h \in Handlers, Others(h), Works(h) PROVE Shape'
  BY <1>1, <1>3, WorksShape
<1> QED
  BY <1>2, <1>3, EveryStep

\* The shape holds until a `$` pattern gets into the paths: so it does at first, ...
KeptShape == ~garbled => Shape

LEMMA InitKept == Init => KeptShape
BY InitShape DEF KeptShape

\* ... and every step keeps it, since what is garbled stays so.
LEMMA NextKept ==
  ASSUME Regime
  PROVE  Typed /\ Ledger /\ KeptShape /\ [Next]_vars => KeptShape'
<1> SUFFICES ASSUME Typed, Ledger, KeptShape, [Next]_vars, ~garbled' PROVE Shape'
  BY DEF KeptShape
<1>1. ~garbled
  BY EveryStep DEF Notes
<1> QED
  BY <1>1, NextShape DEF KeptShape

-----------------------------------------------------------------------------
(* What follows, when only uploads and new folders overlap.                *)

\* Rows that share a path with another, live rows with a row of the bin, and what
\* lies under them, are named in astray.
OddNoted == Odd(rows, bins) \subseteq astray

\* Nothing is odd at first.
LEMMA InitOdd == Init => OddNoted
<1> SUFFICES ASSUME Init PROVE OddNoted
  OBVIOUS
<1>1. \A i \in Ids : rows[i] = None
  BY DEF Init
<1> QED
  BY <1>1 DEF OddNoted, Odd

\* What becomes odd is noted in the same step.
LEMMA NextOdd == Typed /\ OddNoted /\ [Next]_vars => OddNoted'
<1> SUFFICES ASSUME Typed, OddNoted, [Next]_vars PROVE OddNoted'
  OBVIOUS
<1>1. Notes
  BY EveryStep
<1>2. CASE UNCHANGED <<rows, bins>>
  <2>1. Odd(rows, bins)' = Odd(rows, bins)
    BY <1>2 DEF Odd, Above
  <2> QED
    BY <1>1, <2>1 DEF OddNoted, Notes
<1>3. CASE Odd(rows, bins)' \subseteq astray'
  BY <1>3 DEF OddNoted
<1> QED
  BY <1>1, <1>2, <1>3 DEF Notes

\* A live row at or under the path that two live rows share is in astray, and so
\* is one at or under the path of a live row that has a row of the bin.
LEMMA UnderOdd ==
  ASSUME OddNoted, NEW i \in Live, NEW j \in Live, Above(rows[j].path, rows[i].path),
         bins[j] # 0 \/ \E k \in Live \ {j} : rows[j].path = rows[k].path
  PROVE  i \in astray
<1>1. \A x \in Live : x \in Ids /\ rows[x] # None /\ ~rows[x].inBin
  BY DEF Live, Present
<1>2. i \in Odd(rows, bins)
  BY <1>1 DEF Odd
<1> QED
  BY <1>2 DEF OddNoted

\* A sound row that lies where the rows of p lie has p for its parent: were
\* its parent another row at the same path, nobody could tell them apart.
LEMMA SoundUnder ==
  ASSUME Typed, Shape, OddNoted, NEW i \in Live \cap Sound, NEW p \in Live,
         NEW n \in Names, rows[i].path = Append(rows[p].path, n)
  PROVE  rows[i].parent = p /\ Name(i) = n
<1>1. i \in Present /\ p \in Present /\ Hangs(i) /\ rows[p].path \in Paths /\ rows[p].path \in Seq(Names)
  BY RowsAre DEF Live, Shape, Typed, FullRow, Paths
<1>2. /\ rows[p].path \o <<n>> = Append(rows[p].path, n) /\ Last(rows[p].path \o <<n>>) = n
      /\ Front(rows[p].path \o <<n>>) = rows[p].path
      /\ Len(rows[p].path \o <<n>>) = Len(rows[p].path) + 1
  BY <1>1, OneMore
<1>3. Len(rows[p].path) \in Nat /\ Len(rows[p].path) > 0
  BY <1>1, LenProperties DEF Paths
<1>4. PICK q : q = rows[i].parent
  OBVIOUS
<1>5. q # 0
  BY <1>1, <1>2, <1>3, <1>4 DEF Hangs
<1>6. /\ q \in Present /\ q \in Live /\ rows[q].path \in Seq(Names) /\ Name(i) \in Names
      /\ rows[i].path = Append(rows[q].path, Name(i))
  BY <1>1, <1>4, <1>5, HangsUnder
<1>7. rows[q].path = rows[p].path
  <2>1. /\ rows[q].path \o <<Name(i)>> = Append(rows[q].path, Name(i))
        /\ Front(rows[q].path \o <<Name(i)>>) = rows[q].path
    BY <1>6, OneMore
  <2> QED
    BY <1>2, <1>6, <2>1
<1>8. q = p
  <2> SUFFICES ASSUME q # p PROVE FALSE
    OBVIOUS
  <2>1. Above(rows[q].path, rows[i].path)
    <3>1. <<n>> \in Seq(Names)
      BY PathOps, EmptySeq DEF Paths
    <3> QED
      BY <1>1, <1>2, <1>7, <3>1, RestOf
  <2>2. i \in astray
    BY <1>6, <1>7, <2>1, UnderOdd
  <2> QED
    BY <2>2 DEF Sound
<1> QED
  BY <1>2, <1>4, <1>8 DEF Name

\* A row at the top has no parent.
LEMMA AtTheTop ==
  ASSUME Typed, Shape, NEW i \in Live, Len(rows[i].path) = 1
  PROVE  rows[i].parent = 0
<1> SUFFICES ASSUME rows[i].parent # 0 PROVE FALSE
  OBVIOUS
<1>1. PICK q : q = rows[i].parent
  OBVIOUS
<1>2. i \in Present
  BY DEF Live
<1>3. /\ q \in Present /\ rows[q].path \in Seq(Names) /\ Name(i) \in Names
      /\ rows[i].path = Append(rows[q].path, Name(i))
  BY <1>1, <1>2, HangsUnder
<1>4. /\ rows[q].path \o <<Name(i)>> = Append(rows[q].path, Name(i))
      /\ Len(rows[q].path \o <<Name(i)>>) = Len(rows[q].path) + 1
  BY <1>3, OneMore
<1>5. rows[q].path \in Paths /\ Len(rows[q].path) \in Nat
  BY <1>3, RowsAre, LenProperties DEF Typed, FullRow
<1> QED
  BY <1>3, <1>4, <1>5 DEF Paths

\* A step that settles the title of a request that keeps both files: the titles are
\* looked for as the rows are now, whatever has been replaced since it began.
LEMMA KeepsFresh ==
  ASSUME Typed, Ledger, Shape, OddNoted, NEW h \in Handlers, Others(h), Works(h),
         op[h].pc \in {"match", "number"}, op'[h].pc = "write", op[h].parent \in Present \cup {0},
         Last(Last(op'[h].path).title).n < Exact,
         NEW i \in Live \cap Sound, rows[i].file = (op[h].kind = "upload")
  PROVE  rows[i].path # op'[h].path
<1>1. GoesOn(h) \/ Renames(h)
  <2>1. ~MayStart(h, op'[h].kind) /\ ~Ends(h)
    BY DEF MayStart, Ends, Idle
  <2> QED
    BY <2>1, Phase
<1>2. PICK p, path : p = op[h].parent /\ path = op'[h].path
  OBVIOUS
<1>3. /\ Maker(op[h]) /\ path \in Paths /\ Last(path).title \notin Seen(h)
      /\ Last(path).ext = Last(op[h].path).ext
      /\ \A a \in Seq(Names) : op[h].path = Append(a, Last(op[h].path)) => path = Append(a, Last(path))
  <2>1. CASE GoesOn(h)
    <3>1. path = op[h].path /\ Maker(op[h]) /\ Asked(h) \notin Seen(h)
      BY <1>2, <2>1 DEF GoesOn, Onward
    <3>2. path \in Paths
      BY <3>1, JobIs DEF JobOK, Maker
    <3> QED
      BY <3>1, <3>2 DEF Asked
  <2>2. CASE Renames(h)
    <3>1. PICK t : t = NextTitle(Seen(h), Asked(h))
      OBVIOUS
    <3>2. /\ Last(path).title = t /\ path \in Paths /\ Last(path).ext = Last(op[h].path).ext
          /\ \A a \in Seq(Names) : op[h].path = Append(a, Last(op[h].path)) => path = Append(a, Last(path))
      BY <1>2, <2>2, <3>1, RenamedIs
    <3>3. Last(t).n < Exact => t \notin Seen(h)
      BY <2>2, <3>1, NextIs DEF Renames
    <3> QED
      BY <1>2, <2>2, <3>2, <3>3 DEF Renames
  <2> QED
    BY <1>1, <2>1, <2>2
<1>4. /\ p # 0 => p \in Live /\ op[h].path = Append(rows[p].path, Last(op[h].path))
      /\ op[h].kind = "folder" => Last(op[h].path).ext = ""
  BY <1>2, <1>3 DEF Shape, MakerOK
<1> SUFFICES ASSUME rows[i].path = path PROVE FALSE
  BY <1>2
<1>5. Name(i) = Last(path) /\ Last(path) \in Names
  BY RowsAre DEF Name, Live, Typed
<1>6. p = 0 \/ rows[i].parent = p
  <2> SUFFICES ASSUME p # 0 PROVE rows[i].parent = p
    OBVIOUS
  <2>1. p \in Live /\ rows[p].path \in Seq(Names)
    BY <1>4, RowsAre DEF Live, Typed, FullRow, Paths
  <2>2. rows[i].path = Append(rows[p].path, Last(path))
    BY <1>3, <1>4, <2>1
  <2> QED
    BY <1>5, <2>1, <2>2, SoundUnder
<1>7. Name(i).title \in TitlesSeen(p, op[h].kind = "upload")
  BY <1>3, <1>4, <1>5, <1>6 DEF TitlesSeen, Maker
<1> QED
  BY <1>2, <1>3, <1>5, <1>7 DEF Seen

\* A step in which a request finds what it replaces.
LEMMA FindsTold ==
  ASSUME Typed, Ledger, Shape, OddNoted, NEW h \in Handlers, Others(h), Works(h), op[h].victim = 0,
         NEW v, v = op'[h].victim, v # 0, v \in Sound, rows[v].file \/ Name(v).ext = "",
         op[h].parent \in Present \cup {0}
  PROVE  HasDuplicate(op[h].parent, rows[v].file, Last(op[h].path))
<1>1. ~Ends(h)
  <2>1. Idle.victim = 0
    BY DEF Idle
  <2> QED
    BY <2>1 DEF Ends
<1>2. ~(Makes(h) \/ StartsEncrypt(h) \/ StartsRestore(h) \/ StartsOther(h) \/ StartsClean(h))
  BY DEF Makes, StartsEncrypt, StartsRestore, StartsOther, StartsClean, Starts
<1>3. GoesOn(h)
  <2>1. ~Renames(h)
    BY RenamedIs
  <2> QED
    BY <1>1, <1>2, <2>1
    DEF Works, Goes, GivesUp, Replaces, Inserts, Deletes, Issues, Flips, Bins, Restores, Forgets, Commits
<1>4. Found(h)
  BY <1>3 DEF GoesOn
<1>5. v \in Live /\ rows[v].path = op[h].path /\ Maker(op[h]) /\ v \in Live \cap Sound
  BY <1>4 DEF Found
<1>6. PICK p : p = op[h].parent
  OBVIOUS
<1>7. rows[v].parent = p /\ Name(v) = Last(op[h].path)
  <2>1. MakerOK(h)
    BY DEF Shape
  <2>2. Name(v) = Last(op[h].path)
    BY <1>5 DEF Name
  <2>3. CASE p = 0
    <3>1. Len(rows[v].path) = 1
      BY <1>5, <1>6, <2>1, <2>3 DEF MakerOK
    <3> QED
      BY <1>5, <2>2, <2>3, <3>1, AtTheTop
  <2>4. CASE p # 0
    <3>1. p \in Live /\ rows[v].path = Append(rows[p].path, Last(op[h].path))
      BY <1>5, <1>6, <2>1, <2>4 DEF MakerOK
    <3>2. Last(op[h].path) \in Names
      BY <1>5, <2>2, RowsAre DEF Typed
    <3> QED
      BY <1>5, <2>2, <3>1, <3>2, SoundUnder
  <2> QED
    BY <2>3, <2>4
<1>8. Name(v) \in Names /\ Names \subseteq FullName
  BY <1>5, RowsAre, NamesAre DEF Typed
<1>9. Name(v).ext = "" => Name(v) = [Name(v) EXCEPT !.ext = ""]
  BY <1>8 DEF FullName
<1>10. Name(v) = [Name(v) EXCEPT !.ext = Name(v).ext]
  BY <1>8 DEF FullName
<1>11. Name(v) = [Last(op[h].path) EXCEPT !.ext = IF rows[v].file THEN @ ELSE ""]
  BY <1>7, <1>9, <1>10
<1> QED
  BY <1>5, <1>6, <1>7, <1>11 DEF HasDuplicate

-----------------------------------------------------------------------------

\* Every row lies under its parent, which is a folder, and live if the row is:
\* what uploads, new folders, replacing, moving to the bin, restoring elsewhere,
\* encrypting and deleting do to paths, depths and parents fits together,
\* however long it goes on and whatever fails half-way, until a folder is restored
\* under a path with a `$` pattern.
THEOREM TreeShapeHolds ==
  ASSUME Regime
  PROVE  Spec => []TreeShape
<1>1. KeptShape => TreeShape
  BY DEF KeptShape, Shape, Hangs, TreeShape
<1>2. Typed /\ Ledger /\ KeptShape /\ [Next]_vars => (Typed /\ Ledger /\ KeptShape)'
  BY NextTyped, NextLedger, NextKept
<1> QED
  BY <1>1, <1>2, InitTyped, InitLedger, InitKept, PTL DEF Spec

\* Keeping both files never lands on a sound row: whatever was uploaded, made and
\* replaced since the request began, the title that it takes is new among those of
\* the parent it names, if that is still there, and no row of that path has another
\* parent.
THEOREM KeepBothIsFreshHolds ==
  ASSUME Regime
  PROVE  Spec => KeepBothIsFresh
<1> DEFINE Step1 == \A h \in Handlers :
                      LET new == op'[h].path
                      IN op[h].pc \in {"match", "number"} /\ op'[h].pc = "write" /\ ~garbled
                         /\ op[h].parent \in Present \cup {0} /\ Last(Last(new).title).n < Exact =>
                            \A i \in Live \cap Sound :
                               rows[i].file = (op[h].kind = "upload") => rows[i].path # new
<1>1. Typed /\ Ledger /\ KeptShape /\ OddNoted /\ [Next]_vars => [Step1]_vars
  <2> SUFFICES ASSUME Typed, Ledger, Shape, OddNoted, [Next]_vars,
                      NEW h \in Handlers, op[h].pc \in {"match", "number"}, op'[h].pc = "write",
                      op[h].parent \in Present \cup {0}, Last(Last(op'[h].path).title).n < Exact,
                      NEW i \in Live \cap Sound, rows[i].file = (op[h].kind = "upload")
               PROVE  rows[i].path # op'[h].path
    BY DEF KeptShape
  <2>1. op'[h] # op[h]
    OBVIOUS
  <2>2. Others(h) /\ Works(h)
    <3>1. PICK g \in Handlers : Others(g) /\ Works(g)
      BY <2>1, EveryStep
    <3> QED
      BY <2>1, <3>1 DEF Others
  <2> QED
    BY <2>2, KeepsFresh
<1>2. Typed /\ Ledger /\ KeptShape /\ OddNoted /\ [Next]_vars
        => (Typed /\ Ledger /\ KeptShape /\ OddNoted)'
  BY NextTyped, NextLedger, NextKept, NextOdd
<1>3. KeepBothIsFresh <=> [][Step1]_vars
  BY DEF KeepBothIsFresh
<1> HIDE DEF Step1
<1> QED
  BY <1>1, <1>2, <1>3, InitTyped, InitLedger, InitKept, InitOdd, PTL DEF Spec

\* What a request replaces, the client was told of when it asked for
\* duplicates: the row at the path has the parent that the request names.
THEOREM ReplacedIsToldHolds ==
  ASSUME Regime
  PROVE  Spec => ReplacedIsTold
<1> DEFINE Step1 == \A h \in Handlers :
                      LET v == op'[h].victim
                      IN op[h].victim = 0 /\ v # 0 /\ v \in Sound /\ (rows[v].file \/ Name(v).ext = "")
                         /\ op[h].parent \in Present \cup {0} /\ ~garbled =>
                            HasDuplicate(op[h].parent, rows[v].file, Last(op[h].path))
<1>1. Typed /\ Ledger /\ KeptShape /\ OddNoted /\ [Next]_vars => [Step1]_vars
  <2> SUFFICES ASSUME Typed, Ledger, Shape, OddNoted, [Next]_vars,
                      NEW h \in Handlers, NEW v, v = op'[h].victim,
                      op[h].victim = 0, v # 0, v \in Sound, rows[v].file \/ Name(v).ext = "",
                      op[h].parent \in Present \cup {0}
               PROVE  HasDuplicate(op[h].parent, rows[v].file, Last(op[h].path))
    BY DEF KeptShape
  <2>1. op'[h] # op[h]
    OBVIOUS
  <2>2. Others(h) /\ Works(h)
    <3>1. PICK g \in Handlers : Others(g) /\ Works(g)
      BY <2>1, EveryStep
    <3> QED
      BY <2>1, <3>1 DEF Others
  <2> QED
    BY <2>2, FindsTold
<1>2. Typed /\ Ledger /\ KeptShape /\ OddNoted /\ [Next]_vars
        => (Typed /\ Ledger /\ KeptShape /\ OddNoted)'
  BY NextTyped, NextLedger, NextKept, NextOdd
<1>3. ReplacedIsTold <=> [][Step1]_vars
  BY DEF ReplacedIsTold
<1> HIDE DEF Step1
<1> QED
  BY <1>1, <1>2, <1>3, InitTyped, InitLedger, InitKept, InitOdd, PTL DEF Spec
=============================================================================
