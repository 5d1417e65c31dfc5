----------------------------- MODULE FileNames -----------------------------
(***************************************************************************)
(* How a title is numbered when both files are kept ("a" becomes "a (1)"). *)
(*                                                                         *)
(* A title is the sequence of its words, as split(' ') gives them; a word  *)
(* is a text and the number in brackets that it ends with, 0 for none.     *)
(* "Blank" is the word '', and <<Blank>> the empty title.  Two different   *)
(* texts are taken not to begin one another.                               *)
(***************************************************************************)
EXTENDS Integers, Sequences

CONSTANT Exact    \* 2^53: from there on numbers are rounded

ASSUME ExactAssumption == Exact \in Nat \ {0}

NoText == ""
Blank == [text |-> NoText, n |-> 0]

Last(t) == t[Len(t)]
Front(t) == SubSeq(t, 1, Len(t) - 1)

\* fileStructureNameDuplicateRegex: the title ends with a number in brackets,
\* with or without a space before it.
Numbered(t) == Last(t).n > 0

\* title.split(' ').slice(0, -1).join(' ') of a numbered title.
Base(t) ==
    IF ~Numbered(t) THEN t ELSE IF Len(t) = 1 THEN <<Blank>> ELSE Front(t)

\* startsWith: the last word of b may go on, with a number, in t.
Begins(t, b) ==
    \/ b = <<Blank>>
    \/ /\ Len(b) <= Len(t)
       /\ Front(b) = SubSeq(t, 1, Len(b) - 1)
       /\ t[Len(b)].text = Last(b).text
       /\ Last(b).n \in {0, t[Len(b)].n}

EndsWith(t, b) ==
    \/ b = <<Blank>>
    \/ LET d == Len(t) - Len(b)
       IN /\ d >= 0
          /\ \A j \in 2 .. Len(b) : t[d + j] = b[j]
          /\ t[d + 1].n = b[1].n /\ b[1].text \in {NoText, t[d + 1].text}

\* constFileStructureNameDuplicateRegex(b): anything, b, a space, a number.
Numbers(t, b) ==
    /\ Len(t) > 1 /\ Last(t).text = NoText /\ Numbered(t)
    /\ EndsWith(Front(t), b)

Largest(S) == CHOOSE m \in S : \A k \in S : k <= m

\* Mutant: the number goes on from the title's own, whatever else is there.
LastNumberOwn(titles, t) == Last(t).n

\* The titles found are sorted by number and the last one decides.
LastNumber(titles, t) ==
    LET found == {Last(x).n : x \in {y \in titles : Begins(y, Base(t)) /\ Numbers(y, Base(t))}}
    IN IF found = {} THEN 0 ELSE Largest(found \cup {Last(t).n})

\* n + 1, which among rounded numbers may be n again, and is taken to be.
Succ(n) == IF n < Exact THEN n + 1 ELSE n

\* The end of increaseFileNameNumber, for the titles that the query finds.
NextTitle(titles, t) == Base(t) \o <<[text |-> NoText, n |-> Succ(LastNumber(titles, t))]>>

=============================================================================
