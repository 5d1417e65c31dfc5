---------------------------- MODULE MCVaultTree ----------------------------
(* Names and regimes for TLC. *)
EXTENDS VaultTree, TLC

A == <<[text |-> "a", n |-> 0]>>
TextFile == [title |-> A, ext |-> "txt"]

\* Folders "a$$b" and "a$b".
Dollars == [title |-> <<[text |-> "a$$b", n |-> 0]>>, ext |-> ""]
OneDollar == [title |-> <<[text |-> "a$b", n |-> 0]>>, ext |-> ""]

OneFileName == {TextFile}
TwoFolderNames == {TextFile, Dollars}
DollarFolderName == {Dollars}

\* "$$" stands for "$".
DollarExpansions == [n \in {Dollars} |-> {<<OneDollar>>}]

SymmetrySet == Permutations(Handlers)

=============================================================================
