----------------------------- MODULE MCAccounts -----------------------------
(* Accounts for TLC. *)
EXTENDS Accounts

OfAccounts == {"signup", "signin", "refresh", "signout"}
OfPictures == {"details", "profile", "preview"}

\* Kinds that write no row in common, or that race with a third as well (the
\* administrator's DeleteUserInfo is one step and comes between any two).
Unrelated ==
    LET pairs == (OfAccounts \X OfPictures)
                   \cup ({"socket"} \X (OfAccounts \cup OfPictures \cup {"socket"}))
                   \cup ({"clear"} \X {"details", "profile", "socket", "clear"})
                   \cup ({"signin", "refresh"} \X {"signin", "refresh"})
    IN pairs \cup {<<p[2], p[1]>> : p \in pairs}

SymmetrySet == Permutations(Handlers)

=============================================================================
