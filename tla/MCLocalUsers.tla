----------------------------- MODULE MCLocalUsers -----------------------------
(***************************************************************************)
(* Small instances of LocalUsers.                                          *)
(***************************************************************************)
EXTENDS LocalUsers

MCLifetimes == {"0", "0h", "1s", "2s", "soon"}
MCDuration  == [t \in MCLifetimes |-> CASE t = "1s"   -> 1
                                        [] t = "2s"   -> 2
                                        [] t = "soon" -> -1
                                        [] OTHER      -> 0]
MCStopTexts == {"0"}

User(active, renew, life) ==
    [listed |-> TRUE, active |-> active, renew |-> renew, life |-> life]
Unlisted == [listed |-> FALSE, active |-> FALSE, renew |-> FALSE,
             life |-> "0h"]

\* What an administrator may do to a user whose token expires: list it,
\* disable it, give it an infinite lifetime, stop renewing it, remove it.
\* With two seconds a token can be replaced before it expires, so that an
\* older token and a newer one are both unexpired.
AllSpecs == {User(TRUE, TRUE, "2s"), User(FALSE, TRUE, "2s"),
             User(TRUE, TRUE, "0"), User(TRUE, FALSE, "2s"), Unlisted}
RenewingLong == {User(TRUE, TRUE, "2s")}

Renewing == {User(TRUE, TRUE, "1s")}
RenewedSpecs == {User(TRUE, TRUE, "1s"), Unlisted}

=============================================================================
