--------------------------- MODULE MCCredentials ---------------------------
\* Instances of Credentials for TLC.
EXTENDS Credentials

gh1 == [provider |-> "github", uid |-> 1, email |-> 1]
go1 == [provider |-> "google", uid |-> 2, email |-> 1]

\* The first one with the address that its owner has changed to.
gh1new == [gh1 EXCEPT !.email = 2]

TwoProviders == {gh1, go1, gh1new}

Account(name, password) ==
    [row |-> TRUE, email |-> 1, name |-> name, password |-> password, verified |-> TRUE,
     owner |-> TRUE, active |-> TRUE, maker |-> NoIdent]

\* An empty registry; an account with a password, the address of both provider
\* accounts and the name the first would be given; an account with two links
\* and no password.
Start == {
    [users |-> <<>>, links |-> {}],
    [users |-> <<[Account(<<1, 0>>, TRUE) EXCEPT !.email = 2]>>, links |-> {}],
    [users |-> <<Account(<<9, 0>>, TRUE)>>, links |-> {}],
    [users |-> <<Account(<<9, 0>>, FALSE)>>,
     links |-> {[user |-> 1, ident |-> gh1], [user |-> 1, ident |-> go1]}]}

OneAccount == {[users |-> <<Account(<<9, 0>>, TRUE)>>, links |-> {}]}

AllOps == {"GetOAuthURL", "Download", "Upload", "CreateAPIToken", "RevokeAPIToken", "UnlinkProvider"}
TokenOps == {"CreateAPIToken", "RevokeAPIToken"}

Known == {"read", "push"}
Asked == {<<>>, <<"read">>, <<"push", "push">>, <<"bogus">>}
OneScope == {<<"read">>}
=============================================================================
