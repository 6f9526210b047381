---------------------------- MODULE MCAccounts ----------------------------
(* A small instance of Accounts: three requests that overlap in every way, for *)
(* each choice of what they are.                                               *)
EXTENDS Accounts

Scene(kinds, mfa) == [kinds |-> kinds, mfa |-> mfa, legacy |-> FALSE, faulty |-> FALSE, skip |-> FALSE]
MCScenes ==
    {Scene(<<"second", "second", "logout">>, TRUE),
     Scene(<<"login", "second", "expel">>, TRUE),
     Scene(<<"refresh", "logout", "revoke">>, FALSE),
     Scene(<<"setup", "enable", "enable">>, FALSE),
     Scene(<<"setup", "enable", "login">>, FALSE),
     Scene(<<"setup", "enable", "disable">>, FALSE),
     Scene(<<"disable", "second", "regenerate">>, TRUE),
     Scene(<<"reset", "login", "regenerate">>, TRUE),
     Scene(<<"suspend", "refresh", "readmit">>, FALSE),
     Scene(<<"password", "login", "expel">>, FALSE),
     Scene(<<"remove", "second", "readmit">>, TRUE),
     Scene(<<"oidc", "oidc", "second">>, TRUE),
     Scene(<<"oidc", "suspend", "expel">>, FALSE),
     [Scene(<<"oidc", "logout", "reset">>, TRUE) EXCEPT !.skip = TRUE],
     [Scene(<<"login", "login", "password">>, FALSE) EXCEPT !.legacy = TRUE],
     [Scene(<<"password", "refresh", "enable">>, FALSE) EXCEPT !.faulty = TRUE]}
=============================================================================
