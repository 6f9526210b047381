--------------------------- MODULE MCDefaultSite ---------------------------
(* Small instances of DefaultSite: the value `page` is html, `broken` is a *)
(* value nginx refuses.                                                    *)
EXTENDS DefaultSite, TLC

CONSTANTS page, plain, broken

MCValue == {page, plain, broken}
MCRefused == {broken}
=============================================================================
