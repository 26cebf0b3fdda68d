------------------------------ MODULE MCSignIn ------------------------------
(* An instance of SignIn for TLC: the demo account's address is one that a *)
(* person may have, too. One tick is half of minKeyRefresh.                *)
EXTENDS SignIn

CONSTANTS d1, e1, e2, s1, k1, k2

MCDemoEmail == [d \in DemoUser |-> e2]

IdToken(kid, sub, email) == [kid |-> kid, sub |-> sub, email |-> email]

(* One account that changes its address to the demo account's, or back.    *)
MCSent == {IdToken(k1, s1, e1), IdToken(k2, s1, e2)}

(* A max-age that makes no sense, and one that is too long.                *)
MCMaxAge == {-1, 9}
============================================================================
