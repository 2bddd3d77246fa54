------------------------------- MODULE MCJwks -------------------------------
EXTENDS Jwks, TLC
CONSTANTS k1, k2, e1
SomeKeySets == {[rsa |-> <<k2, k1>>, ecdsa |-> <<>>], [rsa |-> <<k1>>, ecdsa |-> <<e1>>]}
SomeTokens == [kid : {k1, e1}, kind : {"valid"}]
                \cup {[kid |-> k2, kind |-> "expired"], [kid |-> OtherKid, kind |-> "invalid"]}
Symmetry == Permutations(Requests)
=============================================================================
