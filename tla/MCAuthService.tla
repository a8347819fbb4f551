--------------------------- MODULE MCAuthService ---------------------------
(* Bounds for AuthService: requests about one email address, by callers    *)
(* with an owner's or a member's token, a refresh token, or an API key.    *)
EXTENDS AuthService, TLC

CONSTANTS q1, q2

MCReqs == {q1, q2}
Symmetry == Permutations(MCReqs)

MCBearers == {[type |-> "access", role |-> "owner"], [type |-> "access", role |-> "member"],
              [type |-> "refresh", role |-> None]}

Assertion(aud, win, sig, groups) ==
    [email |-> "a", audience |-> aud, window |-> win, signature |-> sig, groups |-> groups]

MCAssertions == {Assertion("sp", "now", "valid", {"staff", "ops"}),
                 Assertion("sp", "past", "valid", {}), Assertion("sp", "now", "valid", {})}

\* The first rule names no role and is passed over.
MCRules == << <<"staff", "guest">>, <<"ops", "admin">> >>

MCKeyScopes == {{"orgs:manage_members"}}
=============================================================================
