------------------------------ MODULE MCAccess ------------------------------
(***************************************************************************)
(* Two requests at a time, the rotation of one key to the next, and the    *)
(* tokens of two registered users and of one who is not.                   *)
(***************************************************************************)
EXTENDS AccessGate, TLC

CONSTANTS r1, r2, k1, k2, ann, bob, carol

MCValues == SUBSET {k1, k2}

Token(key, email, audience, expires) ==
    [key |-> key, email |-> email, audience |-> audience, expires |-> expires]

AnnOld == Token(k1, ann, TRUE, 9)
AnnNew == Token(k2, ann, TRUE, 9)
BobBrief == Token(k2, bob, TRUE, 2)
Carol == Token(k1, carol, TRUE, 9)
OtherAudience == Token(k1, bob, FALSE, 9)
Service == Token(k1, NoEmail, TRUE, 9)

MCTokens == {AnnOld, AnnNew, BobBrief, Carol, OtherAudience, Service}

Configuration(production, email, configured) ==
    [production |-> production, DEV_AUTH_EMAIL |-> email,
     configured |-> configured]

\* What an operator may have configured; the process does not start with some.
MCConfigurations ==
    {Configuration(TRUE, NoEmail, TRUE), Configuration(TRUE, bob, TRUE),
     Configuration(TRUE, NoEmail, FALSE), Configuration(FALSE, ann, FALSE),
     Configuration(FALSE, NoEmail, FALSE)}

MCUsers ==
    1 :> [username |-> "ann", email |-> ann, admin |-> TRUE]
    @@ 2 :> [username |-> "bob", email |-> bob, admin |-> FALSE]
    @@ 3 :> Absent

Account(username, email) == [username |-> username, email |-> email]

Arrival(kind, token, account) ==
    [kind |-> kind, token |-> token, account |-> account]

\* Registrations without a token are refused in production, and made by the
\* administrator in development: of an account that is new, of one taken by one
\* user, and of one taken by two users.
Creations ==
    {Arrival("create", NoToken, Account("carol", carol)),
     Arrival("create", NoToken, Account("carol", bob)),
     Arrival("create", NoToken, Account("ann", bob))}

MCArrivals ==
    r1 :> {Arrival("read", AnnNew, Absent), Arrival("notify", AnnNew, Absent),
           Arrival("tool", Carol, Absent), Arrival("read", OtherAudience, Absent),
           Arrival("create", NoToken, Account("carol", carol))}
    @@ r2 :> Creations \union
          {Arrival("tool", AnnOld, Absent), Arrival("tool", Service, Absent),
           Arrival("create", BobBrief, Account("carol", carol))}

MCMaxRequests == r1 :> 2 @@ r2 :> 1

=============================================================================
