----------------------------- MODULE MCRegistry -----------------------------
(* An instance of Registry for TLC. *)
EXTENDS Registry, TLC

\* ann and bob have accounts and own the organisation lab; ann has the alias
\* tip; dee has an account, and cy signs up.
MCAccount == "ann" :> "ann" @@ "bob" :> "bob" @@ "dee" :> "dee" @@ "cy" :> None
MCAlias   == [h \in Handles |-> CASE h = "lab" -> "org" [] h = "tip" -> "ann"
                                  [] OTHER -> None]
MCRole    == [h \in Handles |-> [u \in Users |->
                 IF h = "lab" /\ u \in {"ann", "bob"} THEN "owner" ELSE None]]

\* ann has a reset link; bob has enrolled in two-factor authentication.
MCLink    == "l" :> [user |-> "ann", kind |-> "reset", used |-> FALSE]
MCRecovery == [u \in Users |-> IF u = "bob" THEN Codes ELSE None]
TokenRow(u) == [user |-> u, scope |-> Exts, expires |-> "later",
                session |-> None, proof |-> None, fresh |-> FALSE]
MCToken == "ta" :> TokenRow("ann") @@ "tb" :> TokenRow("bob") @@ "tb2" :> TokenRow("bob")

Pub(t, h, v, b, k) == [kind |-> "publish", token |-> t, path |-> <<h, "s">>,
                       ext |-> <<h, "s">>, version |-> v, bundle |-> b, key |-> k, valid |-> TRUE]
Misnamed == [Pub("ta", "ann", 1, "b1", "k1") EXCEPT !.path = <<"lab", "s">>]
Unsigned == [Pub("ta", "ann", 1, "b1", "k1") EXCEPT !.valid = FALSE]
Of(kind, u) == [kind |-> kind, user |-> u]
Name(kind, u, h) == [kind |-> kind, user |-> u, handle |-> h]
Member(kind, u, m, ro) == [kind |-> kind, user |-> u, handle |-> "lab", member |-> m,
                           role |-> ro]
Invite(kind, u, i) == [kind |-> kind, user |-> u, handle |-> "lab", invite |-> i]
Device(kind, u) == [kind |-> kind, user |-> u, session |-> "d"]
Token(kind, t) == [kind |-> kind, token |-> t, user |-> "bob", scope |-> {<<"bob", "s">>}]
Code(kind, t, c) == [kind |-> kind, token |-> t, code |-> c]
Follow(l) == [kind |-> "follow", link |-> l]
Sso(u) == [kind |-> "sso", user |-> u, handle |-> "lab", candidates |-> <<"tip", "new", "ann">>]
Reserve(u) == [kind |-> "reserve", user |-> u, slug |-> "s"]

Mix(A, B, C) == {"r1" :> a @@ "r2" :> b @@ "r3" :> c : a \in A, b \in B, c \in C}

\* Versions of one package by one or two publishers, and the handle it is under.
Publishes ==
    Mix({Pub("ta", "ann", 2, "b2", "k1")},
        {Pub("ta", "ann", 1, "b1", "k1"), Pub("ta", "ann", 2, "b1", "k1"), Misnamed, Unsigned},
        {Pub("ta", "ann", 2, "b2", "k2"), Pub("ta", "ann", 1, "b1", "k1"),
         Pub("ta", "lab", 1, "b1", "k1"), Reserve("ann")})
    \cup
    Mix({Pub("ta", "tip", 1, "b1", "k1")},
        {Name("release", "ann", "tip")},
        {Name("claim", "bob", "tip"), Name("createOrg", "bob", "tip"),
         Pub("ta", "ann", 1, "b1", "k1"), Reserve("ann")})
    \cup
    Mix({Pub("tb", "lab", 1, "b1", "k1")},
        {Member("remove", "ann", "bob", None), Member("changeRole", "ann", "bob", "reader"),
         Code("enroll", "ta", "totp")},
        {Code("proof", "tb", "c1"), Code("proof", "tb", "totp"), Code("disable2fa", "tb2", "c1"),
         Pub("ta", "lab", 1, "b2", "k2")})

Names ==
    Mix({Name("claim", "ann", "new"), Name("createOrg", "ann", "new"),
         Name("release", "ann", "tip")},
        {Name("claim", "bob", "new"), Name("createOrg", "bob", "new"),
         Name("claim", "ann", "tip"), Name("signUp", "cy", "new")},
        {Name("claim", "bob", "tip"), Name("createOrg", "bob", "tip"),
         Name("signUp", "cy", "new"), Name("signUp", "cy", "tip")})
    \cup
    LET Changes == {Member("remove", "ann", "bob", None), Member("remove", "bob", "ann", None),
                    Member("changeRole", "ann", "ann", "admin"),
                    Member("changeRole", "bob", "bob", "reader"),
                    Member("changeRole", "bob", "ann", "owner"),
                    Member("remove", "ann", "ann", None)}
    IN  Mix({Member("remove", "ann", "bob", None), Member("changeRole", "ann", "ann", "admin"),
             Member("changeRole", "bob", "ann", "owner")},
            Changes, {Member("remove", "bob", "ann", None),
                      Member("changeRole", "bob", "bob", "reader"),
                      Member("remove", "ann", "ann", None)})
    \cup
    Mix({Name("signUp", "cy", "new"), Member("remove", "bob", "ann", None)},
        {Member("invite", "ann", "cy", "contributor")},
        {Invite("redeem", "cy", "r2"), Invite("revokeInvite", "bob", "r2"),
         Member("invite", "bob", "cy", "reader")})
    \cup
    Mix({Member("invite", "ann", "dee", "admin"), Member("invite", "ann", "dee", "owner")},
        {Invite("redeem", "dee", "r1")},
        {Member("remove", "ann", "dee", None), Invite("revokeInvite", "bob", "r1"),
         Invite("redeem", "dee", "r1"), Member("remove", "dee", "bob", None)})
    \cup
    Mix({Sso("cy")},
        {Sso("cy"), Name("signUp", "cy", "new"), Name("claim", "bob", "new")},
        {Sso("cy"), Name("release", "ann", "tip"), Name("release", "cy", "new"),
         Member("remove", "ann", "cy", None)})

Logins ==
    Mix({Device("approve", "ann")},
        {Device("poll", None)},
        {Device("poll", None), Device("deny", "ann"), Device("approve", "bob"),
         Pub("r2", "ann", 1, "b1", "k1")})
    \cup
    Mix({Token("rotate", "tb")},
        {Token("revoke", "tb"), Token("logout", "tb"), Token("rotate", "r1"),
         Token("rotate", "tb")},
        {Token("logout", "r1"), Token("rotate", "tb"), Code("proof", "r1", "c1")})
    \cup
    Mix({Code("proof", "tb", "c1")},
        {Code("proof", "tb2", "c1"), Code("disable2fa", "tb2", "c1"), Code("enroll", "tb", "totp"),
         Token("revoke", "tb")},
        {Code("proof", "tb2", "c2"), Code("proof", "tb2", "c1"), Code("disable2fa", "tb", "totp"),
         Code("proof", "tb2", "r2")})
    \cup
    Mix({Of("createToken", "ann"), Of("login", "ann")},
        {Of("createToken", "ann")}, {Of("createToken", "ann"), Token("revoke", "r2")})
    \cup
    Mix({Of("sendReset", "ann"), Follow("l")},
        {Of("sendReset", "ann"), Of("sendVerify", "ann")},
        {Follow("r1"), Follow("l"), Follow("r2")})

MCWorkloads == Publishes \cup Names \cup Logins
=============================================================================
