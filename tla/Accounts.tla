------------------------------ MODULE Accounts ------------------------------
(***************************************************************************)
(* Tokens and what they are obtained with: the device login of the CLI     *)
(* (app/api/v1/auth/device, app/auth/device), login, logout, rotation and  *)
(* revocation, two-factor proofs (lib/two-factor.ts) and the links sent by *)
(* e-mail (lib/email-tokens.ts).                                           *)
(*                                                                         *)
(* A token row has its user, the packages its scopes cover, its expiry     *)
(* ("later", "soon" for the grace of a rotation, "past"), the session it   *)
(* came from, the code of its last two-factor proof and whether that is    *)
(* recent.  Handlers take seconds: time passes between them.               *)
(***************************************************************************)
EXTENDS RegistryRows

CONSTANT MaxTokens      \* tokens a user may hold when the dashboard mints one

\* Those who approve, log in, mint, or are sent a link have an account.
ASSUME AccountsAssumption ==
    \A w \in Workloads : \A r \in Requests :
        LET j == w[r]
        IN  /\ j.kind \in {"approve", "login", "createToken", "sendReset", "sendVerify"}
                  => j.user \in Users /\ Account0[j.user] # None
            /\ j.kind \in {"approve", "deny", "poll"} => j.session \in Sessions
            /\ j.kind \in {"rotate", "revoke", "logout", "enroll", "proof", "disable2fa"}
                  => j.token \in TokenIds
            /\ j.kind = "rotate" => j.scope \subseteq Exts
            /\ j.kind \in {"proof", "disable2fa"} => j.code \in Codes \cup Requests \cup {"totp"}
            /\ j.kind = "follow" => j.link \in LinkIds

Account(r, kinds) == job[r].kind \in kinds /\ UNCHANGED <<nameRows, packageRows>>

TokenOf(u, scope) == [user |-> u, scope |-> scope, expires |-> "later",
                      session |-> None, proof |-> None, fresh |-> FALSE]
Namespace(u) == {account[u]} \X Slugs

\* authenticateBearer: the token row; whose user is read next is never deleted.
Valid(t) == tokens[t] # None /\ tokens[t].expires # "past"

-----------------------------------------------------------------------------
(* Device login.                                                            *)

LoadPending(r) ==
    LET s == sessions[job[r].session]
        pending == ~s.consumed /\ ~s.expired /\ ~s.denied /\ s.user = None
    IN  /\ Account(r, {"approve", "deny"})
        /\ Go(r, "start", IF pending THEN "decide" ELSE "refused")
        /\ Plain
        /\ UNCHANGED accountRows

Approve(r) ==
    /\ Account(r, {"approve"})
    /\ Go(r, "decide", "ok")
    /\ sessions' = [sessions EXCEPT ![job[r].session].user = job[r].user]
    /\ Plain
    /\ UNCHANGED <<tokens, links, recovery>>

Deny(r) ==
    /\ Account(r, {"deny"})
    /\ Go(r, "decide", "ok")
    /\ sessions' = [sessions EXCEPT ![job[r].session].denied = TRUE]
    /\ Plain
    /\ UNCHANGED <<tokens, links, recovery>>

PollCheck(r) ==
    LET s == sessions[job[r].session]
        granted == ~s.consumed /\ ~s.expired /\ ~s.denied /\ s.user # None
    IN  /\ Account(r, {"poll"})
        /\ Go(r, "start", IF granted THEN "reread" ELSE "refused")
        /\ Plain
        /\ UNCHANGED accountRows

\* The read inside the transaction looks at consumedAt again and at no more.
PollReread(r) ==
    LET s == sessions[job[r].session]
    IN  /\ Account(r, {"poll"})
        /\ Go(r, "reread", IF s.consumed THEN "refused" ELSE "mint")
        /\ Keeping(r, s.user)
        /\ UNCHANGED accountRows

PollMintUnconsumed(r) ==
    /\ Account(r, {"poll"})
    /\ Go(r, "mint", "answer")
    /\ tokens' = [tokens EXCEPT ![r] =
           [TokenOf(read[r], Namespace(read[r])) EXCEPT !.session = job[r].session]]
    /\ Plain
    /\ UNCHANGED <<sessions, links, recovery>>
PollMint(r) ==
    /\ Account(r, {"poll"})
    /\ Go(r, "mint", "answer")
    /\ tokens' = [tokens EXCEPT ![r] =
           [TokenOf(read[r], Namespace(read[r])) EXCEPT !.session = job[r].session]]
    /\ sessions' = [sessions EXCEPT ![job[r].session].consumed = TRUE]
    /\ Plain
    /\ UNCHANGED <<links, recovery>>

-----------------------------------------------------------------------------
(* Tokens.                                                                  *)

\* POST /auth/login; the password is right.
Login(r) ==
    /\ Account(r, {"login"})
    /\ Go(r, "start", "create")
    /\ Plain
    /\ UNCHANGED accountRows

Held(u) == Cardinality({t \in TokenIds : tokens[t] # None /\ tokens[t].user = u})

MintCount(r) ==
    /\ Account(r, {"createToken"})
    /\ Go(r, "start", IF Held(job[r].user) >= MaxTokens THEN "refused" ELSE "create")
    /\ Plain
    /\ UNCHANGED accountRows

CreateToken(r) ==
    /\ Account(r, {"login", "createToken"})
    /\ Go(r, "create", "answer")
    /\ tokens' = [tokens EXCEPT ![r] = TokenOf(job[r].user, Namespace(job[r].user))]
    /\ Plain
    /\ UNCHANGED <<sessions, links, recovery>>

\* A successor has the scopes of the token, or fewer.
RotateRead(r) ==
    LET t == job[r].token
    IN  /\ Account(r, {"rotate"})
        /\ Go(r, "start", IF Valid(t) /\ job[r].scope \subseteq tokens[t].scope
                            THEN "swap" ELSE "refused")
        /\ Keeping(r, tokens[t])
        /\ UNCHANGED accountRows

\* One transaction: the successor, and the shorter expiry of the row that was
\* read; update throws when that row is gone, and nothing is kept.
RotateSwap(r) ==
    LET t == job[r].token
    IN  /\ Account(r, {"rotate"})
        /\ Go(r, "swap", IF tokens[t] # None THEN "answer" ELSE "failed")
        /\ tokens' = IF tokens[t] # None
                       THEN [tokens EXCEPT ![r] = TokenOf(read[r].user, job[r].scope),
                                           ![t].expires = "soon"]
                       ELSE tokens
        /\ Plain
        /\ UNCHANGED <<sessions, links, recovery>>

\* deleteMany with the owner in its condition.
Revoke(r) ==
    LET t == job[r].token
        mine == tokens[t] # None /\ tokens[t].user = job[r].user
    IN  /\ Account(r, {"revoke"})
        /\ Go(r, "start", IF mine THEN "answer" ELSE "refused")
        /\ tokens' = IF mine THEN [tokens EXCEPT ![t] = None] ELSE tokens
        /\ Plain
        /\ UNCHANGED <<sessions, links, recovery>>

\* An expired token has been logged out already.
LogoutCheck(r) ==
    LET t == job[r].token
    IN  /\ Account(r, {"logout"})
        /\ Go(r, "start", IF tokens[t] = None THEN "refused"
                          ELSE IF Valid(t) THEN "delete" ELSE "ok")
        /\ Plain
        /\ UNCHANGED accountRows

LogoutDelete(r) ==
    /\ Account(r, {"logout"})
    /\ Go(r, "delete", "answer")
    /\ tokens' = [tokens EXCEPT ![job[r].token] = None]
    /\ Plain
    /\ UNCHANGED <<sessions, links, recovery>>

-----------------------------------------------------------------------------
(* Two factors.  "totp" is a code the authenticator shows now.              *)

ProofJob(r) == Account(r, {"proof", "disable2fa"})

Authenticate2fa(r) ==
    LET t == job[r].token
    IN  /\ Account(r, {"proof", "disable2fa", "enroll"})
        /\ Go(r, "start", IF ~Valid(t) THEN "refused"
                          ELSE IF job[r].kind = "enroll" THEN "persist" ELSE "codes")
        /\ Keeping(r, IF Valid(t) THEN tokens[t].user ELSE None)
        /\ UNCHANGED accountRows

\* confirmEnrollment, with a code that fits the new secret.
Enroll(r) ==
    /\ Account(r, {"enroll"})
    /\ Go(r, "persist", "ok")
    /\ recovery' = [recovery EXCEPT ![read[r]] = {r}]
    /\ Plain
    /\ UNCHANGED <<tokens, sessions, links>>

\* provideProof compares the code with the secret and the hashes it has read.
ProofRead(r) ==
    LET u == read[r]
        next == CASE recovery[u] # None /\ job[r].code = "totp"               -> "stamp"
                  [] recovery[u] # None /\ job[r].code \in recovery[u] \ {"totp"} -> "spend"
                  [] OTHER                                                    -> "refused"
    IN  /\ ProofJob(r)
        /\ Go(r, "codes", next)
        /\ Keeping(r, [user |-> u, codes |-> recovery[u]])
        /\ UNCHANGED accountRows

\* The hashes that were read, without the one that matched.
ProofSpend(r) ==
    /\ ProofJob(r)
    /\ Go(r, "spend", "stamp")
    /\ recovery' = [recovery EXCEPT ![read[r].user] = read[r].codes \ {job[r].code}]
    /\ Plain
    /\ UNCHANGED <<tokens, sessions, links>>

ProofStamp(r) ==
    LET t == job[r].token
        there == tokens[t] # None
    IN  /\ ProofJob(r)
        /\ Go(r, "stamp", IF ~there THEN "failed"
                          ELSE IF job[r].kind = "proof" THEN "ok" ELSE "wipe")
        /\ tokens' = IF there THEN [tokens EXCEPT ![t].proof = job[r].code,
                                                  ![t].fresh = TRUE]
                              ELSE tokens
        /\ Plain
        /\ UNCHANGED <<sessions, links, recovery>>

Disable2fa(r) ==
    /\ Account(r, {"disable2fa"})
    /\ Go(r, "wipe", "ok")
    /\ recovery' = [recovery EXCEPT ![read[r].user] = None]
    /\ Plain
    /\ UNCHANGED <<tokens, sessions, links>>

-----------------------------------------------------------------------------
(* Links.                                                                   *)

ResetInvalidate(r) ==
    /\ Account(r, {"sendReset"})
    /\ Go(r, "start", "create")
    /\ links' = [l \in LinkIds |->
           IF links[l] # None /\ links[l].user = job[r].user /\ links[l].kind = "reset"
             THEN [links[l] EXCEPT !.used = TRUE] ELSE links[l]]
    /\ Plain
    /\ UNCHANGED <<tokens, sessions, recovery>>

LinkCreate(r) ==
    /\ Account(r, {"sendReset", "sendVerify"})
    /\ Go(r, IF job[r].kind = "sendReset" THEN "create" ELSE "start", "ok")
    /\ links' = [links EXCEPT ![r] = [user |-> job[r].user, used |-> FALSE,
                    kind |-> IF job[r].kind = "sendReset" THEN "reset" ELSE "verify"]]
    /\ Plain
    /\ UNCHANGED <<tokens, sessions, recovery>>

\* consumeEmailVerification and consumePasswordReset: a read, then one
\* transaction that marks the row without looking at it again.
LinkRead(r) ==
    LET l == job[r].link
    IN  /\ Account(r, {"follow"})
        /\ Go(r, "start", IF links[l] # None /\ ~links[l].used THEN "consume" ELSE "refused")
        /\ Plain
        /\ UNCHANGED accountRows

LinkConsume(r) ==
    /\ Account(r, {"follow"})
    /\ Go(r, "consume", "ok")
    /\ links' = [links EXCEPT ![job[r].link].used = TRUE]
    /\ Plain
    /\ UNCHANGED <<tokens, sessions, recovery>>

-----------------------------------------------------------------------------
(* Time.                                                                    *)

Later ==
    /\ \A r \in Requests : ~UnderWay(r)
    /\ \/ \E s \in Sessions :
            /\ ~sessions[s].expired
            /\ sessions' = [sessions EXCEPT ![s].expired = TRUE]
            /\ UNCHANGED tokens
       \/ \E t \in TokenIds :
            /\ tokens[t] # None
            /\ \/ tokens[t].expires = "soon"
                  /\ tokens' = [tokens EXCEPT ![t].expires = "past"]
               \/ tokens[t].fresh
                  /\ tokens' = [tokens EXCEPT ![t].fresh = FALSE]
            /\ UNCHANGED sessions
    /\ UNCHANGED <<requestState, nameRows, packageRows, links, recovery>>

AccountStep(r) ==
    \/ LoadPending(r) \/ Approve(r) \/ Deny(r)
    \/ PollCheck(r) \/ PollReread(r) \/ PollMint(r)
    \/ Login(r) \/ MintCount(r) \/ CreateToken(r)
    \/ RotateRead(r) \/ RotateSwap(r) \/ Revoke(r) \/ LogoutCheck(r) \/ LogoutDelete(r)
    \/ Authenticate2fa(r) \/ Enroll(r) \/ ProofRead(r) \/ ProofSpend(r)
    \/ ProofStamp(r) \/ Disable2fa(r)
    \/ ResetInvalidate(r) \/ LinkCreate(r) \/ LinkRead(r) \/ LinkConsume(r)
=============================================================================
