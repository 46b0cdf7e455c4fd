----------------------------- MODULE WalletAuth -----------------------------
(***************************************************************************)
(* Signing in with a wallet: challenges, users, identities and sessions    *)
(* (talaria-api/src/auth.rs, talaria-store/src/users.rs, migration 036).   *)
(* One action is one SQL statement, or the code between two of them.       *)
(*                                                                         *)
(* A login that verifies a challenge consumes it, finds or creates the     *)
(* user of the wallet, and opens a session.  Logins race: two of one       *)
(* challenge, two challenges of a wallet that has no user yet.             *)
(***************************************************************************)
EXTENDS Naturals, FiniteSets

CONSTANTS
    Wallets,        \* normalized addresses
    Challenges,     \* ids of wallet_auth_challenges, each drawn once
    Logins,         \* calls of verify_wallet_challenge; each has its own session
                    \* token, and inserts one user at most, who has its id
    Nobody          \* no wallet, challenge or user

ASSUME WalletAssumption == Nobody \notin Wallets \cup Challenges \cup Logins

VARIABLES
    challenge,      \* wallet_auth_challenges: address, expired, consumed
    users,          \* committed rows of users
    identity,       \* user_identities: the user of each address
    session,        \* user_sessions, by the login that inserted it
    login           \* requests

authVars == <<challenge, users, identity, session, login>>

LoginPlaces == {"idle", "read", "consume", "lookup", "begin", "identity", "commit",
                "rollback", "reread", "open", "done"}
LoginResults == {"none", "ok", "refused", "missing", "failed"}

ChallengeRows == [wallet : Wallets \cup {Nobody}, expired : BOOLEAN, consumed : BOOLEAN]
SessionRows == [user : Logins \cup {Nobody}, expired : BOOLEAN, revoked : BOOLEAN]
LoginStates == [at : LoginPlaces, challenge : Challenges \cup {Nobody},
                user : Logins \cup {Nobody}, result : LoginResults]

AuthTypeOK ==
    /\ challenge \in [Challenges -> ChallengeRows]
    /\ users \subseteq Logins
    /\ identity \in [Wallets -> Logins \cup {Nobody}]
    /\ session \in [Logins -> SessionRows]
    /\ login \in [Logins -> LoginStates]
    /\ \A l \in Logins : login[l].at # "idle" =>
            /\ login[l].challenge # Nobody
            /\ challenge[login[l].challenge].wallet # Nobody

NoSession == [user |-> Nobody, expired |-> FALSE, revoked |-> FALSE]

AuthInit ==
    /\ challenge = [c \in Challenges |->
                        [wallet |-> Nobody, expired |-> FALSE, consumed |-> FALSE]]
    /\ users = {}
    /\ identity = [w \in Wallets |-> Nobody]
    /\ session = [l \in Logins |-> NoSession]
    /\ login = [l \in Logins |-> [at |-> "idle", challenge |-> Nobody, user |-> Nobody,
                                  result |-> "none"]]

WalletOf(l) == challenge[login[l].challenge].wallet
At(l, place) == [login EXCEPT ![l].at = place]
LoginEnds(l, result) == [login EXCEPT ![l] = [@ EXCEPT !.at = "done", !.result = result]]

-----------------------------------------------------------------------------
(* issue_wallet_challenge.                                                 *)
Issue(c, w) ==
    /\ challenge[c].wallet = Nobody
    /\ challenge' = [challenge EXCEPT ![c].wallet = w]
    /\ UNCHANGED <<users, identity, session, login>>

ChallengeExpires(c) ==
    /\ challenge[c].wallet # Nobody
    /\ ~challenge[c].expired
    /\ challenge' = [challenge EXCEPT ![c].expired = TRUE]
    /\ UNCHANGED <<users, identity, session, login>>

Submit(l, c) ==
    /\ login[l].at = "idle"
    /\ challenge[c].wallet # Nobody
    /\ login' = [login EXCEPT ![l] = [@ EXCEPT !.at = "read", !.challenge = c]]
    /\ UNCHANGED <<challenge, users, identity, session>>

(* get_wallet_challenge; `now` is taken here, so that a challenge that     *)
(* expires after it can still be consumed.  The message and the signature  *)
(* may be refused.                                                         *)
ReadChallenge(l) ==
    /\ login[l].at = "read"
    /\ LET c == challenge[login[l].challenge]
       IN  \/ ~c.consumed /\ ~c.expired /\ login' = At(l, "consume")
           \/ login' = LoginEnds(l, "refused")
    /\ UNCHANGED <<challenge, users, identity, session>>

\* Mutant of Consume: what was read before is trusted.
ConsumeAsRead(l) ==
    /\ login[l].at = "consume"
    /\ login' = At(l, "lookup")
    /\ challenge' = [challenge EXCEPT ![login[l].challenge].consumed = TRUE]
    /\ UNCHANGED <<users, identity, session>>
(* consume_wallet_challenge: one UPDATE that still finds it unconsumed.    *)
Consume(l) ==
    /\ login[l].at = "consume"
    /\ LET c == login[l].challenge
       IN  IF challenge[c].consumed
           THEN /\ login' = LoginEnds(l, "refused")
                /\ UNCHANGED challenge
           ELSE /\ login' = At(l, "lookup")
                /\ challenge' = [challenge EXCEPT ![c].consumed = TRUE]
    /\ UNCHANGED <<users, identity, session>>

-----------------------------------------------------------------------------
(* resolve_or_create_evm_user.                                             *)

LookupUser(l) ==
    /\ login[l].at = "lookup"
    /\ login' = IF identity[WalletOf(l)] = Nobody THEN At(l, "begin")
                ELSE [login EXCEPT ![l] = [@ EXCEPT !.at = "open",
                                                    !.user = identity[WalletOf(l)]]]
    /\ UNCHANGED <<challenge, users, identity, session>>

(* The transaction begins with an INSERT of a new user.                    *)
InsertUser(l) ==
    /\ login[l].at = "begin"
    /\ login' = [login EXCEPT ![l] = [@ EXCEPT !.at = "identity", !.user = l]]
    /\ UNCHANGED <<challenge, users, identity, session>>

(* The identity of the wallet is inserted by another transaction that has  *)
(* not ended: INSERT .. ON CONFLICT DO NOTHING waits for it.               *)
IdentityPending(l) ==
    \E m \in Logins \ {l} : login[m].at = "commit" /\ WalletOf(m) = WalletOf(l)

InsertIdentity(l) ==
    /\ login[l].at = "identity"
    /\ ~IdentityPending(l)
    /\ login' = At(l, IF identity[WalletOf(l)] = Nobody THEN "commit" ELSE "rollback")
    /\ UNCHANGED <<challenge, users, identity, session>>

CommitUser(l) ==
    /\ login[l].at = "commit"
    /\ users' = users \cup {login[l].user}
    /\ identity' = [identity EXCEPT ![WalletOf(l)] = login[l].user]
    /\ login' = At(l, "reread")
    /\ UNCHANGED <<challenge, session>>

\* Mutant of RollBack: the transaction of the loser is committed.
RollBackNothing(l) ==
    /\ login[l].at = "rollback"
    /\ users' = users \cup {login[l].user}
    /\ login' = At(l, "reread")
    /\ UNCHANGED <<challenge, identity, session>>
(* The rollback, and the DELETE of the user if it has no identity.         *)
RollBack(l) ==
    /\ login[l].at = "rollback"
    /\ users' = users \ ({login[l].user} \ {identity[w] : w \in Wallets})
    /\ login' = At(l, "reread")
    /\ UNCHANGED <<challenge, identity, session>>

RereadUser(l) ==
    /\ login[l].at = "reread"
    /\ login' = IF identity[WalletOf(l)] = Nobody THEN LoginEnds(l, "missing")
                ELSE [login EXCEPT ![l] = [@ EXCEPT !.at = "open",
                                                    !.user = identity[WalletOf(l)]]]
    /\ UNCHANGED <<challenge, users, identity, session>>

-----------------------------------------------------------------------------
OpenSession(l) ==
    /\ login[l].at = "open"
    /\ session' = [session EXCEPT ![l].user = login[l].user]
    /\ login' = LoginEnds(l, "ok")
    /\ UNCHANGED <<challenge, users, identity>>

(* revoke_session (logout), and time.                                      *)
Revoke(l) ==
    /\ session[l].user # Nobody
    /\ ~session[l].revoked
    /\ session' = [session EXCEPT ![l].revoked = TRUE]
    /\ UNCHANGED <<challenge, users, identity, login>>

SessionExpires(l) ==
    /\ session[l].user # Nobody
    /\ ~session[l].expired
    /\ session' = [session EXCEPT ![l].expired = TRUE]
    /\ UNCHANGED <<challenge, users, identity, login>>

(* The process dies or a statement fails; a transaction is rolled back.    *)
LoginFails(l) ==
    /\ login[l].at \notin {"idle", "done"}
    /\ login' = LoginEnds(l, "failed")
    /\ UNCHANGED <<challenge, users, identity, session>>

LoginStep(l) ==
    \/ \E c \in Challenges : Submit(l, c)
    \/ ReadChallenge(l) \/ Consume(l) \/ LookupUser(l)
    \/ InsertUser(l) \/ InsertIdentity(l) \/ CommitUser(l) \/ RollBack(l) \/ RereadUser(l)
    \/ OpenSession(l) \/ Revoke(l) \/ SessionExpires(l) \/ LoginFails(l)

AuthNext ==
    \/ \E c \in Challenges, w \in Wallets : Issue(c, w)
    \/ \E c \in Challenges : ChallengeExpires(c)
    \/ \E l \in Logins : LoginStep(l)

AuthSpec == AuthInit /\ [][AuthNext]_authVars

(* get_active_session_user.                                                *)
SessionUser(l) ==
    IF session[l].user \in users /\ ~session[l].revoked /\ ~session[l].expired
    THEN session[l].user ELSE Nobody

-----------------------------------------------------------------------------
(* However many logins of a new wallet race, it gets one user; no user is  *)
(* left without a wallet, none has two, and every login that gets past     *)
(* the resolution has the wallet's user.                                   *)
OneUserPerWallet ==
    /\ \A u \in users : \E w \in Wallets : identity[w] = u
    /\ \A w \in Wallets : identity[w] # Nobody => identity[w] \in users
    /\ \A v, w \in Wallets : identity[v] = identity[w] /\ identity[v] # Nobody => v = w
    /\ \A l \in Logins : login[l].at = "open" => login[l].user = identity[WalletOf(l)]
    /\ \A l \in Logins : login[l].result # "missing"

(* A challenge opens one session at most, only once it is consumed; while  *)
(* neither revoked nor expired, the session resolves to the user of the    *)
(* wallet that the challenge was issued for.                               *)
ChallengeOpensOneSession ==
    \A l \in Logins : session[l].user # Nobody =>
        /\ session[l].revoked \/ session[l].expired
           \/ SessionUser(l) = identity[WalletOf(l)]
        /\ challenge[login[l].challenge].consumed
        /\ \A m \in Logins : session[m].user # Nobody
                             /\ login[m].challenge = login[l].challenge => m = l
=============================================================================
