--------------------------- MODULE AccountProofs ----------------------------
(* What is proved of the parts of the platform that act for a wallet, each *)
(* for itself: the logins of WalletAuth, the stances of UserInteractions,  *)
(* and the runs of IntuitionPublication that put facts on the chain.  No   *)
(* part touches the state of another.                                      *)
EXTENDS WalletAuth, UserInteractions, IntuitionPublication, TLAPS

-----------------------------------------------------------------------------
(* WalletAuth, for any wallets, challenges and logins.                     *)

(* What a step of login l may do to its own record x: go to a place, with  *)
(* the same challenge.                                                     *)
Reaches(x, y) == y \in LoginStates /\ y.at # "idle" /\ y.challenge = x.challenge

LEMMA LoginGoes ==
    ASSUME NEW x \in LoginStates, NEW p \in LoginPlaces \ {"idle"}
    PROVE  /\ Reaches(x, [x EXCEPT !.at = p])
           /\ [x EXCEPT !.at = p].at = p
           /\ [x EXCEPT !.at = p].user = x.user
           /\ [x EXCEPT !.at = p].result = x.result
BY DEF LoginStates, Reaches

LEMMA LoginConcludes ==
    ASSUME NEW x \in LoginStates, NEW res \in LoginResults
    PROVE  /\ Reaches(x, [x EXCEPT !.at = "done", !.result = res])
           /\ [x EXCEPT !.at = "done", !.result = res].at = "done"
           /\ [x EXCEPT !.at = "done", !.result = res].result = res
BY DEF LoginStates, Reaches, LoginPlaces

(* The places of a login that has not yet committed a user, and of one     *)
(* that has consumed its challenge.                                        *)
BeforeUser == {"idle", "read", "consume", "lookup", "begin", "identity", "commit", "rollback"}
After == {"lookup", "begin", "identity", "commit", "rollback", "reread", "open"}

(* A login that inserts a user inserts its own; the identity it waits to   *)
(* commit is nobody's, and no other login commits one for its wallet; past *)
(* that point the wallet has its user, whom the login and its session keep.*)
Sound(l) ==
    LET x == login[l] IN
    /\ x.at \in BeforeUser => l \notin users
    /\ x.at \in {"identity", "commit", "rollback"} => x.user = l
    /\ x.at = "commit" => identity[WalletOf(l)] = Nobody
    /\ x.at \in {"rollback", "reread", "open"} => identity[WalletOf(l)] # Nobody
    /\ x.at = "open" => x.user = identity[WalletOf(l)]
    /\ x.result # "missing"
    /\ session[l].user # Nobody =>
            x.at = "done" /\ session[l].user = identity[WalletOf(l)]

CommitsAlone ==
    \A l, m \in Logins : login[l].at = "commit" /\ login[m].at = "commit"
                         /\ WalletOf(l) = WalletOf(m) => l = m

(* Each user has one wallet.                                               *)
Paired ==
    /\ \A u \in users : \E w \in Wallets : identity[w] = u
    /\ \A w \in Wallets : identity[w] # Nobody => identity[w] \in users
    /\ \A v, w \in Wallets : identity[v] = identity[w] /\ identity[v] # Nobody => v = w

(* Whoever is past the consumption, or has a session, has consumed his     *)
(* challenge, and nobody else has that challenge and is as far.            *)
HasConsumed(l) == login[l].at \in After \/ session[l].user # Nobody
Spent ==
    \A l \in Logins : HasConsumed(l) =>
        /\ challenge[login[l].challenge].consumed
        /\ \A m \in Logins : HasConsumed(m) /\ login[m].challenge = login[l].challenge => m = l

AuthInv == AuthTypeOK /\ Paired /\ CommitsAlone /\ Spent /\ \A l \in Logins : Sound(l)

-----------------------------------------------------------------------------
(* A step that changes the record of login l only, with the same challenge *)
(* and the same wallets, keeps the types of logins and all wallets.        *)
Step(l, y) ==
    /\ login' = [login EXCEPT ![l] = y]
    /\ Reaches(login[l], y)
    /\ login[l].at # "idle"

LEMMA StepKeeps ==
    ASSUME AuthTypeOK, NEW l \in Logins, NEW y, Step(l, y),
           \A c \in Challenges : challenge'[c].wallet = challenge[c].wallet
    PROVE  /\ login' \in [Logins -> LoginStates]
           /\ login'[l] = y
           /\ \A m \in Logins : m # l => login'[m] = login[m]
           /\ \A m \in Logins : login'[m].challenge = login[m].challenge
           /\ \A m \in Logins : login'[m].at # "idle" =>
                /\ login[m].challenge \in Challenges
                /\ login'[m].challenge # Nobody
                /\ challenge'[login'[m].challenge].wallet # Nobody
                /\ WalletOf(m)' = WalletOf(m)
                /\ WalletOf(m) \in Wallets
<1>1. login' \in [Logins -> LoginStates] /\ login'[l] = y
      /\ \A m \in Logins : m # l => login'[m] = login[m]
  BY DEF AuthTypeOK, Step, Reaches
<1>2. \A m \in Logins : login'[m].challenge = login[m].challenge
  BY <1>1 DEF Step, Reaches
<1>3. \A m \in Logins : login'[m].at # "idle" => login[m].at # "idle"
  BY <1>1 DEF Step
<1>4. \A m \in Logins : login[m].at # "idle" =>
        /\ login[m].challenge # Nobody /\ login[m].challenge \in Challenges
        /\ challenge[login[m].challenge].wallet \in Wallets
        /\ challenge[login[m].challenge].wallet # Nobody
  BY DEF AuthTypeOK, LoginStates, ChallengeRows
<1> QED
  BY <1>1, <1>2, <1>3, <1>4 DEF WalletOf

(* A login reaches a place without any other effect.                       *)
LEMMA QuietStep ==
    ASSUME AuthInv, NEW l \in Logins, NEW y, Step(l, y),
           UNCHANGED <<challenge, users, identity, session>>,
           y.at \in After => login[l].at \in After,
           y.at \in BeforeUser => login[l].at \in BeforeUser,
           y.at \in {"identity", "commit", "rollback"} => y.user = l,
           y.at = "commit" => identity[WalletOf(l)] = Nobody /\ ~IdentityPending(l),
           y.at \in {"rollback", "reread", "open"} => identity[WalletOf(l)] # Nobody,
           y.at = "open" => y.user = identity[WalletOf(l)],
           y.result # "missing",
           login[l].at # "done"
    PROVE  AuthInv'
<1>1. \A c \in Challenges : challenge'[c].wallet = challenge[c].wallet
  OBVIOUS
<1> DEFINE W(m) == WalletOf(m)
<1>2. /\ login' \in [Logins -> LoginStates]
      /\ login'[l] = y
      /\ \A m \in Logins : m # l => login'[m] = login[m]
      /\ \A m \in Logins : login'[m].challenge = login[m].challenge
      /\ \A m \in Logins : login'[m].at # "idle" =>
            /\ login'[m].challenge # Nobody
            /\ challenge'[login'[m].challenge].wallet # Nobody
            /\ WalletOf(m)' = WalletOf(m)
  BY <1>1, StepKeeps DEF AuthInv
<1>3. AuthTypeOK'
  BY <1>2 DEF AuthInv, AuthTypeOK
<1>4. Paired'
  BY DEF AuthInv, Paired
<1>5. CommitsAlone'
  <2> SUFFICES ASSUME NEW a \in Logins, NEW b \in Logins, login'[a].at = "commit",
                      login'[b].at = "commit", WalletOf(a)' = WalletOf(b)'
               PROVE  a = b
    BY DEF CommitsAlone
  <2>1. WalletOf(a) = WalletOf(b)
    BY <1>2
  <2>2. ASSUME a # l, b # l PROVE a = b
    BY <1>2, <2>1, <2>2 DEF AuthInv, CommitsAlone
  <2>3. ASSUME a = l, b # l PROVE FALSE
    BY <1>2, <2>1, <2>3 DEF IdentityPending
  <2>4. ASSUME a # l, b = l PROVE FALSE
    BY <1>2, <2>1, <2>4 DEF IdentityPending
  <2> QED
    BY <2>2, <2>3, <2>4
<1>6. Spent'
  <2>1. \A m \in Logins : HasConsumed(m)' => HasConsumed(m)
    BY <1>2 DEF HasConsumed
  <2> QED
    BY <1>2, <2>1 DEF AuthInv, Spent
<1>7. ASSUME NEW m \in Logins PROVE Sound(m)'
  <2>1. CASE m = l
    <3>1. session[l].user = Nobody
      BY DEF AuthInv, Sound
    <3>2. login[l].at \in BeforeUser => l \notin users
      BY DEF AuthInv, Sound
    <3>3. y.at # "idle" /\ WalletOf(l)' = WalletOf(l)
      BY <1>2 DEF Step, Reaches
    <3> QED
      BY <1>2, <2>1, <3>1, <3>2, <3>3 DEF Sound
  <2>2. CASE m # l
    <3>1. Sound(m) /\ login'[m] = login[m]
      BY <1>2, <2>2 DEF AuthInv
    <3>2. login[m].at # "idle" => WalletOf(m)' = WalletOf(m)
      BY <1>2, <3>1
    <3>3. CASE login[m].at = "idle"
      BY <3>1, <3>3 DEF Sound
    <3>4. CASE login[m].at # "idle"
      BY <3>1, <3>2, <3>4 DEF Sound
    <3> QED
      BY <3>3, <3>4
  <2> QED
    BY <2>1, <2>2
<1> QED
  BY <1>3, <1>4, <1>5, <1>6, <1>7 DEF AuthInv

-----------------------------------------------------------------------------
(* What the invariant says of a login that is under way.                   *)
LEMMA LoginUnderway ==
    ASSUME AuthInv, NEW l \in Logins, login[l].at \notin {"idle"}
    PROVE  /\ login[l] \in LoginStates
           /\ login[l].challenge \in Challenges
           /\ WalletOf(l) \in Wallets
           /\ Sound(l)
BY DEF AuthInv, AuthTypeOK, LoginStates, ChallengeRows, WalletOf

(* What RollBack and a refused Consume come to: the users and challenges   *)
(* they touch stay as they are.                                            *)
RolledBack(l) ==
    /\ login[l].at = "rollback"
    /\ login' = At(l, "reread")
    /\ UNCHANGED <<challenge, users, identity, session>>

ConsumeRefused(l) ==
    /\ login[l].at = "consume"
    /\ login' = LoginEnds(l, "refused")
    /\ UNCHANGED <<challenge, users, identity, session>>

(* The steps of a login that change its own record only.                   *)
LEMMA QuietSteps ==
    ASSUME AuthInv, NEW l \in Logins,
           \/ ReadChallenge(l) \/ LookupUser(l) \/ InsertUser(l) \/ InsertIdentity(l)
           \/ RereadUser(l) \/ LoginFails(l) \/ RolledBack(l) \/ ConsumeRefused(l)
    PROVE  AuthInv'
<1> DEFINE x == login[l]
           to(p) == [x EXCEPT !.at = p]
           toUser(p, u) == [x EXCEPT !.at = p, !.user = u]
           ends(r) == [x EXCEPT !.at = "done", !.result = r]
<1>0. x.at \notin {"idle", "done"} /\ UNCHANGED <<challenge, users, identity, session>>
  BY DEF ReadChallenge, LookupUser, InsertUser, InsertIdentity, RereadUser, LoginFails,
         RolledBack, ConsumeRefused
<1>1. /\ x \in LoginStates /\ x.challenge \in Challenges /\ WalletOf(l) \in Wallets
      /\ Sound(l) /\ identity[WalletOf(l)] \in Logins \cup {Nobody}
  BY <1>0, LoginUnderway DEF AuthInv, AuthTypeOK
<1>2. /\ {"consume", "lookup", "begin", "identity", "commit", "rollback", "reread",
          "open", "done"} \subseteq LoginPlaces \ {"idle"}
      /\ {"none", "ok", "refused", "failed"} \subseteq LoginResults
  BY DEF LoginPlaces, LoginResults
<1>3. x.result # "missing"
  BY <1>1 DEF Sound
<1>4. CASE \E r \in {"refused", "failed"} : login' = [login EXCEPT ![l] = ends(r)]
  <2> PICK r \in {"refused", "failed"} : login' = [login EXCEPT ![l] = ends(r)]
    BY <1>4
  <2>1. Reaches(x, ends(r)) /\ ends(r).at = "done" /\ ends(r).result = r
    BY <1>1, <1>2, LoginConcludes
  <2> HIDE DEF ends
  <2>2. Step(l, ends(r))
    BY <1>0, <2>1 DEF Step
  <2> QED
    BY <1>0, <2>1, <2>2, QuietStep DEF After, BeforeUser
<1>5. CASE x.at = "read" /\ login' = [login EXCEPT ![l] = to("consume")]
  <2>1. Reaches(x, to("consume")) /\ to("consume").at = "consume"
        /\ to("consume").result = x.result
    BY <1>1, <1>2, LoginGoes
  <2> HIDE DEF to
  <2>2. Step(l, to("consume"))
    BY <1>0, <1>5, <2>1 DEF Step
  <2> QED
    BY <1>0, <1>3, <1>5, <2>1, <2>2, QuietStep DEF After, BeforeUser
<1>6. CASE x.at \in {"lookup", "reread"} /\ identity[WalletOf(l)] # Nobody
           /\ login' = [login EXCEPT ![l] = toUser("open", identity[WalletOf(l)])]
  <2> DEFINE y == toUser("open", identity[WalletOf(l)])
  <2>0. x \in LoginStates /\ "open" \in LoginPlaces \ {"idle"}
        /\ identity[WalletOf(l)] \in Logins \cup {Nobody}
    BY <1>1, <1>2
  <2>1. Reaches(x, y) /\ y.at = "open" /\ y.user = identity[WalletOf(l)]
        /\ y.result = x.result
    BY <2>0 DEF Reaches, LoginStates
  <2>2. Step(l, y)
    <3> HIDE DEF y, toUser
    <3> QED
      BY <1>0, <1>6, <2>1 DEF Step, y
  <2> HIDE DEF y
  <2> QED
    BY <1>0, <1>3, <1>6, <2>1, <2>2, QuietStep DEF After, BeforeUser
<1>7. CASE x.at = "lookup" /\ login' = [login EXCEPT ![l] = to("begin")]
  <2>1. Reaches(x, to("begin")) /\ to("begin").at = "begin"
        /\ to("begin").result = x.result
    BY <1>1, <1>2, LoginGoes
  <2> HIDE DEF to
  <2>2. Step(l, to("begin"))
    BY <1>0, <1>7, <2>1 DEF Step
  <2> QED
    BY <1>0, <1>3, <1>7, <2>1, <2>2, QuietStep DEF After, BeforeUser
<1>8. CASE x.at = "begin" /\ login' = [login EXCEPT ![l] = toUser("identity", l)]
  <2> DEFINE y == toUser("identity", l)
  <2>0. x \in LoginStates /\ "identity" \in LoginPlaces \ {"idle"}
        /\ l \in Logins \cup {Nobody}
    BY <1>1, <1>2
  <2>1. Reaches(x, y) /\ y.at = "identity" /\ y.user = l /\ y.result = x.result
    BY <2>0 DEF Reaches, LoginStates
  <2>2. Step(l, y)
    <3> HIDE DEF y, toUser
    <3> QED
      BY <1>0, <1>8, <2>1 DEF Step, y
  <2> HIDE DEF y
  <2> QED
    BY <1>0, <1>3, <1>8, <2>1, <2>2, QuietStep DEF After, BeforeUser
<1>9. CASE /\ x.at = "identity" /\ ~IdentityPending(l)
           /\ \E p \in {"commit", "rollback"} :
                /\ (p = "commit") <=> (identity[WalletOf(l)] = Nobody)
                /\ login' = [login EXCEPT ![l] = to(p)]
  <2> PICK p \in {"commit", "rollback"} :
                /\ (p = "commit") <=> (identity[WalletOf(l)] = Nobody)
                /\ login' = [login EXCEPT ![l] = to(p)]
    BY <1>9
  <2>1. Reaches(x, to(p)) /\ to(p).at = p /\ to(p).user = x.user
        /\ to(p).result = x.result
    BY <1>1, <1>2, LoginGoes
  <2>2. x.user = l
    BY <1>1, <1>9 DEF Sound
  <2> HIDE DEF to
  <2>3. Step(l, to(p))
    BY <1>0, <2>1 DEF Step
  <2> QED
    BY <1>0, <1>3, <1>9, <2>1, <2>2, <2>3, QuietStep DEF After, BeforeUser
<1>10. CASE ReadChallenge(l)
  BY <1>10, <1>4, <1>5 DEF ReadChallenge, At, LoginEnds
<1>11. CASE LookupUser(l)
  BY <1>11, <1>6, <1>7 DEF LookupUser, At
<1>12. CASE InsertUser(l)
  BY <1>12, <1>8 DEF InsertUser
<1>13. CASE InsertIdentity(l)
  BY <1>13, <1>9 DEF InsertIdentity, At
<1>14. CASE RereadUser(l)
  <2>1. identity[WalletOf(l)] # Nobody
    BY <1>1, <1>14 DEF RereadUser, Sound
  <2> QED
    BY <1>14, <2>1, <1>6 DEF RereadUser
<1>15. CASE LoginFails(l)
  BY <1>15, <1>4 DEF LoginFails, LoginEnds
<1>16. CASE RolledBack(l)
  <2>1. x.at = "rollback" /\ login' = [login EXCEPT ![l] = to("reread")]
    BY <1>16 DEF RolledBack, At
  <2>2. identity[WalletOf(l)] # Nobody
    BY <1>1, <2>1 DEF Sound
  <2>3. Reaches(x, to("reread")) /\ to("reread").at = "reread"
        /\ to("reread").result = x.result
    BY <1>1, <1>2, LoginGoes
  <2> HIDE DEF to
  <2>4. Step(l, to("reread"))
    BY <1>0, <2>1, <2>3 DEF Step
  <2> QED
    BY <1>0, <1>3, <2>1, <2>2, <2>3, <2>4, QuietStep DEF After, BeforeUser
<1>17. CASE ConsumeRefused(l)
  BY <1>17, <1>4 DEF ConsumeRefused, LoginEnds
<1> QED
  BY <1>10, <1>11, <1>12, <1>13, <1>14, <1>15, <1>16, <1>17

-----------------------------------------------------------------------------
(* The steps of challenges and sessions: who consumed a challenge, and     *)
(* whose a session is, stay.                                               *)
LEMMA ChallengeSteps ==
    ASSUME AuthInv, UNCHANGED <<users, identity, session, login>>,
           challenge' \in [Challenges -> ChallengeRows],
           \A c \in Challenges : challenge[c].wallet # Nobody =>
                /\ challenge'[c].wallet = challenge[c].wallet
                /\ challenge'[c].consumed = challenge[c].consumed
    PROVE  AuthInv'
<1>1. \A m \in Logins : login[m].at # "idle" =>
        /\ challenge'[login'[m].challenge].wallet # Nobody
        /\ challenge'[login'[m].challenge].consumed = challenge[login[m].challenge].consumed
        /\ WalletOf(m)' = WalletOf(m)
  BY DEF AuthInv, AuthTypeOK, LoginStates, WalletOf
<1>2. \A m \in Logins : HasConsumed(m) => login[m].at # "idle"
  BY DEF AuthInv, Sound, HasConsumed, After
<1>3. AuthTypeOK' /\ Paired'
  BY <1>1 DEF AuthInv, AuthTypeOK, Paired
<1>4. CommitsAlone'
  BY <1>1 DEF AuthInv, CommitsAlone
<1>5. Spent'
  <2>1. \A m \in Logins : HasConsumed(m)' <=> HasConsumed(m)
    BY DEF HasConsumed
  <2> QED
    BY <1>1, <1>2, <2>1 DEF AuthInv, Spent
<1>6. ASSUME NEW m \in Logins PROVE Sound(m)'
  <2>1. Sound(m)
    BY DEF AuthInv
  <2>2. CASE login[m].at = "idle"
    BY <2>1, <2>2 DEF Sound
  <2>3. CASE login[m].at # "idle"
    BY <1>1, <2>1, <2>3 DEF Sound
  <2> QED
    BY <2>2, <2>3
<1> QED
  BY <1>3, <1>4, <1>5, <1>6 DEF AuthInv

LEMMA SessionSteps ==
    ASSUME AuthInv, NEW l \in Logins, Revoke(l) \/ SessionExpires(l)
    PROVE  AuthInv'
<1>1. UNCHANGED <<challenge, users, identity, login>>
  BY DEF Revoke, SessionExpires
<1>2. /\ session' \in [Logins -> SessionRows]
      /\ \A m \in Logins : session'[m].user = session[m].user
  <2> DEFINE s == session[l]
  <2>1. s \in SessionRows /\ session \in [Logins -> SessionRows]
    BY DEF AuthInv, AuthTypeOK
  <2>2. /\ [s EXCEPT !.revoked = TRUE] \in SessionRows
        /\ [s EXCEPT !.revoked = TRUE].user = s.user
        /\ [s EXCEPT !.expired = TRUE] \in SessionRows
        /\ [s EXCEPT !.expired = TRUE].user = s.user
    BY <2>1 DEF SessionRows
  <2>3. \E r \in SessionRows : r.user = s.user /\ session' = [session EXCEPT ![l] = r]
    BY <2>2 DEF Revoke, SessionExpires
  <2> QED
    BY <2>1, <2>3
<1>3. \A m \in Logins : WalletOf(m)' = WalletOf(m)
  BY <1>1 DEF WalletOf
<1>4. AuthTypeOK' /\ Paired' /\ CommitsAlone'
  BY <1>1, <1>2, <1>3 DEF AuthInv, AuthTypeOK, Paired, CommitsAlone
<1>5. Spent'
  <2>1. \A m \in Logins : HasConsumed(m)' <=> HasConsumed(m)
    BY <1>1, <1>2 DEF HasConsumed
  <2> QED
    BY <1>1, <2>1 DEF AuthInv, Spent
<1>6. ASSUME NEW m \in Logins PROVE Sound(m)'
  BY <1>1, <1>2, <1>3 DEF AuthInv, Sound
<1> QED
  BY <1>4, <1>5, <1>6 DEF AuthInv

-----------------------------------------------------------------------------
(* The steps of a login that touch more than its record.                   *)

LEMMA SubmitStep ==
    ASSUME AuthInv, NEW l \in Logins, NEW c \in Challenges, Submit(l, c)
    PROVE  AuthInv'
<1> DEFINE y == [login[l] EXCEPT !.at = "read", !.challenge = c]
<1>1. login[l] \in LoginStates /\ Sound(l) /\ login[l].at = "idle"
      /\ challenge[c].wallet # Nobody /\ UNCHANGED <<challenge, users, identity, session>>
      /\ login' = [login EXCEPT ![l] = y]
  BY DEF AuthInv, AuthTypeOK, Submit
<1>2. y \in LoginStates /\ y.at = "read" /\ y.challenge = c
      /\ y.result = login[l].result
  BY <1>1 DEF LoginStates, LoginPlaces
<1> HIDE DEF y
<1>3. /\ login' \in [Logins -> LoginStates] /\ login'[l] = y
      /\ \A m \in Logins : m # l => login'[m] = login[m]
      /\ \A m \in Logins : m # l => WalletOf(m)' = WalletOf(m)
  BY <1>1, <1>2 DEF AuthInv, AuthTypeOK, WalletOf
<1>4. AuthTypeOK' /\ Paired'
  BY <1>1, <1>2, <1>3, WalletAssumption DEF AuthInv, AuthTypeOK, Paired
<1>5. CommitsAlone'
  BY <1>2, <1>3 DEF AuthInv, CommitsAlone
<1>6. Spent'
  <2>1. session[l].user = Nobody
    BY <1>1 DEF Sound
  <2>2. \A m \in Logins : HasConsumed(m)' => HasConsumed(m) /\ m # l
    BY <1>1, <1>2, <1>3, <2>1 DEF HasConsumed, After
  <2> QED
    BY <1>1, <1>3, <2>2 DEF AuthInv, Spent
<1>7. ASSUME NEW m \in Logins PROVE Sound(m)'
  <2>1. CASE m = l
    BY <1>1, <1>2, <1>3, <2>1 DEF Sound, BeforeUser
  <2>2. CASE m # l
    BY <1>1, <1>3, <2>2 DEF AuthInv, Sound
  <2> QED
    BY <2>1, <2>2
<1> QED
  BY <1>4, <1>5, <1>6, <1>7 DEF AuthInv

(* A consumption: nobody had consumed the challenge, so nobody is past it. *)
LEMMA ConsumeStep ==
    ASSUME AuthInv, NEW l \in Logins, Consume(l)
    PROVE  AuthInv'
<1> DEFINE c == login[l].challenge
           y == [login[l] EXCEPT !.at = "lookup"]
           record == [challenge[c] EXCEPT !.consumed = TRUE]
<1>1. CASE challenge[c].consumed
  <2>1. ConsumeRefused(l)
    BY <1>1 DEF Consume, ConsumeRefused
  <2> QED
    BY <2>1, QuietSteps
<1>2. CASE ~challenge[c].consumed
  <2>1. /\ login[l].at = "consume" /\ UNCHANGED <<users, identity, session>>
        /\ login' = [login EXCEPT ![l] = y]
        /\ challenge' = [challenge EXCEPT ![c] = record]
    BY <1>2 DEF Consume, At
  <2>2. /\ login[l] \in LoginStates /\ c \in Challenges /\ Sound(l)
        /\ challenge[c] \in ChallengeRows /\ challenge \in [Challenges -> ChallengeRows]
    BY <2>1, LoginUnderway DEF AuthInv, AuthTypeOK
  <2>3. record \in ChallengeRows /\ record.wallet = challenge[c].wallet /\ record.consumed
    BY <2>2 DEF ChallengeRows
  <2>4. Reaches(login[l], y) /\ y.at = "lookup" /\ y.result = login[l].result
    BY <2>2, LoginGoes DEF LoginPlaces
  <2>5. Step(l, y)
    <3> HIDE DEF y
    <3> QED
      BY <2>1, <2>4 DEF Step
  <2> HIDE DEF y, record
  <2>6. /\ challenge' \in [Challenges -> ChallengeRows]
        /\ challenge'[c].consumed
        /\ \A d \in Challenges : challenge'[d].wallet = challenge[d].wallet
        /\ \A d \in Challenges : d # c => challenge'[d] = challenge[d]
    BY <2>1, <2>2, <2>3
  <2>7. /\ login' \in [Logins -> LoginStates]
        /\ login'[l] = y
        /\ \A m \in Logins : m # l => login'[m] = login[m]
        /\ \A m \in Logins : login'[m].challenge = login[m].challenge
        /\ \A m \in Logins : login'[m].at # "idle" =>
                /\ login[m].challenge \in Challenges
                /\ login'[m].challenge # Nobody
                /\ challenge'[login'[m].challenge].wallet # Nobody
                /\ WalletOf(m)' = WalletOf(m)
    BY <2>5, <2>6, StepKeeps DEF AuthInv
  <2>8. AuthTypeOK' /\ Paired'
    BY <2>1, <2>6, <2>7 DEF AuthInv, AuthTypeOK, Paired
  <2>9. CommitsAlone'
    BY <2>4, <2>7 DEF AuthInv, CommitsAlone
  <2>10. Spent'
    <3>1. \A m \in Logins : m # l => (HasConsumed(m)' <=> HasConsumed(m))
      BY <2>1, <2>7 DEF HasConsumed
    <3>2. \A m \in Logins : HasConsumed(m) => login[m].challenge # c
                                       /\ login[m].challenge \in Challenges
      <4>1. \A m \in Logins : HasConsumed(m) => login[m].at # "idle"
        BY DEF AuthInv, Sound, HasConsumed, After
      <4> QED
        BY <1>2, <4>1, LoginUnderway DEF AuthInv, Spent
    <3> QED
      BY <2>6, <2>7, <3>1, <3>2 DEF AuthInv, Spent
  <2>11. ASSUME NEW m \in Logins PROVE Sound(m)'
    <3>1. CASE m = l
      BY <2>1, <2>2, <2>4, <2>7, <3>1 DEF Sound, BeforeUser
    <3>2. CASE m # l
      <4>1. Sound(m) /\ login'[m] = login[m]
        BY <2>7, <3>2 DEF AuthInv
      <4>2. CASE login[m].at = "idle"
        BY <2>1, <4>1, <4>2 DEF Sound
      <4>3. CASE login[m].at # "idle"
        BY <2>1, <2>7, <4>1, <4>3 DEF Sound
      <4> QED
        BY <4>2, <4>3
    <3> QED
      BY <3>1, <3>2
  <2> QED
    BY <2>8, <2>9, <2>10, <2>11 DEF AuthInv
<1> QED
  BY <1>1, <1>2

(* A commit: the wallet had no user, and nobody else was about to give it  *)
(* one, so the new user is its only user.                                  *)
LEMMA LoginCommitStep ==
    ASSUME AuthInv, NEW l \in Logins, CommitUser(l)
    PROVE  AuthInv'
<1> DEFINE w == WalletOf(l)
           y == [login[l] EXCEPT !.at = "reread"]
<1>1. /\ login[l].at = "commit" /\ UNCHANGED <<challenge, session>>
      /\ login' = [login EXCEPT ![l] = y]
      /\ users' = users \cup {login[l].user}
      /\ identity' = [identity EXCEPT ![w] = login[l].user]
  BY DEF CommitUser, At
<1>2. /\ login[l] \in LoginStates /\ w \in Wallets /\ Sound(l)
      /\ login[l].user = l /\ l \notin users /\ identity[w] = Nobody
      /\ users \subseteq Logins /\ identity \in [Wallets -> Logins \cup {Nobody}]
  BY <1>1, LoginUnderway DEF AuthInv, AuthTypeOK, Sound, BeforeUser
<1>3. Reaches(login[l], y) /\ y.at = "reread" /\ y.result = login[l].result
  BY <1>2, LoginGoes DEF LoginPlaces
<1>4. Step(l, y)
  <2> HIDE DEF y
  <2> QED
    BY <1>1, <1>3 DEF Step
<1> HIDE DEF y
<1>5. /\ login' \in [Logins -> LoginStates]
      /\ login'[l] = y
      /\ \A m \in Logins : m # l => login'[m] = login[m]
      /\ \A m \in Logins : login'[m].challenge = login[m].challenge
      /\ \A m \in Logins : login'[m].at # "idle" =>
            /\ login'[m].challenge # Nobody
            /\ challenge'[login'[m].challenge].wallet # Nobody
            /\ WalletOf(m)' = WalletOf(m)
            /\ WalletOf(m) \in Wallets
  BY <1>1, <1>4, StepKeeps DEF AuthInv
<1>6. /\ users' = users \cup {l}
      /\ identity' \in [Wallets -> Logins \cup {Nobody}]
      /\ identity'[w] = l
      /\ \A v \in Wallets : v # w => identity'[v] = identity[v]
      /\ l # Nobody
  BY <1>1, <1>2, WalletAssumption
<1>7. AuthTypeOK'
  BY <1>1, <1>2, <1>5, <1>6 DEF AuthInv, AuthTypeOK
<1>8. Paired'
  <2>1. \A u \in users' : \E v \in Wallets : identity'[v] = u
    <3> TAKE u \in users'
    <3>1. CASE u = l
      BY <1>2, <1>6, <3>1
    <3>2. CASE u # l
      <4>1. PICK v \in Wallets : identity[v] = u
        BY <1>6, <3>2 DEF AuthInv, Paired
      <4>2. u # Nobody
        BY <1>2, <1>6, <3>2, WalletAssumption
      <4> QED
        BY <1>2, <1>6, <4>1, <4>2
    <3> QED
      BY <3>1, <3>2
  <2>2. \A v \in Wallets : identity'[v] # Nobody => identity'[v] \in users'
    BY <1>6 DEF AuthInv, Paired
  <2>3. \A v \in Wallets : v # w => identity[v] # l
    BY <1>2, <1>6 DEF AuthInv, Paired
  <2>4. \A v, x \in Wallets : identity'[v] = identity'[x] /\ identity'[v] # Nobody => v = x
    BY <1>6, <2>3 DEF AuthInv, Paired
  <2> QED
    BY <2>1, <2>2, <2>4 DEF Paired
<1>9. CommitsAlone'
  BY <1>3, <1>5 DEF AuthInv, CommitsAlone
<1>10. Spent'
  <2>1. \A m \in Logins : HasConsumed(m)' <=> HasConsumed(m)
    BY <1>1, <1>3, <1>5 DEF HasConsumed, After
  <2> QED
    BY <1>1, <1>5, <2>1 DEF AuthInv, Spent
<1>11. ASSUME NEW m \in Logins PROVE Sound(m)'
  <2>1. CASE m = l
    <3>1. session[l].user = Nobody /\ login[l].result # "missing"
      BY <1>1, <1>2 DEF Sound
    <3>2. WalletOf(l)' = w
      BY <1>3, <1>5
    <3> QED
      BY <1>1, <1>3, <1>5, <1>6, <2>1, <3>1, <3>2 DEF Sound, BeforeUser
  <2>2. CASE m # l
    <3>1. Sound(m) /\ login'[m] = login[m]
      BY <1>5, <2>2 DEF AuthInv
    <3>2. CASE login[m].at = "idle"
      BY <1>1, <1>6, <2>2, <3>1, <3>2 DEF Sound, BeforeUser
    <3>3. CASE login[m].at # "idle"
      <4>1. WalletOf(m)' = WalletOf(m) /\ WalletOf(m) \in Wallets
        BY <1>5, <3>1, <3>3
      <4>2. identity[WalletOf(m)] # Nobody => identity'[WalletOf(m)] = identity[WalletOf(m)]
        BY <1>2, <1>6, <4>1
      <4>3. login[m].at = "commit" => identity'[WalletOf(m)] = identity[WalletOf(m)]
        BY <1>1, <1>6, <2>2, <4>1 DEF AuthInv, CommitsAlone
      <4> QED
        BY <1>1, <1>6, <2>2, <3>1, <4>1, <4>2, <4>3 DEF Sound
    <3> QED
      BY <3>2, <3>3
  <2> QED
    BY <2>1, <2>2
<1> QED
  BY <1>7, <1>8, <1>9, <1>10, <1>11 DEF AuthInv

(* The loser of a race never committed its user.                           *)
LEMMA RollBackStep ==
    ASSUME AuthInv, NEW l \in Logins, RollBack(l)
    PROVE  AuthInv'
<1>1. login[l].user = l /\ l \notin users
  BY DEF AuthInv, Sound, BeforeUser, RollBack
<1>2. users' = users
  BY <1>1 DEF RollBack
<1>3. RolledBack(l)
  BY <1>2 DEF RollBack, RolledBack
<1> QED
  BY <1>3, QuietSteps

LEMMA OpenStep ==
    ASSUME AuthInv, NEW l \in Logins, OpenSession(l)
    PROVE  AuthInv'
<1> DEFINE y == [login[l] EXCEPT !.at = "done", !.result = "ok"]
           record == [session[l] EXCEPT !.user = login[l].user]
<1>1. /\ login[l].at = "open" /\ UNCHANGED <<challenge, users, identity>>
      /\ login' = [login EXCEPT ![l] = y]
      /\ session' = [session EXCEPT ![l] = record]
  BY DEF OpenSession, LoginEnds
<1>2. /\ login[l] \in LoginStates /\ WalletOf(l) \in Wallets /\ Sound(l)
      /\ session \in [Logins -> SessionRows] /\ session[l] \in SessionRows
  BY <1>1, LoginUnderway DEF AuthInv, AuthTypeOK
<1>3. login[l].user = identity[WalletOf(l)] /\ login[l].user \in Logins \cup {Nobody}
  BY <1>1, <1>2 DEF Sound, LoginStates
<1>4. record \in SessionRows /\ record.user = login[l].user
  BY <1>2, <1>3 DEF SessionRows
<1>5. Reaches(login[l], y) /\ y.at = "done" /\ y.result = "ok"
  BY <1>2, LoginConcludes DEF LoginResults
<1>6. Step(l, y)
  <2> HIDE DEF y
  <2> QED
    BY <1>1, <1>5 DEF Step
<1> HIDE DEF y, record
<1>7. /\ login' \in [Logins -> LoginStates]
      /\ login'[l] = y
      /\ \A m \in Logins : m # l => login'[m] = login[m]
      /\ \A m \in Logins : login'[m].challenge = login[m].challenge
      /\ \A m \in Logins : login'[m].at # "idle" =>
            /\ login'[m].challenge # Nobody
            /\ challenge'[login'[m].challenge].wallet # Nobody
            /\ WalletOf(m)' = WalletOf(m)
  BY <1>1, <1>6, StepKeeps DEF AuthInv
<1>8. /\ session' \in [Logins -> SessionRows] /\ session'[l].user = login[l].user
      /\ \A m \in Logins : m # l => session'[m] = session[m]
  BY <1>1, <1>2, <1>4
<1>9. AuthTypeOK' /\ Paired'
  BY <1>1, <1>7, <1>8 DEF AuthInv, AuthTypeOK, Paired
<1>10. CommitsAlone'
  BY <1>5, <1>7 DEF AuthInv, CommitsAlone
<1>11. Spent'
  <2>1. \A m \in Logins : HasConsumed(m)' => HasConsumed(m)
    BY <1>1, <1>7, <1>8 DEF HasConsumed, After
  <2> QED
    BY <1>1, <1>7, <2>1 DEF AuthInv, Spent
<1>12. ASSUME NEW m \in Logins PROVE Sound(m)'
  <2>1. CASE m = l
    <3>1. WalletOf(l)' = WalletOf(l)
      BY <1>5, <1>7
    <3> QED
      BY <1>1, <1>3, <1>5, <1>7, <1>8, <2>1, <3>1 DEF Sound, BeforeUser
  <2>2. CASE m # l
    <3>1. Sound(m) /\ login'[m] = login[m] /\ session'[m] = session[m]
      BY <1>7, <1>8, <2>2 DEF AuthInv
    <3>2. CASE login[m].at = "idle"
      BY <1>1, <3>1, <3>2 DEF Sound
    <3>3. CASE login[m].at # "idle"
      BY <1>1, <1>7, <3>1, <3>3 DEF Sound
    <3> QED
      BY <3>2, <3>3
  <2> QED
    BY <2>1, <2>2
<1> QED
  BY <1>9, <1>10, <1>11, <1>12 DEF AuthInv

-----------------------------------------------------------------------------
(* The invariant holds at the start, every step keeps it, so it always     *)
(* holds.                                                                  *)
LEMMA InitSound == AuthInit => AuthInv
<1> SUFFICES ASSUME AuthInit PROVE AuthInv
  OBVIOUS
<1>1. AuthTypeOK
  BY DEF AuthInit, AuthTypeOK, ChallengeRows, SessionRows, LoginStates, LoginPlaces,
         LoginResults, NoSession
<1>2. \A l \in Logins : login[l].at = "idle" /\ login[l].result = "none"
                        /\ session[l].user = Nobody
  BY DEF AuthInit, NoSession
<1>3. Paired /\ CommitsAlone /\ Spent
  BY <1>2 DEF AuthInit, Paired, CommitsAlone, Spent, HasConsumed, After
<1>4. \A l \in Logins : Sound(l)
  BY <1>2 DEF AuthInit, Sound
<1> QED
  BY <1>1, <1>3, <1>4 DEF AuthInv

LEMMA StepSound == AuthInv /\ [AuthNext]_authVars => AuthInv'
<1> SUFFICES ASSUME AuthInv, [AuthNext]_authVars PROVE AuthInv'
  OBVIOUS
<1>0. challenge \in [Challenges -> ChallengeRows]
  BY DEF AuthInv, AuthTypeOK
<1>1. ASSUME NEW c \in Challenges, NEW w \in Wallets, Issue(c, w) PROVE AuthInv'
  <2>1. challenge[c] \in ChallengeRows
    BY <1>0
  <2>2. [challenge[c] EXCEPT !.wallet = w] \in ChallengeRows
    BY <2>1 DEF ChallengeRows
  <2>3. \E r \in ChallengeRows : challenge' = [challenge EXCEPT ![c] = r]
    BY <1>1, <2>2 DEF Issue
  <2> QED
    BY <1>0, <1>1, <2>3, ChallengeSteps DEF Issue
<1>2. ASSUME NEW c \in Challenges, ChallengeExpires(c) PROVE AuthInv'
  <2>1. challenge[c] \in ChallengeRows
    BY <1>0
  <2>2. LET r == [challenge[c] EXCEPT !.expired = TRUE] IN
        r \in ChallengeRows /\ r.wallet = challenge[c].wallet
        /\ r.consumed = challenge[c].consumed
    BY <2>1 DEF ChallengeRows
  <2>3. \E r \in ChallengeRows : /\ challenge' = [challenge EXCEPT ![c] = r]
                                 /\ r.wallet = challenge[c].wallet
                                 /\ r.consumed = challenge[c].consumed
    BY <1>2, <2>2 DEF ChallengeExpires
  <2> QED
    BY <1>0, <1>2, <2>3, ChallengeSteps DEF ChallengeExpires
<1>3. CASE UNCHANGED authVars
  BY <1>0, <1>3, ChallengeSteps DEF authVars
<1>4. ASSUME NEW l \in Logins, LoginStep(l) PROVE AuthInv'
  BY <1>4, QuietSteps, SessionSteps, SubmitStep, ConsumeStep, LoginCommitStep, RollBackStep,
     OpenStep DEF LoginStep
<1> QED
  BY <1>1, <1>2, <1>3, <1>4 DEF AuthNext

(* The inductive invariant behind the two results below: types, pairing of *)
(* users and wallets, and what each login has done so far.                 *)
THEOREM AuthIsSound == AuthSpec => []AuthInv
BY InitSound, StepSound, PTL DEF AuthSpec

(* Challenges, users, sessions and logins keep their types.                *)
THEOREM AuthTypes == AuthSpec => []AuthTypeOK
<1>1. AuthInv => AuthTypeOK
  BY DEF AuthInv
<1> QED
  BY <1>1, AuthIsSound, PTL

(* However many logins of a new wallet race, the wallet has one user.      *)
THEOREM WalletHasOneUser == AuthSpec => []OneUserPerWallet
<1>1. AuthInv => OneUserPerWallet
  BY DEF AuthInv, Paired, Sound, OneUserPerWallet
<1> QED
  BY <1>1, AuthIsSound, PTL

(* A signed challenge is good for one session, of the wallet it was issued *)
(* for.                                                                    *)
THEOREM ChallengeIsSpentOnce == AuthSpec => []ChallengeOpensOneSession
<1>1. AuthInv => ChallengeOpensOneSession
  <2> SUFFICES ASSUME AuthInv, NEW l \in Logins, session[l].user # Nobody
               PROVE  /\ session[l].revoked \/ session[l].expired
                         \/ SessionUser(l) = identity[WalletOf(l)]
                      /\ challenge[login[l].challenge].consumed
                      /\ \A m \in Logins :
                            session[m].user # Nobody
                            /\ login[m].challenge = login[l].challenge => m = l
    BY DEF ChallengeOpensOneSession
  <2>1. login[l].at = "done" /\ session[l].user = identity[WalletOf(l)]
    BY DEF AuthInv, Sound
  <2>2. WalletOf(l) \in Wallets
    BY <2>1, LoginUnderway
  <2>3. session[l].user \in users
    BY <2>1, <2>2 DEF AuthInv, Paired
  <2>4. session[l].revoked \/ session[l].expired \/ SessionUser(l) = identity[WalletOf(l)]
    BY <2>1, <2>3, Zenon DEF SessionUser
  <2> QED
    BY <2>4 DEF AuthInv, Spent, HasConsumed
<1> QED
  BY <1>1, AuthIsSound, PTL

-----------------------------------------------------------------------------
(* UserInteractions, for any users, claims, requests and deposits.         *)

Signals == [user : Users, action : {"support", "dispute"}, claim : Claims,
            link : Posts \cup {NoId}]

(* Past the statement that inserts the row of request i, if it does.       *)
Past(i) == post[i].at \in {"record", "done"}

TxPlaces == {"snapshot", "delete", "select", "update", "insert", "commit"}
Holding == {"select", "update", "insert", "commit"}

(* Row i was once the wanted one, or a stance it replaces, and may since   *)
(* have been deleted.                                                      *)
WasOwn(i, want) == i \in Posts /\ Past(i) /\ (rowOf[i] = want \/ rowOf[i] = NoRow)
WasOther(i, want) == i \in Posts /\ Past(i)
                     /\ (SameStance(rowOf[i], want) \/ rowOf[i] = NoRow)

(* What is true of request q in state x.                                   *)
RequestOK(q, x) ==
    /\ x.at \in TxPlaces \cup {"signal", "verify", "record"} =>
            x.want \in Rows /\ x.want.action \in Stances
    /\ x.at \in {"find", "put", "refind"} => x.want \in Rows
    /\ x.at \in TxPlaces \cup {"record"} /\ x.tx # NoTx => Agrees(x.want, Deposit[x.tx])
    /\ x.at \in {"signal", "verify"} => x.tx \in Txs
    /\ x.at = "record" => x.tx # NoTx
    /\ x.at = "drop" => x.found \in Posts
    /\ x.at = "delete" => WasOther(x.found, x.want)
    /\ x.at \in {"update", "record"} => WasOwn(x.found, x.want)
    /\ x.at = "commit" => x.held # NoId
    /\ x.held # NoId => x.at = "commit" /\ (x.held = q \/ rowOf[x.held] = x.want)
    /\ x.gone # {} => x.at \in Holding
    /\ \A i \in x.gone : SameStance(rowOf[i], x.want)

(* A row appears when its request is past; no row is held or deleted by    *)
(* two transactions.                                                       *)
RowsOK ==
    /\ \A i \in Posts : Live(i) => Past(i)
    /\ \A p, q \in Posts, i \in Posts : i \in LockedBy(p) /\ i \in LockedBy(q) => p = q

Shapes ==
    /\ rowOf \in [Posts -> Rows \cup {NoRow}]
    /\ signal \in [Txs -> Signals \cup {NoSignal}]
    /\ ready \subseteq Claims
    /\ post \in [Posts -> PostStates]

ActInv == /\ Shapes
          /\ RowsOK
          /\ DepositsAreTrue
          /\ \A q \in Posts : RequestOK(q, post[q])

-----------------------------------------------------------------------------
(* Two states of a request that differ in its result and in whether it was *)
(* alone.                                                                  *)
Alike(x, y) == /\ y.at = x.at /\ y.want = x.want /\ y.tx = x.tx
               /\ y.found = x.found /\ y.gone = x.gone /\ y.held = x.held

(* What a step leaves of the rows: a row that has appeared stays or goes.  *)
Stable == \A i \in Posts : Past(i) => /\ Past(i)'
                                      /\ rowOf'[i] = rowOf[i] \/ rowOf'[i] = NoRow

LEMMA NoRowIsNoStance == \A want : ~SameStance(NoRow, want)
BY DEF NoRow, SameStance, Stances

LEMMA OtherStays ==
    ASSUME NEW q \in Posts, NEW x \in PostStates, NEW y, Alike(x, y), RequestOK(q, x),
           Stable, ready \subseteq ready',
           \A i \in x.gone \cup ({x.held} \ {NoId}) : rowOf'[i] = rowOf[i]
    PROVE  RequestOK(q, y)'
<1>1. WasOwn(x.found, x.want) => WasOwn(x.found, x.want)'
  BY DEF Stable, WasOwn
<1>2. WasOther(x.found, x.want) => WasOther(x.found, x.want)'
  BY DEF Stable, WasOther
<1>3. \A d : Agrees(x.want, d) => Agrees(x.want, d)'
  BY DEF Agrees
<1> QED
  BY <1>1, <1>2, <1>3 DEF RequestOK, Alike

(* Request q moves to y; the others are alike; the rows they hold stay.    *)
LEMMA Moves ==
    ASSUME ActInv, NEW q \in Posts, NEW y \in PostStates,
           Shapes', post'[q] = y, ready \subseteq ready', Stable,
           \A p \in Posts \ {q} : Alike(post[p], post'[p]),
           \A i \in Posts : Live(i)' => Past(i)',
           \A p \in Posts \ {q} : \A i \in LockedBy(p) : rowOf'[i] = rowOf[i],
           \A i \in Posts : i \in y.gone \cup ({y.held} \ {NoId}) =>
                i \in LockedBy(q) \/ ~Locked(q, i),
           DepositsAreTrue', RequestOK(q, y)'
    PROVE  ActInv'
<1>1. ASSUME NEW p \in Posts PROVE RequestOK(p, post[p])'
  <2>1. CASE p = q
    BY <2>1 DEF RequestOK
  <2>2. CASE p # q
    <3>1. PICK x \in PostStates : x = post[p]
      BY DEF ActInv, Shapes
    <3>2. PICK z \in PostStates : z = post'[p]
      BY DEF Shapes
    <3>3. Alike(x, z) /\ RequestOK(p, x)
      BY <2>2, <3>1, <3>2 DEF ActInv
    <3>4. \A i \in x.gone \cup ({x.held} \ {NoId}) : rowOf'[i] = rowOf[i]
      BY <2>2, <3>1 DEF LockedBy
    <3>5. RequestOK(p, z)'
      BY <3>3, <3>4, OtherStays
    <3> QED
      BY <3>2, <3>5 DEF RequestOK
  <2> QED
    BY <2>1, <2>2
<1>2. RowsOK'
  <2>1. \A p \in Posts \ {q} : LockedBy(p)' = LockedBy(p)
    BY DEF LockedBy, Alike
  <2>2. \A i \in Posts : i \in LockedBy(q)' => i \in LockedBy(q) \/ ~Locked(q, i)
    BY DEF LockedBy
  <2>3. \A p \in Posts \ {q}, i \in Posts : i \in LockedBy(p) => i \notin LockedBy(q)'
    BY <2>2 DEF Locked, ActInv, RowsOK
  <2> QED
    BY <2>1, <2>3 DEF ActInv, RowsOK
<1> QED
  BY <1>1, <1>2 DEF ActInv

(* Rows that live are not NoRow, and what is held or deleted is a row that *)
(* lives, or the row of the request that inserts it.                       *)
LEMMA LockedRows ==
    ASSUME ActInv, NEW p \in Posts, NEW i \in LockedBy(p)
    PROVE  \/ Live(i) /\ Past(i)
           \/ i = p /\ post[p].at = "commit"
<1>1. post[p] \in PostStates /\ RequestOK(p, post[p])
  BY DEF ActInv, Shapes
<1>2. CASE i \in post[p].gone
  <2>1. i \in Posts /\ SameStance(rowOf[i], post[p].want)
    BY <1>1, <1>2 DEF RequestOK, PostStates
  <2>2. rowOf[i] # NoRow
    BY <2>1 DEF SameStance, NoRow, Stances
  <2> QED
    BY <2>1, <2>2 DEF ActInv, RowsOK, Live
<1>3. CASE i = post[p].held /\ i # NoId
  <2>1. i \in Posts /\ post[p].at = "commit" /\ (i = p \/ rowOf[i] = post[p].want)
        /\ post[p].want \in Rows
    BY <1>1, <1>3 DEF RequestOK, PostStates, TxPlaces
  <2>2. post[p].want # NoRow
    BY <1>1, <2>1 DEF RequestOK, NoRow, Stances, TxPlaces
  <2> QED
    BY <2>1, <2>2 DEF ActInv, RowsOK, Live
<1> QED
  BY <1>2, <1>3 DEF LockedBy

(* A step of q changes its own state only.                                 *)
LEMMA Quiet ==
    ASSUME ActInv, NEW q \in Posts, NEW y \in PostStates,
           post' = [post EXCEPT ![q] = y], UNCHANGED <<rowOf, signal, ready>>,
           Past(q) => y.at \in {"record", "done"},
           \A i \in Posts : i \in y.gone \cup ({y.held} \ {NoId}) =>
                i \in LockedBy(q) \/ ~Locked(q, i),
           RequestOK(q, y)
    PROVE  ActInv'
<1>1. /\ Shapes' /\ post'[q] = y
      /\ \A p \in Posts \ {q} : post'[p] = post[p]
  BY DEF ActInv, Shapes
<1>2. Stable
  BY <1>1 DEF Stable, Past
<1>3. \A i \in Posts : Live(i)' => Past(i)'
  BY <1>2 DEF Live, Stable, ActInv, RowsOK
<1>4. DepositsAreTrue'
  BY DEF ActInv, DepositsAreTrue
<1>5. RequestOK(q, y)'
  <2>1. Alike(y, y) /\ \A i \in y.gone \cup ({y.held} \ {NoId}) : rowOf'[i] = rowOf[i]
    BY DEF Alike
  <2> QED
    BY <1>2, <2>1, OtherStays
<1>6. \A p \in Posts \ {q} : Alike(post[p], post'[p])
  BY <1>1 DEF Alike
<1>7. \A p \in Posts \ {q} : \A i \in LockedBy(p) : rowOf'[i] = rowOf[i]
  OBVIOUS
<1> QED
  BY <1>1, <1>2, <1>3, <1>4, <1>5, <1>6, <1>7, Moves

(* A request that has ended.                                               *)
LEMMA Ended ==
    ASSUME NEW q \in Posts, post \in [Posts -> PostStates], NEW res \in Results,
           post' = Ends(q, res)
    PROVE  \E y \in PostStates :
              /\ post' = [post EXCEPT ![q] = y]
              /\ y.at = "done" /\ y.gone = {} /\ y.held = NoId
              /\ RequestOK(q, y)
<1>1. PICK y : y = [IdlePost EXCEPT !.at = "done", !.result = res, !.alone = post[q].alone]
  OBVIOUS
<1>2. post[q].alone \in BOOLEAN
  BY DEF PostStates
<1>3. y \in PostStates /\ y.at = "done" /\ y.gone = {} /\ y.held = NoId
  BY <1>1, <1>2 DEF IdlePost, PostStates, Places, Wants, NoRow
<1>4. RequestOK(q, y)
  BY <1>3 DEF RequestOK, TxPlaces
<1> QED
  BY <1>1, <1>3, <1>4 DEF Ends

LEMMA QuietEnd ==
    ASSUME ActInv, NEW q \in Posts, NEW res \in Results, post' = Ends(q, res),
           UNCHANGED <<rowOf, signal, ready>>
    PROVE  ActInv'
<1>1. post \in [Posts -> PostStates]
  BY DEF ActInv, Shapes
<1>2. PICK y \in PostStates :
              /\ post' = [post EXCEPT ![q] = y]
              /\ y.at = "done" /\ y.gone = {} /\ y.held = NoId
              /\ RequestOK(q, y)
  BY <1>1, Ended
<1> QED
  BY <1>2, Quiet

(* What the updates of a request's state leave.                            *)
LEMMA GoesTo ==
    ASSUME NEW x \in PostStates, NEW p \in Places, NEW y, y = [x EXCEPT !.at = p]
    PROVE  /\ y \in PostStates /\ y.at = p /\ y.want = x.want /\ y.tx = x.tx
           /\ y.found = x.found /\ y.gone = x.gone /\ y.held = x.held
BY DEF PostStates

LEMMA GoesToRow ==
    ASSUME NEW x \in PostStates, NEW p \in Places, NEW i \in Posts \cup {NoId}, NEW y,
           y = [x EXCEPT !.at = p, !.found = i]
    PROVE  /\ y \in PostStates /\ y.at = p /\ y.want = x.want /\ y.tx = x.tx
           /\ y.found = i /\ y.gone = x.gone /\ y.held = x.held
BY DEF PostStates

-----------------------------------------------------------------------------
(* The steps of a request that change its own state only.                  *)

(* A request goes to a place without taking or giving up a row.            *)
LEMMA QuietGo ==
    ASSUME ActInv, NEW q \in Posts, NEW p \in Places \ {"record", "done"},
           post' = Goes(q, p), UNCHANGED <<rowOf, signal, ready>>,
           ~Past(q), post[q].held = NoId,
           post[q].gone # {} => p \in Holding,
           p \in TxPlaces => \/ post[q].at \in TxPlaces
                            \/ /\ post[q].at \in {"signal", "verify"}
                               /\ Agrees(post[q].want, Deposit[post[q].tx]),
           p \notin {"signal", "commit", "delete", "update", "drop"},
           p = "verify" => post[q].at = "signal",
           p \in {"find", "put", "refind"} => post[q].at \in {"find", "put", "refind"}
    PROVE  ActInv'
<1>1. PICK x \in PostStates : x = post[q] /\ RequestOK(q, x)
  BY DEF ActInv, Shapes
<1>2. PICK y : y = [x EXCEPT !.at = p]
  OBVIOUS
<1>3. /\ y \in PostStates /\ y.at = p /\ y.want = x.want /\ y.tx = x.tx
      /\ y.found = x.found /\ y.gone = x.gone /\ y.held = x.held
  BY <1>2, GoesTo
<1>4. RequestOK(q, y)
  BY <1>1, <1>3 DEF RequestOK, TxPlaces
<1>5. post' = [post EXCEPT ![q] = y]
  BY <1>1, <1>2 DEF Goes
<1>6. \A i \in Posts : i \in y.gone \cup ({y.held} \ {NoId}) => i \in LockedBy(q)
  BY <1>1, <1>3 DEF LockedBy
<1> QED
  BY <1>3, <1>4, <1>5, <1>6, Quiet

(* A request finds a row.                                                  *)
LEMMA QuietFind ==
    ASSUME ActInv, NEW q \in Posts, NEW p \in {"delete", "update", "touch"},
           NEW i \in Posts, UNCHANGED <<rowOf, signal, ready>>,
           post' = [post EXCEPT ![q] = [@ EXCEPT !.at = p, !.found = i]],
           ~Past(q), post[q].held = NoId,
           post[q].gone # {} => p = "update",
           p # "touch" => post[q].at \in TxPlaces,
           p = "delete" => WasOther(i, post[q].want),
           p = "update" => WasOwn(i, post[q].want)
    PROVE  ActInv'
<1>1. PICK x \in PostStates : x = post[q] /\ RequestOK(q, x)
  BY DEF ActInv, Shapes
<1>2. PICK y : y = [x EXCEPT !.at = p, !.found = i]
  OBVIOUS
<1>3. /\ y \in PostStates /\ y.at = p /\ y.want = x.want /\ y.tx = x.tx
      /\ y.found = i /\ y.gone = x.gone /\ y.held = x.held
  <2>1. p \in Places
    BY DEF Places
  <2> QED
    BY <1>2, <2>1 DEF PostStates
<1>4. RequestOK(q, y)
  BY <1>1, <1>3 DEF RequestOK, TxPlaces, Holding
<1>5. post' = [post EXCEPT ![q] = y]
  BY <1>1, <1>2
<1>6. \A j \in Posts : j \in y.gone \cup ({y.held} \ {NoId}) => j \in LockedBy(q)
  BY <1>1, <1>3 DEF LockedBy
<1> QED
  BY <1>3, <1>4, <1>5, <1>6, Quiet

(* Nobody is past a place short of the last two, or holds a row before     *)
(* the commit.                                                             *)
LEMMA HereAndNow ==
    ASSUME ActInv, NEW q \in Posts
    PROVE  /\ post[q] \in PostStates /\ RequestOK(q, post[q])
           /\ Past(q) <=> post[q].at \in {"record", "done"}
           /\ post[q].at # "commit" => post[q].held = NoId
           /\ post[q].at \notin Holding => post[q].gone = {}
           /\ \A i \in Posts : rowOf[i] = post[q].want /\ post[q].at \in TxPlaces
                    => WasOwn(i, post[q].want)
<1>1. post[q] \in PostStates /\ RequestOK(q, post[q])
  BY DEF ActInv, Shapes
<1>2. ASSUME NEW i \in Posts, rowOf[i] = post[q].want, post[q].at \in TxPlaces
      PROVE  WasOwn(i, post[q].want)
  <2>1. post[q].want # NoRow
    BY <1>1, <1>2 DEF RequestOK, NoRow, Stances
  <2> QED
    BY <1>2, <2>1 DEF WasOwn, ActInv, RowsOK, Live
<1> QED
  BY <1>1, <1>2 DEF RequestOK, Past

LEMMA SyncSteps ==
    ASSUME ActInv, NEW q \in Posts, LookupSignal(q) \/ VerifyDeposit(q)
    PROVE  ActInv'
<1>1. /\ post[q] \in PostStates /\ RequestOK(q, post[q]) /\ ~Past(q)
      /\ post[q].held = NoId /\ post[q].gone = {}
      /\ UNCHANGED <<rowOf, signal, ready>>
  BY HereAndNow DEF LookupSignal, VerifyDeposit, Holding
<1>2. {"duplicate", "refused"} \subseteq Results
      /\ {"verify", "snapshot"} \subseteq Places \ {"record", "done"}
  BY DEF Results, Places
<1>3. CASE \E res \in {"duplicate", "refused"} : post' = Ends(q, res)
  BY <1>1, <1>2, <1>3, QuietEnd
<1>4. CASE post[q].at = "signal" /\ post' = Goes(q, "verify")
  BY <1>1, <1>2, <1>4, QuietGo DEF TxPlaces
<1>5. CASE post[q].at = "verify" /\ Agrees(post[q].want, Deposit[post[q].tx])
           /\ post' = Goes(q, "snapshot")
  BY <1>1, <1>2, <1>5, QuietGo DEF TxPlaces
<1>6. CASE post[q].at = "signal"
           /\ post' = [post EXCEPT ![q] = [@ EXCEPT !.at = "snapshot", !.tx = NoTx]]
  <2>1. PICK x \in PostStates : x = post[q] /\ RequestOK(q, x)
    BY <1>1
  <2>2. PICK y : y = [x EXCEPT !.at = "snapshot", !.tx = NoTx]
    OBVIOUS
  <2>3. /\ y \in PostStates /\ y.at = "snapshot" /\ y.want = x.want /\ y.tx = NoTx
        /\ y.gone = {} /\ y.held = NoId
    <3>1. "snapshot" \in Places
      BY <1>2
    <3> QED
      BY <1>1, <2>1, <2>2, <3>1 DEF PostStates
  <2>4. RequestOK(q, y)
    BY <1>6, <2>1, <2>3 DEF RequestOK, TxPlaces
  <2>5. post' = [post EXCEPT ![q] = y]
    BY <1>6, <2>1, <2>2
  <2> QED
    BY <1>1, <2>3, <2>4, <2>5, Quiet
<1> QED
  BY <1>3, <1>4, <1>5, <1>6 DEF LookupSignal, VerifyDeposit

LEMMA FindSteps ==
    ASSUME ActInv, NEW q \in Posts,
           \/ DeleteStarts(q) \/ SelectStance(q)
           \/ FindOwn(q) \/ PutRefused(q) \/ FindAfterConflict(q)
    PROVE  ActInv'
<1>1. /\ post[q] \in PostStates /\ RequestOK(q, post[q]) /\ ~Past(q)
      /\ post[q].held = NoId
      /\ post[q].gone # {} => post[q].at \in Holding
      /\ UNCHANGED <<rowOf, signal, ready>>
  BY HereAndNow DEF DeleteStarts, SelectStance, FindOwn, PutRefused, FindAfterConflict
<1>2. "error" \in Results
      /\ {"select", "insert", "put", "refind"} \subseteq Places \ {"record", "done"}
  BY DEF Results, Places
<1>3. CASE DeleteStarts(q)
  <2>1. post[q].at = "snapshot" /\ post[q].gone = {} /\ post[q].at \in TxPlaces
    BY <1>1, <1>3 DEF DeleteStarts, Holding, TxPlaces
  <2>2. CASE post' = Goes(q, "select")
    <3>1. "select" \in Places \ {"record", "done"}
      BY <1>2
    <3> QED
      BY <1>1, <2>1, <2>2, <3>1, QuietGo DEF Holding
  <2>3. ASSUME NEW i \in Others(q),
               post' = [post EXCEPT ![q] = [@ EXCEPT !.at = "delete", !.found = i]]
        PROVE  ActInv'
    <3>1. i \in Posts /\ WasOther(i, post[q].want)
      BY DEF Others, WasOther, ActInv, RowsOK
    <3> QED
      BY <1>1, <2>1, <2>3, <3>1, QuietFind
  <2> QED
    BY <1>3, <2>2, <2>3 DEF DeleteStarts
<1>4. CASE SelectStance(q)
  <2>1. post[q].at = "select" /\ post[q].at \in TxPlaces
    BY <1>4 DEF SelectStance, TxPlaces
  <2>2. CASE post' = Goes(q, "insert")
    <3>1. "insert" \in Places \ {"record", "done"} /\ "insert" \in Holding
      BY <1>2 DEF Holding
    <3> QED
      BY <1>1, <2>1, <2>2, <3>1, QuietGo
  <2>3. ASSUME NEW i \in Own(q),
               post' = [post EXCEPT ![q] = [@ EXCEPT !.at = "update", !.found = i]]
        PROVE  ActInv'
    <3>1. i \in Posts /\ WasOwn(i, post[q].want)
      BY <2>1, HereAndNow DEF Own
    <3> QED
      BY <1>1, <2>1, <2>3, <3>1, QuietFind
  <2> QED
    BY <1>4, <2>2, <2>3 DEF SelectStance, SelectOwn
<1>5. CASE FindOwn(q) \/ PutRefused(q) \/ FindAfterConflict(q)
  <2>1. post[q].at \in {"find", "put", "refind"} /\ post[q].gone = {}
    BY <1>1, <1>5 DEF FindOwn, PutRefused, FindAfterConflict, Holding
  <2>2. CASE \E p \in {"put", "refind"} : post' = Goes(q, p)
    BY <1>1, <1>2, <2>1, <2>2, QuietGo DEF TxPlaces
  <2>3. CASE post' = Ends(q, "error")
    BY <1>1, <1>2, <2>3, QuietEnd
  <2>4. ASSUME NEW i \in Own(q),
               post' = [post EXCEPT ![q] = [@ EXCEPT !.at = "touch", !.found = i]]
        PROVE  ActInv'
    <3>1. i \in Posts
      BY DEF Own
    <3> QED
      BY <1>1, <2>1, <2>4, <3>1, QuietFind
  <2> QED
    BY <1>5, <2>2, <2>3, <2>4 DEF FindOwn, PutRefused, FindAfterConflict, SelectOwn
<1> QED
  BY <1>3, <1>4, <1>5

(* The stance that is deleted is a row that lives and that nobody holds.   *)
LEMMA DeleteStep ==
    ASSUME ActInv, NEW q \in Posts, DeleteOther(q)
    PROVE  ActInv'
<1>1. PICK x \in PostStates : x = post[q]
  BY HereAndNow
<1>2. /\ RequestOK(q, x) /\ x.at = "delete" /\ ~Past(q) /\ x.held = NoId
      /\ WasOther(x.found, x.want) /\ ~Locked(q, x.found)
      /\ UNCHANGED <<rowOf, signal, ready>>
  BY <1>1, HereAndNow DEF DeleteOther, RequestOK
<1>3. PICK g \in SUBSET Posts : g = IF Live(x.found) THEN {x.found} ELSE {}
  BY <1>2 DEF WasOther
<1>4. PICK y : y = [x EXCEPT !.at = "select", !.gone = g]
  OBVIOUS
<1>5. /\ y \in PostStates /\ y.at = "select" /\ y.want = x.want /\ y.tx = x.tx
      /\ y.gone = g /\ y.held = NoId
  <2>1. "select" \in Places
    BY DEF Places
  <2> QED
    BY <1>2, <1>4, <2>1 DEF PostStates
<1>6. \A i \in g : i = x.found /\ SameStance(rowOf[i], x.want)
  BY <1>2, <1>3 DEF WasOther, Live
<1>7. RequestOK(q, y)
  BY <1>2, <1>5, <1>6 DEF RequestOK, TxPlaces, Holding
<1>8. post' = [post EXCEPT ![q] = y]
  BY <1>1, <1>3, <1>4 DEF DeleteOther
<1> QED
  BY <1>2, <1>5, <1>6, <1>7, <1>8, Quiet

(* A row that is updated lives, is the one wanted and nobody holds it; the *)
(* row of a request that inserts is held by nobody.                        *)
LEMMA HoldSteps ==
    ASSUME ActInv, NEW q \in Posts, NEW h \in Posts,
           post' = [post EXCEPT ![q] = [@ EXCEPT !.at = "commit", !.held = h]],
           UNCHANGED <<rowOf, signal, ready>>,
           post[q].at \in {"update", "insert"}, ~Locked(q, h),
           h = q \/ rowOf[h] = post[q].want
    PROVE  ActInv'
<1>1. PICK x \in PostStates : x = post[q]
  BY HereAndNow
<1>2. RequestOK(q, x) /\ ~Past(q) /\ h # NoId
  BY <1>1, HereAndNow, InteractionAssumption
<1>3. PICK y : y = [x EXCEPT !.at = "commit", !.held = h]
  OBVIOUS
<1>4. /\ y \in PostStates /\ y.at = "commit" /\ y.want = x.want /\ y.tx = x.tx
      /\ y.gone = x.gone /\ y.held = h
  <2>1. "commit" \in Places
    BY DEF Places
  <2> QED
    BY <1>3, <2>1 DEF PostStates
<1>5. RequestOK(q, y)
  BY <1>1, <1>2, <1>4 DEF RequestOK, TxPlaces, Holding
<1>6. post' = [post EXCEPT ![q] = y]
  BY <1>1, <1>3
<1>7. \A i \in y.gone : i \in LockedBy(q)
  BY <1>1, <1>4 DEF LockedBy
<1> QED
  BY <1>2, <1>4, <1>5, <1>6, <1>7, Quiet

LEMMA UpdateStep ==
    ASSUME ActInv, NEW q \in Posts, UpdateStance(q)
    PROVE  ActInv'
<1>1. CASE ~Live(post[q].found)
  <2>1. post' = Ends(q, "error") /\ "error" \in Results
        /\ UNCHANGED <<rowOf, signal, ready>>
    BY <1>1 DEF UpdateStance, Results
  <2> QED
    BY <2>1, QuietEnd
<1>2. CASE Live(post[q].found)
  <2>1. PICK h : h = post[q].found
    OBVIOUS
  <2>2. /\ post[q].at = "update" /\ ~Locked(q, h) /\ UNCHANGED <<rowOf, signal, ready>>
        /\ post' = [post EXCEPT ![q] = [@ EXCEPT !.at = "commit", !.held = h]]
    BY <1>2, <2>1 DEF UpdateStance
  <2>3. h \in Posts /\ rowOf[h] = post[q].want
    BY <1>2, <2>1, <2>2, HereAndNow DEF RequestOK, WasOwn, Live
  <2> QED
    BY <2>2, <2>3, HoldSteps
<1> QED
  BY <1>1, <1>2

LEMMA InsertStep ==
    ASSUME ActInv, NEW q \in Posts, InsertStance(q)
    PROVE  ActInv'
<1>1. post[q].at = "insert" /\ UNCHANGED <<rowOf, signal, ready>>
      /\ post' = [post EXCEPT ![q] = [@ EXCEPT !.at = "commit", !.held = q]]
  BY DEF InsertStance
<1>2. ~Past(q)
  BY <1>1 DEF Past
<1>3. ~Locked(q, q)
  BY <1>2, LockedRows DEF Locked
<1> QED
  BY <1>1, <1>3, HoldSteps

LEMMA QuietEnds ==
    ASSUME ActInv, NEW q \in Posts,
           \/ InsertRefused(q) \/ TouchOwn(q) \/ PostFails(q)
           \/ post' = Ends(q, "refused") /\ UNCHANGED <<rowOf, signal, ready>>
    PROVE  ActInv'
<1>1. PICK res \in Results : post' = Ends(q, res)
  BY DEF InsertRefused, TouchOwn, PostFails, Results
<1> QED
  BY <1>1, QuietEnd DEF InsertRefused, TouchOwn, PostFails

-----------------------------------------------------------------------------
(* A request begins.                                                       *)
LEMMA Begins ==
    ASSUME ActInv, NEW q \in Posts, NEW x \in PostStates, post[q].at = "idle",
           post' = Opens(q, x), UNCHANGED <<rowOf, signal, ready>>,
           x.held = NoId, x.gone = {}, RequestOK(q, x)
    PROVE  ActInv'
<1> DEFINE alone == \A o \in Posts : Open(o) => post[o].want.user # x.want.user
<1>1. PICK y : y = [x EXCEPT !.alone = alone]
  OBVIOUS
<1>2. alone \in BOOLEAN
  OBVIOUS
<1>3. y \in PostStates /\ Alike(x, y)
  <2> HIDE DEF alone
  <2> QED
    BY <1>1, <1>2 DEF PostStates, Alike
<1>4. \A p \in Posts : post[p] \in PostStates
  BY DEF ActInv, Shapes
<1>5. \A p \in Posts : [post[p] EXCEPT !.alone = FALSE] \in PostStates
                       /\ Alike(post[p], [post[p] EXCEPT !.alone = FALSE])
  BY <1>4 DEF PostStates, Alike
<1>6. post'[q] = y /\ DOMAIN post' = Posts /\ post' = [p \in Posts |-> post'[p]]
  BY <1>1 DEF Opens
<1>7. \A p \in Posts \ {q} : post'[p] \in {post[p], [post[p] EXCEPT !.alone = FALSE]}
  BY DEF Opens
<1>8. \A p \in Posts \ {q} : post'[p] \in PostStates /\ Alike(post[p], post'[p])
  BY <1>4, <1>5, <1>7 DEF Alike
<1>9. Shapes'
  <2>1. \A p \in Posts : post'[p] \in PostStates
    BY <1>3, <1>6, <1>8
  <2> QED
    BY <1>6, <2>1 DEF ActInv, Shapes
<1>10. Stable
  BY <1>8 DEF Stable, Past, Alike
<1>11. \A i \in Posts : Live(i)' => Past(i)'
  BY <1>10 DEF Live, Stable, ActInv, RowsOK
<1>12. DepositsAreTrue'
  BY DEF ActInv, DepositsAreTrue
<1>13. RequestOK(q, y)'
  BY <1>3, <1>10, OtherStays
<1>14. y.gone = {} /\ y.held = NoId
  BY <1>3 DEF Alike
<1>15. \A p \in Posts \ {q} : \A i \in LockedBy(p) : rowOf'[i] = rowOf[i]
  OBVIOUS
<1> QED
  BY <1>3, <1>6, <1>8, <1>9, <1>10, <1>11, <1>12, <1>13, <1>14, <1>15, Moves

LEMMA BeginSteps ==
    ASSUME ActInv, NEW q \in Posts, PostBegins(q)
    PROVE  ActInv'
<1>1. ASSUME NEW want \in Rows, Post(q, want) PROVE ActInv'
  <2> DEFINE place == IF want.action \in Stances THEN "snapshot" ELSE "find"
  <2>1. PICK x : x = [IdlePost EXCEPT !.at = place, !.want = want]
    OBVIOUS
  <2>2. want \in Wants /\ place \in Places
    BY DEF Rows, Wants, Places
  <2>3. /\ x \in PostStates /\ x.at = place /\ x.want = want /\ x.tx = NoTx
        /\ x.held = NoId /\ x.gone = {}
    <3>1. IdlePost \in PostStates /\ IdlePost.tx = NoTx /\ IdlePost.held = NoId
          /\ IdlePost.gone = {}
      BY DEF IdlePost, PostStates, Wants, NoRow, Places, Results
    <3> HIDE DEF place
    <3> QED
      BY <2>1, <2>2, <3>1 DEF PostStates
  <2>4. RequestOK(q, x)
    BY <2>3 DEF RequestOK, TxPlaces
  <2> QED
    BY <1>1, <2>1, <2>3, <2>4, Begins DEF Post
<1>2. ASSUME NEW t \in Txs, NEW c \in Claims, NEW u \in Users,
             NEW action \in {"support", "dispute"}, Sync(q, u, c, action, t)
      PROVE  ActInv'
  <2>1. PICK w : w = [user |-> u, action |-> action, claim |-> c]
    OBVIOUS
  <2>2. PICK x : x = [IdlePost EXCEPT !.at = "signal", !.tx = t, !.want = w]
    OBVIOUS
  <2>3. w \in Rows /\ w \in Wants /\ w.action \in Stances
    BY <2>1 DEF Rows, Wants, Actions, Stances
  <2>4. /\ x \in PostStates /\ x.at = "signal" /\ x.want = w /\ x.tx = t
        /\ x.held = NoId /\ x.gone = {}
    <3>1. IdlePost \in PostStates /\ IdlePost.held = NoId /\ IdlePost.gone = {}
          /\ "signal" \in Places
      BY DEF IdlePost, PostStates, Wants, NoRow, Places, Results
    <3> QED
      BY <2>2, <2>3, <3>1 DEF PostStates
  <2>5. RequestOK(q, x)
    BY <2>3, <2>4 DEF RequestOK, TxPlaces
  <2> QED
    BY <1>2, <2>1, <2>2, <2>4, <2>5, Begins DEF Sync
<1>3. ASSUME NEW u \in Users, NEW i \in Posts, Drop(q, u, i) PROVE ActInv'
  <2>1. PICK w : w = [NoRow EXCEPT !.user = u]
    OBVIOUS
  <2>2. PICK x : x = [IdlePost EXCEPT !.at = "drop", !.found = i, !.want = w]
    OBVIOUS
  <2>3. w \in Wants
    BY <2>1 DEF NoRow, Wants
  <2>4. /\ x \in PostStates /\ x.at = "drop" /\ x.found = i
        /\ x.held = NoId /\ x.gone = {}
    <3>1. IdlePost \in PostStates /\ IdlePost.held = NoId /\ IdlePost.gone = {}
          /\ "drop" \in Places
      BY DEF IdlePost, PostStates, Wants, NoRow, Places, Results
    <3> QED
      BY <2>2, <2>3, <3>1 DEF PostStates
  <2>5. RequestOK(q, x)
    BY <2>4 DEF RequestOK, TxPlaces
  <2> QED
    BY <1>3, <2>1, <2>2, <2>4, <2>5, Begins DEF Drop
<1> QED
  BY <1>1, <1>2, <1>3 DEF PostBegins

-----------------------------------------------------------------------------
(* The steps that change rows and signals.                                 *)

LEMMA EndedOK ==
    ASSUME NEW q \in Posts, NEW y \in PostStates, y.at = "done", y.gone = {}, y.held = NoId
    PROVE  RequestOK(q, y)'
BY DEF RequestOK, TxPlaces

(* What is left of the signals when the rows in g are deleted.             *)
LEMMA UnlinkedSignals ==
    ASSUME Shapes, NEW g \in SUBSET Posts, signal' = Unlinked(g)
    PROVE  /\ signal' \in [Txs -> Signals \cup {NoSignal}]
           /\ \A t \in Txs : signal'[t] # NoSignal =>
                /\ signal[t] # NoSignal /\ signal[t] \in Signals
                /\ signal'[t].user = signal[t].user
                /\ signal'[t].action = signal[t].action
                /\ signal'[t].claim = signal[t].claim
                /\ signal'[t].link # NoId =>
                        signal'[t].link = signal[t].link /\ signal[t].link \notin g
<1>1. \A t \in Txs : signal[t] \in Signals \/ signal[t] = NoSignal
  BY DEF Shapes
<1>2. NoSignal.link \notin g
  BY InteractionAssumption DEF NoSignal
<1>3. \A x \in Signals : /\ [x EXCEPT !.link = NoId] \in Signals
                         /\ [x EXCEPT !.link = NoId].user = x.user
                         /\ [x EXCEPT !.link = NoId].action = x.action
                         /\ [x EXCEPT !.link = NoId].claim = x.claim
                         /\ [x EXCEPT !.link = NoId].link = NoId
  BY DEF Signals
<1>4. ASSUME NEW t \in Txs
      PROVE  /\ signal'[t] \in Signals \cup {NoSignal}
             /\ signal'[t] # NoSignal =>
                /\ signal[t] # NoSignal /\ signal[t] \in Signals
                /\ signal'[t].user = signal[t].user
                /\ signal'[t].action = signal[t].action
                /\ signal'[t].claim = signal[t].claim
                /\ signal'[t].link # NoId =>
                        signal'[t].link = signal[t].link /\ signal[t].link \notin g
  <2>1. signal'[t] = IF signal[t].link \in g THEN [signal[t] EXCEPT !.link = NoId]
                                             ELSE signal[t]
    BY DEF Unlinked
  <2>2. CASE signal[t] = NoSignal
    BY <1>2, <2>1, <2>2
  <2>3. CASE signal[t] # NoSignal
    <3>1. signal[t] \in Signals
      BY <1>1, <2>3
    <3>2. CASE signal[t].link \in g
      BY <1>3, <2>1, <2>3, <3>1, <3>2
    <3>3. CASE signal[t].link \notin g
      BY <2>1, <2>3, <3>1, <3>3
    <3> QED
      BY <3>2, <3>3
  <2> QED
    BY <2>2, <2>3
<1>5. signal' = [t \in Txs |-> signal'[t]]
  BY DEF Unlinked
<1> QED
  BY <1>4, <1>5

(* The signals stay true when rows go and the links to them with them.     *)
LEMMA DeletionsKeepDeposits ==
    ASSUME ActInv, NEW g \in SUBSET Posts, signal' = Unlinked(g), UNCHANGED ready,
           \A i \in Posts \ g : Live(i) => rowOf'[i] = rowOf[i]
    PROVE  DepositsAreTrue'
<1>1. Shapes
  BY DEF ActInv
<1>2. ASSUME NEW t \in Txs, signal'[t] # NoSignal
      PROVE  LET s == signal'[t]
                 d == Deposit[t]
             IN  /\ d.ok /\ s.claim \in ready
                 /\ <<s.user, s.action, s.claim>> = <<d.receiver, d.action, d.claim>>
                 /\ s.link # NoId =>
                        rowOf'[s.link] = [user |-> s.user, action |-> s.action,
                                          claim |-> s.claim]
  <2>1. /\ signal[t] # NoSignal /\ signal[t] \in Signals
        /\ signal'[t].user = signal[t].user
        /\ signal'[t].action = signal[t].action
        /\ signal'[t].claim = signal[t].claim
        /\ signal'[t].link # NoId =>
                signal'[t].link = signal[t].link /\ signal[t].link \notin g
    BY <1>1, <1>2, UnlinkedSignals
  <2>2. /\ Deposit[t].ok /\ signal[t].claim \in ready
        /\ <<signal[t].user, signal[t].action, signal[t].claim>>
            = <<Deposit[t].receiver, Deposit[t].action, Deposit[t].claim>>
        /\ signal[t].link # NoId =>
                rowOf[signal[t].link] = [user |-> signal[t].user,
                        action |-> signal[t].action, claim |-> signal[t].claim]
    BY <2>1 DEF ActInv, DepositsAreTrue
  <2>3. ASSUME signal'[t].link # NoId
        PROVE  rowOf'[signal[t].link] = rowOf[signal[t].link]
    <3>1. signal[t].link \in Posts \ g /\ signal[t].action # "none"
      BY <2>1, <2>3 DEF Signals
    <3>2. rowOf[signal[t].link].action = signal[t].action
      BY <2>1, <2>2, <2>3
    <3>3. Live(signal[t].link)
      BY <3>1, <3>2 DEF Live, NoRow
    <3> QED
      BY <3>1, <3>3
  <2> QED
    BY <2>1, <2>2, <2>3
<1> QED
  BY <1>2 DEF DepositsAreTrue

LEMMA CommitStep ==
    ASSUME ActInv, NEW q \in Posts, CommitStance(q)
    PROVE  /\ ActInv'
           /\ \A i \in Posts \ post[q].gone : Live(i) => rowOf'[i] = rowOf[i]
           /\ rowOf'[post[q].held] = post[q].want
<1>1. PICK x \in PostStates : x = post[q]
  BY HereAndNow
<1>2. PICK h : h = x.held
  OBVIOUS
<1>3. /\ x.at = "commit" /\ RequestOK(q, x) /\ UNCHANGED ready
      /\ rowOf' = [i \in Posts |-> IF i = h THEN x.want
                                   ELSE IF i \in x.gone THEN NoRow ELSE rowOf[i]]
      /\ signal' = Unlinked(x.gone)
  BY <1>1, <1>2, HereAndNow DEF CommitStance
<1>4. /\ h \in Posts /\ h # NoId /\ (h = q \/ rowOf[h] = x.want)
      /\ x.want \in Rows /\ x.want.action \in Stances /\ x.gone \subseteq Posts
  BY <1>2, <1>3 DEF RequestOK, TxPlaces, PostStates
<1>5. ~Past(q) /\ ~Live(q) /\ x.want # NoRow
  BY <1>1, <1>3, <1>4 DEF Past, ActInv, RowsOK, NoRow, Stances
<1>6. \A i \in Posts \ x.gone : Live(i) => rowOf'[i] = rowOf[i]
  BY <1>3, <1>4, <1>5 DEF Live
<1>7. DepositsAreTrue'
  <2>1. x.gone \in SUBSET Posts
    BY <1>4
  <2> QED
    BY <1>3, <1>6, <2>1, DeletionsKeepDeposits
<1>8. PICK y \in PostStates :
        /\ post' = [post EXCEPT ![q] = y]
        /\ y.gone = {} /\ y.held = NoId
        /\ \/ y.at = "done"
           \/ /\ y.at = "record" /\ y.want = x.want /\ y.tx = x.tx /\ x.tx # NoTx
              /\ y.found = h
  <2>1. CASE x.tx = NoTx
    <3>1. post' = Ends(q, "ok") /\ "ok" \in Results /\ post \in [Posts -> PostStates]
      BY <1>1, <2>1 DEF CommitStance, Results, ActInv, Shapes
    <3> QED
      BY <3>1, Ended
  <2>2. CASE x.tx # NoTx
    <3>1. PICK y : y = [x EXCEPT !.at = "record", !.found = h, !.gone = {}, !.held = NoId]
      OBVIOUS
    <3>2. "record" \in Places
      BY DEF Places
    <3>3. /\ y \in PostStates /\ y.at = "record" /\ y.want = x.want /\ y.tx = x.tx
          /\ y.found = h /\ y.gone = {} /\ y.held = NoId
      BY <1>4, <3>1, <3>2 DEF PostStates
    <3>4. post' = [post EXCEPT ![q] = y]
      BY <1>1, <1>2, <2>2, <3>1 DEF CommitStance
    <3> QED
      BY <2>2, <3>3, <3>4
  <2> QED
    BY <2>1, <2>2
<1>9. /\ post' \in [Posts -> PostStates] /\ post'[q] = y
      /\ \A p \in Posts \ {q} : post'[p] = post[p]
  BY <1>8 DEF ActInv, Shapes
<1>10. Shapes'
  <2>1. signal' \in [Txs -> Signals \cup {NoSignal}]
    BY <1>3, <1>4, UnlinkedSignals DEF ActInv
  <2>2. \A i \in Posts : rowOf[i] \in Rows \cup {NoRow}
    BY DEF ActInv, Shapes
  <2>3. rowOf' \in [Posts -> Rows \cup {NoRow}]
    BY <1>3, <1>4, <2>2
  <2> QED
    BY <1>3, <1>9, <2>1, <2>3 DEF ActInv, Shapes
<1>11. Stable
  BY <1>3, <1>4, <1>5, <1>9 DEF Stable, Past
<1>12. \A i \in Posts : Live(i)' => Past(i)'
  <2>1. Past(q)'
    BY <1>8, <1>9 DEF Past
  <2>2. ASSUME NEW i \in Posts, rowOf'[i] # NoRow, i # q PROVE Past(i)
    BY <1>3, <1>4, <1>5, <2>2 DEF ActInv, RowsOK, Live
  <2> QED
    BY <1>11, <2>1, <2>2 DEF Live, Stable
<1>13. \A p \in Posts \ {q} : Alike(post[p], post'[p])
  BY <1>9 DEF Alike
<1>14. \A p \in Posts \ {q} : \A i \in LockedBy(p) : rowOf'[i] = rowOf[i]
  <2> SUFFICES ASSUME NEW p \in Posts \ {q}, NEW i \in LockedBy(p)
               PROVE  rowOf'[i] = rowOf[i]
    OBVIOUS
  <2>1. i \in Posts
    BY DEF LockedBy, ActInv, Shapes, PostStates
  <2>2. i \notin LockedBy(q)
    BY <2>1 DEF ActInv, RowsOK
  <2>3. i # h /\ i \notin x.gone
    BY <1>1, <1>2, <1>4, <2>2 DEF LockedBy
  <2> QED
    BY <1>3, <2>1, <2>3
<1>15. RequestOK(q, y)'
  <2>1. CASE y.at = "done"
    BY <1>8, <2>1, EndedOK
  <2>2. CASE y.at = "record"
    <3>1. WasOwn(h, y.want)'
      <4>1. Past(h)'
        BY <1>3, <1>4, <1>5, <1>12 DEF Live
      <4> QED
        BY <1>3, <1>4, <1>8, <2>2, <4>1 DEF WasOwn
    <3>2. Agrees(x.want, Deposit[x.tx])'
      BY <1>3, <1>8, <2>2 DEF RequestOK, TxPlaces, Agrees
    <3> QED
      BY <1>4, <1>8, <2>2, <3>1, <3>2 DEF RequestOK, TxPlaces
  <2> QED
    BY <1>8, <2>1, <2>2
<1>16. ActInv'
  BY <1>3, <1>7, <1>8, <1>9, <1>10, <1>11, <1>12, <1>13, <1>14, <1>15, Moves
<1> QED
  BY <1>1, <1>2, <1>3, <1>4, <1>6, <1>16

(* A step that ends request q, when the rows others hold stay.             *)
LEMMA EndsOK ==
    ASSUME ActInv, NEW q \in Posts, NEW res \in Results, post' = Ends(q, res),
           UNCHANGED ready,
           rowOf' \in [Posts -> Rows \cup {NoRow}],
           signal' \in [Txs -> Signals \cup {NoSignal}], DepositsAreTrue',
           \A i \in Posts : Past(i) => rowOf'[i] = rowOf[i] \/ rowOf'[i] = NoRow,
           \A i \in Posts \ {q} : Live(i)' => Live(i),
           \A p \in Posts \ {q} : \A i \in LockedBy(p) : rowOf'[i] = rowOf[i]
    PROVE  ActInv'
<1>1. post \in [Posts -> PostStates]
  BY DEF ActInv, Shapes
<1>2. PICK y \in PostStates : /\ post' = [post EXCEPT ![q] = y]
                              /\ y.at = "done" /\ y.gone = {} /\ y.held = NoId
  BY <1>1, Ended
<1>3. /\ Shapes' /\ post'[q] = y /\ \A p \in Posts \ {q} : post'[p] = post[p]
  BY <1>1, <1>2 DEF ActInv, Shapes
<1>4. Stable
  BY <1>2, <1>3 DEF Stable, Past
<1>5. \A i \in Posts : Live(i)' => Past(i)'
  <2>1. Past(q)'
    BY <1>2, <1>3 DEF Past
  <2> QED
    BY <1>4, <2>1 DEF Stable, ActInv, RowsOK
<1>6. \A p \in Posts \ {q} : Alike(post[p], post'[p])
  BY <1>3 DEF Alike
<1>7. RequestOK(q, y)'
  BY <1>2, EndedOK
<1> QED
  BY <1>2, <1>3, <1>4, <1>5, <1>6, <1>7, Moves

LEMMA PutStep ==
    ASSUME ActInv, NEW q \in Posts, PutOwn(q)
    PROVE  ActInv' /\ \A i \in Posts : Live(i) => rowOf'[i] = rowOf[i]
<1>1. /\ post[q].at = "put" /\ UNCHANGED <<signal, ready>> /\ "ok" \in Results
      /\ rowOf' = [rowOf EXCEPT ![q] = post[q].want] /\ post' = Ends(q, "ok")
      /\ post[q].want \in Rows /\ rowOf \in [Posts -> Rows \cup {NoRow}]
  BY HereAndNow DEF PutOwn, RequestOK, Results, ActInv, Shapes
<1>2. ~Past(q) /\ ~Live(q)
  BY <1>1 DEF Past, ActInv, RowsOK
<1>3. /\ rowOf' \in [Posts -> Rows \cup {NoRow}]
      /\ \A i \in Posts \ {q} : rowOf'[i] = rowOf[i]
  BY <1>1
<1>4. \A i \in Posts : Live(i) => rowOf'[i] = rowOf[i]
  BY <1>2, <1>3
<1>5. \A p \in Posts \ {q} : \A i \in LockedBy(p) : i \in Posts /\ i # q
  <2>1. \A p \in Posts : \A i \in LockedBy(p) : i \in Posts
    BY DEF LockedBy, ActInv, Shapes, PostStates
  <2> QED
    BY <1>2, <2>1, LockedRows
<1>6. DepositsAreTrue'
  <2>1. {} \in SUBSET Posts /\ signal' = Unlinked({})
    BY <1>1 DEF Unlinked, ActInv, Shapes
  <2> QED
    BY <1>1, <1>4, <2>1, DeletionsKeepDeposits
<1>7. signal' \in [Txs -> Signals \cup {NoSignal}]
  BY <1>1 DEF ActInv, Shapes
<1>8. \A i \in Posts : Past(i) => rowOf'[i] = rowOf[i]
  BY <1>2, <1>3
<1>9. \A i \in Posts \ {q} : Live(i)' => Live(i)
  BY <1>3 DEF Live
<1> QED
  BY <1>1, <1>3, <1>4, <1>5, <1>6, <1>7, <1>8, <1>9, EndsOK

LEMMA DropStep ==
    ASSUME ActInv, NEW q \in Posts, DropOwned(q)
    PROVE  ActInv'
<1>1. PICK i : i = post[q].found
  OBVIOUS
<1>2. CASE ~(Live(i) /\ rowOf[i].user = post[q].want.user)
  <2>1. post' = Ends(q, "refused") /\ UNCHANGED <<rowOf, signal, ready>>
    BY <1>1, <1>2 DEF DropOwned
  <2> QED
    BY <2>1, QuietEnds
<1>3. CASE Live(i) /\ rowOf[i].user = post[q].want.user
  <2>1. /\ ~Locked(q, i) /\ rowOf' = [rowOf EXCEPT ![i] = NoRow]
        /\ signal' = Unlinked({i}) /\ post' = Ends(q, "ok") /\ UNCHANGED ready
        /\ "ok" \in Results
    BY <1>1, <1>3 DEF DropOwned, Results
  <2>2. rowOf \in [Posts -> Rows \cup {NoRow}] /\ i \in Posts /\ Shapes
    BY <1>1, HereAndNow DEF DropOwned, RequestOK, ActInv, Shapes
  <2>3. {i} \in SUBSET Posts
    BY <2>2
  <2>4. /\ rowOf' \in [Posts -> Rows \cup {NoRow}] /\ rowOf'[i] = NoRow
        /\ \A j \in Posts \ {i} : rowOf'[j] = rowOf[j]
    BY <2>1, <2>2
  <2>5. \A j \in Posts \ {i} : Live(j) => rowOf'[j] = rowOf[j]
    BY <2>4
  <2>6. DepositsAreTrue' /\ signal' \in [Txs -> Signals \cup {NoSignal}]
    BY <2>1, <2>2, <2>3, <2>5, DeletionsKeepDeposits, UnlinkedSignals
  <2>7. \A p \in Posts \ {q} : \A j \in LockedBy(p) : rowOf'[j] = rowOf[j]
    <3>1. \A p \in Posts : \A j \in LockedBy(p) : j \in Posts
      BY DEF LockedBy, ActInv, Shapes, PostStates
    <3>2. \A p \in Posts \ {q} : i \notin LockedBy(p)
      BY <2>1 DEF Locked
    <3> QED
      BY <2>4, <3>1, <3>2
  <2>8. \A j \in Posts : rowOf'[j] = rowOf[j] \/ rowOf'[j] = NoRow
    BY <2>4
  <2>9. \A j \in Posts \ {q} : Live(j)' => Live(j)
    BY <2>8 DEF Live
  <2> QED
    BY <2>1, <2>4, <2>6, <2>7, <2>8, <2>9, EndsOK
<1> QED
  BY <1>2, <1>3

(* The signal that is recorded is what was verified, and links the stance  *)
(* that was committed.                                                     *)
LEMMA RecordStep ==
    ASSUME ActInv, NEW q \in Posts, RecordSignal(q)
    PROVE  ActInv'
<1>1. PICK x \in PostStates : x = post[q]
  BY HereAndNow
<1>2. /\ x.at = "record" /\ RequestOK(q, x) /\ UNCHANGED <<rowOf, ready>>
      /\ x.tx \in Txs /\ x.want \in Rows /\ x.want.action \in Stances
      /\ Agrees(x.want, Deposit[x.tx]) /\ WasOwn(x.found, x.want)
  BY <1>1, HereAndNow DEF RecordSignal, RequestOK, TxPlaces, PostStates
<1>3. {"ok", "duplicate", "error"} \subseteq Results
  BY DEF Results
<1>4. CASE UNCHANGED signal
  <2>1. PICK res \in Results : post' = Ends(q, res)
    BY <1>3 DEF RecordSignal
  <2> QED
    BY <1>2, <1>4, <2>1, QuietEnd
<1>5. CASE ~UNCHANGED signal
  <2>1. PICK t \in Txs : t = x.tx
    BY <1>2
  <2>2. PICK new : new = [user |-> x.want.user, action |-> x.want.action,
                          claim |-> x.want.claim, link |-> x.found]
    OBVIOUS
  <2>3. /\ Live(x.found) /\ signal' = [signal EXCEPT ![t] = new]
        /\ post' = Ends(q, "ok")
    BY <1>1, <1>5, <2>1, <2>2 DEF RecordSignal
  <2>4. /\ Deposit[t] \in Deposits /\ Deposit[t].ok /\ x.want.claim \in ready
        /\ x.want = [user |-> Deposit[t].receiver, action |-> Deposit[t].action,
                     claim |-> Deposit[t].claim]
    BY <1>2, <2>1, InteractionAssumption DEF Agrees
  <2>5. /\ x.want.user = Deposit[t].receiver /\ x.want.action = Deposit[t].action
        /\ x.want.claim = Deposit[t].claim
        /\ x.want = [user |-> x.want.user, action |-> x.want.action,
                     claim |-> x.want.claim]
    BY <2>4
  <2>6. x.found \in Posts /\ rowOf[x.found] = x.want
    BY <1>2, <2>3 DEF WasOwn, Live
  <2>7. new \in Signals
    BY <2>2, <2>4, <2>5, <2>6 DEF Signals, Deposits
  <2>8. signal \in [Txs -> Signals \cup {NoSignal}] /\ rowOf \in [Posts -> Rows \cup {NoRow}]
    BY DEF ActInv, Shapes
  <2>9. /\ signal' \in [Txs -> Signals \cup {NoSignal}] /\ signal'[t] = new
        /\ \A v \in Txs \ {t} : signal'[v] = signal[v]
    BY <2>3, <2>7, <2>8
  <2>10. DepositsAreTrue'
    <3> SUFFICES ASSUME NEW v \in Txs, signal'[v] # NoSignal
                 PROVE  LET s == signal'[v]
                            d == Deposit[v]
                        IN  /\ d.ok /\ s.claim \in ready'
                            /\ <<s.user, s.action, s.claim>>
                                    = <<d.receiver, d.action, d.claim>>
                            /\ s.link # NoId =>
                                 rowOf'[s.link] = [user |-> s.user, action |-> s.action,
                                                   claim |-> s.claim]
      BY DEF DepositsAreTrue
    <3>1. CASE v = t
      <4>1. /\ new.user = x.want.user /\ new.action = x.want.action
            /\ new.claim = x.want.claim /\ new.link = x.found
        BY <2>2
      <4> QED
        BY <1>2, <2>4, <2>5, <2>6, <2>9, <3>1, <4>1
    <3>2. CASE v # t
      BY <1>2, <2>9, <3>2 DEF ActInv, DepositsAreTrue
    <3> QED
      BY <3>1, <3>2
  <2>11. \A i \in Posts \ {q} : Live(i)' => Live(i)
    BY <1>2 DEF Live
  <2> QED
    BY <1>2, <1>3, <2>3, <2>8, <2>9, <2>10, <2>11, EndsOK
<1> QED
  BY <1>4, <1>5

LEMMA ReadyStep ==
    ASSUME ActInv, ready \subseteq ready', ready' \subseteq Claims,
           UNCHANGED <<rowOf, signal, post>>
    PROVE  ActInv'
<1>1. Shapes' /\ RowsOK' /\ DepositsAreTrue'
  BY DEF ActInv, Shapes, RowsOK, DepositsAreTrue, Live, Past, LockedBy
<1>2. ASSUME NEW q \in Posts PROVE RequestOK(q, post[q])'
  <2>1. PICK x \in PostStates : x = post[q] /\ RequestOK(q, x)
    BY HereAndNow
  <2>2. Stable /\ Alike(x, x)
    BY DEF Stable, Alike, Past
  <2>3. \A i \in x.gone \cup ({x.held} \ {NoId}) : rowOf'[i] = rowOf[i]
    OBVIOUS
  <2>4. RequestOK(q, x)'
    BY <2>1, <2>2, <2>3, OtherStays
  <2> QED
    BY <2>1, <2>4 DEF RequestOK
<1> QED
  BY <1>1, <1>2 DEF ActInv

-----------------------------------------------------------------------------
LEMMA ActInitOK == ActInit => ActInv
<1> SUFFICES ASSUME ActInit PROVE ActInv
  OBVIOUS
<1>1. IdlePost \in PostStates /\ IdlePost.at = "idle" /\ IdlePost.gone = {}
      /\ IdlePost.held = NoId
  BY DEF IdlePost, PostStates, Places, Wants, NoRow, Results
<1>2. Shapes
  BY <1>1 DEF ActInit, Shapes
<1>3. RowsOK
  BY <1>1 DEF ActInit, RowsOK, Live, LockedBy
<1>4. DepositsAreTrue
  BY DEF ActInit, DepositsAreTrue
<1>5. \A q \in Posts : RequestOK(q, post[q])
  BY <1>1 DEF ActInit, RequestOK, TxPlaces
<1> QED
  BY <1>2, <1>3, <1>4, <1>5 DEF ActInv

LEMMA ActStepOK == ActInv /\ [ActNext]_actVars => ActInv'
<1> SUFFICES ASSUME ActInv, [ActNext]_actVars PROVE ActInv'
  OBVIOUS
<1>1. ASSUME NEW q \in Posts, PostStep(q) PROVE ActInv'
  BY <1>1, SyncSteps, FindSteps, DeleteStep, UpdateStep, InsertStep, QuietEnds, CommitStep,
     PutStep, DropStep, RecordStep DEF PostStep
<1>2. CASE \E c \in Claims : PublishClaim(c)
  BY <1>2, ReadyStep DEF PublishClaim, ActInv, Shapes
<1>3. CASE UNCHANGED actVars
  BY <1>3, ReadyStep DEF actVars, ActInv, Shapes
<1> QED
  BY <1>1, <1>2, <1>3, BeginSteps DEF ActNext

(* The inductive invariant: rows appear once and only go, transactions     *)
(* hold different rows, and each request knows what it has read.           *)
THEOREM InteractionsAreSound == ActSpec => []ActInv
BY ActInitOK, ActStepOK, PTL DEF ActSpec

(* Rows, signals and requests keep their types.                            *)
THEOREM InteractionTypes == ActSpec => []ActTypeOK
<1>1. ActInv => ActTypeOK
  BY DEF ActInv, Shapes, Signals, ActTypeOK
<1> QED
  BY <1>1, InteractionsAreSound, PTL

(* Every recorded signal is a confirmed deposit of its user, and links the *)
(* stance it was made for.                                                 *)
THEOREM SignalsAreDeposits == ActSpec => []DepositsAreTrue
<1>1. ActInv => DepositsAreTrue
  BY DEF ActInv
<1> QED
  BY <1>1, InteractionsAreSound, PTL

-----------------------------------------------------------------------------
(* What a step does to a stance that a user has.                           *)
StanceKept == \A u \in Users, c \in Claims : Holds(u, c) /\ ~Holds(u, c)' =>
                    \E q \in Posts : /\ post[q].at = "drop"
                                     /\ post[q].want.user = u
                                     /\ post'[q].result = "ok"

LEMMA RowsStay ==
    ASSUME \A i \in Posts : Live(i) => rowOf'[i] = rowOf[i]
    PROVE  StanceKept
BY DEF StanceKept, Holds, Live, NoRow, Stances

(* A transaction that deletes a stance commits with another on the same    *)
(* claim.                                                                  *)
LEMMA CommitKeepsStance ==
    ASSUME ActInv, NEW q \in Posts, CommitStance(q)
    PROVE  StanceKept
<1> SUFFICES ASSUME NEW u \in Users, NEW c \in Claims, Holds(u, c) PROVE Holds(u, c)'
  BY DEF StanceKept
<1>1. PICK i \in Posts : rowOf[i].user = u /\ rowOf[i].claim = c /\ rowOf[i].action \in Stances
  BY DEF Holds
<1>2. CASE i \in post[q].gone
  <2>1. SameStance(rowOf[i], post[q].want) /\ post[q].held \in Posts
        /\ post[q].want.action \in Stances
    BY <1>2, HereAndNow DEF RequestOK, CommitStance, TxPlaces, PostStates
  <2>2. rowOf'[post[q].held] = post[q].want
    BY CommitStep
  <2> QED
    BY <1>1, <2>1, <2>2 DEF SameStance, Holds
<1>3. CASE i \notin post[q].gone
  <2>1. Live(i)
    BY <1>1 DEF Live, NoRow, Stances
  <2>2. rowOf'[i] = rowOf[i]
    BY <1>3, <2>1, CommitStep
  <2> QED
    BY <1>1, <2>2 DEF Holds
<1> QED
  BY <1>2, <1>3

LEMMA DropIsOwn ==
    ASSUME ActInv, NEW q \in Posts, DropOwned(q)
    PROVE  StanceKept
<1> SUFFICES ASSUME NEW u \in Users, NEW c \in Claims, Holds(u, c), ~Holds(u, c)'
             PROVE  /\ post[q].at = "drop" /\ post[q].want.user = u
                    /\ post'[q].result = "ok"
  BY DEF StanceKept
<1>1. PICK i \in Posts : rowOf[i].user = u /\ rowOf[i].claim = c /\ rowOf[i].action \in Stances
  BY DEF Holds
<1>2. rowOf'[i] # rowOf[i]
  BY <1>1 DEF Holds
<1>3. rowOf \in [Posts -> Rows \cup {NoRow}] /\ post \in [Posts -> PostStates]
  BY DEF ActInv, Shapes
<1>4. /\ post[q].at = "drop" /\ i = post[q].found /\ post[q].want.user = u
      /\ post' = Ends(q, "ok")
  BY <1>1, <1>2, <1>3 DEF DropOwned
<1>5. post'[q].result = "ok"
  <2>1. post'[q] = [IdlePost EXCEPT !.at = "done", !.result = "ok", !.alone = post[q].alone]
    BY <1>3, <1>4 DEF Ends
  <2> QED
    BY <2>1 DEF IdlePost
<1> QED
  BY <1>4, <1>5

(* Whoever has a stance on a claim has one until he deletes it.            *)
THEOREM StanceIsKept == ActSpec => StanceNeverLost
<1>1. ASSUME ActInv, [ActNext]_actVars PROVE StanceKept
  <2>1. ASSUME NEW q \in Posts, PostStep(q) PROVE StanceKept
    <3>1. CASE CommitStance(q)
      BY <1>1, <3>1, CommitKeepsStance
    <3>2. CASE DropOwned(q)
      BY <1>1, <3>2, DropIsOwn
    <3>3. CASE PutOwn(q)
      BY <1>1, <3>3, PutStep, RowsStay
    <3>4. CASE UNCHANGED rowOf
      BY <3>4, RowsStay
    <3> QED
      BY <2>1, <3>1, <3>2, <3>3, <3>4 DEF PostStep, LookupSignal, VerifyDeposit,
         RecordSignal, DeleteStarts, DeleteOther, SelectStance, UpdateStance, InsertStance,
         InsertRefused, FindOwn, TouchOwn, PutRefused, FindAfterConflict, PostFails
  <2>2. CASE UNCHANGED rowOf
    BY <2>2, RowsStay
  <2> QED
    BY <1>1, <2>1, <2>2 DEF ActNext, PostBegins, Post, Sync, Drop, PublishClaim, actVars
<1>2. ActInv /\ [ActNext]_actVars => [StanceKept]_actVars
  BY <1>1
<1> QED
  BY <1>2, InteractionsAreSound, PTL DEF ActSpec, StanceNeverLost, StanceKept
-----------------------------------------------------------------------------
(* Why a request of a user who has no other under way meets no error: the  *)
(* rows of a user change by his own requests only.                         *)

(* What the two unique indexes say of the rows, and of a row that is       *)
(* inserted and not yet committed: the inductive part of both theorems.    *)
OneRow ==
    /\ \A i, j \in Posts : i # j /\ Live(i) /\ Live(j) => ~Collides(rowOf[i], rowOf[j])
    /\ \A q \in Posts : post[q].held = q =>
          /\ \A i \in Posts : Visible(q, i) => ~Collides(rowOf[i], post[q].want)
          /\ \A p \in Posts \ {q} : post[p].held = p => ~Collides(post[p].want, post[q].want)

OnlySelf == \A p, q \in Posts : p # q /\ Open(p) /\ Open(q) /\ post[q].alone =>
                                    post[p].want.user # post[q].want.user

(* What upsert_non_stance wants.                                           *)
SingleOK == \A q \in Posts : post[q].at \in {"find", "put", "refind", "touch"} =>
                post[q].want \in Rows /\ (post[q].at # "touch" => post[q].want.action \notin Stances)

(* What request q, in state x, has read is still so if it is alone.        *)
AloneOK(q, x) == x.alone =>
    /\ x.at = "delete" => SameStance(rowOf[x.found], x.want)
    /\ x.at \in {"select", "update", "insert"} =>
          \A i \in Posts : i \notin x.gone /\ SameStance(rowOf[i], x.want) => rowOf[i] = x.want
    /\ x.at \in {"update", "touch", "record"} => x.found \in Posts /\ rowOf[x.found] = x.want
    /\ x.at = "insert" => \A i \in Posts : rowOf[i] # x.want
    /\ x.at = "refind" => \E i \in Posts : rowOf[i] = x.want

RaceInv == /\ OneRow /\ OnlySelf /\ SingleOK
           /\ \A q \in Posts : AloneOK(q, post[q])
           /\ ErrorNeedsARace

LEMMA Colliding ==
    /\ \A a, b : Collides(a, b) => Collides(b, a)
    /\ \A a, b, w : SameStance(a, w) /\ SameStance(b, w) => Collides(a, b)
    /\ \A w \in Rows : ~Collides(NoRow, w) /\ w # NoRow
    /\ \A a : ~SameStance(NoRow, a)
<1>1. \A w \in Rows : w # NoRow
  BY DEF Rows, NoRow, Actions, Stances
<1> QED BY <1>1 DEF Collides, SameStance, NoRow, Stances

LEMMA EndedAs ==
    ASSUME NEW q \in Posts, post \in [Posts -> PostStates], NEW res \in Results,
           post' = Ends(q, res)
    PROVE  \E y : /\ post' = [post EXCEPT ![q] = y] /\ post'[q] = y
                  /\ y.at = "done" /\ y.held = NoId /\ y.gone = {}
                  /\ y.alone = post[q].alone /\ y.result = res
<1>1. PICK y : y = [IdlePost EXCEPT !.at = "done", !.result = res, !.alone = post[q].alone]
  OBVIOUS
<1>2. /\ y.at = "done" /\ y.held = NoId /\ y.gone = {}
      /\ y.alone = post[q].alone /\ y.result = res
  BY <1>1 DEF IdlePost
<1>3. post' = [post EXCEPT ![q] = y]
  BY <1>1 DEF Ends
<1> QED BY <1>2, <1>3

(* Rows go, and none is inserted that was not inserted before.             *)
LEMMA OneRowKept ==
    ASSUME OneRow,
           \A i \in Posts : rowOf'[i] = rowOf[i] \/ rowOf'[i] = NoRow,
           \A p \in Posts : post'[p].held = p =>
                /\ post[p].held = p /\ post'[p].want = post[p].want
                /\ post'[p].gone = post[p].gone
    PROVE  OneRow'
<1>1. \A i \in Posts : Live(i)' => Live(i) /\ rowOf'[i] = rowOf[i]
  BY DEF Live
<1>2. \A i, j \in Posts : i # j /\ Live(i)' /\ Live(j)' => ~Collides(rowOf'[i], rowOf'[j])
  BY <1>1 DEF OneRow
<1>3. ASSUME NEW p \in Posts, post'[p].held = p
      PROVE  /\ \A i \in Posts : Visible(p, i)' => ~Collides(rowOf'[i], post'[p].want)
             /\ \A o \in Posts \ {p} : post'[o].held = o => ~Collides(post'[o].want, post'[p].want)
  <2>1. \A i \in Posts : Visible(p, i)' => Visible(p, i) /\ rowOf'[i] = rowOf[i]
    BY <1>1, <1>3 DEF Visible
  <2> QED BY <1>3, <2>1 DEF OneRow
<1> QED BY <1>2, <1>3 DEF OneRow

LEMMA OneRowStays ==
    ASSUME OneRow, NEW q \in Posts, NEW y, post' = [post EXCEPT ![q] = y],
           post \in [Posts -> PostStates],
           \A i \in Posts : rowOf'[i] = rowOf[i] \/ rowOf'[i] = NoRow,
           y.held # q
    PROVE  OneRow'
<1>1. post'[q] = y /\ \A p \in Posts \ {q} : post'[p] = post[p]
  OBVIOUS
<1> QED BY <1>1, OneRowKept

(* What the steps of q leave of the rows of the users of other requests.   *)
OthersRowsStay(q) == \A w \in Rows : w.user # post[q].want.user =>
                        \A i \in Posts : rowOf'[i] = w <=> rowOf[i] = w

(* A request whose user has no other under way finds its rows unchanged.   *)
LEMMA StaysAlone ==
    ASSUME ActInv, RaceInv, NEW q \in Posts, Open(q), OthersRowsStay(q),
           rowOf' \in [Posts -> Rows \cup {NoRow}],
           NEW p \in Posts \ {q}
    PROVE  post'[p] = post[p] => AloneOK(p, post[p])'
<1>1. PICK x \in PostStates : x = post[p] /\ RequestOK(p, x) /\ AloneOK(p, x)
  BY HereAndNow DEF RaceInv
<1>0. SUFFICES ASSUME post'[p] = x, x.alone PROVE AloneOK(p, x)'
  BY <1>1 DEF AloneOK
<1>2. CASE x.at \notin {"delete", "select", "update", "insert", "touch", "record", "refind"}
  BY <1>2 DEF AloneOK
<1>3. CASE x.at \in {"delete", "select", "update", "insert", "touch", "record", "refind"}
  <2>1. Open(p) /\ post[q].want.user # x.want.user
    BY <1>0, <1>1, <1>3 DEF Open, RaceInv, OnlySelf
  <2>2. x.want \in Rows /\ x.want # NoRow
    BY <1>1, <1>3, Colliding DEF RequestOK, TxPlaces, RaceInv, SingleOK
  <2>3. \A w \in Rows : w.user = x.want.user => \A i \in Posts : rowOf'[i] = w <=> rowOf[i] = w
    BY <2>1 DEF OthersRowsStay
  <2>4. \A i \in Posts : rowOf'[i] = x.want <=> rowOf[i] = x.want
    BY <2>2, <2>3
  <2>5. ASSUME NEW i \in Posts, SameStance(rowOf[i], x.want) \/ SameStance(rowOf'[i], x.want)
        PROVE  rowOf'[i] = rowOf[i]
    <3>1. rowOf[i] \in Rows \cup {NoRow} /\ rowOf'[i] \in Rows \cup {NoRow}
      BY DEF ActInv, Shapes
    <3>2. CASE SameStance(rowOf[i], x.want)
      <4>1. rowOf[i] \in Rows /\ rowOf[i].user = x.want.user
        BY <3>1, <3>2, Colliding DEF SameStance
      <4> QED BY <4>1, <2>3
    <3>3. CASE SameStance(rowOf'[i], x.want)
      <4>1. rowOf'[i] \in Rows /\ rowOf'[i].user = x.want.user
        BY <3>1, <3>3, Colliding DEF SameStance
      <4> QED BY <4>1, <2>3
    <3> QED BY <2>5, <3>2, <3>3
  <2>6. x.at = "delete" => x.found \in Posts
    BY <1>1 DEF RequestOK, WasOther
  <2>7. x.at = "delete" => SameStance(rowOf'[x.found], x.want)
    BY <1>0, <1>1, <2>5, <2>6 DEF AloneOK
  <2>8. x.at \in {"select", "update", "insert"} =>
          \A i \in Posts : i \notin x.gone /\ SameStance(rowOf'[i], x.want) => rowOf'[i] = x.want
    BY <1>0, <1>1, <2>5 DEF AloneOK
  <2>9. /\ x.at \in {"update", "touch", "record"} => x.found \in Posts /\ rowOf'[x.found] = x.want
        /\ x.at = "insert" => \A i \in Posts : rowOf'[i] # x.want
        /\ x.at = "refind" => \E i \in Posts : rowOf'[i] = x.want
    BY <1>0, <1>1, <2>4 DEF AloneOK
  <2> QED BY <2>7, <2>8, <2>9 DEF AloneOK
<1> QED BY <1>2, <1>3

(* What is to be shown of a step of request q, to state y.                 *)
LEMMA RaceMoves ==
    ASSUME ActInv, ActInv', RaceInv, NEW q \in Posts, Open(q), NEW y,
           post' = [post EXCEPT ![q] = y], y.alone = post[q].alone, y.at # "idle",
           y.at = "done" \/ y.want = post[q].want,
           y.at \in {"find", "put", "refind", "touch"} =>
                y.want \in Rows /\ (y.at # "touch" => y.want.action \notin Stances),
           OthersRowsStay(q), OneRow', AloneOK(q, y)',
           y.result = "error" => ~y.alone
    PROVE  RaceInv'
<1>1. post'[q] = y /\ \A p \in Posts \ {q} : post'[p] = post[p]
  BY DEF ActInv, Shapes
<1>2. OnlySelf'
  <2>1. \A p \in Posts : Open(p)' =>
            Open(p) /\ post'[p].want = post[p].want /\ post'[p].alone = post[p].alone
    BY <1>1 DEF Open
  <2> QED BY <2>1 DEF OnlySelf, RaceInv
<1>3. SingleOK'
  BY <1>1 DEF SingleOK, RaceInv
<1>4. rowOf' \in [Posts -> Rows \cup {NoRow}]
  BY DEF ActInv, Shapes
<1>5. ASSUME NEW p \in Posts PROVE AloneOK(p, post[p])'
  <2>1. CASE p = q
    BY <1>1, <2>1 DEF AloneOK
  <2>2. CASE p # q
    BY <1>1, <1>4, <2>2, StaysAlone
  <2> QED BY <2>1, <2>2
<1>6. ErrorNeedsARace'
  BY <1>1 DEF ErrorNeedsARace, RaceInv
<1> QED BY <1>2, <1>3, <1>5, <1>6 DEF RaceInv

(* Request q ends.                                                         *)
LEMMA RaceEnds ==
    ASSUME ActInv, ActInv', RaceInv, NEW q \in Posts, Open(q), NEW res \in Results,
           post' = Ends(q, res), OthersRowsStay(q),
           \A i \in Posts : rowOf'[i] = rowOf[i] \/ rowOf'[i] = NoRow,
           res = "error" => ~post[q].alone
    PROVE  RaceInv'
<1>1. post \in [Posts -> PostStates]
  BY DEF ActInv, Shapes
<1>2. PICK y : /\ post' = [post EXCEPT ![q] = y] /\ post'[q] = y
               /\ y.at = "done" /\ y.held = NoId /\ y.gone = {}
               /\ y.alone = post[q].alone /\ y.result = res
  BY <1>1, EndedAs
<1>3. OneRow'
  BY <1>1, <1>2, OneRowStays, InteractionAssumption DEF RaceInv
<1>4. AloneOK(q, y)'
  BY <1>2 DEF AloneOK
<1> QED BY <1>2, <1>3, <1>4, RaceMoves

(* Request q reads, or takes a row that is not its own.                    *)
LEMMA RaceReads ==
    ASSUME ActInv, ActInv', RaceInv, NEW q \in Posts, Open(q), NEW y,
           post' = [post EXCEPT ![q] = y], UNCHANGED rowOf,
           y.alone = post[q].alone, y.at \notin {"idle", "done"}, y.held # q,
           y.want = post[q].want, y.result = post[q].result,
           y.at \in {"find", "put", "refind", "touch"} =>
                y.want \in Rows /\ (y.at # "touch" => y.want.action \notin Stances),
           AloneOK(q, y)
    PROVE  RaceInv'
<1>1. OneRow'
  BY OneRowStays DEF RaceInv, ActInv, Shapes
<1>2. OthersRowsStay(q)
  BY DEF OthersRowsStay
<1>3. AloneOK(q, y)'
  BY DEF AloneOK
<1>4. y.result = "error" => ~y.alone
  BY DEF RaceInv, ErrorNeedsARace
<1> QED BY <1>1, <1>2, <1>3, <1>4, RaceMoves

-----------------------------------------------------------------------------
(* The steps, one by one.                                                  *)
LEMMA Quietly ==
    ASSUME ActInv, RaceInv, NEW q \in Posts, PostStep(q)
    PROVE  /\ Open(q) /\ post[q] \in PostStates /\ RequestOK(q, post[q]) /\ AloneOK(q, post[q])
           /\ post \in [Posts -> PostStates] /\ rowOf \in [Posts -> Rows \cup {NoRow}]
           /\ post[q].held # NoId => post[q].at = "commit"
           /\ (UNCHANGED rowOf => OthersRowsStay(q))
<1>1. Open(q)
  BY DEF PostStep, Open, LookupSignal, VerifyDeposit, RecordSignal, DeleteStarts, DeleteOther,
     SelectStance, UpdateStance, InsertStance, InsertRefused, CommitStance, FindOwn, TouchOwn,
     PutOwn, PutRefused, FindAfterConflict, DropOwned, PostFails
<1> QED BY <1>1, HereAndNow DEF RaceInv, ActInv, Shapes, OthersRowsStay

LEMMA RaceSyncs ==
    ASSUME ActInv, ActInv', RaceInv, NEW q \in Posts, LookupSignal(q) \/ VerifyDeposit(q)
    PROVE  RaceInv'
<1>0. PICK x \in PostStates : /\ x = post[q] /\ Open(q) /\ UNCHANGED rowOf /\ OthersRowsStay(q)
                              /\ x.at \in {"signal", "verify"} /\ x.held = NoId
  BY Quietly DEF PostStep, LookupSignal, VerifyDeposit
<1>1. CASE \E res \in {"duplicate", "refused"} : post' = Ends(q, res)
  BY <1>0, <1>1, RaceEnds DEF Results
<1>2. ASSUME NEW p \in {"verify", "snapshot"}, post' = Goes(q, p)
      PROVE  RaceInv'
  <2>1. PICK y : y = [x EXCEPT !.at = p]
    OBVIOUS
  <2>2. /\ y.at = p /\ y.want = x.want /\ y.held = NoId /\ y.alone = x.alone /\ y.result = x.result
    BY <1>0, <2>1 DEF PostStates
  <2>3. post' = [post EXCEPT ![q] = y]
    BY <1>0, <1>2, <2>1 DEF Goes
  <2>4. AloneOK(q, y)
    BY <2>2 DEF AloneOK
  <2> QED BY <1>0, <2>2, <2>3, <2>4, RaceReads, InteractionAssumption
<1>3. CASE post' = [post EXCEPT ![q] = [@ EXCEPT !.at = "snapshot", !.tx = NoTx]]
  <2>1. PICK y : y = [x EXCEPT !.at = "snapshot", !.tx = NoTx]
    OBVIOUS
  <2>2. /\ y.at = "snapshot" /\ y.want = x.want /\ y.held = NoId /\ y.alone = x.alone /\ y.result = x.result
    BY <1>0, <2>1 DEF PostStates
  <2>3. post' = [post EXCEPT ![q] = y]
    BY <1>0, <1>3, <2>1
  <2>4. AloneOK(q, y)
    BY <2>2 DEF AloneOK
  <2> QED BY <1>0, <2>2, <2>3, <2>4, RaceReads, InteractionAssumption
<1> QED BY <1>1, <1>2, <1>3 DEF LookupSignal, VerifyDeposit

(* The other stance, when q is alone, is the only one.                     *)
LEMMA RaceDeletes ==
    ASSUME ActInv, ActInv', RaceInv, NEW q \in Posts, DeleteStarts(q) \/ DeleteOther(q)
    PROVE  RaceInv'
<1>0. PICK x \in PostStates : /\ x = post[q] /\ Open(q) /\ UNCHANGED rowOf
                              /\ x.held = NoId /\ AloneOK(q, x) /\ RequestOK(q, x)
                              /\ rowOf \in [Posts -> Rows \cup {NoRow}]
  BY Quietly DEF PostStep, DeleteStarts, DeleteOther
<1>r. ASSUME NEW i \in Posts, SameStance(rowOf[i], x.want) PROVE Live(i)
  BY <1>r, Colliding DEF Live
<1>1. CASE DeleteStarts(q) /\ Others(q) = {} /\ post' = Goes(q, "select")
  <2>1. PICK y : y = [x EXCEPT !.at = "select"]
    OBVIOUS
  <2>2. /\ y.at = "select" /\ y.want = x.want /\ y.held = NoId /\ y.alone = x.alone
        /\ y.result = x.result
    BY <1>0, <2>1 DEF PostStates
  <2>3. post' = [post EXCEPT ![q] = y]
    BY <1>0, <1>1, <2>1 DEF Goes
  <2>4. AloneOK(q, y)
    BY <1>0, <1>1, <1>r, <2>2 DEF AloneOK, Others
  <2> QED BY <1>0, <2>2, <2>3, <2>4, RaceReads, InteractionAssumption
<1>2. ASSUME NEW i \in Others(q), post' = [post EXCEPT ![q] = [@ EXCEPT !.at = "delete", !.found = i]]
      PROVE  RaceInv'
  <2>1. PICK y : y = [x EXCEPT !.at = "delete", !.found = i]
    OBVIOUS
  <2>2. /\ y.at = "delete" /\ y.found = i /\ y.want = x.want /\ y.held = NoId /\ y.alone = x.alone
        /\ y.result = x.result
    BY <1>0, <2>1 DEF PostStates
  <2>3. post' = [post EXCEPT ![q] = y]
    BY <1>0, <1>2, <2>1
  <2>4. AloneOK(q, y)
    BY <1>0, <1>2, <2>2 DEF AloneOK, Others
  <2> QED BY <1>0, <2>2, <2>3, <2>4, RaceReads, InteractionAssumption
<1>3. CASE DeleteOther(q)
  <2>0. PICK g : g = IF Live(x.found) THEN {x.found} ELSE {}
    OBVIOUS
  <2>1. PICK y : y = [x EXCEPT !.at = "select", !.gone = g]
    OBVIOUS
  <2>2. /\ y.at = "select" /\ y.gone = g /\ y.want = x.want /\ y.held = NoId /\ y.alone = x.alone
        /\ y.result = x.result
    BY <1>0, <2>1 DEF PostStates
  <2>3. post' = [post EXCEPT ![q] = y] /\ x.at = "delete" /\ x.found \in Posts
    BY <1>0, <1>3, <2>0, <2>1 DEF DeleteOther, RequestOK, WasOther
  <2>4. ASSUME x.alone, NEW i \in Posts, i \notin g, SameStance(rowOf[i], x.want) PROVE FALSE
    <3>1. SameStance(rowOf[x.found], x.want)
      BY <1>0, <2>3, <2>4 DEF AloneOK
    <3>2. Live(x.found) /\ Live(i) /\ i # x.found
      BY <1>r, <2>0, <2>3, <2>4, <3>1
    <3> QED BY <2>3, <2>4, <3>1, <3>2, Colliding DEF RaceInv, OneRow
  <2>5. AloneOK(q, y)
    BY <2>2, <2>4 DEF AloneOK
  <2> QED BY <1>0, <2>2, <2>3, <2>5, RaceReads, InteractionAssumption
<1> QED BY <1>1, <1>2, <1>3 DEF DeleteStarts

(* A request finds its own row, or finds that it has none.                 *)
LEMMA RaceFinds ==
    ASSUME ActInv, ActInv', RaceInv, NEW q \in Posts,
           SelectStance(q) \/ FindOwn(q) \/ PutRefused(q) \/ FindAfterConflict(q)
    PROVE  RaceInv'
<1>0. PICK x \in PostStates : /\ x = post[q] /\ Open(q) /\ UNCHANGED rowOf /\ OthersRowsStay(q)
                              /\ x.held = NoId /\ AloneOK(q, x) /\ RequestOK(q, x)
                              /\ rowOf \in [Posts -> Rows \cup {NoRow}]
                              /\ x.at \in {"select", "find", "put", "refind"}
                              /\ x.at # "select" => x.want \in Rows /\ x.want.action \notin Stances
  BY Quietly DEF PostStep, SelectStance, FindOwn, PutRefused, FindAfterConflict, RaceInv, SingleOK
<1>g. ASSUME NEW p \in {"insert", "put", "refind"}, post' = Goes(q, p),
             p \in {"put", "refind"} => x.at # "select",
             p = "insert" => x.at = "select" /\ \A i \in Posts : rowOf[i] # x.want,
             p = "refind" => \E i \in Posts : rowOf[i] = x.want
      PROVE  RaceInv'
  <2>1. PICK y : y = [x EXCEPT !.at = p]
    OBVIOUS
  <2>2. /\ y.at = p /\ y.want = x.want /\ y.held = NoId /\ y.alone = x.alone /\ y.gone = x.gone
        /\ y.result = x.result
    BY <1>0, <2>1 DEF PostStates
  <2>3. post' = [post EXCEPT ![q] = y]
    BY <1>0, <1>g, <2>1 DEF Goes
  <2>4. AloneOK(q, y)
    BY <1>0, <1>g, <2>2 DEF AloneOK
  <2> QED BY <1>0, <1>g, <2>2, <2>3, <2>4, RaceReads, InteractionAssumption
<1>f. ASSUME NEW p \in {"update", "touch"}, NEW i \in Own(q),
             post' = [post EXCEPT ![q] = [@ EXCEPT !.at = p, !.found = i]],
             p = "update" <=> x.at = "select"
      PROVE  RaceInv'
  <2>1. PICK y : y = [x EXCEPT !.at = p, !.found = i]
    OBVIOUS
  <2>2. /\ y.at = p /\ y.found = i /\ y.want = x.want /\ y.held = NoId /\ y.alone = x.alone
        /\ y.gone = x.gone /\ y.result = x.result
    BY <1>0, <2>1 DEF PostStates
  <2>3. post' = [post EXCEPT ![q] = y]
    BY <1>0, <1>f, <2>1
  <2>4. AloneOK(q, y)
    BY <1>0, <1>f, <2>2 DEF AloneOK, Own
  <2> QED BY <1>0, <1>f, <2>2, <2>3, <2>4, RaceReads, InteractionAssumption
<1>1. CASE SelectStance(q)
  BY <1>0, <1>1, <1>g, <1>f DEF SelectStance, SelectOwn, Own
<1>2. CASE FindOwn(q)
  BY <1>0, <1>2, <1>g, <1>f DEF FindOwn, SelectOwn, Own
<1>3. CASE PutRefused(q)
  <2>1. PICK i \in Posts : Collides(rowOf[i], x.want)
    BY <1>0, <1>3 DEF PutRefused, Collision
  <2>2. rowOf[i] = x.want
    BY <1>0, <1>3, <2>1 DEF PutRefused, Collides, SameStance
  <2> QED BY <1>0, <1>3, <1>g, <2>2 DEF PutRefused
<1>4. CASE FindAfterConflict(q)
  <2>1. CASE Own(q) = {} /\ post' = Ends(q, "error")
    <3>1. ~x.alone
      BY <1>0, <1>4, <2>1 DEF FindAfterConflict, AloneOK, Own
    <3> QED BY <1>0, <2>1, <3>1, RaceEnds DEF Results
  <2> QED BY <1>0, <1>4, <1>f, <2>1 DEF FindAfterConflict
<1> QED BY <1>1, <1>2, <1>3, <1>4

(* A request ends, and leaves the rows: with an error only if another of   *)
(* its user has changed what it had read.                                  *)
LEMMA RaceErrors ==
    ASSUME ActInv, ActInv', RaceInv, NEW q \in Posts,
           \/ UpdateStance(q) /\ ~Live(post[q].found)
           \/ InsertRefused(q) \/ TouchOwn(q) \/ RecordSignal(q) \/ PostFails(q)
    PROVE  RaceInv'
<1>0. PICK x \in PostStates : /\ x = post[q] /\ Open(q) /\ UNCHANGED rowOf /\ OthersRowsStay(q)
                              /\ AloneOK(q, x) /\ RequestOK(q, x)
                              /\ x.at = "touch" => x.want \in Rows
  BY Quietly DEF PostStep, UpdateStance, InsertRefused, TouchOwn, RecordSignal, PostFails,
     RaceInv, SingleOK
<1>e. ASSUME NEW res \in Results, post' = Ends(q, res), res = "error" => ~x.alone
      PROVE  RaceInv'
  BY <1>0, <1>e, RaceEnds
<1>f. x.alone /\ x.at \in {"update", "touch", "record"} => Live(x.found)
  <2>1. x.at \in {"update", "touch", "record"} => x.want \in Rows
    BY <1>0 DEF RequestOK, TxPlaces
  <2> QED BY <1>0, <2>1, Colliding DEF AloneOK, Live
<1>r. {"ok", "error", "duplicate", "failed"} \subseteq Results
  BY DEF Results
<1>1. CASE UpdateStance(q) /\ ~Live(post[q].found)
  BY <1>0, <1>1, <1>e, <1>f, <1>r DEF UpdateStance
<1>2. CASE InsertRefused(q)
  <2>1. PICK i \in Posts : i \notin x.gone /\ Collides(rowOf[i], x.want)
    BY <1>0, <1>2 DEF InsertRefused, Collision, Visible
  <2>2. ~x.alone
    BY <1>0, <1>2, <2>1 DEF InsertRefused, AloneOK, Collides
  <2> QED BY <1>2, <1>e, <1>r, <2>2 DEF InsertRefused
<1>3. CASE TouchOwn(q)
  BY <1>0, <1>3, <1>e, <1>f, <1>r DEF TouchOwn
<1>4. CASE RecordSignal(q)
  BY <1>0, <1>4, <1>e, <1>f, <1>r DEF RecordSignal
<1>5. CASE PostFails(q)
  BY <1>5, <1>e, <1>r DEF PostFails
<1> QED BY <1>1, <1>2, <1>3, <1>4, <1>5

LEMMA RaceUpdates ==
    ASSUME ActInv, ActInv', RaceInv, NEW q \in Posts, UpdateStance(q), Live(post[q].found)
    PROVE  RaceInv'
<1>0. PICK x \in PostStates : /\ x = post[q] /\ Open(q) /\ UNCHANGED rowOf
                              /\ RequestOK(q, x) /\ x.at = "update"
  BY Quietly DEF PostStep, UpdateStance
<1>1. PICK y : y = [x EXCEPT !.at = "commit", !.held = x.found]
  OBVIOUS
<1>2. /\ y.at = "commit" /\ y.want = x.want /\ y.held = x.found /\ y.alone = x.alone
      /\ y.result = x.result
  BY <1>0, <1>1 DEF PostStates
<1>3. post' = [post EXCEPT ![q] = y]
  BY <1>0, <1>1 DEF UpdateStance
<1>4. x.found # q
  BY <1>0 DEF RequestOK, WasOwn, Past
<1>5. AloneOK(q, y)
  BY <1>2 DEF AloneOK
<1> QED BY <1>0, <1>2, <1>3, <1>4, <1>5, RaceReads

(* A row that is inserted collides with none that is there, and with none  *)
(* that another transaction has inserted.                                  *)
LEMMA RaceInserts ==
    ASSUME ActInv, ActInv', RaceInv, NEW q \in Posts, InsertStance(q)
    PROVE  RaceInv'
<1>0. PICK x \in PostStates : /\ x = post[q] /\ Open(q) /\ UNCHANGED rowOf /\ OthersRowsStay(q)
                              /\ x.at = "insert" /\ post \in [Posts -> PostStates]
  BY Quietly DEF PostStep, InsertStance
<1>1. PICK y : y = [x EXCEPT !.at = "commit", !.held = q]
  OBVIOUS
<1>2. /\ y.at = "commit" /\ y.want = x.want /\ y.held = q /\ y.alone = x.alone
      /\ y.gone = x.gone /\ y.result = x.result
  BY <1>0, <1>1 DEF PostStates
<1>3. post' = [post EXCEPT ![q] = y]
  BY <1>0, <1>1 DEF InsertStance
<1>4. post'[q] = y /\ \A p \in Posts \ {q} : post'[p] = post[p]
  BY <1>0, <1>3
<1>5. \A i \in Posts : Live(i) /\ i \notin x.gone => ~Collides(rowOf[i], x.want)
  BY <1>0 DEF InsertStance, Collision, Visible
<1>6. \A p \in Posts \ {q} : post[p].held = p => ~Collides(post[p].want, x.want)
                                                /\ ~Collides(x.want, post[p].want)
  BY <1>0, Colliding, InteractionAssumption DEF InsertStance, InsertWaits
<1>7. OneRow'
  <2>1. \A i, j \in Posts : i # j /\ Live(i)' /\ Live(j)' => ~Collides(rowOf'[i], rowOf'[j])
    BY <1>0 DEF RaceInv, OneRow, Live
  <2>2. ASSUME NEW p \in Posts, post'[p].held = p
        PROVE  /\ \A i \in Posts : Visible(p, i)' => ~Collides(rowOf'[i], post'[p].want)
               /\ \A o \in Posts \ {p} : post'[o].held = o => ~Collides(post'[o].want, post'[p].want)
    <3>1. CASE p = q
      BY <1>0, <1>2, <1>4, <1>5, <1>6, <3>1 DEF Visible, Live
    <3>2. CASE p # q
      <4>1. \A i \in Posts : Visible(p, i)' <=> Visible(p, i)
        BY <1>0, <1>4, <3>2 DEF Visible, Live
      <4> QED BY <1>0, <1>2, <1>4, <1>6, <2>2, <3>2, <4>1 DEF RaceInv, OneRow
    <3> QED BY <3>1, <3>2
  <2> QED BY <2>1, <2>2 DEF OneRow
<1>8. AloneOK(q, y)'
  BY <1>2 DEF AloneOK
<1>9. y.result = "error" => ~y.alone
  BY <1>0, <1>2 DEF RaceInv, ErrorNeedsARace
<1> QED BY <1>0, <1>2, <1>3, <1>7, <1>8, <1>9, RaceMoves

LEMMA RaceCommits ==
    ASSUME ActInv, ActInv', RaceInv, NEW q \in Posts, CommitStance(q)
    PROVE  RaceInv'
<1>0. PICK x \in PostStates : /\ x = post[q] /\ Open(q) /\ RequestOK(q, x) /\ x.at = "commit"
                              /\ post \in [Posts -> PostStates]
                              /\ rowOf \in [Posts -> Rows \cup {NoRow}]
  BY Quietly DEF PostStep, CommitStance
<1>1. PICK h : h = x.held
  OBVIOUS
<1>2. /\ h \in Posts /\ h # NoId /\ (h = q \/ rowOf[h] = x.want) /\ x.want \in Rows
      /\ x.want # NoRow /\ \A i \in x.gone : i \in Posts /\ SameStance(rowOf[i], x.want)
  BY <1>0, <1>1, Colliding DEF RequestOK, TxPlaces, PostStates
<1>3. rowOf' = [i \in Posts |-> IF i = h THEN x.want
                                ELSE IF i \in x.gone THEN NoRow ELSE rowOf[i]]
  BY <1>0, <1>1 DEF CommitStance
<1>4. h = q => rowOf[h] = NoRow
  BY <1>0 DEF ActInv, RowsOK, Live, Past
<1>5. PICK y : /\ post' = [post EXCEPT ![q] = y] /\ y.held = NoId /\ y.alone = x.alone
               /\ \/ y.at = "done" /\ y.result = "ok"
                  \/ y.at = "record" /\ y.found = h /\ y.want = x.want /\ y.result = x.result
  <2>1. CASE x.tx = NoTx
    <3>1. post' = Ends(q, "ok") /\ "ok" \in Results
      BY <1>0, <2>1 DEF CommitStance, Results
    <3> QED BY <1>0, <3>1, EndedAs
  <2>2. CASE x.tx # NoTx
    <3>1. PICK y : y = [x EXCEPT !.at = "record", !.found = h, !.gone = {}, !.held = NoId]
      OBVIOUS
    <3>2. /\ y.at = "record" /\ y.want = x.want /\ y.found = h /\ y.held = NoId
          /\ y.alone = x.alone /\ y.result = x.result
      BY <3>1 DEF PostStates
    <3>3. post' = [post EXCEPT ![q] = y]
      BY <1>0, <1>1, <2>2, <3>1 DEF CommitStance
    <3> QED BY <3>2, <3>3
  <2> QED BY <2>1, <2>2
<1>6. post'[q] = y /\ \A p \in Posts \ {q} : post'[p] = post[p]
  BY <1>0, <1>5
<1>7. OthersRowsStay(q)
  <2> SUFFICES ASSUME NEW w \in Rows, w.user # x.want.user, NEW i \in Posts
               PROVE  rowOf'[i] = w <=> rowOf[i] = w
    BY <1>0 DEF OthersRowsStay
  <2>1. CASE i = h
    BY <1>2, <1>3, <1>4, <2>1, Colliding
  <2>2. CASE i # h /\ i \in x.gone
    BY <1>2, <1>3, <2>2, Colliding DEF SameStance
  <2>3. CASE i # h /\ i \notin x.gone
    BY <1>3, <2>3
  <2> QED BY <2>1, <2>2, <2>3
<1>8. OneRow'
  <2>1. ASSUME NEW i \in Posts, Live(i)', i # h
        PROVE  rowOf'[i] = rowOf[i] /\ Live(i) /\ i \notin x.gone
    BY <1>3, <2>1 DEF Live
  <2>2. rowOf'[h] = x.want
    BY <1>2, <1>3
  (* What lives beside the committed row does not collide with it.         *)
  <2>3. ASSUME NEW i \in Posts, Live(i)', i # h PROVE ~Collides(rowOf'[i], x.want)
    <3>1. CASE h = q
      BY <1>0, <1>1, <2>1, <2>3, <3>1 DEF RaceInv, OneRow, Visible
    <3>2. CASE h # q
      <4>1. rowOf[h] = x.want /\ Live(h)
        BY <1>2, <3>2 DEF Live
      <4> QED BY <1>2, <2>1, <2>3, <4>1 DEF RaceInv, OneRow
    <3> QED BY <3>1, <3>2
  <2>4. \A i, j \in Posts : i # j /\ Live(i)' /\ Live(j)' => ~Collides(rowOf'[i], rowOf'[j])
    <3> SUFFICES ASSUME NEW i \in Posts, NEW j \in Posts, i # j, Live(i)', Live(j)'
                 PROVE  ~Collides(rowOf'[i], rowOf'[j])
      OBVIOUS
    <3>1. CASE i = h
      BY <2>2, <2>3, <3>1, Colliding
    <3>2. CASE j = h
      BY <2>2, <2>3, <3>2
    <3>3. CASE i # h /\ j # h
      BY <2>1, <3>3 DEF RaceInv, OneRow
    <3> QED BY <3>1, <3>2, <3>3
  <2>5. ASSUME NEW p \in Posts, post'[p].held = p
        PROVE  /\ \A i \in Posts : Visible(p, i)' => ~Collides(rowOf'[i], post'[p].want)
               /\ \A o \in Posts \ {p} : post'[o].held = o => ~Collides(post'[o].want, post'[p].want)
    <3>1. p # q /\ post'[p] = post[p]
      BY <1>5, <1>6, <2>5, InteractionAssumption
    <3>2. \A o \in Posts : post'[o].held = o => o # q /\ post'[o] = post[o]
      BY <1>5, <1>6, InteractionAssumption
    <3>3. ASSUME NEW i \in Posts, Visible(p, i)' PROVE ~Collides(rowOf'[i], post[p].want)
      <4>1. Live(i)' /\ i \notin post[p].gone
        BY <3>1, <3>3 DEF Visible
      <4>2. CASE i = h /\ h = q
        BY <1>0, <1>1, <2>2, <2>5, <3>1, <4>2 DEF RaceInv, OneRow
      <4>3. CASE i = h /\ h # q
        <5>1. rowOf[h] = x.want /\ Live(h)
          BY <1>2, <4>3 DEF Live
        <5> QED BY <2>2, <2>5, <3>1, <4>1, <4>3, <5>1 DEF RaceInv, OneRow, Visible
      <4>4. CASE i # h
        BY <2>1, <2>5, <3>1, <4>1, <4>4 DEF RaceInv, OneRow, Visible
      <4> QED BY <4>2, <4>3, <4>4
    <3> QED BY <2>5, <3>1, <3>2, <3>3 DEF RaceInv, OneRow
  <2> QED BY <2>4, <2>5 DEF OneRow
<1>9. AloneOK(q, y)'
  BY <1>2, <1>3, <1>5 DEF AloneOK
<1>10. y.result = "error" => ~y.alone
  BY <1>0, <1>5 DEF RaceInv, ErrorNeedsARace
<1> QED BY <1>0, <1>5, <1>7, <1>8, <1>9, <1>10, RaceMoves

(* What is put is no stance, and collides with none that is inserted.      *)
LEMMA RacePuts ==
    ASSUME ActInv, ActInv', RaceInv, NEW q \in Posts, PutOwn(q)
    PROVE  RaceInv'
<1>0. PICK x \in PostStates : /\ x = post[q] /\ Open(q) /\ RequestOK(q, x) /\ x.at = "put"
                              /\ post \in [Posts -> PostStates]
                              /\ rowOf \in [Posts -> Rows \cup {NoRow}]
                              /\ x.want \in Rows /\ x.want.action \notin Stances
                              /\ x.want # NoRow
  BY Quietly, Colliding DEF PostStep, PutOwn, RaceInv, SingleOK
<1>1. /\ rowOf'[q] = x.want /\ \A i \in Posts \ {q} : rowOf'[i] = rowOf[i]
      /\ post' = Ends(q, "ok") /\ "ok" \in Results
      /\ \A i \in Posts : i \notin x.gone /\ Live(i) => ~Collides(rowOf[i], x.want)
  BY <1>0 DEF PutOwn, Collision, Visible, Results
<1>2. x.gone = {} /\ rowOf[q] = NoRow
  BY <1>0 DEF RequestOK, Holding, ActInv, RowsOK, Live, Past
<1>3. PICK y : /\ post' = [post EXCEPT ![q] = y] /\ post'[q] = y
               /\ y.at = "done" /\ y.held = NoId /\ y.alone = x.alone /\ y.result = "ok"
  BY <1>0, <1>1, EndedAs
<1>4. OthersRowsStay(q)
  <2> SUFFICES ASSUME NEW w \in Rows, w.user # x.want.user, NEW i \in Posts
               PROVE  rowOf'[i] = w <=> rowOf[i] = w
    BY <1>0 DEF OthersRowsStay
  <2>1. CASE i = q
    BY <1>1, <1>2, <2>1, Colliding
  <2>2. CASE i # q
    BY <1>1, <2>2
  <2> QED BY <2>1, <2>2
<1>5. OneRow'
  <2>1. ASSUME NEW i \in Posts, Live(i)', i # q
        PROVE  rowOf'[i] = rowOf[i] /\ Live(i) /\ ~Collides(rowOf'[i], x.want)
    BY <1>1, <1>2, <2>1 DEF Live
  <2>2. \A i, j \in Posts : i # j /\ Live(i)' /\ Live(j)' => ~Collides(rowOf'[i], rowOf'[j])
    <3> SUFFICES ASSUME NEW i \in Posts, NEW j \in Posts, i # j, Live(i)', Live(j)'
                 PROVE  ~Collides(rowOf'[i], rowOf'[j])
      OBVIOUS
    <3>1. CASE i = q
      BY <1>1, <2>1, <3>1, Colliding
    <3>2. CASE j = q
      BY <1>1, <2>1, <3>2
    <3>3. CASE i # q /\ j # q
      BY <2>1, <3>3 DEF RaceInv, OneRow
    <3> QED BY <3>1, <3>2, <3>3
  <2>3. ASSUME NEW p \in Posts, post'[p].held = p
        PROVE  /\ \A i \in Posts : Visible(p, i)' => ~Collides(rowOf'[i], post'[p].want)
               /\ \A o \in Posts \ {p} : post'[o].held = o => ~Collides(post'[o].want, post'[p].want)
    <3>1. p # q /\ post'[p] = post[p]
      BY <1>0, <1>3, <2>3, InteractionAssumption
    <3>2. \A o \in Posts : post'[o].held = o => o # q /\ post'[o] = post[o]
      BY <1>0, <1>3, InteractionAssumption
    <3>3. ASSUME NEW i \in Posts, Visible(p, i)' PROVE ~Collides(rowOf'[i], post[p].want)
      <4>1. Live(i)' /\ i \notin post[p].gone
        BY <3>1, <3>3 DEF Visible
      <4>2. CASE i = q
        <5>1. post[p].at = "commit" /\ post[p].want.action \in Stances
          BY <2>3, <3>1, HereAndNow, InteractionAssumption DEF RequestOK, TxPlaces
        <5> QED BY <1>0, <1>1, <4>2, <5>1 DEF Collides, SameStance
      <4>3. CASE i # q
        BY <2>1, <2>3, <3>1, <4>1, <4>3 DEF RaceInv, OneRow, Visible
      <4> QED BY <4>2, <4>3
    <3> QED BY <2>3, <3>1, <3>2, <3>3 DEF RaceInv, OneRow
  <2> QED BY <2>2, <2>3 DEF OneRow
<1>6. AloneOK(q, y)'
  BY <1>3 DEF AloneOK
<1> QED BY <1>0, <1>3, <1>4, <1>5, <1>6, RaceMoves

LEMMA RaceDrops ==
    ASSUME ActInv, ActInv', RaceInv, NEW q \in Posts, DropOwned(q)
    PROVE  RaceInv'
<1>0. /\ Open(q) /\ {"ok", "refused"} \subseteq Results /\ post[q].found \in Posts
      /\ rowOf \in [Posts -> Rows \cup {NoRow}]
  BY Quietly DEF PostStep, DropOwned, Results, RequestOK
<1>1. CASE ~(Live(post[q].found) /\ rowOf[post[q].found].user = post[q].want.user)
  <2>1. post' = Ends(q, "refused") /\ UNCHANGED rowOf
    BY <1>1 DEF DropOwned
  <2> QED BY <1>0, <2>1, RaceEnds DEF OthersRowsStay
<1>2. CASE Live(post[q].found) /\ rowOf[post[q].found].user = post[q].want.user
  <2>1. PICK i \in Posts : i = post[q].found
    BY <1>0
  <2>2. /\ post' = Ends(q, "ok") /\ rowOf'[i] = NoRow /\ rowOf[i].user = post[q].want.user
        /\ \A j \in Posts \ {i} : rowOf'[j] = rowOf[j]
    BY <1>0, <1>2, <2>1 DEF DropOwned
  <2>3. OthersRowsStay(q)
    BY <2>2, Colliding DEF OthersRowsStay
  <2> QED BY <1>0, <2>2, <2>3, RaceEnds
<1> QED BY <1>1, <1>2

(* A request begins: whoever of its user is under way is not alone.        *)
LEMMA RaceOpens ==
    ASSUME ActInv, RaceInv, NEW q \in Posts, NEW x \in PostStates, post[q].at = "idle",
           post' = Opens(q, x), UNCHANGED rowOf,
           x.at \in {"snapshot", "find", "signal", "drop"}, x.held = NoId, x.result = "none",
           x.at = "find" => x.want \in Rows /\ x.want.action \notin Stances
    PROVE  RaceInv'
<1> DEFINE Mate(p) == Open(p) /\ post[p].want.user = x.want.user
           alone == \A o \in Posts : Open(o) => post[o].want.user # x.want.user
<1>1. PICK a \in BOOLEAN : a = alone
  OBVIOUS
<1>2. PICK y : y = [x EXCEPT !.alone = a]
  OBVIOUS
<1>3. y.at = x.at /\ y.want = x.want /\ y.held = NoId /\ y.alone = a /\ y.result = "none"
  BY <1>2 DEF PostStates
<1>4. post'[q] = y
  BY <1>1, <1>2 DEF Opens
<1>5. ASSUME NEW p \in Posts, p # q
      PROVE  /\ Alike(post[p], post'[p]) /\ post'[p].result = post[p].result
             /\ post'[p].alone => post[p].alone
             /\ Mate(p) => ~post'[p].alone
  <2>0. post[p] \in PostStates
    BY DEF ActInv, Shapes
  <2>1. CASE Mate(p)
    <3>1. PICK z : z = [post[p] EXCEPT !.alone = FALSE]
      OBVIOUS
    <3>2. post'[p] = z
      BY <1>5, <2>1, <3>1 DEF Opens
    <3>3. Alike(post[p], z) /\ z.result = post[p].result /\ z.alone = FALSE
      BY <2>0, <3>1 DEF PostStates, Alike
    <3> QED BY <3>2, <3>3
  <2>2. CASE ~Mate(p)
    <3>1. post'[p] = post[p]
      BY <1>5, <2>2 DEF Opens
    <3> QED BY <2>2, <3>1 DEF Alike
  <2> QED BY <2>1, <2>2
<1>6. OneRow'
  <2>1. \A p \in Posts : post'[p].held = p =>
            /\ post[p].held = p /\ post'[p].want = post[p].want
            /\ post'[p].gone = post[p].gone
    BY <1>3, <1>4, <1>5, InteractionAssumption DEF Alike
  <2> QED BY <2>1, OneRowKept DEF RaceInv
<1>7. OnlySelf'
  <2> SUFFICES ASSUME NEW p \in Posts, NEW o \in Posts, p # o, Open(p)', Open(o)', post'[o].alone
               PROVE  post'[p].want.user # post'[o].want.user
    BY DEF OnlySelf
  <2>1. CASE o = q
    <3>1. alone /\ post'[o].want = x.want
      BY <1>1, <1>3, <1>4, <2>1
    <3>2. Open(p) /\ post'[p].want = post[p].want
      BY <1>5, <2>1 DEF Open, Alike
    <3> QED BY <3>1, <3>2
  <2>2. CASE p = q
    BY <1>3, <1>4, <1>5, <2>2 DEF Open, Alike
  <2>3. CASE o # q /\ p # q
    BY <1>5, <2>3 DEF Open, Alike, RaceInv, OnlySelf
  <2> QED BY <2>1, <2>2, <2>3
<1>8. SingleOK'
  BY <1>3, <1>4, <1>5 DEF SingleOK, RaceInv, Alike
<1>9. ASSUME NEW p \in Posts PROVE AloneOK(p, post[p])'
  <2>1. CASE p = q
    BY <1>3, <1>4, <2>1 DEF AloneOK
  <2>2. CASE p # q
    <3>1. AloneOK(p, post[p])
      BY DEF RaceInv
    <3> QED BY <1>5, <2>2, <3>1 DEF AloneOK, Alike
  <2> QED BY <2>1, <2>2
<1>10. ErrorNeedsARace'
  BY <1>3, <1>4, <1>5 DEF ErrorNeedsARace, RaceInv
<1> QED BY <1>6, <1>7, <1>8, <1>9, <1>10 DEF RaceInv

LEMMA RaceBegins ==
    ASSUME ActInv, RaceInv, NEW q \in Posts, PostBegins(q)
    PROVE  RaceInv'
<1>0. /\ IdlePost \in PostStates /\ IdlePost.held = NoId /\ IdlePost.result = "none"
  BY DEF IdlePost, PostStates, Wants, NoRow, Places, Results
<1>2. ASSUME NEW want \in Rows, Post(q, want) PROVE RaceInv'
  <2>1. PICK p \in {"snapshot", "find"} : p = IF want.action \in Stances THEN "snapshot" ELSE "find"
    OBVIOUS
  <2>2. PICK x : x = [IdlePost EXCEPT !.at = p, !.want = want]
    OBVIOUS
  <2>3. want \in Wants /\ p \in Places
    BY DEF Rows, Wants, Places
  <2>4. x \in PostStates /\ x.at = p /\ x.want = want /\ x.held = NoId /\ x.result = "none"
    BY <1>0, <2>2, <2>3 DEF PostStates
  <2>5. post[q].at = "idle" /\ post' = Opens(q, x) /\ UNCHANGED rowOf
    BY <1>2, <2>1, <2>2 DEF Post
  <2> QED BY <2>1, <2>4, <2>5, RaceOpens
<1>3. ASSUME NEW t \in Txs, NEW c \in Claims, NEW u \in Users,
             NEW action \in {"support", "dispute"}, Sync(q, u, c, action, t)
      PROVE  RaceInv'
  <2>1. PICK w : w = [user |-> u, action |-> action, claim |-> c]
    OBVIOUS
  <2>2. PICK x : x = [IdlePost EXCEPT !.at = "signal", !.tx = t, !.want = w]
    OBVIOUS
  <2>3. w \in Wants /\ "signal" \in Places
    BY <2>1 DEF Wants, Actions, Stances, Places
  <2>4. x \in PostStates /\ x.at = "signal" /\ x.held = NoId /\ x.result = "none"
    BY <1>0, <2>2, <2>3 DEF PostStates
  <2>5. post[q].at = "idle" /\ post' = Opens(q, x) /\ UNCHANGED rowOf
    BY <1>3, <2>1, <2>2 DEF Sync
  <2> QED BY <2>4, <2>5, RaceOpens
<1>4. ASSUME NEW u \in Users, NEW i \in Posts, Drop(q, u, i) PROVE RaceInv'
  <2>1. PICK w : w = [NoRow EXCEPT !.user = u]
    OBVIOUS
  <2>2. PICK x : x = [IdlePost EXCEPT !.at = "drop", !.found = i, !.want = w]
    OBVIOUS
  <2>3. w \in Wants /\ "drop" \in Places
    BY <2>1 DEF NoRow, Wants, Places
  <2>4. x \in PostStates /\ x.at = "drop" /\ x.held = NoId /\ x.result = "none"
    BY <1>0, <2>2, <2>3 DEF PostStates
  <2>5. post[q].at = "idle" /\ post' = Opens(q, x) /\ UNCHANGED rowOf
    BY <1>4, <2>1, <2>2 DEF Drop
  <2> QED BY <2>4, <2>5, RaceOpens
<1> QED BY <1>2, <1>3, <1>4 DEF PostBegins

LEMMA RaceStill ==
    ASSUME RaceInv, UNCHANGED <<rowOf, post>>
    PROVE  RaceInv'
<1>1. OneRow' /\ OnlySelf' /\ SingleOK' /\ ErrorNeedsARace'
  BY DEF RaceInv, OneRow, OnlySelf, SingleOK, ErrorNeedsARace, Live, Visible, Open
<1>2. \A q \in Posts : AloneOK(q, post[q])'
  BY DEF RaceInv, AloneOK
<1> QED BY <1>1, <1>2 DEF RaceInv

LEMMA RaceInitOK == ActInit => RaceInv
<1> SUFFICES ASSUME ActInit PROVE RaceInv
  OBVIOUS
<1>1. \A q \in Posts : /\ post[q].at = "idle" /\ post[q].held = NoId /\ post[q].result = "none"
                       /\ rowOf[q] = NoRow
  BY DEF ActInit, IdlePost
<1>2. OneRow
  BY <1>1, InteractionAssumption DEF OneRow, Live
<1>3. OnlySelf /\ SingleOK /\ ErrorNeedsARace /\ \A q \in Posts : AloneOK(q, post[q])
  BY <1>1 DEF OnlySelf, SingleOK, ErrorNeedsARace, AloneOK, Open
<1> QED BY <1>2, <1>3 DEF RaceInv

LEMMA RaceStepOK == ActInv /\ ActInv' /\ RaceInv /\ [ActNext]_actVars => RaceInv'
<1> SUFFICES ASSUME ActInv, ActInv', RaceInv, [ActNext]_actVars PROVE RaceInv'
  OBVIOUS
<1>1. ASSUME NEW q \in Posts, PostStep(q) PROVE RaceInv'
  BY <1>1, RaceSyncs, RaceDeletes, RaceFinds, RaceErrors, RaceUpdates, RaceInserts,
     RaceCommits, RacePuts, RaceDrops DEF PostStep
<1>2. CASE UNCHANGED <<rowOf, post>>
  BY <1>2, RaceStill
<1> QED BY <1>1, <1>2, RaceBegins DEF ActNext, PublishClaim, actVars

LEMMA AlwaysRaceInv == ActSpec => []RaceInv
BY RaceInitOK, RaceStepOK, InteractionsAreSound, PTL DEF ActSpec

(* A user has one stance on a claim at most, and each other row once: what *)
(* the transactions lock and wait for keeps the unique indexes.            *)
THEOREM OneStancePerClaim ==
    ActSpec => [](\A i, j \in Posts :
                    i # j /\ Live(i) /\ Live(j) => ~Collides(rowOf[i], rowOf[j]))
<1>1. RaceInv => \A i, j \in Posts :
                    i # j /\ Live(i) /\ Live(j) => ~Collides(rowOf[i], rowOf[j])
  BY DEF RaceInv, OneRow
<1> QED BY <1>1, AlwaysRaceInv, PTL

(* A stance or an action that fails on what it finds had another request   *)
(* of its user under way: alone, it replaces what there is, or finds it    *)
(* again, however many other users are at work.                            *)
THEOREM ErrorsComeOfRaces == ActSpec => []ErrorNeedsARace
<1>1. RaceInv => ErrorNeedsARace
  BY DEF RaceInv
<1> QED BY <1>1, AlwaysRaceInv, PTL

-----------------------------------------------------------------------------
(* IntuitionPublication, for any facts, terms, plans and runs: what is     *)
(* published, bound or reported is on the chain.                           *)

(* The shapes of the variables the proofs rest on.                         *)
PubShapes ==
    /\ row \in [Facts -> PubRows]
    /\ bound \in [Facts -> SUBSET Terms]
    /\ run \in [Runs -> RunStates]
    /\ sidecar \in [Runs -> Sidecars]

(* Every term of a fact exists; the terms before the k-th do; the row is   *)
(* published and all is bound.                                             *)
Exists(f) == \A j \in 1 .. Len(Plan[f]) : Plan[f][j] \in chain
ExistBefore(f, k) == \A j \in 1 .. Len(Plan[f]) : j < k => Plan[f][j] \in chain
BoundBefore(f, k) == \A j \in 1 .. Len(Plan[f]) : j < k => Plan[f][j] \in bound[f]
Backed(f) == /\ row[f].status = "published"
             /\ \A k \in 1 .. Len(Plan[f]) : Plan[f][k] \in bound[f]

(* What is true of a run with locals x whose sidecar is s.                 *)
RunOK(x, s) ==
    /\ x.at = "persist" => x.k >= 1
    /\ x.at \in {"publish", "await", "bind"} => x.k \in 1 .. Len(x.facts)
    /\ x.at = "await" => s.at # "none" /\ s.fact = x.facts[x.k]
    /\ x.at = "bind" =>
            /\ row[x.facts[x.k]].status = "published"
            /\ Exists(x.facts[x.k])
            /\ x.b \in 1 .. Len(Plan[x.facts[x.k]])
            /\ BoundBefore(x.facts[x.k], x.b)
    /\ \A f \in Facts : <<f, "published">> \in x.results => Backed(f)

(* What is true of a sidecar.                                              *)
SidecarOK(s) ==
    /\ s.at # "none" => s.fact \in Facts
    /\ s.at \notin {"none", "answered"} =>
            s.k \in 1 .. Len(Plan[s.fact]) /\ ExistBefore(s.fact, s.k)
    /\ s.at = "answered" => s.answer \in Answers
    /\ s.at = "answered" /\ s.answer = "published" => Exists(s.fact)

PubInv ==
    /\ PubShapes
    /\ PublishedIsOnChain
    /\ \A r \in Runs : RunOK(run[r], sidecar[r]) /\ SidecarOK(sidecar[r])

-----------------------------------------------------------------------------
LEMMA PlanFacts ==
    ASSUME NEW f \in Facts
    PROVE  /\ Plan[f] \in Seq(Terms) /\ Len(Plan[f]) \in Nat /\ 1 <= Len(Plan[f])
           /\ Vote[f] \in Terms
           /\ Exists(f) => Vote[f] \in chain
<1>1. Plan[f] \in Seq(Terms) /\ Vote[f] \in Terms
      /\ \E k \in 1 .. Len(Plan[f]) : Plan[f][k] = Vote[f]
  BY PublicationAssumption
<1> QED
  BY <1>1 DEF Exists

(* The fact a run is at.                                                   *)
LEMMA CurrentFact ==
    ASSUME NEW x \in RunStates, x.k \in 1 .. Len(x.facts)
    PROVE  x.facts[x.k] \in Facts
<1>1. x.facts \in Seq(Facts)
  BY PublicationAssumption DEF RunStates
<1> QED
  BY <1>1

(* What exists, is bound and is published never stops to be.               *)
Grows ==
    /\ chain \subseteq chain'
    /\ \A f \in Facts : bound[f] \subseteq bound'[f]
    /\ \A f \in Facts : row[f].status = "published" => row'[f] = row[f]

LEMMA RunStaysOK ==
    ASSUME NEW x \in RunStates, NEW s, RunOK(x, s), Grows
    PROVE  RunOK(x, s)'
<1>1. x.at = "bind" => x.facts[x.k] \in Facts
  BY CurrentFact DEF RunOK
<1>2. \A f \in Facts : Backed(f) => Backed(f)'
  BY DEF Grows, Backed
<1>3. \A f \in Facts : \A k : BoundBefore(f, k) => BoundBefore(f, k)'
  BY DEF Grows, BoundBefore
<1>4. \A f \in Facts : Exists(f) => Exists(f)'
  BY DEF Grows, Exists
<1>5. \A f \in Facts : row[f].status = "published" => row'[f].status = "published"
  BY DEF Grows
<1> QED
  BY <1>1, <1>2, <1>3, <1>4, <1>5 DEF RunOK

LEMMA SidecarStaysOK ==
    ASSUME NEW s, SidecarOK(s), Grows
    PROVE  SidecarOK(s)'
BY DEF SidecarOK, Grows, Exists, ExistBefore

(* One run and its sidecar move, the tables and the chain only grow.       *)
LEMMA PubMoves ==
    ASSUME PubInv, Grows, PublishedIsOnChain',
           row' \in [Facts -> PubRows], bound' \in [Facts -> SUBSET Terms],
           NEW r \in Runs, NEW x \in RunStates, NEW s \in Sidecars,
           run' = [run EXCEPT ![r] = x], sidecar' = [sidecar EXCEPT ![r] = s],
           RunOK(x, s)', SidecarOK(s)'
    PROVE  PubInv'
<1>1. PubShapes' /\ run'[r] = x /\ sidecar'[r] = s
      /\ \A q \in Runs : q # r => run'[q] = run[q] /\ sidecar'[q] = sidecar[q]
  BY DEF PubInv, PubShapes
<1>2. ASSUME NEW q \in Runs
      PROVE  RunOK(run[q], sidecar[q])' /\ SidecarOK(sidecar[q])'
  <2>1. CASE q = r
    BY <1>1, <2>1 DEF RunOK, SidecarOK
  <2>2. CASE q # r
    <3>1. PICK y \in RunStates, t \in Sidecars : y = run[q] /\ t = sidecar[q]
      BY DEF PubInv, PubShapes
    <3>2. RunOK(y, t) /\ SidecarOK(t) /\ run'[q] = y /\ sidecar'[q] = t
      BY <1>1, <2>2, <3>1 DEF PubInv
    <3>3. RunOK(y, t)' /\ SidecarOK(t)'
      BY <3>2, RunStaysOK, SidecarStaysOK
    <3> QED
      BY <3>2, <3>3 DEF RunOK, SidecarOK
  <2> QED
    BY <2>1, <2>2
<1> QED
  BY <1>1, <1>2 DEF PubInv

-----------------------------------------------------------------------------
(* The sidecar.                                                            *)

LEMMA SidecarTo ==
    ASSUME NEW s \in Sidecars, NEW p \in Stages
    PROVE  /\ [s EXCEPT !.at = p] \in Sidecars
           /\ [s EXCEPT !.at = p].at = p
           /\ [s EXCEPT !.at = p].fact = s.fact
           /\ [s EXCEPT !.at = p].k = s.k
           /\ [s EXCEPT !.at = p].answer = s.answer
BY DEF Sidecars

(* The sidecar moves, its fact the same; the rest is as it was.            *)
LEMMA SidecarMoves ==
    ASSUME PubInv, NEW r \in Runs, NEW s \in Sidecars,
           UNCHANGED <<row, bound, run, chain>>,
           sidecar' = [sidecar EXCEPT ![r] = s],
           sidecar[r].at # "none", s.at # "none", s.fact = sidecar[r].fact,
           SidecarOK(s)
    PROVE  PubInv'
<1>1. PICK x \in RunStates : x = run[r]
  BY DEF PubInv, PubShapes
<1>2. RunOK(x, sidecar[r])
  BY <1>1 DEF PubInv
<1>3. RunOK(x, s)
  BY <1>2 DEF RunOK
<1>4. RunOK(x, s)' /\ SidecarOK(s)'
  BY <1>3 DEF RunOK, SidecarOK, Exists, ExistBefore, BoundBefore, Backed
<1>5. run' = [run EXCEPT ![r] = x]
  BY <1>1 DEF PubInv, PubShapes
<1>6. Grows /\ PublishedIsOnChain'
        /\ row' \in [Facts -> PubRows] /\ bound' \in [Facts -> SUBSET Terms]
  BY DEF PubInv, PubShapes, Grows, PublishedIsOnChain
<1> QED
  BY <1>4, <1>5, <1>6, PubMoves

(* The next term, when the current one exists.                             *)
LEMMA NextTermOK ==
    ASSUME NEW r \in Runs, sidecar[r] \in Sidecars, SidecarOK(sidecar[r]),
           sidecar[r].at \notin {"none", "answered"}, Ensured(r) \in chain
    PROVE  /\ NextTerm(r) \in Sidecars /\ NextTerm(r).at # "none"
           /\ NextTerm(r).fact = sidecar[r].fact
           /\ SidecarOK(NextTerm(r))
<1> DEFINE s == sidecar[r]
           f == s.fact
<1>1. f \in Facts /\ s.k \in 1 .. Len(Plan[f]) /\ ExistBefore(f, s.k)
      /\ Plan[f][s.k] \in chain /\ Len(Plan[f]) \in Nat
  BY PlanFacts DEF SidecarOK, Ensured
<1>2. CASE s.k = Len(Plan[f])
  <2>1. Exists(f)
    <3>1. \A j \in 1 .. Len(Plan[f]) : j < s.k \/ j = s.k
      BY <1>1, <1>2
    <3> QED
      BY <1>1, <3>1 DEF Exists, ExistBefore
  <2>2. NextTerm(r) = [s EXCEPT !.at = "answered", !.answer = "published"]
    BY <1>2 DEF NextTerm, Answering
  <2>3. "published" \in Answers \cup {"none"} /\ "answered" \in Stages
    BY DEF Answers, Stages
  <2>4. NextTerm(r) \in Sidecars /\ NextTerm(r).at = "answered" /\ NextTerm(r).fact = f
        /\ NextTerm(r).answer = "published"
    BY <2>2, <2>3 DEF Sidecars
  <2> QED
    BY <1>1, <2>1, <2>4 DEF SidecarOK, Answers
<1>3. CASE s.k # Len(Plan[f])
  <2>1. NextTerm(r) = [s EXCEPT !.at = "resolve", !.k = s.k + 1]
    BY <1>3 DEF NextTerm
  <2>2. "resolve" \in Stages /\ s.k + 1 \in Nat
    BY <1>1 DEF Stages
  <2>3. /\ NextTerm(r) \in Sidecars /\ NextTerm(r).at = "resolve"
        /\ NextTerm(r).fact = f /\ NextTerm(r).k = s.k + 1
    BY <2>1, <2>2 DEF Sidecars
  <2>4. ExistBefore(f, s.k + 1)
    <3>1. \A j \in 1 .. Len(Plan[f]) : j < s.k + 1 => j < s.k \/ j = s.k
      BY <1>1
    <3> QED
      BY <1>1, <3>1 DEF ExistBefore
  <2>5. s.k + 1 \in 1 .. Len(Plan[f])
    BY <1>1, <1>3
  <2> QED
    BY <1>1, <2>3, <2>4, <2>5 DEF SidecarOK
<1> QED
  BY <1>2, <1>3

LEMMA SidecarSteps ==
    ASSUME PubInv, NEW r \in Runs, SidecarStep(r), ~SidecarDies(r)
    PROVE  PubInv'
<1> DEFINE s == sidecar[r]
           to(p) == [s EXCEPT !.at = p]
           answer(a) == [s EXCEPT !.at = "answered", !.answer = a]
<1>1. s \in Sidecars /\ SidecarOK(s) /\ s.at \notin {"none", "answered"}
      /\ UNCHANGED <<row, bound, run, chain>>
  BY DEF PubInv, PubShapes, SidecarStep, PinAtoms, PinFails, SidecarFails, CheckTerm,
         SendCreate, ReceiptArrives, VerifyTerm
<1>2. CASE \E a \in {"pin_failed", "failed"} : sidecar' = [sidecar EXCEPT ![r] = answer(a)]
  <2> PICK a \in {"pin_failed", "failed"} : sidecar' = [sidecar EXCEPT ![r] = answer(a)]
    BY <1>2
  <2>1. a \in Answers \cup {"none"} /\ "answered" \in Stages
    BY DEF Answers, Stages
  <2>2. /\ answer(a) \in Sidecars /\ answer(a).at = "answered" /\ answer(a).answer = a
        /\ answer(a).fact = s.fact
    BY <1>1, <2>1 DEF Sidecars
  <2> HIDE DEF answer
  <2>3. PICK t \in Sidecars : t = answer(a)
    BY <2>2
  <2>4. SidecarOK(t)
    BY <1>1, <2>2, <2>3 DEF SidecarOK, Answers
  <2> QED
    BY <1>1, <2>2, <2>3, <2>4, SidecarMoves
<1>3. CASE \E p \in {"resolve", "send", "wait", "verify"} :
                sidecar' = [sidecar EXCEPT ![r] = to(p)]
  <2> PICK p \in {"resolve", "send", "wait", "verify"} :
                sidecar' = [sidecar EXCEPT ![r] = to(p)]
    BY <1>3
  <2>1. p \in Stages
    BY DEF Stages
  <2>2. PICK t \in Sidecars : /\ t = to(p) /\ t.at = p /\ t.fact = s.fact /\ t.k = s.k
    BY <1>1, <2>1, SidecarTo
  <2>3. SidecarOK(t)
    BY <1>1, <2>2 DEF SidecarOK
  <2> QED
    BY <1>1, <2>2, <2>3, SidecarMoves
<1>4. CASE Ensured(r) \in chain /\ sidecar' = [sidecar EXCEPT ![r] = NextTerm(r)]
  <2>1. PICK t \in Sidecars : t = NextTerm(r) /\ t.at # "none" /\ t.fact = s.fact
                              /\ SidecarOK(t)
    BY <1>1, <1>4, NextTermOK DEF SidecarOK
  <2> QED
    BY <1>1, <1>4, <2>1, SidecarMoves
<1> QED
  BY <1>2, <1>3, <1>4 DEF SidecarStep, PinAtoms, PinFails, SidecarFails, CheckTerm,
     SendCreate, ReceiptArrives, VerifyTerm, Answering

(* A transaction is mined.                                                 *)
LEMMA MinedStep ==
    ASSUME PubInv, UNCHANGED <<row, bound, run, sidecar>>, chain \subseteq chain'
    PROVE  PubInv'
<1>1. Grows /\ PublishedIsOnChain' /\ PubShapes'
  BY DEF PubInv, PubShapes, Grows, PublishedIsOnChain
<1>2. ASSUME NEW q \in Runs PROVE RunOK(run[q], sidecar[q])' /\ SidecarOK(sidecar[q])'
  <2>1. PICK y \in RunStates, t \in Sidecars : y = run[q] /\ t = sidecar[q]
    BY DEF PubInv, PubShapes
  <2>2. RunOK(y, t) /\ SidecarOK(t) /\ run'[q] = y /\ sidecar'[q] = t
    BY <2>1 DEF PubInv
  <2>3. RunOK(y, t)' /\ SidecarOK(t)'
    BY <1>1, <2>2, RunStaysOK, SidecarStaysOK
  <2> QED
    BY <2>2, <2>3 DEF RunOK, SidecarOK
<1> QED
  BY <1>1, <1>2 DEF PubInv

-----------------------------------------------------------------------------
(* The run.                                                                *)

(* What the updates of a run's locals leave.                               *)
LEMMA RunAt ==
    ASSUME NEW x \in RunStates, NEW p \in RunPlaces, NEW y, y = [x EXCEPT !.at = p]
    PROVE  /\ y \in RunStates /\ y.at = p
           /\ y.facts = x.facts /\ y.k = x.k /\ y.b = x.b /\ y.results = x.results
BY DEF RunStates

LEMMA RunBinds ==
    ASSUME NEW x \in RunStates, NEW b \in Nat, NEW y, y = [x EXCEPT !.b = b]
    PROVE  /\ y \in RunStates /\ y.at = x.at
           /\ y.facts = x.facts /\ y.k = x.k /\ y.b = b /\ y.results = x.results
BY DEF RunStates

LEMMA RunOver ==
    ASSUME NEW r, NEW p \in RunPlaces, NEW res \in SUBSET (Facts \X Answers), NEW y,
           y = Over(r, p, res)
    PROVE  y \in RunStates /\ y.at = p /\ y.results = res
BY DEF Over, IdleRun, RunStates

(* A run reports a fact, whose row backs the report, and goes on.          *)
LEMMA ReportedOK ==
    ASSUME NEW r \in Runs, run[r] \in RunStates, run[r].k \in 1 .. Len(run[r].facts),
           NEW a \in Answers, NEW y, y = Reported(r, a), NEW s,
           \A f \in Facts : <<f, "published">> \in run[r].results => Backed(f)',
           NEW f0, f0 = Current(r), a = "published" => Backed(f0)'
    PROVE  y \in RunStates /\ RunOK(y, s)'
<1> DEFINE x == run[r]
           res == x.results \cup {<<f0, a>>}
<1>1. f0 \in Facts
  BY CurrentFact DEF Current
<1>2. res \in SUBSET (Facts \X Answers)
  BY <1>1 DEF RunStates
<1>3. \A f \in Facts : <<f, "published">> \in res => Backed(f)'
  OBVIOUS
<1>4. CASE x.k = Len(x.facts)
  <2>1. y = Over(r, "done", res) /\ "done" \in RunPlaces
    BY <1>4 DEF Reported, RunPlaces
  <2>2. y \in RunStates /\ y.at = "done" /\ y.results = res
    <3> HIDE DEF res
    <3> QED
      BY <1>2, <2>1, RunOver
  <2> QED
    BY <1>3, <2>2 DEF RunOK
<1>5. CASE x.k # Len(x.facts)
  <2>1. y = [x EXCEPT !.at = "publish", !.k = x.k + 1, !.results = res]
    BY <1>5 DEF Reported
  <2>2. "publish" \in RunPlaces /\ x.k + 1 \in Nat
    BY DEF RunPlaces
  <2>3. y \in RunStates /\ y.at = "publish" /\ y.results = res /\ y.k = x.k + 1
        /\ y.facts = x.facts
    <3> HIDE DEF res
    <3> QED
      BY <1>2, <2>1, <2>2 DEF RunStates
  <2>4. x.k + 1 \in 1 .. Len(x.facts)
    BY <1>5, PublicationAssumption DEF RunStates
  <2> QED
    BY <1>3, <2>3, <2>4 DEF RunOK
<1> QED
  BY <1>4, <1>5

(* A run moves while its sidecar stays.                                    *)
LEMMA RunMoves ==
    ASSUME PubInv, Grows, PublishedIsOnChain', UNCHANGED sidecar,
           row' \in [Facts -> PubRows], bound' \in [Facts -> SUBSET Terms],
           NEW r \in Runs, NEW x \in RunStates, run' = [run EXCEPT ![r] = x],
           NEW s, s = sidecar[r], RunOK(x, s)'
    PROVE  PubInv'
<1>1. s \in Sidecars /\ sidecar' = [sidecar EXCEPT ![r] = s] /\ SidecarOK(s)
  BY DEF PubInv, PubShapes
<1>2. SidecarOK(s)'
  BY <1>1, SidecarStaysOK
<1> QED
  BY <1>1, <1>2, PubMoves

(* Steps that leave the tables and the chain as they are.                  *)
LEMMA Still ==
    ASSUME PubInv, UNCHANGED <<row, bound, chain>>
    PROVE  /\ Grows /\ PublishedIsOnChain'
           /\ row' \in [Facts -> PubRows] /\ bound' \in [Facts -> SUBSET Terms]
           /\ \A f \in Facts : Backed(f) => Backed(f)'
BY DEF PubInv, PubShapes, Grows, PublishedIsOnChain, Backed

LEMMA QuietRunSteps ==
    ASSUME PubInv, NEW r \in Runs,
           \/ \E facts \in Collections, live \in BOOLEAN : StartRun(r, facts, live)
           \/ AllPersisted(r) \/ RunDies(r)
    PROVE  PubInv'
<1> DEFINE x == run[r]
<1>1. PICK s : s = sidecar[r]
  OBVIOUS
<1>2. x \in RunStates /\ RunOK(x, s) /\ UNCHANGED <<row, bound, chain, sidecar>>
  BY <1>1 DEF PubInv, PubShapes, StartRun, AllPersisted, RunDies
<1>3. \A f \in Facts : <<f, "published">> \in x.results => Backed(f)'
  BY <1>2, Still DEF RunOK
<1>4. {"persist", "publish", "done", "dead"} \subseteq RunPlaces
  BY DEF RunPlaces
<1>5. ASSUME NEW facts \in Collections, NEW live \in BOOLEAN, StartRun(r, facts, live)
      PROVE  PubInv'
  <2>1. PICK y : y = [x EXCEPT !.at = "persist", !.live = live, !.facts = facts, !.k = 1]
    OBVIOUS
  <2>2. y \in RunStates /\ y.at = "persist" /\ y.k = 1 /\ y.results = x.results
    BY <1>2, <1>4, <2>1 DEF RunStates
  <2>3. RunOK(y, s)'
    BY <1>3, <2>2 DEF RunOK
  <2>4. run' = [run EXCEPT ![r] = y]
    BY <1>5, <2>1 DEF StartRun
  <2> QED
    BY <1>1, <1>2, <2>2, <2>3, <2>4, Still, RunMoves
<1>6. ASSUME NEW p \in {"done", "dead"}, NEW res \in {{}, x.results},
             run' = [run EXCEPT ![r] = Over(r, p, res)]
      PROVE  PubInv'
  <2>1. PICK y : y = Over(r, p, res)
    OBVIOUS
  <2>2. res \in SUBSET (Facts \X Answers)
    BY <1>2 DEF RunStates
  <2>3. y \in RunStates /\ y.at = p /\ y.results = res
    BY <1>4, <2>1, <2>2, RunOver
  <2>4. RunOK(y, s)'
    BY <1>3, <2>3 DEF RunOK
  <2> QED
    BY <1>1, <1>2, <1>6, <2>1, <2>3, <2>4, Still, RunMoves
<1>7. CASE /\ x.facts # <<>>
           /\ run' = [run EXCEPT ![r] = [x EXCEPT !.at = "publish", !.k = 1]]
  <2>1. PICK y : y = [x EXCEPT !.at = "publish", !.k = 1]
    OBVIOUS
  <2>2. /\ y \in RunStates /\ y.at = "publish" /\ y.k = 1 /\ y.facts = x.facts
        /\ y.results = x.results
    <3>1. x \in RunStates /\ "publish" \in RunPlaces /\ 1 \in Nat
      BY <1>2, <1>4
    <3> QED
      BY <2>1, <3>1 DEF RunStates
  <2>3. 1 \in 1 .. Len(x.facts)
    BY <1>2, <1>7, PublicationAssumption DEF RunStates
  <2>4. RunOK(y, s)'
    BY <1>3, <2>2, <2>3 DEF RunOK
  <2> QED
    BY <1>1, <1>2, <1>7, <2>1, <2>2, <2>4, Still, RunMoves
<1> QED
  BY <1>5, <1>6, <1>7 DEF AllPersisted, RunDies

(* An upsert leaves a published row, and publishes none.                   *)
LEMMA PersistStep ==
    ASSUME PubInv, NEW r \in Runs, PersistPending(r)
    PROVE  PubInv'
<1> DEFINE x == run[r]
<1>1. PICK s : s = sidecar[r]
  OBVIOUS
<1>2. /\ x \in RunStates /\ RunOK(x, s) /\ x.at = "persist" /\ x.k <= Len(x.facts)
      /\ UNCHANGED <<bound, chain, sidecar>>
  BY <1>1 DEF PubInv, PubShapes, PersistPending
<1>3. x.k \in 1 .. Len(x.facts)
  BY <1>2, PublicationAssumption DEF RunOK, RunStates
<1>4. PICK f \in Facts : f = Current(r)
  BY <1>2, <1>3, CurrentFact DEF Current
<1>5. row' = [row EXCEPT ![f] = Upserted(row[f])] /\ row[f] \in PubRows
      /\ row \in [Facts -> PubRows]
  BY <1>4 DEF PersistPending, PubInv, PubShapes
<1>6. /\ Upserted(row[f]) \in PubRows
      /\ row[f].status = "published" => Upserted(row[f]) = row[f]
      /\ row[f].status # "published" => Upserted(row[f]).status = "pending"
  BY <1>5 DEF Upserted, PubRows, Statuses
<1>7. Grows /\ PublishedIsOnChain'
      /\ row' \in [Facts -> PubRows] /\ bound' \in [Facts -> SUBSET Terms]
  BY <1>2, <1>5, <1>6 DEF PubInv, PubShapes, Grows, PublishedIsOnChain
<1>8. PICK y : y = [x EXCEPT !.k = x.k + 1]
  OBVIOUS
<1>9. y \in RunStates /\ y.at = "persist" /\ y.k = x.k + 1 /\ y.results = x.results
  <2>1. x \in RunStates /\ x.k + 1 \in Nat /\ x.at = "persist"
    BY <1>2, <1>3
  <2> QED
    BY <1>8, <2>1 DEF RunStates
<1>10. RunOK(y, s)'
  <2>1. \A g \in Facts : <<g, "published">> \in x.results => Backed(g)'
    BY <1>2, <1>7 DEF RunOK, Grows, Backed
  <2> QED
    BY <1>3, <1>9, <2>1 DEF RunOK
<1>11. run' = [run EXCEPT ![r] = y]
  BY <1>8 DEF PersistPending
<1> QED
  BY <1>1, <1>2, <1>7, <1>9, <1>10, <1>11, RunMoves

LEMMA SpawnStep ==
    ASSUME PubInv, NEW r \in Runs, SpawnSidecar(r)
    PROVE  PubInv'
<1> DEFINE x == run[r]
<1>1. x \in RunStates /\ x.at = "publish" /\ RunOK(x, sidecar[r])
      /\ UNCHANGED <<row, bound, chain>>
  BY DEF PubInv, PubShapes, SpawnSidecar
<1>2. x.k \in 1 .. Len(x.facts)
  BY <1>1 DEF RunOK
<1>3. PICK f \in Facts : f = Current(r) /\ f = x.facts[x.k]
  BY <1>1, <1>2, CurrentFact DEF Current
<1>4. PICK y : y = [x EXCEPT !.at = "await"]
  OBVIOUS
<1>5. /\ y \in RunStates /\ y.at = "await" /\ y.k = x.k /\ y.facts = x.facts
      /\ y.results = x.results
  BY <1>1, <1>4, RunAt DEF RunPlaces
<1>6. PICK s : s = [at |-> "pin", fact |-> f, k |-> 1, answer |-> "none"]
  OBVIOUS
<1>7. s \in Sidecars /\ s.at = "pin" /\ s.fact = f /\ s.k = 1
  BY <1>6 DEF Sidecars, Stages
<1>8. SidecarOK(s)'
  <2>1. 1 \in 1 .. Len(Plan[f])
    BY PlanFacts
  <2> QED
    BY <1>7, <2>1 DEF SidecarOK, ExistBefore
<1>9. RunOK(y, s)'
  <2>1. \A g \in Facts : <<g, "published">> \in x.results => Backed(g)'
    BY <1>1, Still DEF RunOK
  <2> QED
    BY <1>2, <1>3, <1>5, <1>7, <2>1 DEF RunOK
<1>10. run' = [run EXCEPT ![r] = y] /\ sidecar' = [sidecar EXCEPT ![r] = s]
  BY <1>3, <1>4, <1>6 DEF SpawnSidecar
<1> QED
  BY <1>1, <1>5, <1>7, <1>8, <1>9, <1>10, Still, PubMoves

(* What an answered sidecar says of the fact of its run.                   *)
LEMMA AnsweredFact ==
    ASSUME PubInv, NEW r \in Runs, Answered(r)
    PROVE  /\ run[r] \in RunStates /\ run[r].k \in 1 .. Len(run[r].facts)
           /\ Current(r) \in Facts /\ Current(r) = run[r].facts[run[r].k]
           /\ RunOK(run[r], sidecar[r])
           /\ sidecar[r].answer = "published" => Exists(Current(r))
           /\ sidecar[r].answer \in Answers
<1>1. /\ run[r] \in RunStates /\ sidecar[r] \in Sidecars
      /\ RunOK(run[r], sidecar[r]) /\ SidecarOK(sidecar[r])
  BY DEF PubInv, PubShapes
<1>2. run[r].k \in 1 .. Len(run[r].facts) /\ sidecar[r].fact = run[r].facts[run[r].k]
  BY <1>1 DEF Answered, RunOK
<1>3. Current(r) \in Facts /\ Current(r) = run[r].facts[run[r].k]
  BY <1>1, <1>2, CurrentFact DEF Current
<1>4. sidecar[r].answer = "published" => Exists(Current(r))
  BY <1>1, <1>2, <1>3 DEF Answered, SidecarOK
<1> QED
  BY <1>1, <1>2, <1>3, <1>4 DEF SidecarOK, Answered

(* No sidecar is fine for any run that does not wait for one.              *)
LEMMA NoSidecarOK == NoSidecar \in Sidecars /\ SidecarOK(NoSidecar)'
BY DEF NoSidecar, Sidecars, Stages, SidecarOK

LEMMA MarkRetryableStep ==
    ASSUME PubInv, NEW r \in Runs, MarkRetryable(r)
    PROVE  PubInv'
<1> DEFINE x == run[r]
           a == sidecar[r].answer
<1>1. /\ x \in RunStates /\ x.k \in 1 .. Len(x.facts) /\ Current(r) \in Facts
      /\ RunOK(x, sidecar[r]) /\ a \in Answers
      /\ a # "published" /\ UNCHANGED <<bound, chain>>
  BY AnsweredFact DEF MarkRetryable
<1>2. PICK f \in Facts : f = Current(r)
  BY <1>1
<1>3. row' = [row EXCEPT ![f] = Retryable(row[f], a)] /\ row[f] \in PubRows
      /\ row \in [Facts -> PubRows]
  BY <1>2 DEF MarkRetryable, PubInv, PubShapes
<1>4. /\ Retryable(row[f], a) \in PubRows
      /\ row[f].status = "published" => Retryable(row[f], a) = row[f]
      /\ row[f].status # "published" => Retryable(row[f], a).status = a
  <2>1. a \in Statuses
    BY <1>1 DEF Answers, Statuses
  <2> QED
    BY <1>3, <2>1 DEF Retryable, PubRows
<1>5. Grows /\ PublishedIsOnChain'
      /\ row' \in [Facts -> PubRows] /\ bound' \in [Facts -> SUBSET Terms]
  <2>1. \A g \in Facts : row'[g].status = "published" => row'[g] = row[g]
    BY <1>1, <1>3, <1>4
  <2> QED
    BY <1>1, <1>3, <1>4, <2>1 DEF PubInv, PubShapes, Grows, PublishedIsOnChain
<1>6. \A g \in Facts : <<g, "published">> \in x.results => Backed(g)'
  BY <1>1, <1>5 DEF RunOK, Grows, Backed
<1>7. PICK y : y = Reported(r, a)
  OBVIOUS
<1>8. PICK s : s = NoSidecar
  OBVIOUS
<1>9. y \in RunStates /\ RunOK(y, s)'
  BY <1>1, <1>2, <1>6, <1>7, ReportedOK
<1>10. s \in Sidecars /\ SidecarOK(s)'
  BY <1>8, NoSidecarOK DEF SidecarOK
<1>11. run' = [run EXCEPT ![r] = y] /\ sidecar' = [sidecar EXCEPT ![r] = s]
  BY <1>7, <1>8 DEF MarkRetryable
<1> QED
  BY <1>5, <1>9, <1>10, <1>11, PubMoves

(* A row becomes published once all its terms exist.                       *)
LEMMA MarkPublishedStep ==
    ASSUME PubInv, NEW r \in Runs, MarkPublished(r)
    PROVE  PubInv'
<1> DEFINE x == run[r]
<1>1. /\ x \in RunStates /\ x.k \in 1 .. Len(x.facts) /\ Current(r) \in Facts
      /\ Current(r) = x.facts[x.k] /\ RunOK(x, sidecar[r])
      /\ Exists(Current(r)) /\ UNCHANGED <<bound, chain>>
  BY AnsweredFact DEF MarkPublished
<1>2. PICK f \in Facts : f = Current(r)
  BY <1>1
<1>3. PICK new : new = IF row[f].status = "published" THEN row[f]
                       ELSE [status |-> "published", triple |-> Vote[f]]
  OBVIOUS
<1>4. row' = [row EXCEPT ![f] = new] /\ row[f] \in PubRows
      /\ row \in [Facts -> PubRows]
  BY <1>2, <1>3 DEF MarkPublished, PubInv, PubShapes
<1>5. Vote[f] \in Terms /\ Vote[f] \in chain
  BY <1>1, <1>2, PlanFacts
<1>6. /\ new \in PubRows /\ new.status = "published"
      /\ row[f].status = "published" => new = row[f]
      /\ new.triple = Vote[f]
  BY <1>3, <1>4, <1>5 DEF PubRows, Statuses, PubInv, PublishedIsOnChain
<1>7. Grows /\ PublishedIsOnChain'
      /\ row' \in [Facts -> PubRows] /\ bound' \in [Facts -> SUBSET Terms]
  BY <1>1, <1>4, <1>5, <1>6 DEF PubInv, PubShapes, Grows, PublishedIsOnChain
<1>8. PICK y : y = [x EXCEPT !.at = "bind", !.b = 1]
  OBVIOUS
<1>9. /\ y \in RunStates /\ y.at = "bind" /\ y.b = 1 /\ y.k = x.k
      /\ y.facts = x.facts /\ y.results = x.results
  <2>1. "bind" \in RunPlaces /\ x \in RunStates /\ 1 \in Nat
    BY <1>1 DEF RunPlaces
  <2> QED
    BY <1>8, <2>1 DEF RunStates
<1>10. PICK s : s = NoSidecar
  OBVIOUS
<1>11. RunOK(y, s)'
  <2>1. \A g \in Facts : <<g, "published">> \in x.results => Backed(g)'
    BY <1>1, <1>7 DEF RunOK, Grows, Backed
  <2>2. row'[f].status = "published" /\ Exists(f)' /\ BoundBefore(f, 1)'
    BY <1>1, <1>2, <1>4, <1>6 DEF Exists, BoundBefore
  <2>3. 1 \in 1 .. Len(Plan[f])
    BY PlanFacts
  <2> QED
    BY <1>1, <1>2, <1>9, <2>1, <2>2, <2>3 DEF RunOK
<1>12. s \in Sidecars /\ SidecarOK(s)'
  BY <1>10, NoSidecarOK DEF SidecarOK
<1>13. run' = [run EXCEPT ![r] = y] /\ sidecar' = [sidecar EXCEPT ![r] = s]
  BY <1>8, <1>10 DEF MarkPublished
<1> QED
  BY <1>7, <1>9, <1>11, <1>12, <1>13, PubMoves

(* A term is bound; with the last one the fact is reported.                *)
LEMMA BindStep ==
    ASSUME PubInv, NEW r \in Runs, BindTerm(r)
    PROVE  PubInv'
<1> DEFINE x == run[r]
<1>1. PICK s : s = sidecar[r]
  OBVIOUS
<1>2. /\ x \in RunStates /\ x.at = "bind" /\ RunOK(x, s)
      /\ UNCHANGED <<row, chain, sidecar>>
  BY <1>1 DEF PubInv, PubShapes, BindTerm
<1>3. x.k \in 1 .. Len(x.facts)
  BY <1>2 DEF RunOK
<1>4. PICK f \in Facts : f = Current(r) /\ f = x.facts[x.k]
  BY <1>2, <1>3, CurrentFact DEF Current
<1>5. /\ row[f].status = "published" /\ Exists(f) /\ x.b \in 1 .. Len(Plan[f])
      /\ BoundBefore(f, x.b) /\ Plan[f] \in Seq(Terms)
  BY <1>2, <1>4, PlanFacts DEF RunOK
<1>6. PICK t \in Terms : t = Plan[f][x.b] /\ t \in chain
  BY <1>5 DEF Exists
<1>7. bound' = [bound EXCEPT ![f] = bound[f] \cup {t}]
      /\ bound \in [Facts -> SUBSET Terms]
  BY <1>4, <1>6 DEF BindTerm, PubInv, PubShapes
<1>8. Grows /\ PublishedIsOnChain'
      /\ row' \in [Facts -> PubRows] /\ bound' \in [Facts -> SUBSET Terms]
  BY <1>2, <1>6, <1>7 DEF PubInv, PubShapes, Grows, PublishedIsOnChain
<1>9. PICK b \in Nat : b = x.b
  BY <1>5
<1>10. BoundBefore(f, b + 1)'
  <2>1. \A j \in 1 .. Len(Plan[f]) : j < x.b + 1 => j < x.b \/ j = x.b
    BY <1>5
  <2> QED
    BY <1>5, <1>6, <1>7, <1>9, <2>1 DEF BoundBefore
<1>11. \A g \in Facts : <<g, "published">> \in x.results => Backed(g)'
  BY <1>2, <1>8 DEF RunOK, Grows, Backed
<1>12. CASE x.b = Len(Plan[f])
  <2>1. PICK y : y = Reported(r, "published")
    OBVIOUS
  <2>2. run' = [run EXCEPT ![r] = y]
    BY <1>4, <1>12, <2>1 DEF BindTerm
  <2>3. Backed(f)'
    <3>1. \A j \in 1 .. Len(Plan[f]) : j < b + 1
      BY <1>5, <1>12, <1>9
    <3> QED
      BY <1>2, <1>5, <1>10, <3>1 DEF Backed, BoundBefore
  <2>4. "published" \in Answers
    BY DEF Answers
  <2>5. y \in RunStates /\ RunOK(y, s)'
    BY <1>2, <1>3, <1>4, <1>11, <2>1, <2>3, <2>4, ReportedOK
  <2> QED
    BY <1>1, <1>2, <1>8, <2>2, <2>5, RunMoves
<1>13. CASE x.b # Len(Plan[f])
  <2>1. PICK y : y = [x EXCEPT !.b = x.b + 1]
    OBVIOUS
  <2>2. run' = [run EXCEPT ![r] = y]
    BY <1>4, <1>13, <2>1 DEF BindTerm
  <2>3. /\ y \in RunStates /\ y.at = "bind" /\ y.b = x.b + 1 /\ y.k = x.k
        /\ y.facts = x.facts /\ y.results = x.results
    <3>1. x.b + 1 \in Nat
      BY <1>5
    <3> QED
      BY <1>2, <2>1, <3>1 DEF RunStates
  <2>4. x.b + 1 \in 1 .. Len(Plan[f])
    BY <1>5, <1>13
  <2>5. row'[f].status = "published" /\ Exists(f)'
    BY <1>2, <1>5 DEF Exists
  <2>6. RunOK(y, s)'
    BY <1>3, <1>4, <1>10, <1>11, <1>9, <2>3, <2>4, <2>5 DEF RunOK
  <2> QED
    BY <1>1, <1>2, <1>8, <2>2, <2>3, <2>6, RunMoves
<1> QED
  BY <1>12, <1>13

LEMMA SidecarDiesStep ==
    ASSUME PubInv, NEW r \in Runs, SidecarDies(r)
    PROVE  PubInv'
<1> DEFINE x == run[r]
<1>1. x \in RunStates /\ RunOK(x, sidecar[r]) /\ UNCHANGED <<row, bound, chain>>
  BY DEF PubInv, PubShapes, SidecarDies
<1>2. PICK y : y = Over(r, "dead", x.results)
  OBVIOUS
<1>3. PICK s : s = NoSidecar
  OBVIOUS
<1>4. y \in RunStates /\ y.at = "dead" /\ y.results = x.results
  <2>1. x.results \in SUBSET (Facts \X Answers) /\ "dead" \in RunPlaces
    BY <1>1 DEF RunStates, RunPlaces
  <2> QED
    BY <1>2, <2>1, RunOver
<1>5. RunOK(y, s)'
  <2>1. \A g \in Facts : <<g, "published">> \in x.results => Backed(g)'
    BY <1>1, Still DEF RunOK
  <2> QED
    BY <1>4, <2>1 DEF RunOK
<1>6. s \in Sidecars /\ SidecarOK(s)'
  BY <1>3, NoSidecarOK DEF SidecarOK
<1>7. run' = [run EXCEPT ![r] = y] /\ sidecar' = [sidecar EXCEPT ![r] = s]
  BY <1>2, <1>3 DEF SidecarDies
<1> QED
  BY <1>1, <1>4, <1>5, <1>6, <1>7, Still, PubMoves

-----------------------------------------------------------------------------
(* The invariant holds at the start, every step keeps it, so it always     *)
(* holds.                                                                  *)
LEMMA PubInitOK == PubInit => PubInv
<1> SUFFICES ASSUME PubInit PROVE PubInv
  OBVIOUS
<1>1. \A f \in Facts : row[f].status = "absent" /\ bound[f] = {}
  BY DEF PubInit
<1>2. row \in [Facts -> PubRows] /\ bound \in [Facts -> SUBSET Terms]
  BY DEF PubInit, PubRows, Statuses
<1>3. IdleRun \in RunStates /\ NoSidecar \in Sidecars
  BY DEF IdleRun, RunStates, RunPlaces, NoSidecar, Sidecars, Stages
<1>4. run \in [Runs -> RunStates] /\ sidecar \in [Runs -> Sidecars]
  BY <1>3 DEF PubInit
<1>5. ASSUME NEW r \in Runs PROVE RunOK(run[r], sidecar[r]) /\ SidecarOK(sidecar[r])
  BY DEF PubInit, RunOK, SidecarOK, IdleRun, NoSidecar
<1> QED
  BY <1>1, <1>2, <1>4, <1>5 DEF PubInv, PubShapes, PublishedIsOnChain

LEMMA PubStepOK == PubInv /\ [PubNext]_pubVars => PubInv'
<1> SUFFICES ASSUME PubInv, [PubNext]_pubVars PROVE PubInv'
  OBVIOUS
<1>1. ASSUME NEW r \in Runs, RunStep(r) PROVE PubInv'
  BY <1>1, QuietRunSteps, PersistStep, SpawnStep, MarkRetryableStep, MarkPublishedStep,
     BindStep DEF RunStep
<1>2. ASSUME NEW r \in Runs, SidecarStep(r) PROVE PubInv'
  BY <1>2, SidecarSteps, SidecarDiesStep
<1>3. ASSUME NEW x \in Runs \X Facts \X Terms, NEW outcome \in {"mined", "reverted"},
             Mined(x, outcome)
      PROVE  PubInv'
  BY <1>3, MinedStep DEF Mined
<1>4. CASE UNCHANGED pubVars
  BY <1>4, MinedStep DEF pubVars
<1> QED
  BY <1>1, <1>2, <1>3, <1>4 DEF PubNext

(* The inductive invariant: what a run and its sidecar know at each point  *)
(* of their code, and that rows, bindings and chain only grow.             *)
THEOREM PublicationIsSound == PubSpec => []PubInv
BY PubInitOK, PubStepOK, PTL DEF PubSpec

(* A transaction is sent for a term of the fact that its sidecar is at.    *)
LEMMA CreationType ==
    ASSUME PubInv, NEW r \in Runs, sidecar[r].at = "send"
    PROVE  Creation(r) \in Runs \X Facts \X Terms
<1>1. sidecar[r].fact \in Facts /\ sidecar[r].k \in 1 .. Len(Plan[sidecar[r].fact])
  BY DEF PubInv, SidecarOK
<1>2. Plan[sidecar[r].fact] \in Seq(Terms)
  BY <1>1, PlanFacts
<1>3. Ensured(r) \in Terms
  BY <1>1, <1>2 DEF Ensured
<1> QED BY <1>1, <1>3 DEF Creation

(* Every variable of the publication keeps its type: the rows, the runs    *)
(* and sidecars, and the external chain with its transactions.             *)
THEOREM PublicationTypes == PubSpec => []PubTypeOK
<1> DEFINE ChainOK == /\ chain \subseteq Terms
                      /\ sent \in [Runs \X Facts \X Terms
                                     -> {"none", "pending", "mined", "reverted"}]
<1>1. PubInit => ChainOK
  BY DEF PubInit
<1>2. ASSUME PubInv, ChainOK, [PubNext]_pubVars PROVE ChainOK'
  <2>1. CASE \E r \in Runs : SendCreate(r)
    <3>1. PICK r \in Runs : SendCreate(r)
      BY <2>1
    <3>2. Creation(r) \in Runs \X Facts \X Terms
      BY <1>2, <3>1, CreationType DEF SendCreate
    <3> QED BY <1>2, <3>1, <3>2 DEF SendCreate
  <2>2. CASE \E x \in Runs \X Facts \X Terms, outcome \in {"mined", "reverted"} :
                Mined(x, outcome)
    <3>1. PICK x \in Runs \X Facts \X Terms, outcome \in {"mined", "reverted"} :
             Mined(x, outcome)
      BY <2>2
    <3>2. x[3] \in Terms
      OBVIOUS
    <3> QED BY <1>2, <3>1, <3>2 DEF Mined
  <2>3. CASE UNCHANGED <<chain, sent>>
    BY <1>2, <2>3
  <2> QED
    BY <1>2, <2>1, <2>2, <2>3 DEF PubNext, RunStep, SidecarStep, StartRun, PersistPending,
       AllPersisted, SpawnSidecar, MarkRetryable, MarkPublished, BindTerm, RunDies, PinAtoms,
       PinFails, SidecarFails, CheckTerm, ReceiptArrives, VerifyTerm, SidecarDies, pubVars
<1>3. PubInv /\ ChainOK => PubTypeOK
  BY DEF PubInv, PubShapes, RunOK, PubTypeOK
<1> HIDE DEF ChainOK
<1>4. PubSpec => []ChainOK
  BY <1>1, <1>2, PublicationIsSound, PTL DEF PubSpec
<1> QED BY <1>3, <1>4, PublicationIsSound, PTL

(* What the tables call published or bound exists on the chain.            *)
THEOREM ChainBacksRows == PubSpec => []PublishedIsOnChain
<1>1. PubInv => PublishedIsOnChain
  BY DEF PubInv
<1> QED
  BY <1>1, PublicationIsSound, PTL

(* What a run reports as published is published with all its terms bound.  *)
THEOREM RowsBackReports == PubSpec => []ReportIsBacked
<1>1. PubInv => ReportIsBacked
  BY DEF PubInv, RunOK, Backed, ReportIsBacked
<1> QED
  BY <1>1, PublicationIsSound, PTL

(* A published row is left as it is by every statement of every run.       *)
THEOREM PublishedStays == PubSpec => PublishedIsFinal
<1>1. ASSUME PubInv, [PubNext]_pubVars
      PROVE  \A f \in Facts : row[f].status = "published" => row'[f] = row[f]
  <2>1. row \in [Facts -> PubRows]
    BY <1>1 DEF PubInv, PubShapes
  <2>2. ASSUME NEW r \in Runs, PersistPending(r) \/ MarkRetryable(r) \/ MarkPublished(r)
        PROVE  \A f \in Facts : row[f].status = "published" => row'[f] = row[f]
    BY <2>1, <2>2 DEF PersistPending, MarkRetryable, MarkPublished, Upserted, Retryable
  <2> QED
    BY <1>1, <2>2 DEF PubNext, RunStep, SidecarStep, StartRun, AllPersisted, SpawnSidecar,
       BindTerm, RunDies, PinAtoms, PinFails, SidecarFails, CheckTerm, SendCreate,
       ReceiptArrives, VerifyTerm, SidecarDies, Mined, pubVars
<1>2. PubInv /\ [PubNext]_pubVars
        => [\A f \in Facts : row[f].status = "published" => row'[f] = row[f]]_pubVars
  BY <1>1
<1> QED
  BY <1>2, PublicationIsSound, PTL DEF PubSpec, PublishedIsFinal
=============================================================================
