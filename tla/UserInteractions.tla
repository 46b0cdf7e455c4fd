-------------------------- MODULE UserInteractions --------------------------
(***************************************************************************)
(* The interactions of users with claims (talaria-api/src/interactions.rs, *)
(* talaria-store/src/user_interactions.rs, migration 037) and the deposits *)
(* they sync (talaria-api/src/claim_signals.rs,                            *)
(* talaria-store/src/intuition_user_signals.rs, migration 038).            *)
(*                                                                         *)
(* One action is one SQL statement.  replace_claim_stance is a transaction *)
(* under READ COMMITTED: each statement sees what is committed when it     *)
(* starts and its own writes; a statement that finds a row deleted or      *)
(* locked by another transaction waits for it.                             *)
(***************************************************************************)
EXTENDS Naturals, FiniteSets

CONSTANTS
    Users,
    Claims,         \* claims that exist
    Posts,          \* HTTP requests; a request inserts one row at most, which has its id
    Txs,            \* hashes of deposit transactions
    Deposit,        \* external: what the chain says of each transaction
    NoId            \* SQL NULL

Stances == {"support", "dispute", "uncertain"}
Actions == Stances \cup {"save"}
Rows == [user : Users, action : Actions, claim : Claims]

(* A deposit of `receiver` on the vote triple of a claim (support) or on   *)
(* its counter triple (dispute); `ok` is the receipt's status, the chain,  *)
(* the MultiVault and the Deposited event.                                 *)
Deposits == [receiver : Users, action : {"support", "dispute"}, claim : Claims,
             ok : BOOLEAN]

ASSUME InteractionAssumption ==
    /\ Deposit \in [Txs -> Deposits]
    /\ NoId \notin Posts

VARIABLES
    rowOf,      \* user_interactions: the committed row of each id, or NoRow
    signal,     \* intuition_user_signals by tx_hash, or NoSignal
    ready,      \* claims with a published publication (PublishedIsFinal)
    post        \* requests

actVars == <<rowOf, signal, ready, post>>

NoRow == [user |-> "none", action |-> "none", claim |-> "none"]
NoSignal == [user |-> "none", action |-> "none", claim |-> "none", link |-> NoId]
NoTx == "none"

(* at: the statement to execute next.  want: the row to upsert.  tx: the   *)
(* deposit to sync.  found: the id a lookup returned.  gone, held: the     *)
(* rows this transaction has deleted and the row it has updated or         *)
(* inserted, not yet committed.  alone: history, no other request of the   *)
(* user was under way meanwhile.                                           *)
Places == {"idle", "signal", "verify", "snapshot", "delete", "select",
           "update", "insert", "commit", "record", "find", "touch", "put", "refind",
           "drop", "done"}
Results == {"none", "ok", "refused", "duplicate", "error", "failed"}
Wants == [user : Users \cup {"none"}, action : Actions \cup {"none"},
          claim : Claims \cup {"none"}]
PostStates ==
    [at : Places, want : Wants, tx : Txs \cup {NoTx}, found : Posts \cup {NoId},
     gone : SUBSET Posts, held : Posts \cup {NoId}, alone : BOOLEAN, result : Results]

ActTypeOK ==
    /\ rowOf \in [Posts -> Rows \cup {NoRow}]
    /\ signal \in [Txs -> [user : Users, action : {"support", "dispute"}, claim : Claims,
                           link : Posts \cup {NoId}] \cup {NoSignal}]
    /\ ready \subseteq Claims
    /\ post \in [Posts -> PostStates]

IdlePost == [at |-> "idle", want |-> NoRow, tx |-> NoTx, found |-> NoId, gone |-> {},
             held |-> NoId, alone |-> TRUE, result |-> "none"]

ActInit ==
    /\ rowOf = [i \in Posts |-> NoRow]
    /\ signal = [t \in Txs |-> NoSignal]
    /\ ready = {}
    /\ post = [q \in Posts |-> IdlePost]

-----------------------------------------------------------------------------
Live(i) == rowOf[i] # NoRow
Open(q) == post[q].at \notin {"idle", "done"}
InTx(q) == post[q].at \in {"snapshot", "delete", "select", "update", "insert", "commit"}

(* Rows that another transaction has deleted, updated or inserted, and not *)
(* committed.                                                              *)
LockedBy(p) == post[p].gone \cup ({post[p].held} \ {NoId})
Locked(q, i) == \E p \in Posts \ {q} : i \in LockedBy(p)

SameStance(a, b) ==
    a.user = b.user /\ a.claim = b.claim /\ {a.action, b.action} \subseteq Stances

(* The unique indexes of migration 037: one row for each user, action and  *)
(* target; one stance for each user and claim.                             *)
Collides(a, b) == a = b \/ SameStance(a, b)

(* What transaction q sees.                                                *)
Visible(q, i) == Live(i) /\ i \notin post[q].gone

Goes(q, place) == [post EXCEPT ![q].at = place]
Ends(q, result) == [post EXCEPT ![q] = [IdlePost EXCEPT !.at = "done", !.result = result,
                                                        !.alone = post[q].alone]]

(* A new request makes the others of its user not alone, and is not alone  *)
(* itself if there are any.                                                *)
Opens(q, state) ==
    [p \in Posts |->
        IF p = q THEN [state EXCEPT !.alone = \A o \in Posts :
                            Open(o) => post[o].want.user # state.want.user]
        ELSE IF Open(p) /\ post[p].want.user = state.want.user
             THEN [post[p] EXCEPT !.alone = FALSE] ELSE post[p]]

(* POST /interactions: the action, the target type and the target are      *)
(* checked first.                                                          *)
Post(q, want) ==
    /\ post[q].at = "idle"
    /\ post' = Opens(q, [IdlePost EXCEPT !.at = IF want.action \in Stances THEN "snapshot"
                                                                           ELSE "find",
                                         !.want = want])
    /\ UNCHANGED <<rowOf, signal, ready>>

(* POST /claims/{id}/signals/sync, for a wallet that is the user's.        *)
Sync(q, u, c, action, t) ==
    /\ post[q].at = "idle"
    /\ post' = Opens(q, [IdlePost EXCEPT !.at = "signal", !.tx = t,
                            !.want = [user |-> u, action |-> action, claim |-> c]])
    /\ UNCHANGED <<rowOf, signal, ready>>

(* DELETE /interactions/{id}.                                              *)
Drop(q, u, i) ==
    /\ post[q].at = "idle"
    /\ Live(i)
    /\ post' = Opens(q, [IdlePost EXCEPT !.at = "drop", !.found = i,
                            !.want = [NoRow EXCEPT !.user = u]])
    /\ UNCHANGED <<rowOf, signal, ready>>

(* A claim is published on the chain (IntuitionPublication).               *)
PublishClaim(c) ==
    /\ c \notin ready
    /\ ready' = ready \cup {c}
    /\ UNCHANGED <<rowOf, signal, post>>

-----------------------------------------------------------------------------
(* sync_claim_signal up to the stance.                                     *)

(* get_signal_by_tx_hash.  A deposit of this user that is known already    *)
(* only brings the stance up to date.                                      *)
LookupSignal(q) ==
    /\ post[q].at = "signal"
    /\ post' = LET s == signal[post[q].tx]
               IN  IF s = NoSignal THEN Goes(q, "verify")
                   ELSE IF s.user # post[q].want.user THEN Ends(q, "duplicate")
                   ELSE [post EXCEPT ![q] = [@ EXCEPT !.at = "snapshot", !.tx = NoTx]]
    /\ UNCHANGED <<rowOf, signal, ready>>

\* Mutant of Agrees: the receiver of the deposit is not compared.
AgreesAnyReceiver(want, d) ==
    /\ d.ok
    /\ want.claim \in ready
    /\ <<want.action, want.claim>> = <<d.action, d.claim>>
(* The publication, the transaction, its receipt, the MultiVault, the      *)
(* receiver and the term must all agree with the request.                  *)
Agrees(want, d) ==
    /\ d.ok
    /\ want.claim \in ready
    /\ want = [user |-> d.receiver, action |-> d.action, claim |-> d.claim]

VerifyDeposit(q) ==
    /\ post[q].at = "verify"
    /\ post' = IF Agrees(post[q].want, Deposit[post[q].tx]) THEN Goes(q, "snapshot")
                                                            ELSE Ends(q, "refused")
    /\ UNCHANGED <<rowOf, signal, ready>>

-----------------------------------------------------------------------------
(* replace_claim_stance, one transaction.                                  *)

\* Mutant of Others: only a stance of the opposite side is replaced.
OthersOpposed(q) == {i \in Posts : /\ Live(i)
                                 /\ SameStance(rowOf[i], post[q].want)
                                 /\ {rowOf[i].action, post[q].want.action}
                                        = {"support", "dispute"}}
(* The DELETE takes its snapshot: the other stance of this user, if any.   *)
Others(q) == {i \in Posts : /\ Live(i)
                          /\ SameStance(rowOf[i], post[q].want)
                          /\ rowOf[i] # post[q].want}

DeleteStarts(q) ==
    /\ post[q].at = "snapshot"
    /\ \/ Others(q) = {} /\ post' = Goes(q, "select")
       \/ \E i \in Others(q) :
            post' = [post EXCEPT ![q] = [@ EXCEPT !.at = "delete", !.found = i]]
    /\ UNCHANGED <<rowOf, signal, ready>>

\* Mutant of DeleteOther: the DELETE commits at once, outside a transaction.
DeleteCommitted(q) ==
    /\ post[q].at = "delete"
    /\ ~Locked(q, post[q].found)
    /\ post' = Goes(q, "select")
    /\ rowOf' = [rowOf EXCEPT ![post[q].found] = NoRow]
    /\ signal' = [t \in Txs |-> IF signal[t].link = post[q].found
                                THEN [signal[t] EXCEPT !.link = NoId] ELSE signal[t]]
    /\ UNCHANGED ready
(* The DELETE gets to the row, when nobody else holds it; the row may be   *)
(* gone by then.                                                           *)
DeleteOther(q) ==
    /\ post[q].at = "delete"
    /\ ~Locked(q, post[q].found)
    /\ post' = [post EXCEPT ![q] = [@ EXCEPT !.at = "select",
                    !.gone = IF Live(post[q].found) THEN {post[q].found} ELSE {}]]
    /\ UNCHANGED <<rowOf, signal, ready>>

Own(q) == {i \in Posts : rowOf[i] = post[q].want}

SelectOwn(q, place, otherwise) ==
    \/ Own(q) = {} /\ post' = Goes(q, otherwise)
    \/ \E i \in Own(q) : post' = [post EXCEPT ![q] = [@ EXCEPT !.at = place, !.found = i]]

SelectStance(q) ==
    /\ post[q].at = "select"
    /\ SelectOwn(q, "update", "insert")
    /\ UNCHANGED <<rowOf, signal, ready>>

(* UPDATE .. RETURNING with fetch_one: an error if the row has gone.       *)
UpdateStance(q) ==
    /\ post[q].at = "update"
    /\ ~Locked(q, post[q].found)
    /\ post' = IF Live(post[q].found)
               THEN [post EXCEPT ![q] = [@ EXCEPT !.at = "commit", !.held = post[q].found]]
               ELSE Ends(q, "error")
    /\ UNCHANGED <<rowOf, signal, ready>>

(* The INSERT waits for a transaction that has inserted, updated or        *)
(* deleted a row with which it collides.                                   *)
InsertWaits(q) ==
    \E p \in Posts \ {q} :
        \/ post[p].held # NoId /\ Collides(post[p].want, post[q].want)
        \/ \E i \in post[p].gone : Collides(rowOf[i], post[q].want)
Collision(q) == \E i \in Posts : Visible(q, i) /\ Collides(rowOf[i], post[q].want)

InsertStance(q) ==
    /\ post[q].at = "insert"
    /\ ~InsertWaits(q)
    /\ ~Collision(q)
    /\ post' = [post EXCEPT ![q] = [@ EXCEPT !.at = "commit", !.held = q]]
    /\ UNCHANGED <<rowOf, signal, ready>>

InsertRefused(q) ==
    /\ post[q].at = "insert"
    /\ ~InsertWaits(q)
    /\ Collision(q)
    /\ post' = Ends(q, "error")
    /\ UNCHANGED <<rowOf, signal, ready>>

(* ON DELETE SET NULL of migration 038.                                    *)
Unlinked(gone) == [t \in Txs |-> IF signal[t].link \in gone
                                 THEN [signal[t] EXCEPT !.link = NoId] ELSE signal[t]]

CommitStance(q) ==
    /\ post[q].at = "commit"
    /\ rowOf' = [i \in Posts |-> IF i = post[q].held THEN post[q].want
                               ELSE IF i \in post[q].gone THEN NoRow ELSE rowOf[i]]
    /\ signal' = Unlinked(post[q].gone)
    /\ post' = IF post[q].tx = NoTx THEN Ends(q, "ok")
               ELSE [post EXCEPT ![q] = [@ EXCEPT !.at = "record", !.found = post[q].held,
                                                  !.gone = {}, !.held = NoId]]
    /\ UNCHANGED ready

-----------------------------------------------------------------------------
(* insert_confirmed_signal: nothing if the deposit is known by now; the    *)
(* foreign key waits for who deletes the interaction, and fails if it is   *)
(* gone.                                                                   *)
RecordSignal(q) ==
    /\ post[q].at = "record"
    /\ LET t == post[q].tx
           new == [user |-> post[q].want.user, action |-> post[q].want.action,
                   claim |-> post[q].want.claim, link |-> post[q].found]
       IN  \/ /\ signal[t] # NoSignal
              /\ post' = Ends(q, IF signal[t].user = post[q].want.user THEN "ok"
                                                                       ELSE "duplicate")
              /\ UNCHANGED signal
           \/ /\ signal[t] = NoSignal
              /\ ~Locked(q, post[q].found)
              /\ signal' = IF Live(post[q].found) THEN [signal EXCEPT ![t] = new] ELSE signal
              /\ post' = Ends(q, IF Live(post[q].found) THEN "ok" ELSE "error")
    /\ UNCHANGED <<rowOf, ready>>

-----------------------------------------------------------------------------
(* upsert_non_stance: single statements, no transaction.                   *)

FindOwn(q) ==
    /\ post[q].at = "find"
    /\ SelectOwn(q, "touch", "put")
    /\ UNCHANGED <<rowOf, signal, ready>>

TouchOwn(q) ==
    /\ post[q].at = "touch"
    /\ post' = Ends(q, IF Live(post[q].found) THEN "ok" ELSE "error")
    /\ UNCHANGED <<rowOf, signal, ready>>

PutOwn(q) ==
    /\ post[q].at = "put"
    /\ ~Collision(q)
    /\ rowOf' = [rowOf EXCEPT ![q] = post[q].want]
    /\ post' = Ends(q, "ok")
    /\ UNCHANGED <<signal, ready>>

PutRefused(q) ==
    /\ post[q].at = "put"
    /\ Collision(q)
    /\ post' = Goes(q, "refind")
    /\ UNCHANGED <<rowOf, signal, ready>>

FindAfterConflict(q) ==
    /\ post[q].at = "refind"
    /\ \/ Own(q) = {} /\ post' = Ends(q, "error")
       \/ \E i \in Own(q) :
            post' = [post EXCEPT ![q] = [@ EXCEPT !.at = "touch", !.found = i]]
    /\ UNCHANGED <<rowOf, signal, ready>>

-----------------------------------------------------------------------------
(* delete_owned_interaction: one statement, once nobody holds the row.     *)
DropOwned(q) ==
    /\ post[q].at = "drop"
    /\ ~Locked(q, post[q].found)
    /\ LET i == post[q].found
       IN  IF Live(i) /\ rowOf[i].user = post[q].want.user
           THEN /\ rowOf' = [rowOf EXCEPT ![i] = NoRow]
                /\ signal' = Unlinked({i})
                /\ post' = Ends(q, "ok")
           ELSE /\ post' = Ends(q, "refused")
                /\ UNCHANGED <<rowOf, signal>>
    /\ UNCHANGED ready

(* The process dies or a statement fails: the transaction is rolled back.  *)
PostFails(q) ==
    /\ Open(q)
    /\ post' = Ends(q, "failed")
    /\ UNCHANGED <<rowOf, signal, ready>>

PostStep(q) ==
    \/ LookupSignal(q) \/ VerifyDeposit(q) \/ RecordSignal(q)
    \/ DeleteStarts(q) \/ DeleteOther(q) \/ SelectStance(q) \/ UpdateStance(q)
    \/ InsertStance(q) \/ InsertRefused(q) \/ CommitStance(q)
    \/ FindOwn(q) \/ TouchOwn(q) \/ PutOwn(q) \/ PutRefused(q) \/ FindAfterConflict(q)
    \/ DropOwned(q) \/ PostFails(q)

PostBegins(q) ==
    \/ \E want \in Rows : Post(q, want)
    \/ \E t \in Txs, c \in Claims, u \in Users, action \in {"support", "dispute"} :
            Sync(q, u, c, action, t)
    \/ \E u \in Users, i \in Posts : Drop(q, u, i)

ActNext ==
    \/ \E q \in Posts : PostBegins(q)
    \/ \E q \in Posts : PostStep(q)
    \/ \E c \in Claims : PublishClaim(c)

ActSpec == ActInit /\ [][ActNext]_actVars

-----------------------------------------------------------------------------
Holds(u, c) == \E i \in Posts : /\ rowOf[i].user = u
                              /\ rowOf[i].claim = c
                              /\ rowOf[i].action \in Stances

(* Replacing a stance is one step for everyone else: whoever has a stance  *)
(* on a claim has one until he deletes it, whatever fails or races.        *)
StanceNeverLost ==
    [][\A u \in Users, c \in Claims : Holds(u, c) /\ ~Holds(u, c)' =>
            \E q \in Posts : /\ post[q].at = "drop"
                             /\ post[q].want.user = u
                             /\ post'[q].result = "ok"]_actVars

(* A recorded signal is the user's own confirmed deposit on the claim and  *)
(* the side he took, and what it links is that stance, however often the   *)
(* stance was replaced, deleted and synced again.                          *)
DepositsAreTrue ==
    \A t \in Txs : signal[t] # NoSignal =>
        LET s == signal[t]
            d == Deposit[t]
        IN     /\ d.ok /\ s.claim \in ready
               /\ <<s.user, s.action, s.claim>> = <<d.receiver, d.action, d.claim>>
               /\ s.link # NoId =>
                    rowOf[s.link] = [user |-> s.user, action |-> s.action,
                                     claim |-> s.claim]

(* The statements of an upsert fail on what they find only when the same   *)
(* user has another request under way: alone, a stance always replaces     *)
(* the other, and a repeated row is found again.                           *)
ErrorNeedsARace ==
    \A q \in Posts : post[q].result = "error" => ~post[q].alone
=============================================================================
