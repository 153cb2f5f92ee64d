------------------------------ MODULE Accounts ------------------------------
(***************************************************************************)
(* Accounts and their tokens (authentication, user): registration by an    *)
(* e-mailed link, sign in, refresh, recovery of the password, and the      *)
(* guard that verifies the access token of every other request.            *)
(*                                                                         *)
(* A token is the time at which it was made; the user document keeps the   *)
(* time of the last one of each kind, and a token that is not the stored   *)
(* one is refused and takes the stored one with it.  Only registration     *)
(* runs in a transaction: everything else reads the user in one await and  *)
(* writes it in another, and save() sends the changed fields only.         *)
(*                                                                         *)
(* Expired tokens are refused before the database is asked and are left    *)
(* out; so are links that nobody was sent.                                 *)
(***************************************************************************)
EXTENDS MongoTxn, Naturals, FiniteSets

CONSTANTS
    Request,    \* requests to the controllers
    Ask,        \* what they may ask
    Email,      \* addresses, the key of the users
    Password,
    Role,       \* the role of an account, should it exist
    Member,     \* the users at the start, who have signed in twice before
    OldPassword, \* their password
    Posted,     \* the links e-mailed before
    MaxClock,   \* bound on the milliseconds that pass
    MaxRetries, \* retries of a callback before the driver's 120 s are over
    None

Op == {"signup", "activate", "signin", "refresh", "forgot", "reset",
       "call", "announce", "preview", "contact"}

Time == 0..MaxClock
Kind == {"refresh", "access"}
Account == [pwd : Password, refresh : Time \cup {None}, access : Time \cup {None}]
Link == [to : {"activate", "reset"}, email : Email, pwd : Password \cup {None}]
Token == [kind : Kind, email : Email, time : Time]

ASSUME AccountsAssumption ==
    /\ Request \subseteq Txn
    /\ Doc = Email
    /\ Ask \subseteq [op : Op, email : Email, pwd : Password]
    /\ Role \in [Email -> {"admin", "staff", "participant"}]
    /\ \A e \in Email \ Member : Role[e] = "participant"
    /\ Member \subseteq Email
    /\ OldPassword \in Password
    /\ Posted \subseteq Link
    /\ \A link \in Posted : link.to = "reset" => link.email \in Member
    /\ MaxClock \in Nat \ {0}
    /\ MaxRetries \in Nat
    /\ None \notin Password \cup Nat \cup Account

VARIABLES
    account,  \* account[e]: the user document with that e-mail, or None
    mailed,   \* the links that have been e-mailed
    issued,   \* the tokens that clients have been given
    clock,    \* Date.now()
    pc,       \* where a request stands between two awaits
    ask,      \* what it asks
    retries,  \* how often withTransaction() has run its callback again
    stamp,    \* the times of the tokens it makes
    stale     \* the tokens its refused save will unset

accountVars == <<account, mailed, issued, clock>>
requestVars == <<pc, ask, retries, stamp, stale>>
vars == <<txnVars, accountVars, requestVars>>

Answered == {"ok", "failed", "refused", "lost"}

PC == {"new", "handler", "find", "mail", "create", "welcome", "commit", "verified", "refresh",
       "refreshed", "access", "reset", "hash", "changed"} \cup Answered

TypeOK ==
    /\ TxnTypeOK
    /\ account \in [Email -> Account \cup {None}]
    /\ mailed \subseteq Link
    /\ issued \subseteq Token
    /\ clock \in Time
    /\ pc \in [Request -> PC]
    /\ ask \in [Request -> Ask]
    /\ retries \in [Request -> 0..MaxRetries]
    /\ stamp \in [Request -> [Kind -> Time]]
    /\ stale \in [Request -> SUBSET Kind]

\* A document as createUser() makes it: the tokens are not set.
NewAccount(p) == [pwd |-> p, refresh |-> None, access |-> None]

\* Members signed in at times 0 and 1, and have both pairs of tokens.
Init ==
    /\ TxnInit
    /\ account = [e \in Email |-> IF e \in Member
                                  THEN [NewAccount(OldPassword) EXCEPT !.refresh = 1, !.access = 1]
                                  ELSE None]
    /\ mailed = Posted
    /\ issued = [kind : Kind, email : Member, time : {0, 1}]
    /\ clock = 1
    /\ pc = [t \in Request |-> "new"]
    /\ ask \in [Request -> Ask]
    /\ retries = [t \in Request |-> 0]
    /\ stamp = [t \in Request |-> [k \in Kind |-> 0]]
    /\ stale = [t \in Request |-> {}]

-----------------------------------------------------------------------------
Asks(t, ops) == ask[t].op \in ops
Of(t) == ask[t].email
At(t, ops, p) == Asks(t, ops) /\ pc[t] = p
Known(e) == account[e] # None

GoTo(t, p) == pc' = [pc EXCEPT ![t] = p]

\* A step that changes nothing but where the request stands.
GoOn(t, p) ==
    /\ GoTo(t, p)
    /\ UNCHANGED <<txnVars, accountVars, ask, retries, stamp, stale>>

\* An exception: of a transaction nothing stays.
Fail(t) ==
    /\ AbortTxns({t})
    /\ GoTo(t, "failed")
    /\ UNCHANGED <<accountVars, ask, retries, stamp, stale>>

\* A TransientTransactionError: the callback of activateAccount runs again.
RunAgain(t) ==
    /\ AbortTxns({t})
    /\ IF retries[t] < MaxRetries
       THEN GoTo(t, "find") /\ retries' = [retries EXCEPT ![t] = @ + 1]
       ELSE GoTo(t, "failed") /\ UNCHANGED retries
    /\ UNCHANGED <<accountVars, ask, stamp, stale>>

\* An e-mail with a link; the mailer may throw instead.
SendLink(t, link) ==
    \/ /\ mailed' = mailed \cup {link}
       /\ CommitTxn(t)
       /\ GoTo(t, "ok")
       /\ UNCHANGED <<account, issued, clock, ask, retries, stamp, stale>>
    \/ Fail(t)

\* A write of a document outside any transaction.
SaveAccount(t, doc) ==
    /\ WriteNow(Of(t))
    /\ account' = [account EXCEPT ![Of(t)] = doc]
    /\ UNCHANGED <<mailed, issued, clock, ask, retries, stamp, stale>>

-----------------------------------------------------------------------------
\* The middleware of POST /auth/signup and of /contact: no answer of the service after
\* the retries, no success, a low score or another action end the request.
ReCaptcha(t) ==
    /\ At(t, {"signup", "contact"}, "new")
    /\ \E human \in BOOLEAN :
          GoOn(t, IF ~ human THEN "refused" ELSE IF Asks(t, {"signup"}) THEN "find" ELSE "handler")

\* The strategy of the activation link: its payload is the user to be created.
OpenLink(t) ==
    /\ At(t, {"activate"}, "new")
    /\ [to |-> "activate", email |-> Of(t), pwd |-> ask[t].pwd] \in mailed
    /\ GoOn(t, "find")

\* findUser() by e-mail with the session; its exceptions are swallowed.  "Email already
\* used", "Account is already activated".
FindByEmail(t) ==
    /\ pc[t] = "find"
    /\ \/ /\ Known(Of(t))
          /\ Fail(t)
       \/ /\ ~ Known(Of(t))
          /\ TakeSnapshot(t)
          /\ GoTo(t, IF Asks(t, {"signup"}) THEN "mail" ELSE "create")
          /\ UNCHANGED <<accountVars, ask, retries, stamp, stale>>

SendAccountActivationEmail(t) ==
    /\ At(t, {"signup"}, "mail")
    /\ SendLink(t, [to |-> "activate", email |-> Of(t), pwd |-> ask[t].pwd])

\* What the unique index on the e-mail makes of a second insertion, and a schema
\* without the index for the mutant.
NoIndex(t) == FALSE

Duplicate(t) == Conflicts(t, Of(t))

\* createUser(): the insertion.
CreateUser(t) ==
    /\ pc[t] = "create"
    /\ \/ /\ Duplicate(t)
          /\ RunAgain(t)
       \/ /\ ~ Duplicate(t)
          /\ held' = [held EXCEPT ![t] = @ \cup {Of(t)}]
          /\ GoTo(t, "welcome")
          /\ UNCHANGED <<open, missed, accountVars, ask, retries, stamp, stale>>

\* The e-mail "welcome on board" leaves before the commit.
SendWelcomingEmail(t) ==
    /\ pc[t] = "welcome"
    /\ \/ GoOn(t, "commit")
       \/ Fail(t)

ActivateAccount(t) ==
    /\ pc[t] = "commit"
    /\ CommitTxn(t)
    /\ account' = [account EXCEPT ![Of(t)] = NewAccount(ask[t].pwd)]
    /\ GoTo(t, "ok")
    /\ UNCHANGED <<mailed, issued, clock, ask, retries, stamp, stale>>

-----------------------------------------------------------------------------
\* LocalStrategy: the hash is loaded, then compared.
VerifyPassword(t) ==
    /\ At(t, {"signin"}, "new")
    /\ GoOn(t, IF Known(Of(t)) /\ account[Of(t)].pwd = ask[t].pwd THEN "verified" ELSE "refused")

\* A token of kind k that is presented, compared with the one that is stored: on a
\* mismatch the fields of s are to be unset.
Verify(t, k, p, s) ==
    \E token \in issued :
       /\ token.kind = k
       /\ token.email = Of(t)
       /\ LET valid == account[Of(t)][k] = token.time IN
          /\ GoTo(t, IF valid THEN p ELSE "reset")
          /\ stale' = [stale EXCEPT ![t] = IF valid THEN {} ELSE s]
          /\ UNCHANGED <<txnVars, accountVars, ask, retries, stamp>>

\* What save() unsets of the fields that were loaded and had a value.
Loaded(t, k) == IF account[Of(t)][k] = None THEN {} ELSE {k}

\* accessToken is not selected here, so that setting it to undefined always unsets it;
\* and with the name of the field misspelt, for the mutant.
UnsetMisspelt(t) == Loaded(t, "refresh") \cup {"acces"}

UnsetOnRefresh(t) == Loaded(t, "refresh") \cup {"access"}

UnsetOnCall(t) == Loaded(t, "access")

\* The strategy of POST /auth/refresh.
VerifyRefreshToken(t) ==
    /\ At(t, {"refresh"}, "new")
    /\ Verify(t, "refresh", "verified", UnsetOnRefresh(t))

RolesPriorities == [admin |-> 0, staff |-> 1, participant |-> 2]

CompareRoles(role, required) == RolesPriorities[role] <= RolesPriorities[required]

\* The role a route requires.
Required(t) == IF Asks(t, {"announce", "preview"}) THEN "admin" ELSE "participant"

\* RoleGuard, after the strategy.
RoleGuard(t) == IF CompareRoles(Role[Of(t)], Required(t)) THEN "handler" ELSE "refused"

\* The strategy of every route that needs a user.
VerifyAccessToken(t) ==
    /\ At(t, {"call", "announce", "preview"}, "new")
    /\ Verify(t, "access", RoleGuard(t), UnsetOnCall(t))

\* The save of a refused verification; without a change there is nothing to send.
UnsetTokens(t) ==
    /\ pc[t] = "reset"
    /\ GoTo(t, "refused")
    /\ SaveAccount(t, [k \in DOMAIN account[Of(t)] |->
                          IF k \in stale[t] THEN None ELSE account[Of(t)][k]])

\* A handler that only reads, as the profile of the user.
Serve(t) ==
    /\ At(t, {"call"}, "handler")
    /\ GoOn(t, "ok")

-----------------------------------------------------------------------------
\* Date.now() of a token of kind k, in the continuation of the await before: the
\* millisecond may be the one of another token.
Stamp(t, k, p, q) ==
    /\ pc[t] = p
    /\ clock' \in {clock, clock + 1} \cap Time
    /\ stamp' = [stamp EXCEPT ![t][k] = clock']
    /\ GoTo(t, q)
    /\ UNCHANGED <<txnVars, account, mailed, issued, ask, retries, stale>>

Refresh(t) == Stamp(t, "refresh", "verified", "refresh")
Signin(t) == Stamp(t, "access", "refreshed", "access")

\* Date.now() once more at the update, for the mutant of SignedTime.
TimeOfUpdate(t) == clock

\* The time in the token, which is the one to be stored.
SignedTime(t) == stamp[t]["refresh"]

UpdateUserRefreshToken(t) ==
    /\ pc[t] = "refresh"
    /\ GoTo(t, "refreshed")
    /\ SaveAccount(t, [account[Of(t)] EXCEPT !.refresh = SignedTime(t)])

\* The second update, and the answer with both tokens.
UpdateUserAccessToken(t) ==
    /\ pc[t] = "access"
    /\ WriteNow(Of(t))
    /\ account' = [account EXCEPT ![Of(t)].access = stamp[t]["access"]]
    /\ issued' = issued \cup {[kind |-> k, email |-> Of(t), time |-> stamp[t][k]] : k \in Kind}
    /\ GoTo(t, "ok")
    /\ UNCHANGED <<mailed, clock, ask, retries, stamp, stale>>

-----------------------------------------------------------------------------
\* POST /auth/forgot-password: findUser(), then a link with the user's id.
FindForgetful(t) ==
    /\ At(t, {"forgot"}, "new")
    /\ GoOn(t, IF Known(Of(t)) THEN "mail" ELSE "failed")

SendPasswordResetEmail(t) ==
    /\ At(t, {"forgot"}, "mail")
    /\ SendLink(t, [to |-> "reset", email |-> Of(t), pwd |-> None])

\* PUT /auth/reset-password: the link names the user, who is loaded, hashed and saved.
GetUserOfLink(t) ==
    /\ At(t, {"reset"}, "new")
    /\ [to |-> "reset", email |-> Of(t), pwd |-> None] \in mailed
    /\ GoOn(t, "hash")

ResetUserPassword(t) ==
    /\ pc[t] = "hash"
    /\ GoTo(t, "changed")
    /\ SaveAccount(t, [account[Of(t)] EXCEPT !.pwd = ask[t].pwd])

\* The password stays changed when the e-mail fails.
SendSuccessfulPasswordResetEmail(t) ==
    /\ pc[t] = "changed"
    /\ \E p \in {"ok", "failed"} : GoOn(t, p)

-----------------------------------------------------------------------------
\* The server stops: the transactions are aborted and nobody is answered.
Crash ==
    /\ AbortTxns(Request)
    /\ \E t \in Request : pc[t] \notin {"new"} \cup Answered
    /\ pc' = [t \in Request |-> IF pc[t] \in {"new"} \cup Answered THEN pc[t] ELSE "lost"]
    /\ UNCHANGED <<accountVars, ask, retries, stamp, stale>>

Register(t) ==
    \/ ReCaptcha(t)
    \/ OpenLink(t)
    \/ FindByEmail(t)
    \/ SendAccountActivationEmail(t)
    \/ CreateUser(t)
    \/ SendWelcomingEmail(t)
    \/ ActivateAccount(t)

Authenticate(t) ==
    \/ VerifyPassword(t)
    \/ VerifyRefreshToken(t)
    \/ VerifyAccessToken(t)
    \/ UnsetTokens(t)
    \/ Serve(t)
    \/ Refresh(t)
    \/ UpdateUserRefreshToken(t)
    \/ Signin(t)
    \/ UpdateUserAccessToken(t)

Recover(t) ==
    \/ FindForgetful(t)
    \/ SendPasswordResetEmail(t)
    \/ GetUserOfLink(t)
    \/ ResetUserPassword(t)
    \/ SendSuccessfulPasswordResetEmail(t)
-----------------------------------------------------------------------------
\* What a request may rely on when it resumes.

InTransaction(t) == pc[t] \in {"create", "welcome", "commit"} \/ At(t, {"signup"}, "mail")

\* Only what is asked decides where a request can stand.
OnItsWay(t) ==
    /\ pc[t] = "find" => Asks(t, {"signup", "activate"})
    /\ pc[t] \in {"create", "welcome", "commit"} => Asks(t, {"activate"})
    /\ pc[t] = "handler" => Asks(t, {"call", "announce", "preview", "contact"})
    /\ pc[t] = "mail" => Asks(t, {"signup", "forgot", "announce", "preview", "contact"})
    /\ pc[t] = "reset" => Asks(t, {"refresh", "call", "announce", "preview"})
    /\ pc[t] \in {"verified", "refresh", "refreshed", "access"} => Asks(t, {"signin", "refresh"})
    /\ pc[t] \in {"hash", "changed"} => Asks(t, {"reset"})

\* The requests that have met the account they are about.
HasAccount(t) ==
    \/ pc[t] \in {"verified", "refresh", "refreshed", "access", "reset", "hash", "changed"}
    \/ At(t, {"forgot"}, "mail")
    \/ At(t, {"signin", "refresh", "activate"}, "ok")

\* A callback of activateAccount that has found no account and is still to insert one has
\* missed any insertion since; one that has inserted it is alone.
RequestInv(t) ==
    /\ OnItsWay(t)
    /\ t \in open <=> InTransaction(t)
    /\ held[t] = IF pc[t] \in {"welcome", "commit"} THEN {Of(t)} ELSE {}
    /\ pc[t] = "create" /\ Known(Of(t)) => Of(t) \in missed[t]
    /\ pc[t] \in {"welcome", "commit"} => ~ Known(Of(t))
    /\ HasAccount(t) => Known(Of(t))
    /\ "refresh" \in stale[t] => Asks(t, {"refresh"})

\* Tokens and links of recovery are for accounts there are.
ForAccounts ==
    /\ \A token \in issued : Known(token.email)
    /\ \A link \in mailed : link.to = "reset" => Known(link.email)

\* The refresh token stored for the account of t was made by a request that went on to
\* answer with it, or was cut off in between; or a refused refresh has unset it.
Renewable(t) ==
    \/ \E u \in Request :
          /\ Asks(u, {"signin", "refresh"}) /\ Of(u) = Of(t)
          /\ pc[u] \in {"refreshed", "access", "ok", "lost"}
          /\ account[Of(t)].refresh = stamp[u]["refresh"]
    \/ /\ account[Of(t)].refresh = None
       /\ \E u \in Request : At(u, {"refresh"}, "refused") /\ Of(u) = Of(t)

RenewalInv(t) ==
    Asks(t, {"signin", "refresh"}) /\ pc[t] \in {"refreshed", "access", "ok"} => Renewable(t)

\* An activation that was answered is the only one, and its password stays until a reset.
ActivationInv(t) ==
    At(t, {"activate"}, "ok") =>
        /\ \A u \in Request \ {t} : ~ (At(u, {"activate"}, "ok") /\ Of(u) = Of(t))
        /\ (\A u \in Request : Asks(u, {"reset"}) /\ Of(u) = Of(t) => pc[u] \in {"new", "hash"})
              => account[Of(t)].pwd = ask[t].pwd

AccountsInv ==
    /\ TypeOK
    /\ OneWriter
    /\ ForAccounts
    /\ \A t \in Request : RequestInv(t) /\ RenewalInv(t) /\ ActivationInv(t)
=============================================================================
