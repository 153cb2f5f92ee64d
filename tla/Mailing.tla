------------------------------ MODULE Mailing -------------------------------
(***************************************************************************)
(* The requests that send e-mails to others (announcement, messaging,      *)
(* request/contact), composed with Accounts, whose guards let them in and  *)
(* whose users are their recipients.  An announcement is cut into batches  *)
(* that are sent in parallel; the first that fails answers the request     *)
(* while the others are still under way.                                   *)
(***************************************************************************)
EXTENDS Accounts, SequencesExt

CONSTANTS
    RecipientLists, \* the recipients an announcement may name
    MaximumRecipientsPerMail,
    Team        \* the address of the organisers

ASSUME MailingAssumption ==
    /\ RecipientLists \subseteq Seq(Email)
    /\ MaximumRecipientsPerMail \in Nat \ {0}
    /\ Team \notin Email

VARIABLES
    recipients, \* the list of the body of an announcement
    mails,      \* the addresses of each e-mail a request sends
    underWay,   \* those the mailer has been given
    sent        \* those it has delivered

mailVars == <<recipients, mails, underWay, sent>>
allVars == <<vars, mailVars>>

MailingTypeOK ==
    /\ TypeOK
    /\ recipients \in [Request -> RecipientLists \cup {<<>>}]
    /\ mails \in [Request -> Seq(SUBSET (Email \cup {Team}))]
    /\ {underWay, sent} \subseteq [Request -> SUBSET Nat]
    /\ \A t \in Request : underWay[t] \cup sent[t] \subseteq DOMAIN mails[t]

MailingInit ==
    /\ Init
    /\ recipients = [t \in Request |-> <<>>]
    /\ mails = [t \in Request |-> <<>>]
    /\ underWay = [t \in Request |-> {}]
    /\ sent = [t \in Request |-> {}]

-----------------------------------------------------------------------------
\* The number of slices of an array; for the mutant, without the last one when it is
\* shorter than the others.
WholeSlices(arr, n) == Len(arr) \div n

Slices(arr, n) == (Len(arr) + n - 1) \div n

Chunks(arr, n) ==
    [i \in 1..Slices(arr, n) |->
        ToSet(SubSeq(arr, (i - 1) * n + 1, IF i * n < Len(arr) THEN i * n ELSE Len(arr)))]

\* The mails m are given to the mailer.
Post(t, m) ==
    /\ mails' = [mails EXCEPT ![t] = m]
    /\ underWay' = [underWay EXCEPT ![t] = DOMAIN m]
    /\ GoOn(t, IF m = <<>> THEN "ok" ELSE "mail")
    /\ UNCHANGED sent

\* findAllUsers() finds each recipient once, so that a list with a repetition is refused
\* like one with a stranger: "One of the recipients was not found".
Announce(t) ==
    /\ At(t, {"announce"}, "handler")
    /\ \E list \in RecipientLists :
          LET users == {e \in ToSet(list) : Known(e)} IN
          /\ recipients' = [recipients EXCEPT ![t] = list]
          /\ \/ /\ Cardinality(users) # Len(list)
                /\ Fail(t)
                /\ UNCHANGED <<mails, underWay, sent>>
             \/ /\ Cardinality(users) = Len(list)
                /\ \E found \in SetToSeqs(users) : Post(t, Chunks(found, MaximumRecipientsPerMail))

PreviewAnnouncement(t) ==
    /\ At(t, {"preview"}, "handler")
    /\ Post(t, <<{Of(t)}>>)
    /\ UNCHANGED recipients

\* The confirmation of receipt goes first, and the message itself only after it.
ContactTeam(t) ==
    /\ At(t, {"contact"}, "handler")
    /\ Post(t, <<{Of(t)}>>)
    /\ UNCHANGED recipients

\* The mails that follow when mail i has been delivered.
Following(t, i) == IF Asks(t, {"contact"}) /\ i = 1 THEN <<{Team}>> ELSE <<>>

\* The mailer delivers a mail: the request is answered after its last one.
Deliver(t) ==
    /\ \E i \in underWay[t] :
          /\ sent' = [sent EXCEPT ![t] = @ \cup {i}]
          /\ mails' = [mails EXCEPT ![t] = @ \o Following(t, i)]
          /\ underWay' = [underWay EXCEPT ![t] = (@ \ {i}) \cup (DOMAIN mails'[t] \ DOMAIN mails[t])]
    /\ GoOn(t, IF pc[t] = "mail" /\ underWay'[t] = {} THEN "ok" ELSE pc[t])
    /\ UNCHANGED recipients

\* The mailer throws: the first exception is the answer.
Bounce(t) ==
    /\ \E i \in underWay[t] : underWay' = [underWay EXCEPT ![t] = @ \ {i}]
    /\ GoOn(t, "failed")
    /\ UNCHANGED <<recipients, mails, sent>>

-----------------------------------------------------------------------------
Answer(t) ==
    \/ (Register(t) \/ Authenticate(t) \/ Recover(t)) /\ UNCHANGED mailVars
    \/ Announce(t)
    \/ PreviewAnnouncement(t)
    \/ ContactTeam(t)
    \/ Deliver(t)
    \/ Bounce(t)

Stop == Crash /\ underWay' = [t \in Request |-> {}] /\ UNCHANGED <<recipients, mails, sent>>

\* Nothing is left to answer but requests whose link or token was never sent.
AllAnswered ==
    /\ \A t \in Request : pc[t] \in {"new"} \cup Answered
    /\ UNCHANGED allVars

Next ==
    \/ \E t \in Request : Answer(t)
    \/ Stop
    \/ AllAnswered

Spec == MailingInit /\ [][Next]_allVars
-----------------------------------------------------------------------------
\* Two tokens are stored by two updates outside any transaction (login.controller.ts:20),
\* and a refused request unsets tokens in a save of its own, long after it has read them
\* (user.service.ts:217).  From the first answered sign-in or refresh of an account on,
\* the refresh token that is stored is one that a sign-in or a refresh has made and
\* answers with, unless the server stops before it does; or none is stored, and then a
\* refresh was refused.  No refused call, reset of the password, crash or concurrent
\* renewal leaves anything else.
SessionRenewable ==
    \A t \in Request : At(t, {"signin", "refresh"}, "ok") => Renewable(t)

\* "reset refresh token" (user.service.ts:217), the comment on the refusal of an access
\* token: whoever is refused for a token has no refresh token stored.  It does not hold:
\* see the run accounts_reset.
RefreshTokenReset ==
    [][\A t \in Request : pc[t] = "reset" /\ pc'[t] = "refused"
                             => account'[Of(t)].refresh = None]_allVars

\* The look-up and the insertion are two steps (registration.service.ts:58, :67): of
\* several links to one address that are opened at once, one makes the account, and the
\* account has the password of that link until one is reset.
ActivatedOnce ==
    \A t \in Request : At(t, {"activate"}, "ok") =>
        /\ \A u \in Request \ {t} : ~ (At(u, {"activate"}, "ok") /\ Of(u) = Of(t))
        /\ Known(Of(t))
        /\ (\A u \in Request : Asks(u, {"reset"}) /\ Of(u) = Of(t) => pc[u] \in {"new", "hash"})
              => account[Of(t)].pwd = ask[t].pwd

\* The mails of request t that reach address e.
Reaching(t, e) == {i \in sent[t] : e \in mails[t][i]}

\* The batches of an announcement are sent in parallel (announcement.service.ts:29):
\* nobody gets it twice, not even when a batch fails and the others go on, no mail has
\* more recipients than the mailer takes, and an announcement that is answered as sent
\* has reached every recipient of the body.
AnnouncedOnce ==
    \A t \in Request : Asks(t, {"announce"}) =>
        /\ \A i \in DOMAIN mails[t] : Cardinality(mails[t][i]) <= MaximumRecipientsPerMail
        /\ \A e \in Email : Cardinality(Reaching(t, e)) <= 1
        /\ pc[t] = "ok" => \A k \in DOMAIN recipients[t] : Reaching(t, recipients[t][k]) # {}

\* The inductive invariant behind the three.

ToOthers == {"announce", "preview", "contact"}

NoMail(t) == mails[t] = <<>> /\ underWay[t] = {} /\ sent[t] = {}

\* The mails of an announcement are disjoint; until it fails each is delivered or under
\* way, and every recipient is in one of them.
MailInv(t) ==
    /\ ~ Asks(t, ToOthers) \/ pc[t] \in {"new", "handler", "reset", "refused"} => NoMail(t)
    /\ Asks(t, {"announce"}) =>
        /\ \A i \in DOMAIN mails[t] : Cardinality(mails[t][i]) <= MaximumRecipientsPerMail
        /\ \A i, j \in DOMAIN mails[t] : i # j => mails[t][i] \cap mails[t][j] = {}
        /\ pc[t] \in {"mail", "ok"} =>
              /\ DOMAIN mails[t] \subseteq sent[t] \cup underWay[t]
              /\ \A k \in DOMAIN recipients[t] : \E i \in DOMAIN mails[t] : recipients[t][k] \in mails[t][i]
        /\ pc[t] = "ok" => underWay[t] = {}

IInv ==
    /\ AccountsInv
    /\ MailingTypeOK
    /\ \A t \in Request : MailInv(t)
=============================================================================
