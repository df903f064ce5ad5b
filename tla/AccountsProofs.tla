--------------------------- MODULE AccountsProofs ---------------------------
(***************************************************************************)
(* The theorems of Accounts, for any number of overlapping requests.       *)
(***************************************************************************)
EXTENDS Accounts, TLAPS

\* The row of users, a row of auth_action_tokens, and what a request may have read.
AccountRow == [row : {"none", "guest", "account"}, password : Passwords,
               scheme : {"argon2", "pbkdf2"}, email : Emails, verified : BOOLEAN,
               admin : BOOLEAN, version : 1..MaxVersion]
LinkRow == [status : {"free", "active", "used", "expired", "pruned"},
            action : Actions, sentTo : Emails, raced : BOOLEAN,
            before : SUBSET Links, uses : 0..1]
Logins == [does : {"login"}, password : Passwords, rehash : BOOLEAN,
           version : 1..MaxVersion, era : Eras, read : BOOLEAN, found : Rows]
Mailings == [does : {"mail"}, action : Actions, sentTo : Emails, read : BOOLEAN,
             seen : SUBSET Links, before : SUBSET Links]

\* Every ending raises the version; a link that may still be used was not.
Counted ==
    /\ era < account.version
    /\ \A t \in Links : link[t].status \in {"free", "active"} => link[t].uses = 0

\* Only an account logs in; what a login has read is of no later a version than the row's,
\* of its era if it is of its version, and has the account's password if of its era.
LoginsAgree ==
    /\ session # NoSession \/ access # {} => account.row = "account"
    /\ \A c \in Clients : worker[c].does = "login" =>
        /\ account.row = "account"
        /\ worker[c].version <= account.version
        /\ worker[c].era <= era
        /\ worker[c].version = account.version => worker[c].era = era
        /\ worker[c].era = era => chosen.undone \/ worker[c].password = account.password

\* Of the links there were when a link was made, none of its kind works any more, or ever
\* will; of those a request has seen, it knows which of its kind may.
LinksAgree ==
    /\ \A u \in Links : \A t \in link[u].before :
        /\ link[t].status # "free"
        /\ ~(link[t].status = "active" /\ link[t].action = link[u].action)
    /\ \A c \in Clients : worker[c].does = "mail" =>
        \A t \in worker[c].before :
            /\ link[t].status # "free"
            /\ link[t].status = "active" /\ link[t].action = worker[c].action
                => t \in worker[c].seen

\* A link that works proves the account's present address, unless it raced; only an account
\* is verified or mailed links.
LinksProve ==
    /\ account.row # "account" =>
        /\ ~account.verified
        /\ \A c \in Clients : worker[c].does # "mail"
        /\ \A t \in Links : link[t].status = "free"
    /\ \A t \in Links : link[t].status = "active" /\ link[t].action = "email_verify" =>
        link[t].raced \/ link[t].sentTo = account.email


AccountOK == account \in AccountRow
SessionOK == session \in [row : Rows \ {0}, era : Eras, password : Passwords, raced : BOOLEAN]
                            \cup {NoSession}
LinkOK == link \in [Links -> LinkRow]
WorkerOK == worker \in [Clients -> {Idle} \cup Logins \cup Mailings]
RestOK ==
    /\ access \subseteq [era : Eras, raced : BOOLEAN]
    /\ era \in Eras
    /\ chosen \in [password : Passwords, undone : BOOLEAN]
    /\ proof \in [address : Emails, raced : BOOLEAN]

LEMMA Parts == TypeOK <=> AccountOK /\ SessionOK /\ LinkOK /\ WorkerOK /\ RestOK
  BY DEF TypeOK, AccountOK, SessionOK, LinkOK, WorkerOK, RestOK, AccountRow, LinkRow, Logins,
         Mailings

\* An ending keeps the account's type, and counts.
LEMMA Bump ==
    ASSUME AccountOK, RestOK, Counted, account.version < MaxVersion
    PROVE  /\ Bumped \in AccountRow
           /\ Bumped.version = account.version + 1
           /\ era + 1 \in Eras
           /\ era < account.version + 1
           /\ era + 1 < account.version + 1
  BY AccountsAssumption DEF AccountOK, AccountRow, RestOK, Counted, Bumped, Eras

\* A link that is consumed is used for the first time.
LEMMA Consuming ==
    ASSUME LinkOK, Counted, NEW t \in Links, NEW a \in Actions, Consumable(t, a)
    PROVE  /\ Consumed(t) \in [Links -> LinkRow]
           /\ \A u \in Links : Consumed(t)[u].status \in {"free", "active"}
                => Consumed(t)[u].uses = 0
  <1>. DEFINE used == [[link[t] EXCEPT !.status = "used"] EXCEPT !.uses = 1]
  <1>1. link[t] \in LinkRow /\ link[t].uses = 0
    BY DEF LinkOK, Counted, Consumable
  <1>2. used \in LinkRow /\ used.status = "used"
    <2>1. [link[t] EXCEPT !.status = "used"] \in LinkRow
      BY <1>1 DEF LinkRow
    <2>2. \A r \in LinkRow : [r EXCEPT !.uses = 1] \in LinkRow
      BY 1 \in 0..1 DEF LinkRow
    <2>3. used \in LinkRow
      BY <2>1, <2>2
    <2>4. used.status = "used"
      BY <1>1 DEF LinkRow
    <2>. QED
      BY <2>3, <2>4
  <1>3. Consumed(t) = [link EXCEPT ![t] = used]
    BY <1>1 DEF Consumed, LinkOK, LinkRow
  <1>. HIDE DEF used
  <1>. QED
    BY <1>2, <1>3 DEF LinkOK, Counted

\* A link that is mailed is a row like the others, not used yet.
LEMMA Mailing ==
    ASSUME LinkOK, NEW t \in Links, NEW a \in Actions, NEW e \in Emails,
           NEW now \in Emails, NEW seen \in SUBSET Links, NEW before \in SUBSET Links
    PROVE  WithLink(t, a, e, now, seen, before) \in [Links -> LinkRow]
  <1>1. \A u \in Links : [link[u] EXCEPT !.status = "used"] \in LinkRow
    BY DEF LinkOK, LinkRow
  <1>2. [status |-> "active", action |-> a, sentTo |-> e, raced |-> e # now,
         before |-> before, uses |-> 0] \in LinkRow
    BY DEF LinkRow
  <1>. QED
    BY <1>1, <1>2 DEF LinkOK, WithLink

LEMMA NotUsedYet ==
    ASSUME LinkOK, Counted, NEW t, NEW a, NEW e, NEW now, NEW seen, NEW before,
           account'.version = account.version, era' = era, link' = WithLink(t, a, e, now, seen, before)
    PROVE  Counted'
  <1>1. \A u \in Links : [link[u] EXCEPT !.status = "used"].status = "used"
    BY DEF LinkOK, LinkRow
  <1>. QED
    BY <1>1 DEF WithLink, Counted

\* Every step keeps the types.
LEMMA Typed ==
    ASSUME TypeOK, Counted, [Next]_vars
    PROVE  TypeOK' /\ Counted'
  <1>. USE AccountsAssumption
  <1>0. AccountOK /\ SessionOK /\ LinkOK /\ WorkerOK /\ RestOK
    BY Parts
  <1>. SUFFICES AccountOK' /\ SessionOK' /\ LinkOK' /\ WorkerOK' /\ RestOK' /\ Counted'
    BY Parts, PTL
  <1>1. CASE CreateContact
    <2>1. AccountOK'
      BY <1>0, <1>1 DEF CreateContact, AccountOK, AccountRow
    <2>2. SessionOK'
      BY <1>0, <1>1 DEF CreateContact, SessionOK, AccountOK, AccountRow, NoSession, Rows, Eras
    <2>3. LinkOK'
      BY <1>0, <1>1 DEF CreateContact, LinkOK
    <2>4. WorkerOK'
      BY <1>0, <1>1 DEF CreateContact, WorkerOK, Idle
    <2>5. RestOK'
      BY <1>0, <1>1 DEF CreateContact, RestOK, SessionOK, NoSession
    <2>6. Counted'
      BY <1>0, <1>1 DEF CreateContact, Counted
    <2>. QED
      BY <2>1, <2>2, <2>3, <2>4, <2>5, <2>6
  <1>2. CASE Refresh
    <2>1. AccountOK'
      BY <1>0, <1>2, Bump DEF Refresh, AccountOK, AccountRow
    <2>2. SessionOK'
      BY <1>0, <1>2, Bump DEF Refresh, SessionOK, AccountOK, AccountRow, NoSession, Rows, Eras
    <2>3. LinkOK'
      BY <1>0, <1>2, Bump DEF Refresh, LinkOK
    <2>4. WorkerOK'
      BY <1>0, <1>2, Bump DEF Refresh, WorkerOK, Idle
    <2>5. RestOK'
      BY <1>0, <1>2, Bump DEF Refresh, RestOK, SessionOK, NoSession
    <2>6. Counted'
      BY <1>0, <1>2, Bump DEF Refresh, Counted
    <2>. QED
      BY <2>1, <2>2, <2>3, <2>4, <2>5, <2>6
  <1>3. CASE Logout
    <2>1. AccountOK'
      BY <1>0, <1>3, Bump DEF Logout, AccountOK, AccountRow
    <2>2. SessionOK'
      BY <1>0, <1>3, Bump DEF Logout, SessionOK, AccountOK, AccountRow, NoSession, Rows, Eras
    <2>3. LinkOK'
      BY <1>0, <1>3, Bump DEF Logout, LinkOK
    <2>4. WorkerOK'
      BY <1>0, <1>3, Bump DEF Logout, WorkerOK, Idle
    <2>5. RestOK'
      BY <1>0, <1>3, Bump DEF Logout, RestOK, SessionOK, NoSession
    <2>6. Counted'
      BY <1>0, <1>3, Bump DEF Logout, Counted
    <2>. QED
      BY <2>1, <2>2, <2>3, <2>4, <2>5, <2>6
  <1>4. CASE RevokeAdmin
    <2>1. AccountOK'
      BY <1>0, <1>4, Bump DEF RevokeAdmin, AccountOK, AccountRow
    <2>2. SessionOK'
      BY <1>0, <1>4, Bump DEF RevokeAdmin, SessionOK, AccountOK, AccountRow, NoSession, Rows, Eras
    <2>3. LinkOK'
      BY <1>0, <1>4, Bump DEF RevokeAdmin, LinkOK
    <2>4. WorkerOK'
      BY <1>0, <1>4, Bump DEF RevokeAdmin, WorkerOK, Idle
    <2>5. RestOK'
      BY <1>0, <1>4, Bump DEF RevokeAdmin, RestOK, SessionOK, NoSession
    <2>6. Counted'
      BY <1>0, <1>4, Bump DEF RevokeAdmin, Counted, AccountRow
    <2>. QED
      BY <2>1, <2>2, <2>3, <2>4, <2>5, <2>6
  <1>5. ASSUME NEW p \in Passwords, CreateAdmin(p)
         PROVE  AccountOK' /\ SessionOK' /\ LinkOK' /\ WorkerOK' /\ RestOK' /\ Counted'
    <2>1. AccountOK'
      BY <1>0, <1>5 DEF CreateAdmin, AccountOK, AccountRow
    <2>2. SessionOK'
      BY <1>0, <1>5 DEF CreateAdmin, SessionOK, AccountOK, AccountRow, NoSession, Rows, Eras
    <2>3. LinkOK'
      BY <1>0, <1>5 DEF CreateAdmin, LinkOK
    <2>4. WorkerOK'
      BY <1>0, <1>5 DEF CreateAdmin, WorkerOK, Idle
    <2>5. RestOK'
      BY <1>0, <1>5 DEF CreateAdmin, RestOK, SessionOK, NoSession, AccountOK, AccountRow
    <2>6. Counted'
      BY <1>0, <1>5 DEF CreateAdmin, Counted, AccountOK, AccountRow
    <2>. QED
      BY <2>1, <2>2, <2>3, <2>4, <2>5, <2>6
  <1>6. ASSUME NEW p \in Passwords, ChangePassword(p)
         PROVE  AccountOK' /\ SessionOK' /\ LinkOK' /\ WorkerOK' /\ RestOK' /\ Counted'
    <2>1. AccountOK'
      BY <1>0, <1>6, Bump DEF ChangePassword, SetPassword, AccountOK, AccountRow
    <2>2. SessionOK'
      BY <1>0, <1>6, Bump DEF ChangePassword, SetPassword, SessionOK, AccountOK, AccountRow, NoSession, Rows, Eras
    <2>3. LinkOK'
      BY <1>0, <1>6, Bump DEF ChangePassword, SetPassword, LinkOK
    <2>4. WorkerOK'
      BY <1>0, <1>6, Bump DEF ChangePassword, SetPassword, WorkerOK, Idle
    <2>5. RestOK'
      BY <1>0, <1>6, Bump DEF ChangePassword, SetPassword, RestOK, SessionOK, NoSession
    <2>6. Counted'
      BY <1>0, <1>6, Bump DEF ChangePassword, SetPassword, Counted, AccountRow
    <2>. QED
      BY <2>1, <2>2, <2>3, <2>4, <2>5, <2>6
  <1>7. ASSUME NEW t \in Links, ConfirmEmail(t)
         PROVE  AccountOK' /\ SessionOK' /\ LinkOK' /\ WorkerOK' /\ RestOK' /\ Counted'
    <2>1. AccountOK'
      BY <1>0, <1>7 DEF ConfirmEmail, AccountOK, AccountRow
    <2>2. SessionOK'
      BY <1>0, <1>7 DEF ConfirmEmail, SessionOK, AccountOK, AccountRow, NoSession, Rows, Eras
    <2>3. LinkOK'
      BY <1>0, <1>7, Consuming DEF ConfirmEmail, LinkOK, Actions
    <2>4. WorkerOK'
      BY <1>0, <1>7 DEF ConfirmEmail, WorkerOK, Idle
    <2>5. RestOK'
      BY <1>0, <1>7 DEF ConfirmEmail, RestOK, SessionOK, NoSession, LinkOK, LinkRow
    <2>6. Counted'
      BY <1>0, <1>7, Consuming DEF ConfirmEmail, Counted, Actions, AccountOK, AccountRow
    <2>. QED
      BY <2>1, <2>2, <2>3, <2>4, <2>5, <2>6
  <1>8. ASSUME NEW t \in Links, Expire(t)
         PROVE  AccountOK' /\ SessionOK' /\ LinkOK' /\ WorkerOK' /\ RestOK' /\ Counted'
    <2>1. AccountOK'
      BY <1>0, <1>8 DEF Expire, AccountOK, AccountRow
    <2>2. SessionOK'
      BY <1>0, <1>8 DEF Expire, SessionOK, AccountOK, AccountRow, NoSession, Rows, Eras
    <2>3. LinkOK'
      BY <1>0, <1>8 DEF Expire, LinkOK, LinkRow
    <2>4. WorkerOK'
      BY <1>0, <1>8 DEF Expire, WorkerOK, Idle
    <2>5. RestOK'
      BY <1>0, <1>8 DEF Expire, RestOK, SessionOK, NoSession
    <2>6. Counted'
      BY <1>0, <1>8 DEF Expire, Counted, LinkOK, LinkRow
    <2>. QED
      BY <2>1, <2>2, <2>3, <2>4, <2>5, <2>6
  <1>9. ASSUME NEW t \in Links, Prune(t)
         PROVE  AccountOK' /\ SessionOK' /\ LinkOK' /\ WorkerOK' /\ RestOK' /\ Counted'
    <2>1. AccountOK'
      BY <1>0, <1>9 DEF Prune, AccountOK, AccountRow
    <2>2. SessionOK'
      BY <1>0, <1>9 DEF Prune, SessionOK, AccountOK, AccountRow, NoSession, Rows, Eras
    <2>3. LinkOK'
      BY <1>0, <1>9 DEF Prune, LinkOK, LinkRow
    <2>4. WorkerOK'
      BY <1>0, <1>9 DEF Prune, WorkerOK, Idle
    <2>5. RestOK'
      BY <1>0, <1>9 DEF Prune, RestOK, SessionOK, NoSession
    <2>6. Counted'
      BY <1>0, <1>9 DEF Prune, Counted, LinkOK, LinkRow
    <2>. QED
      BY <2>1, <2>2, <2>3, <2>4, <2>5, <2>6
  <1>10. ASSUME NEW t \in Links, NEW p \in Passwords, Register(p, t)
         PROVE  AccountOK' /\ SessionOK' /\ LinkOK' /\ WorkerOK' /\ RestOK' /\ Counted'
    <2>1. AccountOK'
      BY <1>0, <1>10 DEF Register, AccountOK, AccountRow
    <2>2. SessionOK'
      BY <1>0, <1>10 DEF Register, SessionOK, AccountOK, AccountRow, NoSession, Rows, Eras
    <2>3. LinkOK'
      BY <1>0, <1>10, Mailing DEF Register, LinkOK, Actions, Active, Mailed, AccountOK, AccountRow
    <2>4. WorkerOK'
      BY <1>0, <1>10 DEF Register, WorkerOK, Idle
    <2>5. RestOK'
      BY <1>0, <1>10 DEF Register, RestOK, SessionOK, NoSession
    <2>6. Counted'
      BY <1>0, <1>10, NotUsedYet DEF Register, AccountOK, AccountRow
    <2>. QED
      BY <2>1, <2>2, <2>3, <2>4, <2>5, <2>6
  <1>11. ASSUME NEW t \in Links, NEW p \in Passwords, ResetPassword(t, p)
         PROVE  AccountOK' /\ SessionOK' /\ LinkOK' /\ WorkerOK' /\ RestOK' /\ Counted'
    <2>1. AccountOK'
      BY <1>0, <1>11, Bump DEF ResetPassword, SetPassword, AccountOK, AccountRow
    <2>2. SessionOK'
      BY <1>0, <1>11, Bump DEF ResetPassword, SetPassword, SessionOK, AccountOK, AccountRow, NoSession, Rows, Eras
    <2>3. LinkOK'
      BY <1>0, <1>11, Consuming DEF ResetPassword, SetPassword, LinkOK, Actions
    <2>4. WorkerOK'
      BY <1>0, <1>11, Bump DEF ResetPassword, SetPassword, WorkerOK, Idle
    <2>5. RestOK'
      BY <1>0, <1>11, Bump DEF ResetPassword, SetPassword, RestOK, SessionOK, NoSession
    <2>6. Counted'
      BY <1>0, <1>11, Bump, Consuming DEF ResetPassword, SetPassword, Counted, Actions, AccountRow
    <2>. QED
      BY <2>1, <2>2, <2>3, <2>4, <2>5, <2>6
  <1>12. ASSUME NEW t \in Links, NEW e \in Emails, UpdateProfile(e, t)
         PROVE  AccountOK' /\ SessionOK' /\ LinkOK' /\ WorkerOK' /\ RestOK' /\ Counted'
    <2>1. AccountOK'
      BY <1>0, <1>12 DEF UpdateProfile, AccountOK, AccountRow
    <2>2. SessionOK'
      BY <1>0, <1>12 DEF UpdateProfile, SessionOK, AccountOK, AccountRow, NoSession, Rows, Eras
    <2>3. LinkOK'
      BY <1>0, <1>12, Mailing DEF UpdateProfile, LinkOK, Actions, Active, Mailed, AccountOK, AccountRow
    <2>4. WorkerOK'
      BY <1>0, <1>12 DEF UpdateProfile, WorkerOK, Idle
    <2>5. RestOK'
      BY <1>0, <1>12 DEF UpdateProfile, RestOK, SessionOK, NoSession
    <2>6. Counted'
      BY <1>0, <1>12, NotUsedYet DEF UpdateProfile, AccountOK, AccountRow
    <2>. QED
      BY <2>1, <2>2, <2>3, <2>4, <2>5, <2>6
  <1>13. ASSUME NEW c \in Clients, RequestVerification(c)
         PROVE  AccountOK' /\ SessionOK' /\ LinkOK' /\ WorkerOK' /\ RestOK' /\ Counted'
    <2>1. AccountOK'
      BY <1>0, <1>13 DEF RequestVerification, AccountOK, AccountRow
    <2>2. SessionOK'
      BY <1>0, <1>13 DEF RequestVerification, SessionOK, AccountOK, AccountRow, NoSession, Rows, Eras
    <2>3. LinkOK'
      BY <1>0, <1>13 DEF RequestVerification, LinkOK
    <2>4. WorkerOK'
      BY <1>0, <1>13 DEF RequestVerification, WorkerOK, Idle, Mailings, Actions, AccountOK, AccountRow
    <2>5. RestOK'
      BY <1>0, <1>13 DEF RequestVerification, RestOK, SessionOK, NoSession
    <2>6. Counted'
      BY <1>0, <1>13 DEF RequestVerification, Counted
    <2>. QED
      BY <2>1, <2>2, <2>3, <2>4, <2>5, <2>6
  <1>14. ASSUME NEW c \in Clients, RequestReset(c)
         PROVE  AccountOK' /\ SessionOK' /\ LinkOK' /\ WorkerOK' /\ RestOK' /\ Counted'
    <2>1. AccountOK'
      BY <1>0, <1>14 DEF RequestReset, AccountOK, AccountRow
    <2>2. SessionOK'
      BY <1>0, <1>14 DEF RequestReset, SessionOK, AccountOK, AccountRow, NoSession, Rows, Eras
    <2>3. LinkOK'
      BY <1>0, <1>14 DEF RequestReset, LinkOK
    <2>4. WorkerOK'
      BY <1>0, <1>14 DEF RequestReset, WorkerOK, Idle, Mailings, Actions, AccountOK, AccountRow
    <2>5. RestOK'
      BY <1>0, <1>14 DEF RequestReset, RestOK, SessionOK, NoSession
    <2>6. Counted'
      BY <1>0, <1>14 DEF RequestReset, Counted
    <2>. QED
      BY <2>1, <2>2, <2>3, <2>4, <2>5, <2>6
  <1>15. ASSUME NEW c \in Clients, ReadActive(c)
         PROVE  AccountOK' /\ SessionOK' /\ LinkOK' /\ WorkerOK' /\ RestOK' /\ Counted'
    <2>1. AccountOK'
      BY <1>0, <1>15 DEF ReadActive, AccountOK, AccountRow
    <2>2. SessionOK'
      BY <1>0, <1>15 DEF ReadActive, SessionOK, AccountOK, AccountRow, NoSession, Rows, Eras
    <2>3. LinkOK'
      BY <1>0, <1>15 DEF ReadActive, LinkOK
    <2>4. WorkerOK'
      <3>1. worker[c] \in Mailings
        BY <1>0, <1>15 DEF ReadActive, WorkerOK, Logins, Idle
      <3>2. Active(worker[c].action) \in SUBSET Links /\ Mailed \in SUBSET Links
        BY DEF Active, Mailed
      <3>3. worker'[c] \in Mailings
        BY <1>0, <1>15, <3>1, <3>2 DEF ReadActive, WorkerOK, Mailings
      <3>4. worker' = [worker EXCEPT ![c] = worker'[c]]
        BY <1>0, <1>15 DEF ReadActive, WorkerOK
      <3>. QED
        BY <1>0, <3>3, <3>4 DEF WorkerOK
    <2>5. RestOK'
      BY <1>0, <1>15 DEF ReadActive, RestOK, SessionOK, NoSession
    <2>6. Counted'
      BY <1>0, <1>15 DEF ReadActive, Counted
    <2>. QED
      BY <2>1, <2>2, <2>3, <2>4, <2>5, <2>6
  <1>16. ASSUME NEW c \in Clients, MailFails(c)
         PROVE  AccountOK' /\ SessionOK' /\ LinkOK' /\ WorkerOK' /\ RestOK' /\ Counted'
    <2>1. AccountOK'
      BY <1>0, <1>16 DEF MailFails, AccountOK, AccountRow
    <2>2. SessionOK'
      BY <1>0, <1>16 DEF MailFails, SessionOK, AccountOK, AccountRow, NoSession, Rows, Eras
    <2>3. LinkOK'
      BY <1>0, <1>16 DEF MailFails, LinkOK
    <2>4. WorkerOK'
      BY <1>0, <1>16 DEF MailFails, WorkerOK, Idle
    <2>5. RestOK'
      BY <1>0, <1>16 DEF MailFails, RestOK, SessionOK, NoSession
    <2>6. Counted'
      BY <1>0, <1>16 DEF MailFails, Counted
    <2>. QED
      BY <2>1, <2>2, <2>3, <2>4, <2>5, <2>6
  <1>17. ASSUME NEW c \in Clients, NEW t \in Links, MailLink(c, t)
         PROVE  AccountOK' /\ SessionOK' /\ LinkOK' /\ WorkerOK' /\ RestOK' /\ Counted'
    <2>0. worker[c] \in Mailings
      BY <1>0, <1>17 DEF MailLink, WorkerOK, Logins, Idle
    <2>a. /\ worker[c].action \in Actions /\ worker[c].sentTo \in Emails
          /\ worker[c].seen \in SUBSET Links /\ worker[c].before \in SUBSET Links
      BY <2>0 DEF Mailings
    <2>1. AccountOK'
      BY <1>0, <1>17 DEF MailLink, AccountOK, AccountRow
    <2>2. SessionOK'
      BY <1>0, <1>17 DEF MailLink, SessionOK, AccountOK, AccountRow, NoSession, Rows, Eras
    <2>3. LinkOK'
      BY <1>0, <1>17, Mailing, <2>a DEF MailLink, LinkOK, AccountOK, AccountRow
    <2>4. WorkerOK'
      BY <1>0, <1>17 DEF MailLink, WorkerOK, Idle
    <2>5. RestOK'
      BY <1>0, <1>17 DEF MailLink, RestOK, SessionOK, NoSession
    <2>6. Counted'
      BY <1>0, <1>17, NotUsedYet DEF MailLink
    <2>. QED
      BY <2>1, <2>2, <2>3, <2>4, <2>5, <2>6
  <1>18. ASSUME NEW c \in Clients, NEW p \in Passwords, LoginReadsUser(c, p)
         PROVE  AccountOK' /\ SessionOK' /\ LinkOK' /\ WorkerOK' /\ RestOK' /\ Counted'
    <2>1. AccountOK'
      BY <1>0, <1>18 DEF LoginReadsUser, AccountOK, AccountRow
    <2>2. SessionOK'
      BY <1>0, <1>18 DEF LoginReadsUser, SessionOK, AccountOK, AccountRow, NoSession, Rows, Eras
    <2>3. LinkOK'
      BY <1>0, <1>18 DEF LoginReadsUser, LinkOK
    <2>4. WorkerOK'
      BY <1>0, <1>18 DEF LoginReadsUser, WorkerOK, Idle, Logins, RestOK, Rows, AccountOK, AccountRow
    <2>5. RestOK'
      BY <1>0, <1>18 DEF LoginReadsUser, RestOK, SessionOK, NoSession
    <2>6. Counted'
      BY <1>0, <1>18 DEF LoginReadsUser, Counted
    <2>. QED
      BY <2>1, <2>2, <2>3, <2>4, <2>5, <2>6
  <1>19. ASSUME NEW c \in Clients, LoginReadsSession(c)
         PROVE  AccountOK' /\ SessionOK' /\ LinkOK' /\ WorkerOK' /\ RestOK' /\ Counted'
    <2>1. AccountOK'
      BY <1>0, <1>19 DEF LoginReadsSession, AccountOK, AccountRow
    <2>2. SessionOK'
      BY <1>0, <1>19 DEF LoginReadsSession, SessionOK, AccountOK, AccountRow, NoSession, Rows, Eras
    <2>3. LinkOK'
      BY <1>0, <1>19 DEF LoginReadsSession, LinkOK
    <2>4. WorkerOK'
      BY <1>0, <1>19 DEF LoginReadsSession, WorkerOK, Idle, Logins, Mailings, SessionOK, NoSession, Rows
    <2>5. RestOK'
      BY <1>0, <1>19 DEF LoginReadsSession, RestOK, SessionOK, NoSession
    <2>6. Counted'
      BY <1>0, <1>19 DEF LoginReadsSession, Counted
    <2>. QED
      BY <2>1, <2>2, <2>3, <2>4, <2>5, <2>6
  <1>20. ASSUME NEW c \in Clients, LoginCommits(c)
         PROVE  AccountOK' /\ SessionOK' /\ LinkOK' /\ WorkerOK' /\ RestOK' /\ Counted'
    <2>0. worker[c] \in Logins
      BY <1>0, <1>20 DEF LoginCommits, WorkerOK, Mailings, Idle
    <2>1. AccountOK'
      BY <1>0, <1>20, <2>0 DEF LoginCommits, AccountOK, AccountRow, Logins
    <2>2. SessionOK'
      BY <1>0, <1>20 DEF LoginCommits, SessionOK, AccountOK, AccountRow, NoSession, Rows, Eras, Upserted, RestOK, WorkerOK, Logins, Mailings, Idle
    <2>3. LinkOK'
      BY <1>0, <1>20 DEF LoginCommits, LinkOK
    <2>4. WorkerOK'
      BY <1>0, <1>20 DEF LoginCommits, WorkerOK, Idle
    <2>5. RestOK'
      <3>1. worker[c].era \in Eras
        BY <2>0 DEF Logins
      <3>2. access' \subseteq [era : Eras, raced : BOOLEAN]
        <4>2. [era |-> worker[c].era, raced |-> worker[c].era # era]
                \in [era : Eras, raced : BOOLEAN]
          BY <3>1
        <4>3. access' = access
              \/ access' = access \cup {[era |-> worker[c].era, raced |-> worker[c].era # era]}
          BY <1>20 DEF LoginCommits
        <4>. QED
          BY <1>0, <4>2, <4>3 DEF RestOK
      <3>3. chosen' \in [password : Passwords, undone : BOOLEAN]
        BY <1>0, <1>20, <2>0 DEF LoginCommits, RestOK, Logins
      <3>. QED
        BY <1>0, <1>20, <3>2, <3>3 DEF LoginCommits, RestOK
    <2>6. Counted'
      BY <1>0, <1>20 DEF LoginCommits, Counted, AccountOK, AccountRow
    <2>. QED
      BY <2>1, <2>2, <2>3, <2>4, <2>5, <2>6
  <1>21. ASSUME NEW c \in Clients, LoginFails(c)
         PROVE  AccountOK' /\ SessionOK' /\ LinkOK' /\ WorkerOK' /\ RestOK' /\ Counted'
    <2>1. AccountOK'
      BY <1>0, <1>21 DEF LoginFails, AccountOK, AccountRow
    <2>2. SessionOK'
      BY <1>0, <1>21 DEF LoginFails, SessionOK, AccountOK, AccountRow, NoSession, Rows, Eras
    <2>3. LinkOK'
      BY <1>0, <1>21 DEF LoginFails, LinkOK
    <2>4. WorkerOK'
      BY <1>0, <1>21 DEF LoginFails, WorkerOK, Idle
    <2>5. RestOK'
      BY <1>0, <1>21 DEF LoginFails, RestOK, SessionOK, NoSession
    <2>6. Counted'
      BY <1>0, <1>21 DEF LoginFails, Counted
    <2>. QED
      BY <2>1, <2>2, <2>3, <2>4, <2>5, <2>6
  <1>22. CASE UNCHANGED vars
    BY <1>0, <1>22 DEF vars, AccountOK, SessionOK, LinkOK, WorkerOK, RestOK, Counted
  <1>. QED
    BY <1>1, <1>2, <1>3, <1>4, <1>5, <1>6, <1>7, <1>8, <1>9, <1>10, <1>11,
       <1>12, <1>13, <1>14, <1>15, <1>16, <1>17, <1>18, <1>19, <1>20, <1>21, <1>22 DEF Next

\* Every step keeps what logins have read, and what was ended, in order.
LEMMA Ended ==
    ASSUME TypeOK, Counted, LoginsAgree, EndedStaysEnded, LastPasswordWins, [Next]_vars
    PROVE  LoginsAgree' /\ EndedStaysEnded' /\ LastPasswordWins'
  <1>. USE AccountsAssumption DEF TypeOK, Counted, Idle, NoSession, Eras, Rows, Links, Actions, LoginsAgree, EndedStaysEnded, LastPasswordWins
  <1>1. CASE CreateContact
    BY <1>1 DEF CreateContact
  <1>2. CASE Refresh
    BY <1>2 DEF Refresh, Bumped
  <1>3. CASE Logout \/ RevokeAdmin
    <2>1. /\ session' = NoSession /\ access' = {} /\ era' = era + 1
          /\ worker' = worker /\ chosen' = chosen
          /\ account'.row = account.row /\ account'.password = account.password
          /\ account'.version = account.version + 1
      BY <1>3 DEF Logout, RevokeAdmin, Bumped
    <2>. QED
      BY <2>1
  <1>4. ASSUME NEW p \in Passwords, ChangePassword(p)
         PROVE  LoginsAgree' /\ EndedStaysEnded' /\ LastPasswordWins'
    <2>1. /\ session' = NoSession /\ access' = {} /\ era' = era + 1 /\ worker' = worker
          /\ chosen' = [password |-> p, undone |-> FALSE]
          /\ account'.row = "account" /\ account'.password = p
          /\ account'.version = account.version + 1
      BY <1>4 DEF ChangePassword, SetPassword, Bumped, Admitted
    <2>. QED
      BY <2>1
  <1>5. ASSUME NEW p \in Passwords, CreateAdmin(p)
         PROVE  LoginsAgree' /\ EndedStaysEnded' /\ LastPasswordWins'
    BY <1>5 DEF CreateAdmin
  <1>7. ASSUME NEW t \in Links, ConfirmEmail(t)
         PROVE  LoginsAgree' /\ EndedStaysEnded' /\ LastPasswordWins'
    BY <1>7 DEF ConfirmEmail
  <1>8. ASSUME NEW t \in Links, Expire(t)
         PROVE  LoginsAgree' /\ EndedStaysEnded' /\ LastPasswordWins'
    BY <1>8 DEF Expire
  <1>9. ASSUME NEW t \in Links, Prune(t)
         PROVE  LoginsAgree' /\ EndedStaysEnded' /\ LastPasswordWins'
    BY <1>9 DEF Prune
  <1>10. ASSUME NEW t \in Links, NEW p \in Passwords, Register(p, t)
         PROVE  LoginsAgree' /\ EndedStaysEnded' /\ LastPasswordWins'
    BY <1>10 DEF Register
  <1>11. ASSUME NEW t \in Links, NEW p \in Passwords, ResetPassword(t, p)
         PROVE  LoginsAgree' /\ EndedStaysEnded' /\ LastPasswordWins'
    <2>1. /\ session' = NoSession /\ access' = {} /\ era' = era + 1 /\ worker' = worker
          /\ chosen' = [password |-> p, undone |-> FALSE]
          /\ account'.row = "account" /\ account'.password = p
          /\ account'.version = account.version + 1
      BY <1>11 DEF ResetPassword, SetPassword, Bumped
    <2>. QED
      BY <2>1
  <1>12. ASSUME NEW t \in Links, NEW e \in Emails, UpdateProfile(e, t)
         PROVE  LoginsAgree' /\ EndedStaysEnded' /\ LastPasswordWins'
    BY <1>12 DEF UpdateProfile
  <1>13. ASSUME NEW c \in Clients, RequestVerification(c)
         PROVE  LoginsAgree' /\ EndedStaysEnded' /\ LastPasswordWins'
    BY <1>13 DEF RequestVerification
  <1>14. ASSUME NEW c \in Clients, RequestReset(c)
         PROVE  LoginsAgree' /\ EndedStaysEnded' /\ LastPasswordWins'
    BY <1>14 DEF RequestReset
  <1>15. ASSUME NEW c \in Clients, ReadActive(c)
         PROVE  LoginsAgree' /\ EndedStaysEnded' /\ LastPasswordWins'
    BY <1>15 DEF ReadActive
  <1>16. ASSUME NEW c \in Clients, MailFails(c)
         PROVE  LoginsAgree' /\ EndedStaysEnded' /\ LastPasswordWins'
    BY <1>16 DEF MailFails
  <1>17. ASSUME NEW c \in Clients, NEW t \in Links, MailLink(c, t)
         PROVE  LoginsAgree' /\ EndedStaysEnded' /\ LastPasswordWins'
    BY <1>17 DEF MailLink
  <1>18. ASSUME NEW c \in Clients, NEW p \in Passwords, LoginReadsUser(c, p)
         PROVE  LoginsAgree' /\ EndedStaysEnded' /\ LastPasswordWins'
    BY <1>18 DEF LoginReadsUser
  <1>19. ASSUME NEW c \in Clients, LoginReadsSession(c)
         PROVE  LoginsAgree' /\ EndedStaysEnded' /\ LastPasswordWins'
    BY <1>19 DEF LoginReadsSession
  <1>20. ASSUME NEW c \in Clients, LoginCommits(c)
         PROVE  LoginsAgree' /\ EndedStaysEnded' /\ LastPasswordWins'
    BY <1>20 DEF LoginCommits, Upserted
  <1>21. ASSUME NEW c \in Clients, LoginFails(c)
         PROVE  LoginsAgree' /\ EndedStaysEnded' /\ LastPasswordWins'
    BY <1>21 DEF LoginFails
  <1>22. CASE UNCHANGED vars
    BY <1>22 DEF vars
  <1>. QED
    BY <1>1, <1>2, <1>3, <1>4, <1>5, <1>7, <1>8, <1>9, <1>10, <1>11,
       <1>12, <1>13, <1>14, <1>15, <1>16, <1>17, <1>18, <1>19, <1>20, <1>21, <1>22 DEF Next

\* Links that are only used, expired or pruned stay invalidated.
LEMMA Closing ==
    ASSUME LinksAgree, UNCHANGED worker,
           \A u \in Links :
            /\ link'[u].before = link[u].before
            /\ link'[u].action = link[u].action
            /\ link'[u].status = link[u].status \/ link'[u].status \in {"used", "expired", "pruned"},
           \A u \in Links : link[u].before \subseteq Links,
           \A c \in Clients : worker[c].does = "mail" => worker[c].before \subseteq Links
    PROVE  LinksAgree'
  BY DEF LinksAgree

\* Every step keeps the older links invalidated.
LEMMA Newest ==
    ASSUME TypeOK, LinksAgree, [Next]_vars
    PROVE  LinksAgree'
  <1>. USE AccountsAssumption DEF TypeOK, Idle, Links, Actions, LinksAgree
  <1>0. /\ \A u \in Links : link[u].before \subseteq Links
        /\ \A c \in Clients : worker[c].does = "mail" =>
            worker[c].before \subseteq Links /\ worker[c].seen \subseteq Links
    <2>1. link \in [Links -> LinkRow] /\ worker \in [Clients -> {Idle} \cup Logins \cup Mailings]
      BY Parts DEF LinkOK, WorkerOK
    <2>2. \A c \in Clients : worker[c].does = "mail" => worker[c] \in Mailings
      BY <2>1 DEF Logins
    <2>. QED
      BY <2>1, <2>2 DEF LinkRow, Mailings
  <1>1. CASE CreateContact
    BY <1>1 DEF CreateContact
  <1>2. CASE Refresh
    BY <1>2 DEF Refresh
  <1>3. CASE Logout
    BY <1>3 DEF Logout
  <1>4. CASE RevokeAdmin
    BY <1>4 DEF RevokeAdmin
  <1>5. ASSUME NEW p \in Passwords, CreateAdmin(p)
         PROVE  LinksAgree'
    BY <1>5 DEF CreateAdmin
  <1>6. ASSUME NEW p \in Passwords, ChangePassword(p)
         PROVE  LinksAgree'
    BY <1>6 DEF ChangePassword, SetPassword
  <1>7. ASSUME NEW t \in Links, ConfirmEmail(t)
         PROVE  LinksAgree'
    BY <1>0, <1>7, Closing DEF ConfirmEmail, Consumable, Consumed
  <1>8. ASSUME NEW t \in Links, Expire(t)
         PROVE  LinksAgree'
    BY <1>0, <1>8, Closing DEF Expire
  <1>9. ASSUME NEW t \in Links, Prune(t)
         PROVE  LinksAgree'
    BY <1>0, <1>9, Closing DEF Prune
  <1>10. ASSUME NEW t \in Links, NEW p \in Passwords, Register(p, t)
         PROVE  LinksAgree'
    <2>1. \A u \in Links : link'[u].status # "free" <=> u = t \/ link[u].status # "free"
      BY <1>10 DEF Register, WithLink, Fresh
    <2>2. \A u \in Links : u # t =>
            /\ link'[u].before = link[u].before /\ link'[u].action = link[u].action
            /\ link'[u].status = "active" =>
                link[u].status = "active" /\ link[u].action # "email_verify"
      BY <1>10 DEF Register, WithLink, Active
    <2>3. link'[t].before = Mailed /\ link'[t].action = "email_verify" /\ t \notin Mailed
      BY <1>10 DEF Register, WithLink, Mailed, Fresh
    <2>4. \A u \in Links : \A v \in link'[u].before :
            /\ v # t
            /\ link'[v].status # "free"
            /\ ~(link'[v].status = "active" /\ link'[v].action = link'[u].action)
      BY <1>0, <1>10, <2>1, <2>2, <2>3, SMTT(30) DEF Mailed, Fresh
    <2>. QED
      BY <1>0, <1>10, <2>1, <2>2, <2>4 DEF Register, Fresh
  <1>11. ASSUME NEW t \in Links, NEW p \in Passwords, ResetPassword(t, p)
         PROVE  LinksAgree'
    BY <1>0, <1>11, Closing DEF ResetPassword, SetPassword, Consumable, Consumed
  <1>12. ASSUME NEW t \in Links, NEW e \in Emails, UpdateProfile(e, t)
         PROVE  LinksAgree'
    BY <1>12 DEF UpdateProfile, WithLink, Mailed, Fresh, Active
  <1>13. ASSUME NEW c \in Clients, RequestVerification(c)
         PROVE  LinksAgree'
    BY <1>13 DEF RequestVerification
  <1>14. ASSUME NEW c \in Clients, RequestReset(c)
         PROVE  LinksAgree'
    BY <1>14 DEF RequestReset
  <1>15. ASSUME NEW c \in Clients, ReadActive(c)
         PROVE  LinksAgree'
    <2>1. worker'[c].before = Mailed /\ worker'[c].seen = Active(worker'[c].action)
      BY <1>15 DEF ReadActive
    <2>2. \A d \in Clients : d # c => worker'[d] = worker[d]
      BY <1>15 DEF ReadActive
    <2>3. link' = link
      BY <1>15 DEF ReadActive
    <2>. QED
      BY <2>1, <2>2, <2>3 DEF Active, Mailed
  <1>16. ASSUME NEW c \in Clients, MailFails(c)
         PROVE  LinksAgree'
    BY <1>16 DEF MailFails
  <1>17. ASSUME NEW c \in Clients, NEW t \in Links, MailLink(c, t)
         PROVE  LinksAgree'
    BY <1>17 DEF MailLink, WithLink, Fresh
  <1>18. ASSUME NEW c \in Clients, NEW p \in Passwords, LoginReadsUser(c, p)
         PROVE  LinksAgree'
    BY <1>18 DEF LoginReadsUser
  <1>19. ASSUME NEW c \in Clients, LoginReadsSession(c)
         PROVE  LinksAgree'
    BY <1>19 DEF LoginReadsSession
  <1>20. ASSUME NEW c \in Clients, LoginCommits(c)
         PROVE  LinksAgree'
    BY <1>20 DEF LoginCommits
  <1>21. ASSUME NEW c \in Clients, LoginFails(c)
         PROVE  LinksAgree'
    BY <1>21 DEF LoginFails
  <1>22. CASE UNCHANGED vars
    BY <1>22 DEF vars
  <1>. QED
    BY <1>1, <1>2, <1>3, <1>4, <1>5, <1>6, <1>7, <1>8, <1>9, <1>10, <1>11,
       <1>12, <1>13, <1>14, <1>15, <1>16, <1>17, <1>18, <1>19, <1>20, <1>21, <1>22 DEF Next

\* Every step keeps verified addresses proven.
LEMMA Proven ==
    ASSUME TypeOK, LinksProve, VerifiedIsProven, [Next]_vars
    PROVE  LinksProve' /\ VerifiedIsProven'
  <1>. USE AccountsAssumption DEF TypeOK, Idle, Links, Actions, LinksProve, VerifiedIsProven
  <1>1. CASE CreateContact
    BY <1>1 DEF CreateContact
  <1>2. CASE Refresh
    BY <1>2 DEF Refresh, Bumped
  <1>3. CASE Logout
    BY <1>3 DEF Logout, Bumped
  <1>4. CASE RevokeAdmin
    BY <1>4 DEF RevokeAdmin, Bumped
  <1>5. ASSUME NEW p \in Passwords, CreateAdmin(p)
         PROVE  LinksProve' /\ VerifiedIsProven'
    BY <1>5 DEF CreateAdmin
  <1>6. ASSUME NEW p \in Passwords, ChangePassword(p)
         PROVE  LinksProve' /\ VerifiedIsProven'
    BY <1>6 DEF ChangePassword, SetPassword, Bumped, Admitted
  <1>7. ASSUME NEW t \in Links, ConfirmEmail(t)
         PROVE  LinksProve' /\ VerifiedIsProven'
    BY <1>7 DEF ConfirmEmail, Consumable, Consumed
  <1>8. ASSUME NEW t \in Links, Expire(t)
         PROVE  LinksProve' /\ VerifiedIsProven'
    BY <1>8 DEF Expire
  <1>9. ASSUME NEW t \in Links, Prune(t)
         PROVE  LinksProve' /\ VerifiedIsProven'
    BY <1>9 DEF Prune
  <1>10. ASSUME NEW t \in Links, NEW p \in Passwords, Register(p, t)
         PROVE  LinksProve' /\ VerifiedIsProven'
    BY <1>10 DEF Register, WithLink, Fresh, Active
  <1>11. ASSUME NEW t \in Links, NEW p \in Passwords, ResetPassword(t, p)
         PROVE  LinksProve' /\ VerifiedIsProven'
    <2>1. \A u \in Links : link'[u].status = "active" => link'[u] = link[u]
      BY <1>11 DEF ResetPassword, Consumed
    <2>2. /\ account'.email = account.email /\ account'.verified = account.verified
          /\ proof' = proof
      BY <1>11 DEF ResetPassword, SetPassword, Bumped
    <2>3. account.row = "account" /\ account'.row = "account"
      BY <1>11 DEF ResetPassword, SetPassword, Bumped, Consumable
    <2>. QED
      BY <2>1, <2>2, <2>3
  <1>12. ASSUME NEW t \in Links, NEW e \in Emails, UpdateProfile(e, t)
         PROVE  LinksProve' /\ VerifiedIsProven'
    <2>1. account'.row = "account" /\ ~account'.verified /\ account'.email = e
      BY <1>12 DEF UpdateProfile, Admitted
    <2>2. \A u \in Links : u # t /\ link'[u].status = "active" =>
            link[u].status = "active" /\ link'[u].action # "email_verify"
      BY <1>12 DEF UpdateProfile, WithLink, Active
    <2>3. link'[t].sentTo = e
      BY <1>12 DEF UpdateProfile, WithLink
    <2>. QED
      BY <2>1, <2>2, <2>3
  <1>13. ASSUME NEW c \in Clients, RequestVerification(c)
         PROVE  LinksProve' /\ VerifiedIsProven'
    BY <1>13 DEF RequestVerification
  <1>14. ASSUME NEW c \in Clients, RequestReset(c)
         PROVE  LinksProve' /\ VerifiedIsProven'
    BY <1>14 DEF RequestReset
  <1>15. ASSUME NEW c \in Clients, ReadActive(c)
         PROVE  LinksProve' /\ VerifiedIsProven'
    BY <1>15 DEF ReadActive
  <1>16. ASSUME NEW c \in Clients, MailFails(c)
         PROVE  LinksProve' /\ VerifiedIsProven'
    BY <1>16 DEF MailFails
  <1>17. ASSUME NEW c \in Clients, NEW t \in Links, MailLink(c, t)
         PROVE  LinksProve' /\ VerifiedIsProven'
    BY <1>17 DEF MailLink, WithLink, Fresh
  <1>18. ASSUME NEW c \in Clients, NEW p \in Passwords, LoginReadsUser(c, p)
         PROVE  LinksProve' /\ VerifiedIsProven'
    BY <1>18 DEF LoginReadsUser
  <1>19. ASSUME NEW c \in Clients, LoginReadsSession(c)
         PROVE  LinksProve' /\ VerifiedIsProven'
    BY <1>19 DEF LoginReadsSession
  <1>20. ASSUME NEW c \in Clients, LoginCommits(c)
         PROVE  LinksProve' /\ VerifiedIsProven'
    BY <1>20 DEF LoginCommits
  <1>21. ASSUME NEW c \in Clients, LoginFails(c)
         PROVE  LinksProve' /\ VerifiedIsProven'
    BY <1>21 DEF LoginFails
  <1>22. CASE UNCHANGED vars
    BY <1>22 DEF vars
  <1>. QED
    BY <1>1, <1>2, <1>3, <1>4, <1>5, <1>6, <1>7, <1>8, <1>9, <1>10, <1>11,
       <1>12, <1>13, <1>14, <1>15, <1>16, <1>17, <1>18, <1>19, <1>20, <1>21, <1>22 DEF Next

-----------------------------------------------------------------------------
LEMMA Start ==
    ASSUME Init
    PROVE  /\ TypeOK /\ Counted
           /\ LoginsAgree /\ EndedStaysEnded /\ LastPasswordWins
           /\ LinksAgree /\ LinksProve /\ VerifiedIsProven
  <1>. USE AccountsAssumption DEF Init, Idle, NoSession, Eras, Rows, Links, Actions, NewLink
  <1>1. TypeOK /\ Counted
    BY DEF TypeOK, Counted
  <1>2. LoginsAgree /\ EndedStaysEnded /\ LastPasswordWins
    BY DEF LoginsAgree, EndedStaysEnded, LastPasswordWins
  <1>3. LinksAgree /\ LinksProve /\ VerifiedIsProven
    BY DEF LinksAgree, LinksProve, VerifiedIsProven
  <1>. QED
    BY <1>1, <1>2, <1>3

\* Types, and no link is used twice.
THEOREM TypeCorrect == Spec => []TypeOK
  <1>1. TypeOK /\ Counted /\ [Next]_vars => TypeOK' /\ Counted'
    BY Typed
  <1>2. Init => TypeOK /\ Counted
    BY Start
  <1>. QED
    BY <1>1, <1>2, PTL DEF Spec

\* Sessions, access tokens and passwords that were ended do not come back, except through
\* a login that had read the user before.
THEOREM EndedForGood == Spec => [](EndedStaysEnded /\ LastPasswordWins)
  <1>. DEFINE All == TypeOK /\ Counted /\ LoginsAgree /\ EndedStaysEnded /\ LastPasswordWins
  <1>1. Init => All
    BY Start
  <1>2. All /\ [Next]_vars => All'
    BY Typed, Ended
  <1>. QED
    BY <1>1, <1>2, PTL DEF Spec

\* The password in force is the one chosen last (change_password and reset_password
\* write the hash they computed), whatever logins rehash meanwhile.
THEOREM NewestPassword == Spec => []LastPasswordWins
  BY EndedForGood, PTL

\* A link invalidates those before it.
THEOREM OneLink == Spec => []NewestLinkOnly
  <1>1. Init => LinksAgree
    BY Start
  <1>2. TypeOK /\ LinksAgree /\ [Next]_vars => LinksAgree'
    BY Newest
  <1>3. LinksAgree => NewestLinkOnly
    BY DEF LinksAgree, NewestLinkOnly
  <1>. QED
    BY <1>1, <1>2, <1>3, TypeCorrect, PTL DEF Spec

\* A verified address was proven by its owner.
THEOREM AddressProven == Spec => []VerifiedIsProven
  <1>1. Init => LinksProve /\ VerifiedIsProven
    BY Start
  <1>2. TypeOK /\ LinksProve /\ VerifiedIsProven /\ [Next]_vars => LinksProve' /\ VerifiedIsProven'
    BY Proven
  <1>. QED
    BY <1>1, <1>2, TypeCorrect, PTL DEF Spec
=============================================================================
