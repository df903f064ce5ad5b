------------------------------ MODULE Accounts ------------------------------
(***************************************************************************)
(* One user of the shop: the account, its one refresh session, the access  *)
(* tokens that carry its token_version, and the links mailed to prove an   *)
(* address or to reset a password (services/auth_s.py, auth_tokens_s.py,   *)
(* users_s.py, routes/auth_r.py, dependencies/auth_d.py).                  *)
(*                                                                         *)
(* Atomicity.  What locks the user or the session row first is one action: *)
(* refresh, logout, password change and reset, revocation, registration,   *)
(* the profile, the confirmation of a link.  A login and a request for a   *)
(* link lock nothing: they read the user, then the session or the links,   *)
(* and write when they commit, so each is three actions, and whatever      *)
(* commits in between is not seen.                                         *)
(*                                                                         *)
(* Tokens are abstracted to what decides about them: the refresh token in  *)
(* force is the one of the session row, an access token is the number of   *)
(* endings its issuer knew of.  The counters of failed logins are left out.*)
(***************************************************************************)
EXTENDS Naturals

CONSTANTS
    Clients,    \* requests that may be under way at once
    Passwords,
    Emails,
    MaxVersion, \* bound: token_version, which starts at 1
    MaxLinks    \* bound: how many links are ever mailed

ASSUME AccountsAssumption ==
    /\ Passwords # {}
    /\ Emails # {}
    /\ MaxVersion \in Nat \ {0}
    /\ MaxLinks \in Nat

VARIABLES
    account,  \* the row of users
    session,  \* the row of user_refresh_sessions, or NoSession
    link,     \* the rows of auth_action_tokens, by id
    worker,   \* what each request without a lock has read so far
    access,   \* the access tokens that carry the account's token_version
    era,      \* history: how many times the sessions were ended
    chosen,   \* history: the password the user chose last, and whether a login undid it
    proof     \* history: the address a link last proved

vars == <<account, session, link, worker, access, era, chosen, proof>>

NoSession == [row |-> 0]
Idle == [does |-> "nothing"]
Actions == {"email_verify", "password_reset"}
Links == 1..MaxLinks
Eras == 0..(MaxVersion - 1)
Rows == 0..MaxVersion

\* Types; a link is used once at most; and nothing is ended more often than the version grew.
TypeOK ==
    /\ account \in [row : {"none", "guest", "account"}, password : Passwords,
                    scheme : {"argon2", "pbkdf2"}, email : Emails, verified : BOOLEAN,
                    admin : BOOLEAN, version : 1..MaxVersion]
    /\ session \in [row : Rows \ {0}, era : Eras, password : Passwords, raced : BOOLEAN]
                    \cup {NoSession}
    /\ link \in [Links -> [status : {"free", "active", "used", "expired", "pruned"},
                           action : Actions, sentTo : Emails, raced : BOOLEAN,
                           before : SUBSET Links, uses : 0..1]]
    /\ worker \in [Clients ->
            {Idle}
            \cup [does : {"login"}, password : Passwords, rehash : BOOLEAN,
                  version : 1..MaxVersion, era : Eras, read : BOOLEAN, found : Rows]
            \cup [does : {"mail"}, action : Actions, sentTo : Emails, read : BOOLEAN,
                  seen : SUBSET Links, before : SUBSET Links]]
    /\ access \subseteq [era : Eras, raced : BOOLEAN]
    /\ era \in Eras
    /\ chosen \in [password : Passwords, undone : BOOLEAN]
    /\ proof \in [address : Emails, raced : BOOLEAN]

NewLink(a, e) == [status |-> "free", action |-> a, sentTo |-> e, raced |-> FALSE,
                  before |-> {}, uses |-> 0]

\* Nobody yet, or a customer whose password was hashed before Argon2.
Init ==
    /\ \E p \in Passwords, e \in Emails, old \in BOOLEAN :
        /\ account = [row |-> IF old THEN "account" ELSE "none", password |-> p,
                      scheme |-> IF old THEN "pbkdf2" ELSE "argon2", email |-> e,
                      verified |-> old, admin |-> FALSE, version |-> 1]
        /\ link = [t \in Links |-> NewLink("email_verify", e)]
        /\ chosen = [password |-> p, undone |-> FALSE]
        /\ proof = [address |-> e, raced |-> FALSE]
    /\ session = NoSession
    /\ worker = [c \in Clients |-> Idle]
    /\ access = {}
    /\ era = 0

-----------------------------------------------------------------------------
(* Links. *)

\* Mutation: earlier links are not invalidated.
ActiveIsForgotten(a) == {}
Active(a) == {t \in Links : link[t].status = "active" /\ link[t].action = a}
Fresh(t) == link[t].status = "free" /\ \A u \in 1..(t - 1) : link[u].status # "free"
Mailed == {t \in Links : link[t].status # "free"}

\* Link t is inserted for action a and mailed to e; those in seen are marked used.
WithLink(t, a, e, now, seen, before) ==
    [u \in Links |->
        IF u = t THEN [status |-> "active", action |-> a, sentTo |-> e, raced |-> e # now,
                       before |-> before, uses |-> 0]
        ELSE IF u \in seen /\ link[u].status = "active" THEN [link[u] EXCEPT !.status = "used"]
        ELSE link[u]]

Consumable(t, a) == link[t].status = "active" /\ link[t].action = a
\* Mutation: a link that is not marked used.
ConsumedStaysOpen(t) == [link EXCEPT ![t] = [link[t] EXCEPT !.uses = @ + 1]]
Consumed(t) == [link EXCEPT ![t] = [link[t] EXCEPT !.status = "used", !.uses = @ + 1]]

RequestVerification(c) ==
    /\ worker[c] = Idle
    /\ account.row = "account" /\ ~account.verified
    /\ worker' = [worker EXCEPT ![c] = [does |-> "mail", action |-> "email_verify",
                    sentTo |-> account.email, seen |-> {}, before |-> {}, read |-> FALSE]]
    /\ UNCHANGED <<account, session, link, access, era, chosen, proof>>

RequestReset(c) ==
    /\ worker[c] = Idle
    /\ account.row = "account" /\ account.verified
    /\ worker' = [worker EXCEPT ![c] = [does |-> "mail", action |-> "password_reset",
                    sentTo |-> account.email, seen |-> {}, before |-> {}, read |-> FALSE]]
    /\ UNCHANGED <<account, session, link, access, era, chosen, proof>>

ReadActive(c) ==
    /\ worker[c].does = "mail" /\ ~worker[c].read
    /\ worker' = [worker EXCEPT ![c].seen = Active(worker[c].action), ![c].before = Mailed,
                                ![c].read = TRUE]
    /\ UNCHANGED <<account, session, link, access, era, chosen, proof>>

MailLink(c, t) ==
    /\ worker[c].does = "mail" /\ worker[c].read
    /\ \A u \in worker[c].seen : link[u].status # "pruned"
    /\ Fresh(t)
    /\ link' = WithLink(t, worker[c].action, worker[c].sentTo, account.email,
                        worker[c].seen, worker[c].before)
    /\ worker' = [worker EXCEPT ![c] = Idle]
    /\ UNCHANGED <<account, session, access, era, chosen, proof>>

\* An update of a link that was pruned matches no row, and the request fails.
MailFails(c) ==
    /\ worker[c].does = "mail"
    /\ \E u \in worker[c].seen : link[u].status = "pruned"
    /\ worker' = [worker EXCEPT ![c] = Idle]
    /\ UNCHANGED <<account, session, link, access, era, chosen, proof>>

ConfirmEmail(t) ==
    /\ Consumable(t, "email_verify")
    /\ link' = Consumed(t)
    /\ account' = [account EXCEPT !.verified = TRUE]
    /\ proof' = [address |-> link[t].sentTo, raced |-> link[t].raced]
    /\ UNCHANGED <<session, worker, access, era, chosen>>

Expire(t) ==
    /\ link[t].status = "active"
    /\ link' = [link EXCEPT ![t].status = "expired"]
    /\ UNCHANGED <<account, session, worker, access, era, chosen, proof>>

\* The job deletes links that expired, or were used long ago.
Prune(t) ==
    /\ link[t].status \in {"used", "expired"}
    /\ link' = [link EXCEPT ![t].status = "pruned"]
    /\ UNCHANGED <<account, session, worker, access, era, chosen, proof>>

-----------------------------------------------------------------------------
(* Creating the account. *)

CreateContact ==
    /\ account.row = "none"
    /\ account' = [account EXCEPT !.row = "guest"]
    /\ UNCHANGED <<session, link, worker, access, era, chosen, proof>>

Register(p, t) ==
    /\ account.row # "account"
    /\ Fresh(t)
    /\ account' = [account EXCEPT !.row = "account", !.password = p, !.scheme = "argon2",
                                  !.verified = FALSE]
    /\ link' = WithLink(t, "email_verify", account.email, account.email,
                        Active("email_verify"), Mailed)
    /\ chosen' = [password |-> p, undone |-> FALSE]
    /\ UNCHANGED <<session, worker, access, era, proof>>

CreateAdmin(p) ==
    /\ account.row = "none"
    /\ account' = [account EXCEPT !.row = "account", !.password = p, !.scheme = "argon2",
                                  !.verified = TRUE, !.admin = TRUE]
    /\ chosen' = [password |-> p, undone |-> FALSE]
    /\ proof' = [address |-> account.email, raced |-> FALSE]
    /\ UNCHANGED <<session, link, worker, access, era>>

-----------------------------------------------------------------------------
(* Sessions. *)

\* A request is admitted by a token with the account's version; administrators by the row.
Admitted == account.row = "account" /\ access # {}

\* token_version grows, so no access token issued so far is admitted again.
Bumped == [account EXCEPT !.version = @ + 1]

\* Mutation: the answer of the verification is not looked at.
LoginSkipsPassword(c, p) ==
    /\ worker[c] = Idle
    /\ account.row = "account" /\ account.verified
    /\ worker' = [worker EXCEPT ![c] = [does |-> "login", password |-> p,
                    rehash |-> account.scheme = "pbkdf2", version |-> account.version,
                    era |-> era, read |-> FALSE, found |-> 0]]
    /\ UNCHANGED <<account, session, link, access, era, chosen, proof>>

LoginReadsUser(c, p) ==
    /\ worker[c] = Idle
    /\ account.row = "account" /\ account.verified /\ p = account.password
    /\ worker' = [worker EXCEPT ![c] = [does |-> "login", password |-> p,
                    rehash |-> account.scheme = "pbkdf2", version |-> account.version,
                    era |-> era, read |-> FALSE, found |-> 0]]
    /\ UNCHANGED <<account, session, link, access, era, chosen, proof>>

LoginReadsSession(c) ==
    /\ worker[c].does = "login" /\ ~worker[c].read
    /\ worker' = [worker EXCEPT ![c].found = session.row, ![c].read = TRUE]
    /\ UNCHANGED <<account, session, link, access, era, chosen, proof>>

\* The row the login writes: a new one, identified by the endings before it, or the one found.
Upserted(w) == [row |-> IF w.found = 0 THEN era + 1 ELSE w.found, era |-> w.era,
                password |-> w.password, raced |-> w.era # era]

LoginCommits(c) ==
    LET w == worker[c] IN
    /\ w.does = "login" /\ w.read
    /\ session.row = w.found
    /\ session' = Upserted(w)
    /\ access' = IF w.version = account.version THEN access \cup {[era |-> w.era, raced |-> w.era # era]} ELSE access
    /\ account' = IF w.rehash THEN [account EXCEPT !.password = w.password, !.scheme = "argon2"]
                              ELSE account
    /\ chosen' = [chosen EXCEPT !.undone = @ \/ (w.rehash /\ w.era # era)]
    /\ worker' = [worker EXCEPT ![c] = Idle]
    /\ UNCHANGED <<link, era, proof>>

\* The row to update is gone, or the row to insert exists (user_id is unique).
LoginFails(c) ==
    /\ worker[c].does = "login" /\ worker[c].read
    /\ session.row # worker[c].found
    /\ worker' = [worker EXCEPT ![c] = Idle]
    /\ UNCHANGED <<account, session, link, access, era, chosen, proof>>

\* The session row is locked, then the user's; a token other than the row's is refused.
Refresh ==
    /\ session # NoSession
    /\ account.version < MaxVersion
    /\ account' = Bumped
    /\ access' = {[era |-> session.era, raced |-> session.raced]}
    /\ UNCHANGED <<session, link, worker, era, chosen, proof>>

Logout ==
    /\ session # NoSession
    /\ account.version < MaxVersion
    /\ account' = Bumped
    /\ session' = NoSession
    /\ access' = {}
    /\ era' = era + 1
    /\ UNCHANGED <<link, worker, chosen, proof>>

\* Mutation: the session row is not deleted.
SetPasswordKeepsSession(p) ==
    /\ account.version < MaxVersion
    /\ account' = [Bumped EXCEPT !.row = "account", !.password = p, !.scheme = "argon2"]
    /\ access' = {}
    /\ era' = era + 1
    /\ chosen' = [password |-> p, undone |-> FALSE]
    /\ UNCHANGED <<session, worker, proof>>

SetPassword(p) ==
    /\ account.version < MaxVersion
    /\ account' = [Bumped EXCEPT !.row = "account", !.password = p, !.scheme = "argon2"]
    /\ session' = NoSession
    /\ access' = {}
    /\ era' = era + 1
    /\ chosen' = [password |-> p, undone |-> FALSE]
    /\ UNCHANGED <<worker, proof>>

ChangePassword(p) ==
    /\ Admitted
    /\ SetPassword(p)
    /\ UNCHANGED link

ResetPassword(t, p) ==
    /\ Consumable(t, "password_reset")
    /\ SetPassword(p)
    /\ link' = Consumed(t)

RevokeAdmin ==
    /\ account.row = "account" /\ account.admin
    /\ account.version < MaxVersion
    /\ account' = [Bumped EXCEPT !.admin = FALSE]
    /\ session' = NoSession
    /\ access' = {}
    /\ era' = era + 1
    /\ UNCHANGED <<link, worker, chosen, proof>>

\* Mutation: a new address counts as verified.
UpdateProfileKeepsVerified(e, t) ==
    /\ Admitted
    /\ e # account.email
    /\ Fresh(t)
    /\ account' = [account EXCEPT !.email = e]
    /\ link' = WithLink(t, "email_verify", e, e, Active("email_verify"), Mailed)
    /\ UNCHANGED <<session, worker, access, era, chosen, proof>>

UpdateProfile(e, t) ==
    /\ Admitted
    /\ e # account.email
    /\ Fresh(t)
    /\ account' = [account EXCEPT !.email = e, !.verified = FALSE]
    /\ link' = WithLink(t, "email_verify", e, e, Active("email_verify"), Mailed)
    /\ UNCHANGED <<session, worker, access, era, chosen, proof>>

-----------------------------------------------------------------------------
Next ==
    \/ CreateContact \/ Refresh \/ Logout \/ RevokeAdmin
    \/ \E p \in Passwords : CreateAdmin(p) \/ ChangePassword(p)
    \/ \E t \in Links : ConfirmEmail(t) \/ Expire(t) \/ Prune(t)
    \/ \E t \in Links, p \in Passwords : Register(p, t) \/ ResetPassword(t, p)
    \/ \E t \in Links, e \in Emails : UpdateProfile(e, t)
    \/ \E c \in Clients :
        \/ RequestVerification(c) \/ RequestReset(c) \/ ReadActive(c) \/ MailFails(c)
        \/ \E t \in Links : MailLink(c, t)
        \/ \E p \in Passwords : LoginReadsUser(c, p)
        \/ LoginReadsSession(c) \/ LoginCommits(c) \/ LoginFails(c)

Spec == Init /\ [][Next]_vars

-----------------------------------------------------------------------------
\* RN-AUTH-06, 07 and 11: what a logout, a new password or a revocation ended stays ended.
\* No session, and no access token that is admitted, comes from before the last ending,
\* whatever logins were under way, except a session whose login had read the user before it
\* and what was refreshed from it (raced); any other session was opened with the password
\* of the account, unless a login undid that.
EndedStaysEnded ==
    /\ \A a \in access : a.raced \/ a.era = era
    /\ session # NoSession /\ ~session.raced =>
        /\ session.era = era
        /\ chosen.undone \/ session.password = account.password

\* A password is what the user chose last, unless a login that overlapped the choice wrote
\* back the one it had rehashed (auth_s.py:92).
LastPasswordWins == account.password = chosen.password \/ chosen.undone

\* RN-AUTH-09: of two links of one kind that work, the newer was being made when the older
\* was (auth_tokens_s.py:46 reads the older ones without a lock).
NewestLinkOnly ==
    \A t, u \in Links :
        t < u /\ link[t].status = "active" /\ link[u].status = "active"
              /\ link[t].action = link[u].action => t \notin link[u].before

\* RN-AUTH-01: a verified address is one that a mailed link proved, unless the link was
\* mailed to the address read before the profile changed it.
VerifiedIsProven ==
    account.row = "account" /\ account.verified =>
        proof.raced \/ proof.address = account.email
=============================================================================
