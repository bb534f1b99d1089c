------------------------------ MODULE Sessions ------------------------------
(***************************************************************************)
(* Accounts and sessions: the handlers of /auth and the check in front of  *)
(* every call of a user (internal/api/auth.go, internal/auth), the tables  *)
(* users and refresh_tokens, and the page that keeps an access token in    *)
(* memory and asks for another when a call is refused                      *)
(* (frontend/src/lib/session.ts).                                          *)
(*                                                                         *)
(* users is the set of registered emails, rows the refresh tokens: a       *)
(* token is the number of its row.  Of each browser, cookie is the refresh *)
(* token it keeps, user whom its page shows as signed in, access the       *)
(* access token of the page, call where a call of the page stands, sent    *)
(* what the call carries or has got back, leaving the token a logout has   *)
(* on its way (Out if there is no logout).                                 *)
(* Passwords, hashes and signatures are not modelled: a credential is good *)
(* or it is not.                                                           *)
(***************************************************************************)
EXTENDS Integers, Sequences

CONSTANTS Emails, Browsers,
          AccessTTL, RefreshTTL,   \* the lives of the two tokens, in ticks
          MaxTime, MaxTokens       \* bounds: ticks of the clock, logins

ASSUME SessionsAssumption == AccessTTL \in Nat \ {0} /\ RefreshTTL \in Nat \ {0}

VARIABLES users, rows, now, cookie, user, access, call, sent, leaving

page == <<cookie, user, access, call, sent, leaving>>
sessionVars == <<users, rows, now, page>>

Nobody == "nobody"
NoCookie == 0
Never == -1
Out == -1
NoAccess == [user |-> Nobody, row |-> NoCookie, expires |-> 0]

SessionsInit ==
  /\ users = {} /\ rows = <<>> /\ now = 0
  /\ cookie = [b \in Browsers |-> NoCookie]
  /\ user = [b \in Browsers |-> Nobody]
  /\ access = [b \in Browsers |-> NoAccess]
  /\ call = [b \in Browsers |-> "idle"]
  /\ sent = [b \in Browsers |-> NoAccess]
  /\ leaving = [b \in Browsers |-> Out]

Tick == now < MaxTime /\ now' = now + 1 /\ UNCHANGED <<users, rows, page>>

MakeJWT(email, row) == [user |-> email, row |-> row, expires |-> now + AccessTTL]

\* ValidateJWT: signed here, and not expired.
ValidateJWT(token) == token # NoAccess /\ now < token.expires

\* handleRegister: the email is unique.
Register(email) ==
  /\ email \notin users /\ users' = users \cup {email}
  /\ UNCHANGED <<rows, now, page>>

\* handleLogin and login(): a row for a new refresh token, its cookie, and an
\* access token for the page; the answer may be lost, and then the row stays.
\* The form is shown while nobody is signed in.
Login(b, email) ==
  /\ email \in users /\ Len(rows) < MaxTokens
  /\ user[b] = Nobody /\ leaving[b] = Out
  /\ rows' = Append(rows, [user |-> email, expires |-> now + RefreshTTL, revoked |-> Never])
  /\ \/ /\ cookie' = [cookie EXCEPT ![b] = Len(rows')]
        /\ access' = [access EXCEPT ![b] = MakeJWT(email, Len(rows'))]
        /\ user' = [user EXCEPT ![b] = email]
     \/ UNCHANGED <<cookie, access, user>>
  /\ UNCHANGED <<users, now, call, sent, leaving>>

\* A mutant's: the mark of a logout is not looked at.
LiveIfRevoked(token) == token \in DOMAIN rows /\ rows[token].expires > now

\* GetUserFromRefreshToken: a row of the token that is neither revoked nor over.
Live(token) ==
  /\ token \in DOMAIN rows
  /\ rows[token].revoked = Never
  /\ rows[token].expires > now

Move(b, stage, token) ==
  /\ call' = [call EXCEPT ![b] = stage] /\ sent' = [sent EXCEPT ![b] = token]

\* authorized(): the call carries the access token the page has, if any.
Send(b) ==
  /\ call[b] = "idle" /\ user[b] # Nobody /\ Move(b, "first", access[b])
  /\ UNCHANGED <<users, rows, now, cookie, user, access, leaving>>

\* requireAuth: the handler behind it runs, or 401.
Serve(b) ==
  /\ call[b] \in {"first", "again"}
  /\ Move(b, IF ValidateJWT(sent[b]) THEN "accepted"
             ELSE IF call[b] = "first" THEN "refused" ELSE "failed", sent[b])
  /\ UNCHANGED <<users, rows, now, cookie, user, access, leaving>>

\* resume(), after a 401 or as the page opens: the cookie goes out, ...
AskRefresh(b) ==
  /\ call[b] \in {"refused", "opening"}
  /\ Move(b, IF call[b] = "refused" THEN "refreshing" ELSE "resuming",
          [NoAccess EXCEPT !.row = cookie[b]])
  /\ UNCHANGED <<users, rows, now, cookie, user, access, leaving>>

\* ... handleRefresh signs another access token while the row lives, ...
HandleRefresh(b) ==
  /\ call[b] \in {"refreshing", "resuming"}
  /\ Move(b, IF call[b] = "refreshing" THEN "refreshed" ELSE "resumed",
          IF Live(sent[b].row) THEN MakeJWT(rows[sent[b].row].user, sent[b].row) ELSE NoAccess)
  /\ UNCHANGED <<users, rows, now, cookie, user, access, leaving>>

\* ... and the page keeps what it got; a call is tried once more.
Refreshed(b) ==
  /\ call[b] \in {"refreshed", "resumed"}
  /\ access' = [access EXCEPT ![b] = sent[b]]
  /\ IF call[b] = "refreshed"
     THEN /\ Move(b, IF sent[b] = NoAccess THEN "failed" ELSE "again", sent[b])
          /\ UNCHANGED user
     ELSE /\ Move(b, "idle", NoAccess)
          /\ user' = [user EXCEPT ![b] = sent[b].user]
  /\ UNCHANGED <<users, rows, now, cookie, leaving>>

\* The caller of the call gets its answer; to a 401 some take the user for signed
\* out (the layouts of App.svelte), and the token stays.
Finish(b) ==
  /\ call[b] \in {"accepted", "failed"} /\ Move(b, "idle", NoAccess)
  /\ \/ UNCHANGED user
     \/ call[b] = "failed" /\ user' = [user EXCEPT ![b] = Nobody]
  /\ UNCHANGED <<users, rows, now, cookie, access, leaving>>

\* The page is opened again: what it kept in memory is gone, a call or a logout
\* under way is cut; the cookie is still there.
Reopen(b) ==
  /\ user[b] # Nobody
  /\ user' = [user EXCEPT ![b] = Nobody] /\ access' = [access EXCEPT ![b] = NoAccess]
  /\ Move(b, "opening", NoAccess) /\ leaving' = [leaving EXCEPT ![b] = Out]
  /\ UNCHANGED <<users, rows, now, cookie>>

\* logout(): the page forgets its token and sends the cookie to be revoked; a
\* call may be under way.
Logout(b) ==
  /\ user[b] # Nobody /\ leaving[b] = Out
  /\ access' = [access EXCEPT ![b] = NoAccess]
  /\ leaving' = [leaving EXCEPT ![b] = cookie[b]]
  /\ UNCHANGED <<users, rows, now, cookie, user, call, sent>>

MarkRevoked(row) ==
  rows' = [r \in DOMAIN rows |->
    IF r = row /\ rows[r].revoked = Never THEN [rows[r] EXCEPT !.revoked = now] ELSE rows[r]]

\* handleRevoke and signOut(): the cookie is dropped first, then the row is
\* marked, if it was not; where that statement fails the answer, a 500 that the
\* page does not look at, drops the cookie too.  The answer may be lost, and then
\* the browser keeps the cookie and the page the user.
Revoke(b) ==
  /\ leaving[b] # Out /\ leaving' = [leaving EXCEPT ![b] = Out]
  /\ MarkRevoked(leaving[b]) \/ UNCHANGED rows
  /\ \/ /\ cookie' = [cookie EXCEPT ![b] = NoCookie] /\ user' = [user EXCEPT ![b] = Nobody]
     \/ UNCHANGED <<cookie, user>>
  /\ UNCHANGED <<users, now, access, call, sent>>

\* The request of a logout is lost.
RevokeLost(b) ==
  /\ leaving[b] # Out /\ leaving' = [leaving EXCEPT ![b] = Out]
  /\ UNCHANGED <<users, rows, now, cookie, user, access, call, sent>>

SessionsNext ==
  \/ Tick
  \/ \E email \in Emails : Register(email)
  \/ \E b \in Browsers :
       \/ \E email \in Emails : Login(b, email)
       \/ Send(b) \/ Serve(b) \/ AskRefresh(b) \/ HandleRefresh(b) \/ Refreshed(b)
       \/ Finish(b) \/ Reopen(b) \/ Logout(b) \/ Revoke(b) \/ RevokeLost(b)

SessionsSpec == SessionsInit /\ [][SessionsNext]_sessionVars

-----------------------------------------------------------------------------
\* A token that was signed names a login there is; what a page or a call of it
\* has in its hands otherwise is no token, or the number of a cookie.
Tokens == [user : Emails \cup {Nobody}, row : Nat, expires : Nat]
Rows == [user : Emails, expires : Nat, revoked : Nat \cup {Never}]

SessionsTypeOK ==
  /\ users \subseteq Emails
  /\ rows \in Seq(Rows)
  /\ now \in Nat
  /\ cookie \in [Browsers -> Nat] /\ leaving \in [Browsers -> Nat \cup {Out}]
  /\ user \in [Browsers -> Emails \cup {Nobody}]
  /\ access \in [Browsers -> Tokens] /\ sent \in [Browsers -> Tokens]
  /\ call \in [Browsers -> {"idle", "opening", "first", "again", "accepted", "refused", "failed",
                            "refreshing", "refreshed", "resuming", "resumed"}]

\* SessionsEndWithTheirRow: a session that is over cannot be served for longer
\* than one access token lives: a call is accepted only while the login it comes
\* from is neither revoked nor expired, or was so less than AccessTTL ago,
\* whatever was refreshed meanwhile, by whatever page, before or after a logout
\* (auth.go, refresh_tokens.sql, session.ts).
SessionsEndWithTheirRow ==
  [][\A b \in Browsers :
       call'[b] = "accepted" /\ call[b] # "accepted" =>
         LET row == rows[sent[b].row] IN
         /\ sent[b].user = row.user
         /\ now < row.expires + AccessTTL
         /\ row.revoked # Never => now < row.revoked + AccessTTL]_sessionVars
=============================================================================
