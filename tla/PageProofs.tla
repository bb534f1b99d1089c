--------------------------------- MODULE PageProofs ---------------------------
(***************************************************************************)
(* Theorems about what a page shows its user: Sessions, for any users,     *)
(* browsers, lives of the tokens and bounds; SavedLists, for any names,    *)
(* requests, bodies and limits; Charts, for any store and any views.       *)
(*                                                                         *)
(* Sessions: the property is about the moment a call is accepted; what     *)
(* makes it true then was settled when its access token was signed, and    *)
(* must survive every revocation since, for every copy of the token: the   *)
(* page's and the one a call carries.  Backed says that, of all of them,   *)
(* at all times.                                                           *)
(*                                                                         *)
(* SavedLists: what the table promises of its rows depends on the rows that*)
(* are being written: a draft is what its request asked for as far as it   *)
(* has come (Stage), it keeps its id and its name to itself (Apart), and   *)
(* the names and the places it will take are counted as taken (Reserved,   *)
(* Limit).  What a reader holds between its two statements is Reading.     *)
(*                                                                         *)
(* Charts: what the pages of a stock and the series of a future say,       *)
(* whatever is stored, is about operators; that the chart shows one series *)
(* is about what it asked for and has not heard of yet (ScreenInv).        *)
(***************************************************************************)
EXTENDS Charts, Sessions, SavedLists, FiniteSetTheorems, WellFoundedInduction, TLAPS

-----------------------------------------------------------------------------
(* Sessions.                                                                *)

(* A token that is good, or was, comes from a login that was alive when it  *)
(* was signed, and was signed before that login was revoked.                *)
BackedBy(token, logins) ==
  token.expires > 0 =>
    /\ token.row \in 1 .. Len(logins)
    /\ token.user = logins[token.row].user
    /\ token.expires < logins[token.row].expires + AccessTTL
    /\ logins[token.row].revoked # Never => token.expires <= logins[token.row].revoked + AccessTTL

Timely(token) == token.expires <= now + AccessTTL

Backed ==
  \A b \in Browsers : /\ BackedBy(access[b], rows) /\ BackedBy(sent[b], rows)
                      /\ Timely(access[b]) /\ Timely(sent[b])

SessionsInv == SessionsTypeOK /\ Backed

(* What a login adds and what a revocation marks.                           *)
LEMMA Empty == NoAccess \in Tokens /\ NoAccess.expires = 0
  BY DEF NoAccess, Tokens, Nobody, NoCookie

LEMMA LoginAdds ==
  ASSUME SessionsInv, NEW email \in Emails,
         rows' = Append(rows, [user |-> email, expires |-> now + RefreshTTL, revoked |-> Never])
  PROVE  /\ rows' \in Seq(Rows) /\ Len(rows') = Len(rows) + 1 /\ Len(rows') \in Nat
         /\ \A r \in 1 .. Len(rows) : rows'[r] = rows[r]
         /\ rows'[Len(rows')] = [user |-> email, expires |-> now + RefreshTTL, revoked |-> Never]
<1> DEFINE row == [user |-> email, expires |-> now + RefreshTTL, revoked |-> Never]
<1>1. row \in Rows /\ rows \in Seq(Rows)
  BY SessionsAssumption DEF SessionsInv, SessionsTypeOK, Rows, Never
<1> HIDE DEF row
<1>2. rows' = Append(rows, row)
  BY DEF row
<1>3. QED
  BY <1>1, <1>2 DEF row

LEMMA RevokeMarks ==
  ASSUME SessionsInv, NEW row, MarkRevoked(row)
  PROVE  /\ rows' \in Seq(Rows) /\ Len(rows') = Len(rows)
         /\ \A r \in 1 .. Len(rows) :
              /\ rows'[r].user = rows[r].user /\ rows'[r].expires = rows[r].expires
              /\ \/ rows'[r].revoked = rows[r].revoked
                 \/ rows[r].revoked = Never /\ rows'[r].revoked = now
<1> DEFINE Marked(r) == r = row /\ rows[r].revoked = Never
<1>1. rows \in Seq(Rows) /\ now \in Nat /\ DOMAIN rows = 1 .. Len(rows) /\ Len(rows) \in Nat
  BY DEF SessionsInv, SessionsTypeOK
<1>2. rows' = [r \in 1 .. Len(rows) |->
                 IF Marked(r) THEN [rows[r] EXCEPT !.revoked = now] ELSE rows[r]]
  BY <1>1 DEF MarkRevoked
<1>3. \A r \in 1 .. Len(rows) : rows[r] \in Rows
  BY <1>1
<1>4. ASSUME NEW r \in 1 .. Len(rows)
      PROVE  /\ rows'[r] \in Rows
             /\ rows'[r].user = rows[r].user /\ rows'[r].expires = rows[r].expires
             /\ \/ rows'[r].revoked = rows[r].revoked
                \/ rows[r].revoked = Never /\ rows'[r].revoked = now
  <2>1. CASE Marked(r)
    <3>1. rows'[r] = [rows[r] EXCEPT !.revoked = now]
      BY <1>2, <2>1
    <3>2. QED
      BY <1>1, <1>3, <2>1, <3>1 DEF Rows
  <2>2. CASE ~ Marked(r)
    <3>1. rows'[r] = rows[r]
      BY <1>2, <2>2
    <3>2. QED
      BY <1>3, <3>1
  <2>3. QED
    BY <2>1, <2>2
<1>5. rows' \in [1 .. Len(rows) -> Rows]
  BY <1>2, <1>4
<1>6. rows' \in Seq(Rows) /\ Len(rows') = Len(rows)
  BY <1>1, <1>5
<1>7. QED
  BY <1>4, <1>6

(* What was signed stays backed: by one more login, or by one revoked now.  *)
LEMMA LoginKeepsBacked ==
  ASSUME SessionsInv, NEW token \in Tokens, BackedBy(token, rows),
         Len(rows') = Len(rows) + 1, \A r \in 1 .. Len(rows) : rows'[r] = rows[r]
  PROVE  BackedBy(token, rows')
<1>1. Len(rows) \in Nat
  BY DEF SessionsInv, SessionsTypeOK
<1>2. QED
  BY <1>1 DEF BackedBy

LEMMA RevokeKeepsBacked ==
  ASSUME SessionsInv, NEW row, MarkRevoked(row), NEW token \in Tokens,
         BackedBy(token, rows), Timely(token)
  PROVE  BackedBy(token, rows')
BY RevokeMarks DEF BackedBy, Timely

(* What is signed now is backed.                                            *)
LEMMA SignedIsBacked ==
  ASSUME SessionsInv, NEW logins \in Seq(Rows), NEW row \in 1 .. Len(logins),
         logins[row].revoked = Never, now < logins[row].expires
  PROVE  LET token == MakeJWT(logins[row].user, row)
         IN  token \in Tokens /\ BackedBy(token, logins) /\ Timely(token)
<1>1. logins[row] \in Rows /\ now \in Nat /\ row \in Nat /\ AccessTTL \in Nat
  BY SessionsAssumption DEF SessionsInv, SessionsTypeOK
<1>2. QED
  BY <1>1 DEF MakeJWT, Tokens, BackedBy, Timely, Rows, Nobody

(* Sessions keep their types and their backing.                             *)
LEMMA SessionsStep ==
  ASSUME SessionsInv, [SessionsNext]_sessionVars
  PROVE  SessionsInv'
<1> USE DEF SessionsInv
<1>1. ASSUME Tick PROVE SessionsInv'
  <2>1. SessionsTypeOK'
    BY <1>1 DEF Tick, page, SessionsTypeOK
  <2>2. ASSUME NEW b \in Browsers PROVE access[b].expires \in Nat /\ sent[b].expires \in Nat
    BY DEF SessionsTypeOK, Tokens
  <2>3. Backed'
    BY <1>1, <2>2, SessionsAssumption DEF Tick, page, SessionsTypeOK, Backed, Timely, BackedBy
  <2>4. QED
    BY <2>1, <2>3
<1>2. ASSUME NEW email \in Emails, Register(email) PROVE SessionsInv'
  BY <1>2 DEF Register, page, SessionsTypeOK, Backed, BackedBy, Timely
<1>3. ASSUME NEW b \in Browsers, NEW email \in Emails, Login(b, email) PROVE SessionsInv'
  <2>1. /\ rows' \in Seq(Rows) /\ Len(rows') = Len(rows) + 1 /\ Len(rows') \in Nat
        /\ \A r \in 1 .. Len(rows) : rows'[r] = rows[r]
        /\ rows'[Len(rows')] = [user |-> email, expires |-> now + RefreshTTL, revoked |-> Never]
    BY <1>3, LoginAdds DEF Login
  <2> DEFINE token == MakeJWT(email, Len(rows'))
  <2>2. token \in Tokens /\ BackedBy(token, rows') /\ Timely(token)
    <3>1. now \in Nat /\ Len(rows) \in Nat
      BY DEF SessionsTypeOK
    <3>2. Len(rows') \in 1 .. Len(rows')
      BY <2>1, <3>1
    <3>3. rows'[Len(rows')].user = email /\ rows'[Len(rows')].revoked = Never
          /\ now < rows'[Len(rows')].expires
      BY <2>1, <3>1, SessionsAssumption
    <3>4. QED
      BY <2>1, <3>2, <3>3, SignedIsBacked
  <2>3. \A c \in Browsers : /\ access[c] \in Tokens /\ sent[c] \in Tokens
                            /\ BackedBy(access[c], rows') /\ BackedBy(sent[c], rows')
    <3>1. ASSUME NEW c \in Browsers
          PROVE  /\ access[c] \in Tokens /\ sent[c] \in Tokens
                 /\ BackedBy(access[c], rows') /\ BackedBy(sent[c], rows')
      BY <2>1, LoginKeepsBacked DEF SessionsTypeOK, Backed
    <3>2. QED
      BY <3>1
  <2>4. /\ access' = [access EXCEPT ![b] = token] \/ UNCHANGED access
        /\ cookie' = [cookie EXCEPT ![b] = Len(rows')] \/ UNCHANGED cookie
        /\ user' = [user EXCEPT ![b] = email] \/ UNCHANGED user
        /\ UNCHANGED <<users, now, call, sent, leaving>>
    BY <1>3 DEF Login
  <2> HIDE DEF token
  <2>5. SessionsTypeOK'
    <3>1. cookie' \in [Browsers -> Nat] /\ user' \in [Browsers -> Emails \cup {Nobody}]
      BY <2>1, <2>4 DEF SessionsTypeOK
    <3>2. access' \in [Browsers -> Tokens]
      BY <2>2, <2>4 DEF SessionsTypeOK
    <3>3. QED
      BY <2>1, <2>4, <3>1, <3>2 DEF SessionsTypeOK
  <2>6. Backed'
    <3>1. \A c \in Browsers : access'[c] = token \/ access'[c] = access[c]
      BY <2>4 DEF SessionsTypeOK
    <3>2. QED
      BY <2>2, <2>3, <2>4, <3>1 DEF Backed, Timely
  <2>7. QED
    BY <2>5, <2>6
<1>4. ASSUME NEW b \in Browsers, Revoke(b) PROVE SessionsInv'
  <2>1. MarkRevoked(leaving[b]) \/ UNCHANGED rows
    BY <1>4 DEF Revoke
  <2>8. rows' \in Seq(Rows)
    BY <2>1, RevokeMarks DEF SessionsTypeOK
  <2>2. UNCHANGED <<users, now, access, call, sent>>
    BY <1>4 DEF Revoke
  <2>3. cookie' \in [Browsers -> Nat] /\ user' \in [Browsers -> Emails \cup {Nobody}]
        /\ leaving' \in [Browsers -> Nat \cup {Out}]
    <3>1. leaving' = [leaving EXCEPT ![b] = Out]
          /\ (UNCHANGED cookie \/ cookie' = [cookie EXCEPT ![b] = NoCookie])
          /\ (UNCHANGED user \/ user' = [user EXCEPT ![b] = Nobody])
      BY <1>4 DEF Revoke
    <3>2. cookie' \in [Browsers -> Nat]
      <4>1. cookie \in [Browsers -> Nat] /\ NoCookie \in Nat
        BY DEF SessionsTypeOK, NoCookie
      <4> HIDE DEF SessionsInv
      <4>2. CASE UNCHANGED cookie
        BY <4>1, <4>2
      <4>3. CASE cookie' = [cookie EXCEPT ![b] = NoCookie]
        BY <4>1, <4>3
      <4>4. QED
        BY <3>1, <4>2, <4>3
    <3>3. user' \in [Browsers -> Emails \cup {Nobody}]
      BY <3>1 DEF SessionsTypeOK
    <3>4. leaving' \in [Browsers -> Nat \cup {Out}]
      BY <3>1 DEF SessionsTypeOK
    <3>5. QED
      BY <3>2, <3>3, <3>4
  <2>4. SessionsTypeOK'
    BY <2>8, <2>2, <2>3 DEF SessionsTypeOK
  <2>5. ASSUME NEW c \in Browsers
        PROVE  BackedBy(access[c], rows') /\ BackedBy(sent[c], rows')
    <3>1. CASE MarkRevoked(leaving[b])
      BY <3>1, RevokeKeepsBacked DEF SessionsTypeOK, Backed
    <3>2. CASE UNCHANGED rows
      BY <3>2 DEF Backed
    <3>3. QED
      BY <2>1, <3>1, <3>2
  <2>6. Backed'
    BY <2>2, <2>5 DEF Backed, Timely
  <2>7. QED
    BY <2>4, <2>6
(* The rest moves tokens about.                                             *)
<1>5. ASSUME NEW b \in Browsers, UNCHANGED <<users, rows, now>>,
             cookie' \in [Browsers -> Nat], leaving' \in [Browsers -> Nat \cup {Out}],
             user' \in [Browsers -> Emails \cup {Nobody}],
             \A c \in Browsers : /\ access'[c] \in Tokens /\ sent'[c] \in Tokens
                                 /\ BackedBy(access'[c], rows) /\ BackedBy(sent'[c], rows)
                                 /\ Timely(access'[c]) /\ Timely(sent'[c]),
             NEW stage \in {"idle", "opening", "first", "again", "accepted", "refused", "failed",
                            "refreshing", "refreshed", "resuming", "resumed"},
             NEW held, NEW kept,
             call' = [call EXCEPT ![b] = stage] \/ UNCHANGED call,
             sent' = [sent EXCEPT ![b] = kept] \/ UNCHANGED sent,
             access' = [access EXCEPT ![b] = held] \/ UNCHANGED access
      PROVE  SessionsInv'
  <2>1. access' \in [Browsers -> Tokens] /\ sent' \in [Browsers -> Tokens]
    BY <1>5 DEF SessionsTypeOK
  <2>2. SessionsTypeOK'
    BY <1>5, <2>1 DEF SessionsTypeOK
  <2>3. Backed'
    BY <1>5 DEF Backed, Timely
  <2>4. QED
    BY <2>2, <2>3
<1> DEFINE Fine(token) == token \in Tokens /\ BackedBy(token, rows) /\ Timely(token)
<1>6. /\ \A b \in Browsers : Fine(access[b]) /\ Fine(sent[b])
      /\ Fine(NoAccess) /\ \A n \in Nat : Fine([NoAccess EXCEPT !.row = n])
  <2>1. now \in Nat /\ AccessTTL \in Nat
    BY SessionsAssumption DEF SessionsTypeOK
  <2>2. \A n \in Nat : [NoAccess EXCEPT !.row = n] \in Tokens
                       /\ [NoAccess EXCEPT !.row = n].expires = 0
    BY DEF NoAccess, Tokens, Nobody, NoCookie
  <2>3. \A b \in Browsers : Fine(access[b]) /\ Fine(sent[b])
    BY DEF SessionsTypeOK, Backed
  <2>4. QED
    BY <2>1, <2>2, <2>3, Empty DEF BackedBy, Timely
<1>7. SessionsTypeOK /\ SessionsInv
  OBVIOUS
<1> DEFINE Moved(b, token) ==
      /\ UNCHANGED <<users, rows, now>>
      /\ cookie' \in [Browsers -> Nat] /\ leaving' \in [Browsers -> Nat \cup {Out}]
      /\ user' \in [Browsers -> Emails \cup {Nobody}]
      /\ UNCHANGED access \/ access' = [access EXCEPT ![b] = NoAccess]
                          \/ access' = [access EXCEPT ![b] = sent[b]]
      /\ \/ UNCHANGED <<call, sent>>
         \/ /\ \E stage \in {"idle", "opening", "first", "again", "accepted", "refused", "failed",
                             "refreshing", "refreshed", "resuming", "resumed"} :
                 call' = [call EXCEPT ![b] = stage]
            /\ sent' = [sent EXCEPT ![b] = token]
<1>8. ASSUME NEW b \in Browsers, NEW token, Fine(token), Moved(b, token) PROVE SessionsInv'
  <2>1. \A c \in Browsers : sent'[c] = sent[c] \/ sent'[c] = token
    BY <1>8 DEF SessionsTypeOK
  <2>2. \A c \in Browsers : access'[c] = access[c] \/ access'[c] = NoAccess \/ access'[c] = sent[c]
    BY <1>8 DEF SessionsTypeOK
  <2>3. \A c \in Browsers : Fine(access'[c]) /\ Fine(sent'[c])
    BY <1>6, <1>8, <2>1, <2>2
  <2>4. PICK held : access' = [access EXCEPT ![b] = held] \/ UNCHANGED access
    BY <1>8
  <2>5. PICK stage \in {"idle", "opening", "first", "again", "accepted", "refused", "failed",
                        "refreshing", "refreshed", "resuming", "resumed"} :
           call' = [call EXCEPT ![b] = stage] \/ UNCHANGED call
    BY <1>8
  <2>6. sent' = [sent EXCEPT ![b] = token] \/ UNCHANGED sent
    BY <1>8
  <2>7. QED
    BY <1>5, <1>8, <2>3, <2>4, <2>5, <2>6
<1>9. ASSUME NEW b \in Browsers,
             Send(b) \/ Serve(b) \/ AskRefresh(b) \/ Finish(b) \/ Reopen(b) \/ Logout(b) \/ RevokeLost(b)
      PROVE  SessionsInv'
  <2>1. /\ UNCHANGED <<users, rows, now>>
        /\ cookie' \in [Browsers -> Nat]
        /\ user' \in [Browsers -> Emails \cup {Nobody}]
    BY <1>9 DEF Send, Serve, AskRefresh, Finish, Reopen, Logout, RevokeLost, SessionsTypeOK
  <2>2. leaving' \in [Browsers -> Nat \cup {Out}]
    BY <1>9 DEF Send, Serve, AskRefresh, Finish, Reopen, Logout, RevokeLost, SessionsTypeOK
  <2>3. UNCHANGED access \/ access' = [access EXCEPT ![b] = NoAccess]
    BY <1>9 DEF Send, Serve, AskRefresh, Finish, Reopen, Logout, RevokeLost
  <2>4. CASE Send(b)
    BY <1>6, <1>8, <2>1, <2>2, <2>3, <2>4 DEF Send, Move
  <2>5. CASE Serve(b)
    BY <1>6, <1>8, <2>1, <2>2, <2>3, <2>5 DEF Serve, Move
  <2>6. CASE AskRefresh(b)
    <3>1. Fine([NoAccess EXCEPT !.row = cookie[b]])
      BY <1>6 DEF SessionsTypeOK
    <3>2. Moved(b, [NoAccess EXCEPT !.row = cookie[b]])
      BY <2>1, <2>2, <2>3, <2>6 DEF AskRefresh, Move
    <3>3. QED
      BY <1>8, <3>1, <3>2
  <2>7. CASE Finish(b) \/ Reopen(b)
    BY <1>6, <1>8, <2>1, <2>2, <2>3, <2>7 DEF Finish, Reopen, Move
  <2>8. CASE Logout(b) \/ RevokeLost(b)
    BY <1>6, <1>8, <2>1, <2>2, <2>3, <2>8 DEF Logout, RevokeLost
  <2>9. QED
    BY <1>9, <2>4, <2>5, <2>6, <2>7, <2>8
<1>10. ASSUME NEW b \in Browsers, HandleRefresh(b) PROVE SessionsInv'
  <2> DEFINE token == IF Live(sent[b].row) THEN MakeJWT(rows[sent[b].row].user, sent[b].row)
                      ELSE NoAccess
  <2>1. CASE Live(sent[b].row)
    <3>1. /\ rows \in Seq(Rows) /\ sent[b].row \in 1 .. Len(rows)
          /\ rows[sent[b].row].revoked = Never /\ now < rows[sent[b].row].expires
      BY <2>1 DEF Live, SessionsTypeOK, Rows
    <3>2. Fine(token)
      BY <2>1, <3>1, SignedIsBacked
    <3> HIDE DEF token
    <3>3. Moved(b, token)
      BY <1>10 DEF HandleRefresh, Move, SessionsTypeOK, token
    <3>4. QED
      BY <1>8, <3>2, <3>3
  <2>2. CASE ~ Live(sent[b].row)
    <3>1. Moved(b, NoAccess)
      BY <1>10, <2>2 DEF HandleRefresh, Move, SessionsTypeOK
    <3>2. QED
      BY <1>6, <1>8, <3>1
  <2>3. QED
    BY <2>1, <2>2
<1>11. ASSUME NEW b \in Browsers, Refreshed(b) PROVE SessionsInv'
  <2>1. sent[b].user \in Emails \cup {Nobody}
    BY DEF SessionsTypeOK, Tokens
  <2>2. /\ UNCHANGED <<users, rows, now, cookie, leaving>>
        /\ access' = [access EXCEPT ![b] = sent[b]]
        /\ user' \in [Browsers -> Emails \cup {Nobody}]
    BY <1>11, <2>1 DEF Refreshed, SessionsTypeOK
  <2>3. CASE call[b] = "refreshed"
    <3>1. Moved(b, sent[b])
      BY <1>11, <2>2, <2>3 DEF Refreshed, Move, SessionsTypeOK
    <3>2. QED
      BY <1>6, <1>8, <3>1
  <2>4. CASE call[b] # "refreshed"
    <3>1. Moved(b, NoAccess)
      BY <1>11, <2>2, <2>4 DEF Refreshed, Move, SessionsTypeOK
    <3>2. QED
      BY <1>6, <1>8, <3>1
  <2>5. QED
    BY <2>3, <2>4
<1>12. ASSUME UNCHANGED sessionVars PROVE SessionsInv'
  BY <1>12 DEF sessionVars, page, SessionsTypeOK, Backed, BackedBy, Timely
<1> HIDE DEF SessionsInv
<1>13. QED
  BY <1>1, <1>2, <1>3, <1>4, <1>9, <1>10, <1>11, <1>12 DEF SessionsNext

(* Every token there is comes from a login that was alive when it was       *)
(* signed, whatever pages, retries and logouts did since.                   *)
THEOREM SessionsInvariant == SessionsSpec => []SessionsInv
<1>1. ASSUME SessionsInit PROVE SessionsInv
  <2>1. SessionsTypeOK
    BY <1>1, Empty DEF SessionsInit, SessionsTypeOK, NoCookie, Rows
  <2>2. Backed
    BY <1>1, Empty, SessionsAssumption DEF SessionsInit, Backed, BackedBy, Timely
  <2>3. QED
    BY <2>1, <2>2 DEF SessionsInv
<1>2. ASSUME SessionsInv, [SessionsNext]_sessionVars PROVE SessionsInv'
  BY <1>2, SessionsStep
<1>3. QED
  BY <1>1, <1>2, PTL DEF SessionsSpec

(* A session that is over is served for less than one life of an access     *)
(* token (requireAuth, handleRefresh, handleRevoke).                        *)
THEOREM SessionsEnd == SessionsSpec => SessionsEndWithTheirRow
<1> DEFINE Bounded(b) ==
      call'[b] = "accepted" /\ call[b] # "accepted" =>
        LET row == rows[sent[b].row] IN
        /\ sent[b].user = row.user
        /\ now < row.expires + AccessTTL
        /\ row.revoked # Never => now < row.revoked + AccessTTL
<1>1. ASSUME SessionsInv, [SessionsNext]_sessionVars, NEW b \in Browsers PROVE Bounded(b)
  <2>1. SUFFICES ASSUME call'[b] = "accepted", call[b] # "accepted"
                 PROVE  /\ sent[b].user = rows[sent[b].row].user
                        /\ now < rows[sent[b].row].expires + AccessTTL
                        /\ rows[sent[b].row].revoked # Never =>
                             now < rows[sent[b].row].revoked + AccessTTL
    OBVIOUS
  <2>2. DOMAIN call = Browsers
    BY <1>1 DEF SessionsInv, SessionsTypeOK
  <2>3. Serve(b)
    <3>1. ASSUME UNCHANGED call PROVE FALSE
      BY <2>1, <3>1
    <3>2. ASSUME NEW c \in Browsers, NEW stage, NEW token, Move(c, stage, token),
                 c # b \/ stage # "accepted"
          PROVE  FALSE
      BY <2>1, <2>2, <3>2 DEF Move
    <3>3. ASSUME Tick \/ (\E email \in Emails : Register(email)) \/ UNCHANGED sessionVars PROVE FALSE
      BY <3>1, <3>3 DEF Tick, Register, page, sessionVars
    <3>4. ASSUME NEW c \in Browsers, NEW email \in Emails, Login(c, email) PROVE FALSE
      BY <3>1, <3>4 DEF Login
    <3>5. ASSUME NEW c \in Browsers, Logout(c) \/ Revoke(c) \/ RevokeLost(c) PROVE FALSE
      BY <3>1, <3>5 DEF Logout, Revoke, RevokeLost
    <3>6. ASSUME NEW c \in Browsers, Send(c) \/ Finish(c) \/ Reopen(c) PROVE FALSE
      BY <3>2, <3>6 DEF Send, Finish, Reopen
    <3>7. ASSUME NEW c \in Browsers, AskRefresh(c) PROVE FALSE
      BY <3>2, <3>7 DEF AskRefresh
    <3>8. ASSUME NEW c \in Browsers, HandleRefresh(c) PROVE FALSE
      BY <3>2, <3>8 DEF HandleRefresh
    <3>9. ASSUME NEW c \in Browsers, Refreshed(c) PROVE FALSE
      BY <3>2, <3>9 DEF Refreshed
    <3>10. ASSUME NEW c \in Browsers, Serve(c), c # b PROVE FALSE
      BY <3>2, <3>10 DEF Serve
    <3>11. QED
      BY <1>1, <3>3, <3>4, <3>5, <3>6, <3>7, <3>8, <3>9, <3>10 DEF SessionsNext
  <2>4. ValidateJWT(sent[b])
    BY <2>1, <2>2, <2>3 DEF Serve, Move
  <2>5. now < sent[b].expires /\ now \in Nat /\ sent[b] \in Tokens /\ BackedBy(sent[b], rows)
    BY <1>1, <2>4 DEF ValidateJWT, SessionsInv, SessionsTypeOK, Backed
  <2>6. rows[sent[b].row] \in Rows
    <3>1. sent[b].expires \in Nat
      BY <2>5 DEF Tokens
    <3>2. sent[b].row \in 1 .. Len(rows)
      BY <2>5, <3>1 DEF BackedBy
    <3>3. rows \in Seq(Rows)
      BY <1>1 DEF SessionsInv, SessionsTypeOK
    <3>4. QED
      BY <3>2, <3>3
  <2>7. QED
    BY <2>5, <2>6, SessionsAssumption DEF BackedBy, Tokens, Rows, Never
<1>2. ASSUME SessionsInv, [SessionsNext]_sessionVars
      PROVE  [\A b \in Browsers : Bounded(b)]_sessionVars
  BY <1>1, <1>2
<1>3. QED
  BY <1>2, SessionsInvariant, PTL DEF SessionsSpec, SessionsEndWithTheirRow

-----------------------------------------------------------------------------
(* Saved lists.                                                             *)

Still == {"idle", "update", "members", "answered"}
Written == {"clear", "copy", "commit"}

ListsTypeOK ==
  /\ writes \in Nat
  /\ DOMAIN saved \subseteq 1 .. writes
  /\ accepted \subseteq Wanted
  /\ \A id \in DOMAIN saved : saved[id] \in accepted
  /\ pc \in [Requests -> Still \cup {"insert"} \cup Written]
  /\ asked = [r \in Requests |-> asked[r]]
  /\ seen = [r \in Requests |-> seen[r]]
  /\ draft = [r \in Requests |-> draft[r]]

(* A request that has nothing in a transaction, one that has an id for its  *)
(* row, and one whose row is written and waits for its members.             *)
Stage(r) ==
  /\ pc[r] \in Still => draft[r] = NoDraft
  /\ pc[r] = "update" => asked[r] \in Wanted
  /\ pc[r] = "insert" =>
       /\ asked[r] \in Wanted
       /\ draft[r] = [id |-> draft[r].id, row |-> NoRow]
       /\ draft[r].id \in 1 .. writes /\ draft[r].id \notin DOMAIN saved
  /\ pc[r] \in Written =>
       /\ asked[r] \in Wanted /\ asked[r].kind = "basket"
       /\ draft[r] = [id |-> draft[r].id,
                      row |-> [kind |-> "basket", name |-> asked[r].name, body |-> draft[r].row.body]]
       /\ draft[r].id \in 1 .. writes
       /\ draft[r].id \in DOMAIN saved => saved[draft[r].id].kind = "basket"
  /\ pc[r] = "clear" => draft[r].id \in DOMAIN saved
  /\ pc[r] = "commit" => draft[r].row.body = asked[r].body

Apart ==
  \A r, q \in Requests : r # q =>
    /\ draft[r].id # 0 => draft[r].id # draft[q].id
    /\ pc[r] \in Written /\ pc[q] \in Written => draft[r].row.name # draft[q].row.name

NamesApart ==
  \A id, other \in DOMAIN saved :
    saved[id].kind = saved[other].kind /\ saved[id].name = saved[other].name => id = other

Reserved ==
  \A r \in Requests : pc[r] \in Written =>
    \A id \in Held("basket") : saved[id].name = draft[r].row.name => id = draft[r].id

(* The rows that will be new when their requests end.                       *)
Coming(kind) ==
  {r \in Requests : asked[r].kind = kind /\ draft[r].id # 0 /\ draft[r].id \notin DOMAIN saved}

Limit ==
  \A kind \in Kinds :
    Cardinality(Held(kind)) + Cardinality(Coming(kind)) < MaxRows + Cardinality(Requests)

(* Of a basket that a request has read.                                     *)
Known(id, basket) ==
  /\ basket = [kind |-> "basket", name |-> basket.name, body |-> basket.body]
  /\ id \in 1 .. writes
  /\ \E row \in accepted : row.kind = "basket" /\ row.name = basket.name
  /\ id \in DOMAIN saved => saved[id].kind = "basket"
  /\ id \notin DOMAIN saved => \A q \in Requests : draft[q].id # id

Shown(id, basket) ==
  \/ basket.body = <<>> /\ id \notin DOMAIN saved
  \/ \E row \in accepted : row.kind = "basket" /\ row.body = basket.body

Reading(r) ==
  pc[r] \in {"members", "answered"} =>
    \A id \in DOMAIN seen[r] :
       Known(id, seen[r][id]) /\ (pc[r] = "answered" => Shown(id, seen[r][id]))

ListsInv ==
  /\ ListsTypeOK
  /\ \A r \in Requests : Stage(r)
  /\ Apart /\ NamesApart /\ Reserved /\ Limit
  /\ \A r \in Requests : Reading(r)

-----------------------------------------------------------------------------
(* What is wanted, and what a state with no draft knows.                    *)
LEMMA WantedRows ==
  ASSUME NEW row \in Wanted
  PROVE  /\ row = [kind |-> row.kind, name |-> row.name, body |-> row.body]
         /\ row.kind \in Kinds /\ row.kind # "none"
         /\ \E raw \in Raw(row.kind) :
              Accepted(row.kind, raw) /\ row.body = Normalize(row.kind, raw)
<1>1. PICK kind \in Kinds :
        row \in [kind : {kind}, name : Names,
                 body : {Normalize(kind, raw) : raw \in {b \in Raw(kind) : Accepted(kind, b)}}]
  BY DEF Wanted
<1>2. row.kind = kind /\ row = [kind |-> row.kind, name |-> row.name, body |-> row.body]
  BY <1>1
<1>3. row.body \in {Normalize(kind, raw) : raw \in {b \in Raw(kind) : Accepted(kind, b)}}
  BY <1>1
<1>4. QED
  BY <1>1, <1>2, <1>3 DEF Kinds

LEMMA Nothing == NoDraft.id = 0 /\ NoDraft.row = NoRow /\ NoRow.kind = "none"
  BY DEF NoDraft, NoRow

LEMMA Drafts ==
  ASSUME ListsInv, NEW r \in Requests
  PROVE  /\ pc[r] \in Still \cup {"insert"} \cup Written
         /\ draft[r].id # 0 <=> pc[r] \notin Still
         /\ draft[r].id \in 0 .. writes
         /\ draft[r].row.kind = "basket" <=> pc[r] \in Written
         /\ draft[r].row.kind # "basket" => draft[r].row.kind = "none"
         /\ pc[r] \in Written => draft[r].row.name = asked[r].name
<1>1. pc[r] \in Still \cup {"insert"} \cup Written /\ Stage(r) /\ writes \in Nat
  BY DEF ListsInv, ListsTypeOK
<1>2. CASE pc[r] \in Still
  <2>1. draft[r] = NoDraft /\ pc[r] \notin Written
    BY <1>1, <1>2 DEF Stage, Still, Written
  <2>2. draft[r].id = 0 /\ draft[r].row.kind = "none"
    BY <2>1, Nothing
  <2>3. QED
    BY <1>1, <1>2, <2>1, <2>2
<1>3. CASE pc[r] = "insert"
  <2>1. pc[r] \notin Still /\ pc[r] \notin Written /\ draft[r].id \in 1 .. writes
    BY <1>1, <1>3 DEF Stage, Still, Written
  <2>2. draft[r].row = NoRow
    BY <1>1, <1>3 DEF Stage
  <2>3. draft[r].row.kind = "none"
    BY <2>2, Nothing
  <2>4. QED
    BY <1>1, <1>3, <2>1, <2>3
<1>4. CASE pc[r] \in Written
  <2>1. pc[r] \notin Still /\ draft[r].id \in 1 .. writes
    BY <1>1, <1>4 DEF Stage, Still, Written
  <2>2. draft[r].row = [kind |-> "basket", name |-> asked[r].name, body |-> draft[r].row.body]
    BY <1>1, <1>4 DEF Stage
  <2>3. QED
    BY <1>1, <1>4, <2>1, <2>2
<1>5. QED
  BY <1>1, <1>2, <1>3, <1>4

LEMMA Counted ==
  ASSUME ListsInv, NEW kind
  PROVE  /\ IsFiniteSet(DOMAIN saved)
         /\ IsFiniteSet(Held(kind)) /\ Cardinality(Held(kind)) \in Nat
         /\ IsFiniteSet(Coming(kind)) /\ Cardinality(Coming(kind)) \in Nat
         /\ Cardinality(Coming(kind)) <= Cardinality(Requests) /\ Cardinality(Requests) \in Nat
<1>1. IsFiniteSet(1 .. writes)
  BY FS_Interval DEF ListsInv, ListsTypeOK
<1>2. IsFiniteSet(DOMAIN saved)
  BY <1>1, FS_Subset DEF ListsInv, ListsTypeOK
<1>3. IsFiniteSet(Held(kind))
  BY <1>2, FS_Subset DEF Held
<1>4. IsFiniteSet(Coming(kind)) /\ Cardinality(Coming(kind)) <= Cardinality(Requests)
  BY SavedListsAssumption, FS_Subset DEF Coming
<1>5. QED
  BY <1>2, <1>3, <1>4, SavedListsAssumption, FS_CardinalityType

(* No more rows, held or coming, than before.                               *)
LEMMA LimitKept ==
  ASSUME ListsInv, \A kind \in Kinds : Held(kind)' \subseteq Held(kind),
         \A kind \in Kinds : Coming(kind)' \subseteq Coming(kind)
  PROVE  Limit'
<1> SUFFICES ASSUME NEW kind \in Kinds
             PROVE  Cardinality(Held(kind)') + Cardinality(Coming(kind)')
                      < MaxRows + Cardinality(Requests)
  BY DEF Limit
<1>1. Cardinality(Held(kind)') <= Cardinality(Held(kind)) /\ Cardinality(Held(kind)') \in Nat
  BY Counted, FS_Subset, FS_CardinalityType
<1>2. Cardinality(Coming(kind)') <= Cardinality(Coming(kind)) /\ Cardinality(Coming(kind)') \in Nat
  BY Counted, FS_Subset, FS_CardinalityType
<1>3. Cardinality(Held(kind)) + Cardinality(Coming(kind)) < MaxRows + Cardinality(Requests)
  BY DEF ListsInv, Limit
<1>4. QED
  BY <1>1, <1>2, <1>3, Counted, SavedListsAssumption

(* A step after which r has no draft, and by which no row changes: what r   *)
(* had begun is rolled back, or it goes on to a stage without a draft.      *)
LEMMA Quiet ==
  ASSUME ListsInv, NEW r \in Requests,
         UNCHANGED <<saved, accepted>>, writes' \in Nat, writes <= writes',
         NEW stage \in Still, pc' = [pc EXCEPT ![r] = stage],
         draft' = [draft EXCEPT ![r] = NoDraft],
         asked' = [q \in Requests |-> asked'[q]], \A q \in Requests \ {r} : asked'[q] = asked[q],
         seen' = [q \in Requests |-> seen'[q]], \A q \in Requests \ {r} : seen'[q] = seen[q],
         stage = "update" => asked'[r] \in Wanted,
         Reading(r)'
  PROVE  ListsInv'
<1>1. /\ \A q \in Requests : draft'[q] = IF q = r THEN NoDraft ELSE draft[q]
      /\ \A q \in Requests : pc'[q] = IF q = r THEN stage ELSE pc[q]
      /\ \A q \in Requests : draft'[q].id = 0 \/ q # r
      /\ stage \notin Written /\ stage # "insert"
  BY DEF ListsInv, ListsTypeOK, Still, Written, NoDraft
<1>2. ListsTypeOK'
  <2>1. 1 .. writes \subseteq 1 .. writes'
    BY DEF ListsInv, ListsTypeOK
  <2>2. pc' \in [Requests -> Still \cup {"insert"} \cup Written]
    BY DEF ListsInv, ListsTypeOK
  <2>3. draft' = [q \in Requests |-> draft'[q]]
    BY DEF ListsInv, ListsTypeOK
  <2>4. QED
    BY <2>1, <2>2, <2>3 DEF ListsInv, ListsTypeOK
<1>3. ASSUME NEW q \in Requests PROVE Stage(q)'
  <2>1. CASE q = r
    <3>1. pc'[q] = stage /\ draft'[q] = NoDraft
      BY <1>1, <2>1
    <3>2. stage # "clear" /\ stage # "commit"
      BY <1>1 DEF Written
    <3>3. QED
      BY <1>1, <2>1, <3>1, <3>2 DEF Stage
  <2>2. CASE q # r
    <3>1. pc'[q] = pc[q] /\ draft'[q] = draft[q] /\ asked'[q] = asked[q] /\ Stage(q)
      BY <1>1, <2>2 DEF ListsInv
    <3>2. draft[q].id \in 1 .. writes => draft[q].id \in 1 .. writes'
      BY DEF ListsInv, ListsTypeOK
    <3>3. QED
      BY <3>1, <3>2 DEF Stage
  <2>3. QED
    BY <2>1, <2>2
<1>4. Apart'
  BY <1>1, Drafts DEF ListsInv, Apart
<1>5. NamesApart' /\ Reserved'
  BY <1>1 DEF ListsInv, NamesApart, Reserved, Held
<1>6. Limit'
  <2>1. \A kind \in Kinds : Held(kind)' \subseteq Held(kind)
    BY DEF Held
  <2>2. \A kind \in Kinds : Coming(kind)' \subseteq Coming(kind)
    BY <1>1 DEF Coming
  <2>3. QED
    BY <2>1, <2>2, LimitKept
<1>7. ASSUME NEW q \in Requests PROVE Reading(q)'
  <2>1. CASE q = r
    BY <2>1
  <2>2. CASE q # r
    <3>1. Reading(q) /\ seen'[q] = seen[q] /\ pc'[q] = pc[q]
      BY <1>1, <2>2 DEF ListsInv
    <3>2. SUFFICES ASSUME pc[q] \in {"members", "answered"}, NEW id \in DOMAIN seen[q]
                   PROVE  (Known(id, seen[q][id]) /\ (pc[q] = "answered" => Shown(id, seen[q][id])))'
      BY <3>1 DEF Reading
    <3>3. Known(id, seen[q][id]) /\ (pc[q] = "answered" => Shown(id, seen[q][id]))
      BY <3>1, <3>2 DEF Reading
    <3>4. id \in 1 .. writes => id # 0 /\ id \in 1 .. writes'
      BY DEF ListsInv, ListsTypeOK
    <3>5. QED
      BY <1>1, <2>2, <3>1, <3>3, <3>4 DEF Known, Shown
  <2>3. QED
    BY <2>1, <2>2
<1>8. QED
  BY <1>2, <1>3, <1>4, <1>5, <1>6, <1>7 DEF ListsInv

(* What a reader knows stays true when a row that comes to be had been a    *)
(* draft, and no row changes its kind.                                      *)
LEMMA ReadingKept ==
  ASSUME ListsInv, NEW q \in Requests,
         pc'[q] \notin {"members", "answered"} \/ pc'[q] = pc[q], seen'[q] = seen[q],
         accepted \subseteq accepted', writes' \in Nat, writes <= writes',
         \A id \in DOMAIN saved' :
           \/ id \in DOMAIN saved /\ saved'[id].kind = saved[id].kind
           \/ id \notin DOMAIN saved /\ \E p \in Requests : draft[p].id = id,
         \A id \in 1 .. writes, p \in Requests :
           draft'[p].id = id =>
             \/ id \in DOMAIN saved'
             \/ id \notin DOMAIN saved /\ \E o \in Requests : draft[o].id = id
  PROVE  Reading(q)'
<1> SUFFICES ASSUME pc'[q] \in {"members", "answered"}, NEW id \in DOMAIN seen'[q]
             PROVE  (Known(id, seen[q][id]) /\ (pc[q] = "answered" => Shown(id, seen[q][id])))'
  BY DEF Reading
<1>1. pc'[q] = pc[q] /\ seen'[q] = seen[q]
  OBVIOUS
<1>2. Known(id, seen[q][id]) /\ (pc[q] = "answered" => Shown(id, seen[q][id]))
  BY <1>1 DEF ListsInv, Reading
<1>3. id \in 1 .. writes /\ id \in 1 .. writes'
  BY <1>2 DEF Known, ListsInv, ListsTypeOK
<1>4. /\ id \in DOMAIN saved' => id \in DOMAIN saved /\ saved'[id].kind = "basket"
      /\ id \notin DOMAIN saved' => \A p \in Requests : draft'[p].id # id
  BY <1>2, <1>3 DEF Known
<1>5. Known(id, seen[q][id])'
  BY <1>1, <1>2, <1>3, <1>4 DEF Known
<1>6. Shown(id, seen[q][id]) => Shown(id, seen[q][id])'
  BY <1>1, <1>4 DEF Shown
<1>7. QED
  BY <1>1, <1>2, <1>5, <1>6

(* A request gets an id for its row: the rows were counted.                 *)
LEMMA CreateStep == ASSUME ListsInv, NEW r \in Requests, Create(r) PROVE ListsInv'
<1>1. PICK row \in Wanted : /\ Cardinality(Held(row.kind)) < MaxRows
                            /\ asked' = [asked EXCEPT ![r] = row]
                            /\ draft' = [draft EXCEPT ![r].id = writes + 1]
  BY DEF Create
<1>2. /\ pc[r] = "idle" /\ pc' = [pc EXCEPT ![r] = "insert"] /\ writes' = writes + 1
      /\ UNCHANGED <<saved, seen, accepted>>
  BY DEF Create, Goto
<1>3. draft[r] = NoDraft /\ writes \in Nat /\ DOMAIN saved \subseteq 1 .. writes
  BY <1>2 DEF ListsInv, ListsTypeOK, Stage, Still
<1>4. draft'[r] = [draft[r] EXCEPT !.id = writes + 1]
  BY <1>1 DEF ListsInv, ListsTypeOK
<1>5. draft'[r] = [id |-> writes + 1, row |-> NoRow]
  BY <1>3, <1>4 DEF NoDraft
<1>6. /\ \A q \in Requests \ {r} : pc'[q] = pc[q] /\ draft'[q] = draft[q] /\ asked'[q] = asked[q]
      /\ pc'[r] = "insert" /\ asked'[r] = row /\ draft'[r].id = writes + 1 /\ draft'[r].row = NoRow
  BY <1>1, <1>2, <1>5 DEF ListsInv, ListsTypeOK
<1>7. "insert" \notin Still /\ "insert" \notin Written /\ writes + 1 \in 1 .. writes'
  BY <1>2, <1>3 DEF Still, Written
<1>8. ListsTypeOK'
  <2>1. 1 .. writes \subseteq 1 .. writes'
    BY <1>2, <1>3
  <2>2. pc' \in [Requests -> Still \cup {"insert"} \cup Written]
    BY <1>2 DEF ListsInv, ListsTypeOK
  <2>3. draft' = [q \in Requests |-> draft'[q]] /\ asked' = [q \in Requests |-> asked'[q]]
    BY <1>1 DEF ListsInv, ListsTypeOK
  <2>4. QED
    BY <1>2, <1>3, <2>1, <2>2, <2>3 DEF ListsInv, ListsTypeOK
<1>9. ASSUME NEW q \in Requests PROVE Stage(q)'
  <2>1. CASE q = r
    <3>1. asked'[q] \in Wanted /\ draft'[q] = [id |-> draft'[q].id, row |-> NoRow]
      BY <1>5, <1>6, <2>1
    <3>2. draft'[q].id \in 1 .. writes' /\ draft'[q].id \notin DOMAIN saved'
      BY <1>2, <1>3, <1>6, <1>7, <2>1
    <3>3. QED
      BY <1>6, <1>7, <2>1, <3>1, <3>2 DEF Stage
  <2>2. CASE q # r
    <3>1. pc'[q] = pc[q] /\ draft'[q] = draft[q] /\ asked'[q] = asked[q] /\ Stage(q)
      BY <1>6, <2>2 DEF ListsInv
    <3>2. draft[q].id \in 1 .. writes => draft[q].id \in 1 .. writes'
      BY <1>2, <1>3
    <3>3. QED
      BY <1>2, <3>1, <3>2 DEF Stage
  <2>3. QED
    BY <2>1, <2>2
<1>10. \A q \in Requests : draft[q].id # writes + 1
  BY <1>3, Drafts
<1>11. Apart'
  BY <1>6, <1>7, <1>10 DEF ListsInv, Apart
<1>12. NamesApart' /\ Reserved'
  BY <1>2, <1>6, <1>7 DEF ListsInv, NamesApart, Reserved, Held
<1>13. Limit'
  <2> SUFFICES ASSUME NEW kind \in Kinds
               PROVE  Cardinality(Held(kind)') + Cardinality(Coming(kind)')
                        < MaxRows + Cardinality(Requests)
    BY DEF Limit
  <2>1. Held(kind)' = Held(kind)
    BY <1>2 DEF Held
  <2>2. CASE kind = row.kind
    <3>1. Coming(kind)' \subseteq Requests
      BY DEF Coming
    <3>2. Cardinality(Coming(kind)') <= Cardinality(Requests) /\ Cardinality(Coming(kind)') \in Nat
      BY <3>1, SavedListsAssumption, FS_Subset, FS_CardinalityType
    <3>3. QED
      BY <1>1, <2>1, <2>2, <3>2, Counted, SavedListsAssumption
  <2>3. CASE kind # row.kind
    <3>1. \A q \in Coming(kind)' : q \in Coming(kind)
      BY <1>2, <1>6, <2>3 DEF Coming
    <3>2. Cardinality(Coming(kind)') <= Cardinality(Coming(kind)) /\ Cardinality(Coming(kind)') \in Nat
      BY <3>1, Counted, FS_Subset, FS_CardinalityType
    <3>3. Cardinality(Held(kind)) + Cardinality(Coming(kind)) < MaxRows + Cardinality(Requests)
      BY DEF ListsInv, Limit
    <3>4. QED
      BY <2>1, <3>2, <3>3, Counted, SavedListsAssumption
  <2>4. QED
    BY <2>2, <2>3
<1>14. ASSUME NEW q \in Requests PROVE Reading(q)'
  <2>1. pc'[q] \notin {"members", "answered"} \/ pc'[q] = pc[q]
    BY <1>6
  <2>2. \A id \in 1 .. writes, p \in Requests : draft'[p].id = id => draft[p].id = id
    BY <1>3, <1>6
  <2>3. \A id \in 1 .. writes, p \in Requests :
          draft'[p].id = id =>
            \/ id \in DOMAIN saved'
            \/ id \notin DOMAIN saved /\ \E o \in Requests : draft[o].id = id
    BY <1>2, <2>2
  <2>4. QED
    BY <1>2, <1>3, <2>1, <2>3, ReadingKept
<1>15. QED
  BY <1>8, <1>9, <1>11, <1>12, <1>13, <1>14 DEF ListsInv

(* The transaction of r writes its row, or the members of it: the row has   *)
(* an id that r held or could take, and a name no one has.                  *)
LEMMA WriteStep ==
  ASSUME ListsInv, NEW r \in Requests, NEW id \in 1 .. writes, NEW body,
         NEW stage \in Written, pc' = [pc EXCEPT ![r] = stage],
         draft' = [draft EXCEPT ![r] =
           [id |-> id, row |-> [kind |-> "basket", name |-> asked[r].name, body |-> body]]],
         UNCHANGED <<saved, asked, accepted, writes>>,
         seen' = [q \in Requests |-> seen'[q]], \A q \in Requests \ {r} : seen'[q] = seen[q],
         asked[r] \in Wanted, asked[r].kind = "basket",
         id \in DOMAIN saved => saved[id].kind = "basket",
         id \notin DOMAIN saved => draft[r].id = id /\ stage # "clear",
         stage = "commit" => body = asked[r].body,
         \A q \in Requests \ {r} : /\ draft[q].id # id
                                   /\ pc[q] \in Written => draft[q].row.name # asked[r].name,
         \A other \in Held("basket") \ {id} : saved[other].name # asked[r].name
  PROVE  ListsInv'
<1> DEFINE new == [id |-> id, row |-> [kind |-> "basket", name |-> asked[r].name, body |-> body]]
<1>1. /\ \A q \in Requests \ {r} : pc'[q] = pc[q] /\ draft'[q] = draft[q]
      /\ pc'[r] = stage /\ draft'[r] = new
      /\ stage \notin Still /\ stage # "insert"
      /\ writes \in Nat /\ id # 0
  BY DEF ListsInv, ListsTypeOK, Still, Written
<1>2. new.id = id /\ new.row = [kind |-> "basket", name |-> asked[r].name, body |-> body]
  OBVIOUS
<1> HIDE DEF new
<1>3. draft'[r].id = id /\ draft'[r].row.name = asked[r].name /\ draft'[r].row.body = body
  BY <1>1, <1>2
<1>4. ListsTypeOK'
  <2>1. pc' \in [Requests -> Still \cup {"insert"} \cup Written]
    BY DEF ListsInv, ListsTypeOK
  <2>2. draft' = [q \in Requests |-> draft'[q]]
    BY DEF ListsInv, ListsTypeOK
  <2>3. QED
    BY <2>1, <2>2 DEF ListsInv, ListsTypeOK
<1>5. ASSUME NEW q \in Requests PROVE Stage(q)'
  <2>1. CASE q = r
    <3>1. draft'[r] = [id |-> id, row |-> [kind |-> "basket", name |-> asked[r].name, body |-> body]]
      BY <1>1, <1>2 DEF new
    <3>2. draft'[q] = [id |-> draft'[q].id,
                       row |-> [kind |-> "basket", name |-> asked'[q].name, body |-> draft'[q].row.body]]
      BY <1>3, <2>1, <3>1
    <3>3. QED
      BY <1>1, <1>3, <2>1, <3>2 DEF Stage
  <2>2. CASE q # r
    <3>1. pc'[q] = pc[q] /\ draft'[q] = draft[q] /\ Stage(q)
      BY <1>1, <2>2 DEF ListsInv
    <3>2. QED
      BY <3>1 DEF Stage
  <2>3. QED
    BY <2>1, <2>2
<1>6. Apart'
  BY <1>1, <1>3 DEF ListsInv, Apart
<1>7. NamesApart'
  BY DEF ListsInv, NamesApart
<1>8. Reserved'
  BY <1>1, <1>3 DEF ListsInv, Reserved, Held
<1>9. Limit'
  <2>1. \A kind \in Kinds : Held(kind)' \subseteq Held(kind)
    BY DEF Held
  <2>2. \A kind \in Kinds : Coming(kind)' \subseteq Coming(kind)
    BY <1>1, <1>3 DEF Coming
  <2>3. QED
    BY <2>1, <2>2, LimitKept
<1>10. ASSUME NEW q \in Requests PROVE Reading(q)'
  <2>1. CASE q = r
    BY <1>1, <2>1 DEF Reading, Written
  <2>2. CASE q # r
    <3>1. \A i \in 1 .. writes, p \in Requests :
            draft'[p].id = i =>
              \/ i \in DOMAIN saved'
              \/ i \notin DOMAIN saved /\ \E o \in Requests : draft[o].id = i
      <4> SUFFICES ASSUME NEW i \in 1 .. writes, NEW p \in Requests, draft'[p].id = i,
                          i \notin DOMAIN saved
                   PROVE  \E o \in Requests : draft[o].id = i
        OBVIOUS
      <4>1. CASE p = r
        BY <1>3, <4>1
      <4>2. CASE p # r
        BY <1>1, <4>2
      <4>3. QED
        BY <4>1, <4>2
    <3>2. QED
      BY <1>1, <2>2, <3>1, ReadingKept
  <2>3. QED
    BY <2>1, <2>2
<1>11. QED
  BY <1>4, <1>5, <1>6, <1>7, <1>8, <1>9, <1>10 DEF ListsInv

(* A row takes effect.                                                      *)
LEMMA StoreStep ==
  ASSUME ListsInv, NEW r \in Requests, NEW id \in 1 .. writes, NEW row \in Wanted,
         row = asked[r], Store(r, id, row), UNCHANGED <<asked, writes>>,
         seen' = [q \in Requests |-> seen'[q]], \A q \in Requests \ {r} : seen'[q] = seen[q],
         id \in DOMAIN saved => saved[id].kind = row.kind,
         id \notin DOMAIN saved => draft[r].id = id,
         \A q \in Requests \ {r} :
           /\ draft[q].id # id
           /\ pc[q] \in Written => row.kind # "basket" \/ draft[q].row.name # row.name,
         \A other \in Held(row.kind) \ {id} : saved[other].name # row.name
  PROVE  ListsInv'
<1>1. /\ \A q \in Requests \ {r} : pc'[q] = pc[q] /\ draft'[q] = draft[q]
      /\ pc'[r] = "idle" /\ draft'[r] = NoDraft /\ draft'[r].id = 0
      /\ "idle" \in Still /\ "idle" \notin Written
      /\ writes \in Nat /\ id # 0 /\ id \in Nat
  BY Nothing DEF ListsInv, ListsTypeOK, Store, Goto, Rollback, Still, Written
<1>2. /\ DOMAIN saved' = DOMAIN saved \cup {id} /\ saved'[id] = row
      /\ \A i \in DOMAIN saved \ {id} : saved'[i] = saved[i]
      /\ accepted' = accepted \cup {row}
  BY DEF Store, Put
<1>3. ListsTypeOK'
  <2>1. pc' \in [Requests -> Still \cup {"insert"} \cup Written]
    BY <1>1 DEF ListsInv, ListsTypeOK, Store, Goto
  <2>2. draft' = [q \in Requests |-> draft'[q]]
    BY DEF ListsInv, ListsTypeOK, Store, Rollback
  <2>3. DOMAIN saved' \subseteq 1 .. writes /\ accepted' \subseteq Wanted
    BY <1>2 DEF ListsInv, ListsTypeOK
  <2>4. \A i \in DOMAIN saved' : saved'[i] \in accepted'
    BY <1>2 DEF ListsInv, ListsTypeOK
  <2>5. QED
    BY <2>1, <2>2, <2>3, <2>4 DEF ListsInv, ListsTypeOK
<1>4. ASSUME NEW q \in Requests PROVE Stage(q)'
  <2>1. CASE q = r
    BY <1>1, <2>1 DEF Stage, Written
  <2>2. CASE q # r
    <3>1. pc'[q] = pc[q] /\ draft'[q] = draft[q] /\ Stage(q) /\ draft[q].id # id
      BY <1>1, <2>2 DEF ListsInv
    <3>2. /\ draft[q].id \in DOMAIN saved' <=> draft[q].id \in DOMAIN saved
          /\ draft[q].id \in DOMAIN saved => saved'[draft[q].id] = saved[draft[q].id]
      BY <1>2, <3>1
    <3>3. QED
      BY <3>1, <3>2 DEF Stage
  <2>3. QED
    BY <2>1, <2>2
<1>5. Apart'
  BY <1>1, Drafts DEF ListsInv, Apart
<1>6. NamesApart'
  <2> SUFFICES ASSUME NEW i \in DOMAIN saved', NEW j \in DOMAIN saved',
                      saved'[i].kind = saved'[j].kind, saved'[i].name = saved'[j].name, i # j
               PROVE  FALSE
    BY DEF NamesApart
  <2>1. CASE i # id /\ j # id
    BY <1>2, <2>1 DEF ListsInv, NamesApart
  <2>2. CASE i = id
    BY <1>2, <2>2 DEF Held
  <2>3. CASE j = id
    BY <1>2, <2>3 DEF Held
  <2>4. QED
    BY <2>1, <2>2, <2>3
<1>7. Reserved'
  <2> SUFFICES ASSUME NEW q \in Requests, pc'[q] \in Written,
                      NEW i \in DOMAIN saved', saved'[i].kind = "basket",
                      saved'[i].name = draft'[q].row.name
               PROVE  i = draft'[q].id
    BY DEF Reserved, Held
  <2>1. q # r /\ pc[q] \in Written /\ draft'[q] = draft[q]
    BY <1>1
  <2>2. i # id
    BY <1>2, <2>1
  <2>3. QED
    BY <1>2, <2>1, <2>2 DEF ListsInv, Reserved, Held
<1>8. Limit'
  <2>1. CASE id \in DOMAIN saved
    <3>1. \A kind \in Kinds : \A i \in Held(kind)' : i \in Held(kind)
      BY <1>2, <2>1 DEF Held
    <3>2. \A kind \in Kinds : \A q \in Coming(kind)' : q \in Coming(kind)
      BY <1>1, <1>2 DEF Coming
    <3>3. QED
      BY <3>1, <3>2, LimitKept
  <2>2. CASE id \notin DOMAIN saved
    <3> SUFFICES ASSUME NEW kind \in Kinds
                 PROVE  Cardinality(Held(kind)') + Cardinality(Coming(kind)')
                          < MaxRows + Cardinality(Requests)
      BY DEF Limit
    <3>1. Cardinality(Held(kind)) + Cardinality(Coming(kind)) < MaxRows + Cardinality(Requests)
      BY DEF ListsInv, Limit
    <3>2. CASE kind = row.kind
      <4>1. Held(kind)' = Held(kind) \cup {id} /\ id \notin Held(kind)
        BY <1>2, <2>2, <3>2 DEF Held
      <4>2. \A q \in Coming(kind)' : q \in Coming(kind) \ {r}
        BY <1>1, <1>2 DEF Coming
      <4>3. r \in Coming(kind)
        BY <1>1, <2>2, <3>2 DEF Coming
      <4>4. Cardinality(Held(kind)') = Cardinality(Held(kind)) + 1
        BY <4>1, Counted, FS_AddElement
      <4>5. /\ IsFiniteSet(Coming(kind) \ {r})
            /\ Cardinality(Coming(kind) \ {r}) = Cardinality(Coming(kind)) - 1
        BY <4>3, Counted, FS_RemoveElement
      <4>6. /\ Cardinality(Coming(kind)') <= Cardinality(Coming(kind) \ {r})
            /\ Cardinality(Coming(kind)') \in Nat
        BY <4>2, <4>5, FS_Subset, FS_CardinalityType
      <4>7. QED
        BY <3>1, <4>4, <4>5, <4>6, Counted, SavedListsAssumption
    <3>3. CASE kind # row.kind
      <4>1. Held(kind)' = Held(kind)
        BY <1>2, <2>2, <3>3 DEF Held
      <4>2. \A q \in Coming(kind)' : q \in Coming(kind)
        BY <1>1, <1>2 DEF Coming
      <4>3. Cardinality(Coming(kind)') <= Cardinality(Coming(kind)) /\ Cardinality(Coming(kind)') \in Nat
        BY <4>2, Counted, FS_Subset, FS_CardinalityType
      <4>4. QED
        BY <3>1, <4>1, <4>3, Counted, SavedListsAssumption
    <3>4. QED
      BY <3>2, <3>3
  <2>3. QED
    BY <2>1, <2>2
<1>9. ASSUME NEW q \in Requests PROVE Reading(q)'
  <2>1. CASE q = r
    BY <1>1, <2>1 DEF Reading
  <2>2. CASE q # r
    <3>1. \A i \in DOMAIN saved' :
            \/ i \in DOMAIN saved /\ saved'[i].kind = saved[i].kind
            \/ i \notin DOMAIN saved /\ \E p \in Requests : draft[p].id = i
      BY <1>2
    <3>2. \A i \in 1 .. writes, p \in Requests :
            draft'[p].id = i =>
              \/ i \in DOMAIN saved'
              \/ i \notin DOMAIN saved /\ \E o \in Requests : draft[o].id = i
      BY <1>1, <1>2
    <3>3. QED
      BY <1>1, <1>2, <2>2, <3>1, <3>2, ReadingKept
  <2>3. QED
    BY <2>1, <2>2
<1>10. QED
  BY <1>3, <1>4, <1>5, <1>6, <1>7, <1>8, <1>9 DEF ListsInv

(* A row that no transaction holds goes.                                    *)
LEMMA DeleteStep == ASSUME ListsInv, NEW id \in DOMAIN saved, Delete(id) PROVE ListsInv'
<1>1. /\ DOMAIN saved' = DOMAIN saved \ {id} /\ \A i \in DOMAIN saved' : saved'[i] = saved[i]
      /\ UNCHANGED <<pc, asked, seen, draft, accepted, writes>>
      /\ \A q \in Requests : draft[q].id # id
  BY DEF Delete, Locked
<1>2. ListsTypeOK'
  BY <1>1 DEF ListsInv, ListsTypeOK
<1>3. ASSUME NEW q \in Requests PROVE Stage(q)'
  <2>1. Stage(q) /\ draft[q].id # id
    BY <1>1 DEF ListsInv
  <2>2. QED
    BY <1>1, <2>1 DEF Stage
<1>4. Apart'
  BY <1>1 DEF ListsInv, Apart
<1>5. NamesApart' /\ Reserved'
  BY <1>1 DEF ListsInv, NamesApart, Reserved, Held
<1>6. Limit'
  <2>1. \A kind \in Kinds : \A i \in Held(kind)' : i \in Held(kind)
    BY <1>1 DEF Held
  <2>2. \A kind \in Kinds : \A q \in Coming(kind)' : q \in Coming(kind)
    BY <1>1 DEF Coming
  <2>3. QED
    BY <2>1, <2>2, LimitKept
<1>7. ASSUME NEW q \in Requests PROVE Reading(q)'
  <2>1. \A i \in 1 .. writes, p \in Requests :
          draft'[p].id = i =>
            \/ i \in DOMAIN saved'
            \/ i \notin DOMAIN saved /\ \E o \in Requests : draft[o].id = i
    BY <1>1
  <2>2. writes \in Nat
    BY DEF ListsInv, ListsTypeOK
  <2>3. QED
    BY <1>1, <2>1, <2>2, ReadingKept
<1>8. QED
  BY <1>2, <1>3, <1>4, <1>5, <1>6, <1>7 DEF ListsInv

(* The name a request asks for is neither taken nor in a transaction.       *)
LEMMA NameFree ==
  ASSUME ListsInv, NEW r \in Requests, NEW row \in Wanted, NEW id \in 1 .. writes,
         ~ MustWait(row, id), ~ Taken(row, id), \A q \in Requests \ {r} : draft[q].id # id
  PROVE  /\ \A other \in Held(row.kind) \ {id} : saved[other].name # row.name
         /\ \A q \in Requests \ {r} :
              pc[q] \in Written => row.kind # "basket" \/ draft[q].row.name # row.name
<1>1. \A other \in Held(row.kind) \ {id} : saved[other].name # row.name
  BY DEF Taken
<1>2. \A q \in Requests : draft[q].row.kind = row.kind /\ draft[q].row.name = row.name => draft[q].id = id
  BY DEF MustWait
<1>3. QED
  BY <1>1, <1>2, Drafts

LEMMA InsertStep == ASSUME ListsInv, NEW r \in Requests, Insert(r) PROVE ListsInv'
<1>1. PICK id : id = draft[r].id
  OBVIOUS
<1>2. PICK row : row = asked[r]
  OBVIOUS
<1>3. /\ pc[r] = "insert" /\ Stage(r) /\ UNCHANGED <<asked, seen, writes>>
      /\ ~ MustWait(row, id) /\ writes \in Nat
  BY <1>1, <1>2 DEF Insert, ListsInv, ListsTypeOK
<1>4. /\ row \in Wanted /\ id \in 1 .. writes /\ id \notin DOMAIN saved
      /\ draft[r] = [id |-> id, row |-> NoRow]
  BY <1>1, <1>2, <1>3 DEF Stage
<1>5. \A q \in Requests \ {r} : draft[q].id # id
  BY <1>1, <1>4 DEF ListsInv, Apart
<1>6. asked = [q \in Requests |-> asked[q]] /\ seen = [q \in Requests |-> seen[q]]
  BY DEF ListsInv, ListsTypeOK
<1>7. CASE Taken(row, id)
  <2>1. Goto(r, "idle") /\ Rollback(r) /\ UNCHANGED <<saved, accepted>>
    BY <1>1, <1>2, <1>7 DEF Insert
  <2>2. Reading(r)'
    BY <2>1 DEF Goto, Reading, ListsInv, ListsTypeOK
  <2>3. /\ pc' = [pc EXCEPT ![r] = "idle"] /\ "idle" \in Still /\ "idle" # "update"
        /\ draft' = [draft EXCEPT ![r] = NoDraft]
    BY <2>1 DEF Goto, Rollback, Still
  <2>4. writes' \in Nat /\ writes <= writes'
    BY <1>3
  <2>5. /\ asked' = [q \in Requests |-> asked'[q]] /\ seen' = [q \in Requests |-> seen'[q]]
        /\ \A q \in Requests \ {r} : asked'[q] = asked[q] /\ seen'[q] = seen[q]
    BY <1>3, <1>6
  <2>6. UNCHANGED <<saved, accepted>>
    BY <2>1
  <2>7. QED
    BY <2>2, <2>3, <2>4, <2>5, <2>6, Quiet
<1>8. CASE ~ Taken(row, id) /\ row.kind = "layout"
  <2>1. Store(r, id, row)
    BY <1>1, <1>2, <1>8 DEF Insert
  <2>2. QED
    BY <1>1, <1>2, <1>3, <1>4, <1>5, <1>6, <1>8, <2>1, NameFree, StoreStep
<1>9. CASE ~ Taken(row, id) /\ row.kind # "layout"
  <2>body. PICK body : body = <<>>
    OBVIOUS
  <2>1. /\ draft' = [draft EXCEPT ![r].row = [row EXCEPT !.body = body]]
        /\ pc' = [pc EXCEPT ![r] = "copy"] /\ UNCHANGED <<saved, accepted>>
    BY <2>body, <1>1, <1>2, <1>9 DEF Insert, Goto
  <2>2. /\ row.kind = "basket"
        /\ row = [kind |-> row.kind, name |-> row.name, body |-> row.body]
    BY <1>4, <1>9, WantedRows DEF Kinds
  <2>3. [row EXCEPT !.body = body] = [kind |-> "basket", name |-> row.name, body |-> body]
    BY <2>2
  <2>4. [draft[r] EXCEPT !.row = [row EXCEPT !.body = body]]
          = [id |-> id, row |-> [kind |-> "basket", name |-> row.name, body |-> body]]
    BY <1>4, <2>3
  <2>5. draft' = [draft EXCEPT ![r] =
          [id |-> id, row |-> [kind |-> "basket", name |-> asked[r].name, body |-> body]]]
    BY <1>2, <2>1, <2>4
  <2>6. /\ \A q \in Requests \ {r} : /\ draft[q].id # id
                                     /\ pc[q] \in Written => draft[q].row.name # asked[r].name
        /\ \A other \in Held("basket") \ {id} : saved[other].name # asked[r].name
    BY <1>2, <1>3, <1>4, <1>5, <1>9, <2>2, NameFree
  <2>7. "copy" \in Written /\ "copy" # "clear" /\ "copy" # "commit"
    BY DEF Written
  <2>8. /\ UNCHANGED <<saved, asked, accepted, writes>>
        /\ seen' = [q \in Requests |-> seen'[q]] /\ \A q \in Requests \ {r} : seen'[q] = seen[q]
    BY <1>3, <1>6, <2>1
  <2>9. asked[r] \in Wanted /\ asked[r].kind = "basket" /\ draft[r].id = id
    BY <1>1, <1>2, <1>4, <2>2
  <2>10. id \in DOMAIN saved => saved[id].kind = "basket"
    BY <1>4
  <2>11. id \in 1 .. writes /\ pc' = [pc EXCEPT ![r] = "copy"]
    BY <1>4, <2>1
  <2>12. QED
    BY <2>5, <2>6, <2>7, <2>8, <2>9, <2>10, <2>11, WriteStep
<1>10. QED
  BY <1>7, <1>8, <1>9

LEMMA UpdateStep == ASSUME ListsInv, NEW r \in Requests, Update(r) PROVE ListsInv'
<1>1. PICK id : id = seen[r][1]
  OBVIOUS
<1>2. PICK row : row = asked[r]
  OBVIOUS
<1>3. /\ pc[r] = "update" /\ Stage(r) /\ UNCHANGED <<asked, writes>>
      /\ seen' = [seen EXCEPT ![r] = <<>>] /\ writes \in Nat
      /\ ~ Locked(id)
  BY <1>1 DEF Update, ListsInv, ListsTypeOK
<1>4. row \in Wanted /\ draft[r] = NoDraft
  BY <1>2, <1>3 DEF Stage, Still
<1>5. \A q \in Requests : draft[q].id # id
  BY <1>3 DEF Locked
<1>6. /\ asked' = [q \in Requests |-> asked'[q]]
      /\ seen' = [q \in Requests |-> seen'[q]] /\ \A q \in Requests \ {r} : seen'[q] = seen[q]
  BY <1>3 DEF ListsInv, ListsTypeOK
<1>7. CASE id \notin Held(row.kind) \/ Taken(row, id)
  <2>1. Goto(r, "idle") /\ UNCHANGED <<saved, draft, accepted>>
    BY <1>1, <1>2, <1>7 DEF Update
  <2>2. Reading(r)'
    BY <2>1 DEF Goto, Reading, ListsInv, ListsTypeOK
  <2>3. draft' = [draft EXCEPT ![r] = NoDraft]
    BY <1>4, <2>1 DEF ListsInv, ListsTypeOK
  <2>4. pc' = [pc EXCEPT ![r] = "idle"] /\ "idle" \in Still /\ "idle" # "update"
    BY <2>1 DEF Goto, Still
  <2>5. writes' \in Nat /\ writes <= writes'
    BY <1>3
  <2>6. \A q \in Requests \ {r} : asked'[q] = asked[q]
    BY <1>3
  <2>7. UNCHANGED <<saved, accepted>>
    BY <2>1
  <2>8. QED
    BY <1>6, <2>2, <2>3, <2>4, <2>5, <2>6, <2>7, Quiet
<1>8. ASSUME id \in Held(row.kind), ~ Taken(row, id)
      PROVE  /\ ~ MustWait(row, id)
             /\ id \in DOMAIN saved /\ id \in 1 .. writes /\ saved[id].kind = row.kind
  BY <1>1, <1>2, <1>8 DEF Update, Held, ListsInv, ListsTypeOK
<1>9. CASE id \in Held(row.kind) /\ ~ Taken(row, id) /\ row.kind = "layout"
  <2>1. Store(r, id, row)
    BY <1>1, <1>2, <1>9 DEF Update
  <2>2. /\ \A q \in Requests \ {r} :
             /\ draft[q].id # id
             /\ pc[q] \in Written => row.kind # "basket" \/ draft[q].row.name # row.name
        /\ \A other \in Held(row.kind) \ {id} : saved[other].name # row.name
    BY <1>4, <1>5, <1>8, <1>9, NameFree
  <2>3. id \in DOMAIN saved /\ id \in 1 .. writes /\ saved[id].kind = row.kind
    BY <1>8, <1>9
  <2>4. UNCHANGED <<asked, writes>>
    BY <1>3
  <2>5. QED
    BY <1>2, <1>4, <1>6, <2>1, <2>2, <2>3, <2>4, StoreStep
<1>10. CASE id \in Held(row.kind) /\ ~ Taken(row, id) /\ row.kind # "layout"
  <2>1. PICK body : body = saved[id].body
    OBVIOUS
  <2>2. /\ draft' = [draft EXCEPT ![r] = [id |-> id, row |-> [row EXCEPT !.body = body]]]
        /\ pc' = [pc EXCEPT ![r] = "clear"] /\ UNCHANGED <<saved, accepted>>
    BY <1>1, <1>2, <1>10, <2>1 DEF Update, Goto
  <2>3. /\ row.kind = "basket"
        /\ row = [kind |-> row.kind, name |-> row.name, body |-> row.body]
    BY <1>4, <1>10, WantedRows DEF Kinds
  <2>4. [row EXCEPT !.body = body] = [kind |-> "basket", name |-> row.name, body |-> body]
    BY <2>3
  <2>5. draft' = [draft EXCEPT ![r] =
          [id |-> id, row |-> [kind |-> "basket", name |-> asked[r].name, body |-> body]]]
    BY <1>2, <2>2, <2>4
  <2>6. id \in DOMAIN saved /\ id \in 1 .. writes /\ saved[id].kind = "basket" /\ ~ MustWait(row, id)
    BY <1>8, <1>10, <2>3
  <2>7. /\ \A q \in Requests \ {r} : /\ draft[q].id # id
                                     /\ pc[q] \in Written => draft[q].row.name # asked[r].name
        /\ \A other \in Held("basket") \ {id} : saved[other].name # asked[r].name
    BY <1>2, <1>4, <1>5, <1>10, <2>3, <2>6, NameFree
  <2>8. "clear" \in Written /\ "clear" # "commit"
    BY DEF Written
  <2>9. /\ UNCHANGED <<saved, asked, accepted, writes>>
        /\ seen' = [q \in Requests |-> seen'[q]] /\ \A q \in Requests \ {r} : seen'[q] = seen[q]
    BY <1>3, <1>6, <2>2
  <2>10. asked[r] \in Wanted /\ asked[r].kind = "basket"
    BY <1>2, <1>4, <2>3
  <2>11. QED
    BY <2>2, <2>5, <2>6, <2>7, <2>8, <2>9, <2>10, WriteStep
<1>11. QED
  BY <1>7, <1>9, <1>10

(* The members of a basket are deleted, and copied, in its transaction.     *)
LEMMA MembersStep ==
  ASSUME ListsInv, NEW r \in Requests, Clear(r) \/ Copy(r)
  PROVE  ListsInv'
<1>1. PICK id : id = draft[r].id
  OBVIOUS
<1>2. PICK row : row = asked[r]
  OBVIOUS
<1>3. \E stage \in Written : \E body :
        /\ pc[r] \in Written /\ stage # "clear"
        /\ stage = "commit" => body = row.body
        /\ pc' = [pc EXCEPT ![r] = stage]
        /\ draft' = [draft EXCEPT ![r].row.body = body]
        /\ UNCHANGED <<saved, asked, seen, accepted, writes>>
  <2>1. CASE Clear(r)
    <3>1. /\ pc[r] = "clear" /\ pc' = [pc EXCEPT ![r] = "copy"]
          /\ draft' = [draft EXCEPT ![r].row.body = <<>>]
          /\ UNCHANGED <<saved, asked, seen, accepted, writes>>
      BY <2>1 DEF Clear, Goto
    <3>2. "clear" \in Written /\ "copy" \in Written /\ "copy" # "clear" /\ "copy" # "commit"
      BY DEF Written
    <3>3. QED
      BY <3>1, <3>2
  <2>2. CASE Copy(r)
    <3>1. /\ pc[r] = "copy" /\ pc' = [pc EXCEPT ![r] = "commit"]
          /\ draft' = [draft EXCEPT ![r].row.body = row.body]
          /\ UNCHANGED <<saved, asked, seen, accepted, writes>>
      BY <1>2, <2>2 DEF Copy, Goto
    <3>2. "copy" \in Written /\ "commit" \in Written /\ "commit" # "clear"
      BY DEF Written
    <3>3. QED
      BY <3>1, <3>2
  <2>3. QED
    BY <2>1, <2>2
<1>stage. PICK stage \in Written : \E body :
        /\ pc[r] \in Written /\ stage # "clear"
        /\ stage = "commit" => body = row.body
        /\ pc' = [pc EXCEPT ![r] = stage]
        /\ draft' = [draft EXCEPT ![r].row.body = body]
        /\ UNCHANGED <<saved, asked, seen, accepted, writes>>
  BY <1>3
<1>body. PICK body :
        /\ pc[r] \in Written /\ stage # "clear"
        /\ stage = "commit" => body = row.body
        /\ pc' = [pc EXCEPT ![r] = stage]
        /\ draft' = [draft EXCEPT ![r].row.body = body]
        /\ UNCHANGED <<saved, asked, seen, accepted, writes>>
  BY <1>stage
<1>4. /\ row \in Wanted /\ row.kind = "basket" /\ id \in 1 .. writes
      /\ id \in DOMAIN saved => saved[id].kind = "basket"
      /\ writes \in Nat
  BY <1>1, <1>2, <1>body DEF ListsInv, ListsTypeOK, Stage
<1>row. draft[r] = [id |-> id, row |-> [kind |-> "basket", name |-> row.name, body |-> draft[r].row.body]]
  BY <1>1, <1>2, <1>body DEF ListsInv, Stage
<1>5. draft' = [draft EXCEPT ![r] = [draft[r] EXCEPT !.row = [draft[r].row EXCEPT !.body = body]]]
  BY <1>body
<1>6. [draft[r].row EXCEPT !.body = body] = [kind |-> "basket", name |-> row.name, body |-> body]
  BY <1>row
<1>7. draft' = [draft EXCEPT ![r] =
        [id |-> id, row |-> [kind |-> "basket", name |-> asked[r].name, body |-> body]]]
  <2>1. [draft[r] EXCEPT !.row = [draft[r].row EXCEPT !.body = body]]
          = [id |-> id, row |-> [kind |-> "basket", name |-> row.name, body |-> body]]
    BY <1>row, <1>6
  <2>2. QED
    BY <1>2, <1>5, <2>1
<1>8. \A q \in Requests \ {r} : /\ draft[q].id # id
                                /\ pc[q] \in Written => draft[q].row.name # asked[r].name
  BY <1>1, <1>2, <1>body, <1>4, Drafts DEF ListsInv, Apart
<1>9. \A other \in Held("basket") \ {id} : saved[other].name # asked[r].name
  BY <1>1, <1>2, <1>body, Drafts DEF ListsInv, Reserved
<1>10. seen = [q \in Requests |-> seen[q]]
  BY DEF ListsInv, ListsTypeOK
<1>11. QED
  <2>1. asked[r] \in Wanted /\ asked[r].kind = "basket" /\ draft[r].id = id
    BY <1>1, <1>2, <1>4
  <2>2. stage = "commit" => body = asked[r].body
    BY <1>2, <1>body
  <2>3. /\ seen' = [q \in Requests |-> seen'[q]] /\ \A q \in Requests \ {r} : seen'[q] = seen[q]
        /\ UNCHANGED <<saved, asked, accepted, writes>>
    BY <1>body, <1>10
  <2>4. id \in 1 .. writes /\ pc' = [pc EXCEPT ![r] = stage] /\ stage # "clear"
    BY <1>4, <1>body
  <2>5. id \in DOMAIN saved => saved[id].kind = "basket"
    BY <1>4
  <2>6. QED
    BY <1>7, <1>8, <1>9, <2>1, <2>2, <2>3, <2>4, <2>5, WriteStep

LEMMA CommitStep == ASSUME ListsInv, NEW r \in Requests, Commit(r) PROVE ListsInv'
<1>1. PICK id : id = draft[r].id
  OBVIOUS
<1>2. PICK row : row = asked[r]
  OBVIOUS
<1>3. pc[r] = "commit" /\ Store(r, id, draft[r].row) /\ UNCHANGED <<asked, seen, writes>> /\ Stage(r)
  BY <1>1 DEF Commit, ListsInv
<1>4. /\ row \in Wanted /\ row.kind = "basket" /\ id \in 1 .. writes
      /\ draft[r].row = [kind |-> "basket", name |-> row.name, body |-> row.body]
      /\ id \in DOMAIN saved => saved[id].kind = "basket"
      /\ pc[r] \in Written /\ writes \in Nat
  BY <1>1, <1>2, <1>3 DEF ListsInv, ListsTypeOK, Stage, Written
<1>5. draft[r].row = row
  BY <1>4, WantedRows
<1>6. Store(r, id, row)
  BY <1>3, <1>5
<1>7. \A q \in Requests \ {r} : /\ draft[q].id # id
                                /\ pc[q] \in Written => draft[q].row.name # row.name
  BY <1>1, <1>2, <1>4, Drafts DEF ListsInv, Apart
<1>8. \A other \in Held(row.kind) \ {id} : saved[other].name # row.name
  BY <1>1, <1>2, <1>4, Drafts DEF ListsInv, Reserved
<1>9. seen = [q \in Requests |-> seen[q]]
  BY DEF ListsInv, ListsTypeOK
<1>10. QED
  BY <1>1, <1>2, <1>3, <1>4, <1>6, <1>7, <1>8, <1>9, StoreStep

(* A request that asks for a replacement, gives up, or reads.               *)
LEMMA OtherSteps ==
  ASSUME ListsInv, NEW r \in Requests,
         AskUpdate(r) \/ FailRequest(r) \/ ReadRows(r) \/ ReadMembers(r) \/ Answered(r)
  PROVE  ListsInv'
<1> DEFINE Turns(stage) ==
      /\ pc' = [pc EXCEPT ![r] = stage]
      /\ draft' = [draft EXCEPT ![r] = NoDraft]
      /\ writes' \in Nat /\ writes <= writes'
      /\ asked' = [q \in Requests |-> asked'[q]] /\ seen' = [q \in Requests |-> seen'[q]]
      /\ \A q \in Requests \ {r} : asked'[q] = asked[q] /\ seen'[q] = seen[q]
      /\ UNCHANGED <<saved, accepted>>
      /\ stage = "update" => asked'[r] \in Wanted
      /\ Reading(r)'
<1>1. /\ asked = [q \in Requests |-> asked[q]] /\ seen = [q \in Requests |-> seen[q]]
      /\ draft = [q \in Requests |-> draft[q]] /\ pc = [q \in Requests |-> pc[q]]
      /\ writes \in Nat /\ Stage(r) /\ Reading(r) /\ DOMAIN saved \subseteq 1 .. writes
      /\ \A id \in DOMAIN saved : saved[id] \in accepted /\ saved[id] \in Wanted
  BY DEF ListsInv, ListsTypeOK
<1>2. pc[r] \in Still /\ draft' = draft => draft' = [draft EXCEPT ![r] = NoDraft]
  BY <1>1 DEF Stage
<1>3. "idle" \in Still /\ "update" \in Still /\ "members" \in Still /\ "answered" \in Still
  BY DEF Still
<1>4. CASE AskUpdate(r)
  <2>1. /\ pc[r] = "idle" /\ pc' = [pc EXCEPT ![r] = "update"] /\ writes' = writes + 1
        /\ UNCHANGED <<saved, draft, accepted>>
    BY <1>4 DEF AskUpdate, Goto
  <2>2. PICK row \in Wanted, id \in 1 .. writes :
          asked' = [asked EXCEPT ![r] = row] /\ seen' = [seen EXCEPT ![r] = <<id>>]
    BY <1>4 DEF AskUpdate
  <2>3. Reading(r)'
    BY <1>1, <2>1 DEF Reading
  <2>4. Turns("update")
    <3>1. draft' = [draft EXCEPT ![r] = NoDraft] /\ pc' = [pc EXCEPT ![r] = "update"]
      BY <1>1, <1>2, <1>3, <2>1, <2>2
    <3>2. writes' \in Nat /\ writes <= writes' /\ UNCHANGED <<saved, accepted>>
      BY <1>1, <2>1, <2>2
    <3>3. /\ asked' = [q \in Requests |-> asked'[q]] /\ seen' = [q \in Requests |-> seen'[q]]
          /\ \A q \in Requests \ {r} : asked'[q] = asked[q] /\ seen'[q] = seen[q]
      BY <1>1, <2>1, <2>2
    <3>4. "update" = "update" => asked'[r] \in Wanted
      BY <1>1, <2>1, <2>2
    <3>5. QED
      BY <3>1, <3>2, <3>3, <3>4, <2>3
  <2>5. QED
    BY <1>3, <2>4, Quiet
<1>5. CASE FailRequest(r)
  <2>1. /\ pc' = [pc EXCEPT ![r] = "idle"] /\ draft' = [draft EXCEPT ![r] = NoDraft]
        /\ seen' = [seen EXCEPT ![r] = <<>>] /\ UNCHANGED <<saved, asked, accepted, writes>>
    BY <1>5 DEF FailRequest, Goto, Rollback
  <2>2. Reading(r)'
    BY <1>1, <2>1 DEF Reading
  <2>3. Turns("idle")
    <3>1. draft' = [draft EXCEPT ![r] = NoDraft] /\ pc' = [pc EXCEPT ![r] = "idle"]
      BY <1>1, <1>2, <1>3, <2>1
    <3>2. writes' \in Nat /\ writes <= writes' /\ UNCHANGED <<saved, accepted>>
      BY <1>1, <2>1
    <3>3. /\ asked' = [q \in Requests |-> asked'[q]] /\ seen' = [q \in Requests |-> seen'[q]]
          /\ \A q \in Requests \ {r} : asked'[q] = asked[q] /\ seen'[q] = seen[q]
      BY <1>1, <2>1
    <3>4. "idle" = "update" => asked'[r] \in Wanted
      BY <1>1, <2>1
    <3>5. QED
      BY <3>1, <3>2, <3>3, <3>4, <2>2
  <2>4. QED
    BY <1>3, <2>3, Quiet
<1>6. CASE Answered(r)
  <2>1. /\ pc[r] = "answered" /\ pc' = [pc EXCEPT ![r] = "idle"]
        /\ seen' = [seen EXCEPT ![r] = <<>>] /\ UNCHANGED <<saved, asked, draft, accepted, writes>>
    BY <1>6 DEF Answered, Goto
  <2>2. Reading(r)'
    BY <1>1, <2>1 DEF Reading
  <2>3. Turns("idle")
    <3>1. draft' = [draft EXCEPT ![r] = NoDraft] /\ pc' = [pc EXCEPT ![r] = "idle"]
      BY <1>1, <1>2, <1>3, <2>1
    <3>2. writes' \in Nat /\ writes <= writes' /\ UNCHANGED <<saved, accepted>>
      BY <1>1, <2>1
    <3>3. /\ asked' = [q \in Requests |-> asked'[q]] /\ seen' = [q \in Requests |-> seen'[q]]
          /\ \A q \in Requests \ {r} : asked'[q] = asked[q] /\ seen'[q] = seen[q]
      BY <1>1, <2>1
    <3>4. "idle" = "update" => asked'[r] \in Wanted
      BY <1>1, <2>1
    <3>5. QED
      BY <3>1, <3>2, <3>3, <3>4, <2>2
  <2>4. QED
    BY <1>3, <2>3, Quiet
<1>7. CASE ReadRows(r)
  <2>1. /\ pc[r] = "idle" /\ pc' = [pc EXCEPT ![r] = "members"]
        /\ UNCHANGED <<saved, asked, draft, accepted, writes>>
    BY <1>7 DEF ReadRows, Goto
  <2>2. PICK ids : /\ \A id \in ids : id \in Held("basket")
                   /\ seen' = [seen EXCEPT ![r] = [id \in ids |-> [saved[id] EXCEPT !.body = <<>>]]]
    BY <1>7 DEF ReadRows
  <2>3. seen'[r] = [id \in ids |-> [saved[id] EXCEPT !.body = <<>>]]
    BY <1>1, <2>2
  <2>4. ASSUME NEW id \in ids PROVE Known(id, seen[r][id])'
    <3>1. PICK row : row = saved[id]
      OBVIOUS
    <3>2. /\ id \in DOMAIN saved /\ id \in 1 .. writes
          /\ row \in accepted /\ row \in Wanted /\ row.kind = "basket"
      BY <1>1, <2>2, <3>1 DEF Held
    <3>3. seen'[r][id] = [kind |-> "basket", name |-> row.name, body |-> <<>>]
      BY <2>3, <3>1, <3>2, WantedRows
    <3>4. QED
      BY <2>1, <3>1, <3>2, <3>3 DEF Known
  <2>5. Reading(r)'
    BY <1>1, <2>1, <2>3, <2>4 DEF Reading
  <2>6. Turns("members")
    <3>1. draft' = [draft EXCEPT ![r] = NoDraft] /\ pc' = [pc EXCEPT ![r] = "members"]
      BY <1>1, <1>2, <1>3, <2>1, <2>2
    <3>2. writes' \in Nat /\ writes <= writes' /\ UNCHANGED <<saved, accepted>>
      BY <1>1, <2>1, <2>2
    <3>3. /\ asked' = [q \in Requests |-> asked'[q]] /\ seen' = [q \in Requests |-> seen'[q]]
          /\ \A q \in Requests \ {r} : asked'[q] = asked[q] /\ seen'[q] = seen[q]
      BY <1>1, <2>1, <2>2
    <3>4. "members" = "update" => asked'[r] \in Wanted
      BY <1>1, <2>1, <2>2
    <3>5. QED
      BY <3>1, <3>2, <3>3, <3>4, <2>5
  <2>7. QED
    BY <1>3, <2>6, Quiet
<1>8. CASE ReadMembers(r)
  <2>1. /\ pc[r] = "members" /\ pc' = [pc EXCEPT ![r] = "answered"]
        /\ UNCHANGED <<saved, asked, draft, accepted, writes>>
        /\ seen' = [seen EXCEPT ![r] =
             [id \in DOMAIN seen[r] |->
                [seen[r][id] EXCEPT !.body = IF id \in DOMAIN saved THEN saved[id].body ELSE <<>>]]]
    BY <1>8 DEF ReadMembers, Goto
  <2>2. seen'[r] = [id \in DOMAIN seen[r] |->
                [seen[r][id] EXCEPT !.body = IF id \in DOMAIN saved THEN saved[id].body ELSE <<>>]]
    BY <1>1, <2>1
  <2>3. ASSUME NEW id \in DOMAIN seen[r] PROVE (Known(id, seen[r][id]) /\ Shown(id, seen[r][id]))'
    <3>1. Known(id, seen[r][id])
      BY <1>1, <2>1 DEF Reading
    <3>2. PICK name : name = seen[r][id].name
      OBVIOUS
    <3>3. PICK body : body = IF id \in DOMAIN saved THEN saved[id].body ELSE <<>>
      OBVIOUS
    <3>4. seen'[r][id] = [kind |-> "basket", name |-> name, body |-> body]
      BY <2>2, <3>1, <3>2, <3>3 DEF Known
    <3>5. Known(id, seen[r][id])'
      BY <2>1, <3>1, <3>2, <3>4 DEF Known
    <3>6. Shown(id, seen[r][id])'
      <4>1. CASE id \in DOMAIN saved
        BY <1>1, <2>1, <3>1, <3>3, <3>4, <4>1 DEF Known, Shown
      <4>2. CASE id \notin DOMAIN saved
        <5>1. seen'[r][id].body = <<>>
          BY <3>3, <3>4, <4>2
        <5>2. QED
          BY <2>1, <4>2, <5>1 DEF Shown
      <4>3. QED
        BY <4>1, <4>2
    <3>7. QED
      BY <3>5, <3>6
  <2>4. Reading(r)'
    BY <2>2, <2>3 DEF Reading
  <2>5. Turns("answered")
    <3>1. draft' = [draft EXCEPT ![r] = NoDraft] /\ pc' = [pc EXCEPT ![r] = "answered"]
      BY <1>1, <1>2, <1>3, <2>1
    <3>2. writes' \in Nat /\ writes <= writes' /\ UNCHANGED <<saved, accepted>>
      BY <1>1, <2>1
    <3>3. /\ asked' = [q \in Requests |-> asked'[q]] /\ seen' = [q \in Requests |-> seen'[q]]
          /\ \A q \in Requests \ {r} : asked'[q] = asked[q] /\ seen'[q] = seen[q]
      BY <1>1, <2>1
    <3>4. "answered" = "update" => asked'[r] \in Wanted
      BY <1>1, <2>1
    <3>5. QED
      BY <3>1, <3>2, <3>3, <3>4, <2>4
  <2>6. QED
    BY <1>3, <2>5, Quiet
<1>9. QED
  BY <1>4, <1>5, <1>6, <1>7, <1>8

LEMMA ListsStart == ListsInit => ListsInv
<1> SUFFICES ASSUME ListsInit PROVE ListsInv
  OBVIOUS
<1>1. /\ DOMAIN saved = {} /\ accepted = {} /\ writes = 0
      /\ pc = [r \in Requests |-> "idle"] /\ asked = [r \in Requests |-> NoRow]
      /\ seen = [r \in Requests |-> <<>>] /\ draft = [r \in Requests |-> NoDraft]
  BY DEF ListsInit
<1>2. \A r \in Requests : pc[r] = "idle" /\ draft[r] = NoDraft /\ draft[r].id = 0
  BY <1>1, Nothing
<1>3. "idle" \in Still /\ "idle" \notin Written
  BY DEF Still, Written
<1>4. ListsTypeOK
  BY <1>1, <1>3 DEF ListsTypeOK
<1>5. \A r \in Requests : Stage(r) /\ Reading(r)
  BY <1>2, <1>3 DEF Stage, Reading, Written
<1>6. Apart /\ NamesApart /\ Reserved
  BY <1>1, <1>2, <1>3 DEF Apart, NamesApart, Reserved
<1>7. Limit
  <2>1. \A kind \in Kinds : Held(kind) = {} /\ Coming(kind) = {}
    BY <1>1, <1>2 DEF Held, Coming
  <2>2. Cardinality(Requests) \in Nat
    BY SavedListsAssumption, FS_CardinalityType
  <2>3. Cardinality({}) = 0
    BY FS_EmptySet
  <2>4. ASSUME NEW kind \in Kinds
        PROVE  Cardinality(Held(kind)) + Cardinality(Coming(kind)) < MaxRows + Cardinality(Requests)
    <3>1. Cardinality(Held(kind)) = 0 /\ Cardinality(Coming(kind)) = 0
      BY <2>1, <2>3
    <3>2. QED
      BY <2>2, <3>1, SavedListsAssumption
  <2>5. QED
    BY <2>4 DEF Limit
<1>8. QED
  BY <1>4, <1>5, <1>6, <1>7 DEF ListsInv

LEMMA ListsSteps == ListsInv /\ [ListsNext]_listVars => ListsInv'
<1> SUFFICES ASSUME ListsInv, [ListsNext]_listVars PROVE ListsInv'
  OBVIOUS
<1>1. CASE UNCHANGED listVars
  <2>1. UNCHANGED <<saved, pc, asked, seen, draft, accepted, writes>>
    BY <1>1 DEF listVars
  <2>2. ListsTypeOK' /\ \A r \in Requests : Stage(r)'
    BY <2>1 DEF ListsInv, ListsTypeOK, Stage
  <2>3. Apart' /\ NamesApart' /\ Reserved'
    BY <2>1 DEF ListsInv, Apart, NamesApart, Reserved, Held
  <2>4. Limit'
    BY <2>1 DEF ListsInv, Limit, Held, Coming
  <2>5. \A r \in Requests : Reading(r)'
    BY <2>1 DEF ListsInv, Reading, Known, Shown
  <2>6. QED
    BY <2>2, <2>3, <2>4, <2>5 DEF ListsInv
<1>2. ASSUME NEW r \in Requests,
             \/ Create(r) \/ Insert(r) \/ AskUpdate(r) \/ Update(r)
             \/ Clear(r) \/ Copy(r) \/ Commit(r) \/ FailRequest(r)
             \/ ReadRows(r) \/ ReadMembers(r) \/ Answered(r)
      PROVE  ListsInv'
  BY <1>2, CreateStep, InsertStep, UpdateStep, MembersStep, CommitStep, OtherSteps
<1>3. ASSUME NEW id \in DOMAIN saved, Delete(id) PROVE ListsInv'
  BY <1>3, DeleteStep
<1>4. QED
  BY <1>1, <1>2, <1>3 DEF ListsNext

(* ListsInvariant: what a request writes, and what a reader holds, is whole *)
(* and its own at every step.                                               *)
THEOREM ListsInvariant == ListsSpec => []ListsInv
<1>1. ListsInit => ListsInv
  BY ListsStart
<1>2. ListsInv /\ [ListsNext]_listVars => ListsInv'
  BY ListsSteps
<1>3. QED
  BY <1>1, <1>2, PTL DEF ListsSpec

(* ListsAreWhole: however creates, replacements, deletions, reads and       *)
(* failures of any number of requests interleave, saved lists are whole,    *)
(* have names of their own and stay within the limit (baskets.go).          *)
THEOREM ListsAreWhole == ListsSpec => []SavedListsAreWhole
<1>1. ListsInv => SavedListsAreWhole
  <2> SUFFICES ASSUME ListsInv PROVE SavedListsAreWhole
    OBVIOUS
  <2>1. \A id \in DOMAIN saved : saved[id] \in accepted
    BY DEF ListsInv, ListsTypeOK
  <2>2. NamesApart
    BY DEF ListsInv
  <2>3. ASSUME NEW kind \in Kinds PROVE Cardinality(Held(kind)) < MaxRows + Cardinality(Requests)
    <3>1. Cardinality(Held(kind)) + Cardinality(Coming(kind)) < MaxRows + Cardinality(Requests)
      BY DEF ListsInv, Limit
    <3>2. QED
      BY <3>1, Counted, SavedListsAssumption
  <2>4. ASSUME NEW r \in Requests, pc[r] = "answered", NEW id \in DOMAIN seen[r]
        PROVE  /\ \E row \in accepted : row.kind = "basket" /\ row.name = seen[r][id].name
               /\ \/ seen[r][id].body = <<>> /\ id \notin DOMAIN saved
                  \/ \E row \in accepted : row.kind = "basket" /\ row.body = seen[r][id].body
    <3>1. Known(id, seen[r][id]) /\ Shown(id, seen[r][id])
      BY <2>4 DEF ListsInv, Reading
    <3>2. QED
      BY <3>1 DEF Known, Shown
  <2>5. QED
    BY <2>1, <2>2, <2>3, <2>4 DEF SavedListsAreWhole, NamesApart
<1>2. QED
  BY <1>1, ListsInvariant, PTL

-----------------------------------------------------------------------------
(* SavedListsReplay is about the bodies alone: what a request is given by    *)
(* Normalize is accepted, and normalised to itself.                          *)

LEMMA UpTo == ASSUME NEW m \in Nat PROVE IsFiniteSet(1 .. m) /\ Cardinality(1 .. m) = m
<1>1. IsFiniteSet(1 .. m) /\ Cardinality(1 .. m) = IF 1 > m THEN 0 ELSE m - 1 + 1
  BY FS_Interval
<1>2. QED
  BY <1>1

(* Counting from the left numbers the members of a set of positions.         *)
LEMMA Places ==
  ASSUME NEW n \in Nat, NEW heads \in SUBSET (1 .. n)
  PROVE  LET place(i) == Cardinality({j \in heads : j <= i})
         IN  /\ IsFiniteSet(heads) /\ Cardinality(heads) \in Nat
             /\ \A i \in heads : place(i) \in 1 .. Cardinality(heads)
             /\ \A k \in 1 .. Cardinality(heads) : \E i \in heads : place(i) = k
<1> DEFINE upTo(i) == {j \in heads : j <= i}
           place(i) == Cardinality(upTo(i))
           m == Cardinality(heads)
<1>1. IsFiniteSet(heads) /\ m \in Nat
  <2>1. IsFiniteSet(1 .. n)
    BY FS_Interval
  <2>2. IsFiniteSet(heads)
    BY <2>1, FS_Subset
  <2>3. QED
    BY <2>2, FS_CardinalityType
<1>2. ASSUME NEW i \in heads PROVE IsFiniteSet(upTo(i)) /\ place(i) \in 1 .. m
  <2>1. IsFiniteSet(upTo(i)) /\ place(i) <= m
    BY <1>1, FS_Subset
  <2>2. i \in upTo(i)
    OBVIOUS
  <2>3. place(i) \in Nat /\ place(i) # 0
    BY <2>1, <2>2, FS_CardinalityType, FS_EmptySet
  <2>4. QED
    BY <1>1, <2>1, <2>3
<1>3. ASSUME NEW i \in heads, NEW j \in heads, i < j PROVE place(i) < place(j)
  <2>1. \A k \in upTo(i) : k \in upTo(j) \ {j}
    BY <1>3
  <2>2. IsFiniteSet(upTo(j) \ {j}) /\ Cardinality(upTo(j) \ {j}) = place(j) - 1
    <3>1. IsFiniteSet(upTo(j))
      BY <1>2
    <3>2. j \in upTo(j)
      OBVIOUS
    <3> HIDE DEF upTo
    <3>3. QED
      BY <3>1, <3>2, FS_RemoveElement DEF place
  <2>3. place(i) <= Cardinality(upTo(j) \ {j})
    BY <2>1, <2>2, FS_Subset
  <2>4. QED
    BY <1>2, <2>2, <2>3
<1>4. ASSUME NEW k \in 1 .. m, \A i \in heads : place(i) # k PROVE FALSE
  <2> DEFINE number == [i \in heads |-> place(i)]
             others == (1 .. m) \ {k}
  <2>1. number \in [heads -> others]
    BY <1>2, <1>4
  <2>2. IsFiniteSet(others) /\ Cardinality(others) = m - 1
    <3>1. IsFiniteSet(1 .. m) /\ Cardinality(1 .. m) = m
      BY <1>1, UpTo
    <3>2. QED
      BY <3>1, FS_RemoveElement
  <2>3. \A i \in heads, j \in heads : i # j => number[i] # number[j]
    BY <1>2, <1>3
  <2> HIDE DEF number, others
  <2>4. Cardinality(others) < Cardinality(heads)
    BY <1>1, <2>2
  <2>5. \E i, j \in heads : i # j /\ number[i] = number[j]
    BY <1>1, <2>1, <2>2, <2>4, FS_PigeonHole
  <2>6. QED
    BY <2>3, <2>5
<1>5. QED
  BY <1>1, <1>2, <1>4

(* Symbols that are trimmed, in capitals, and each there once.               *)
KeptOnce(tickers) ==
  /\ tickers \in Seq(Tickers)
  /\ \A k \in 1 .. Len(tickers) : Upper[tickers[k]] = tickers[k] /\ tickers[k] # ""
  /\ \A k, m \in 1 .. Len(tickers) : k # m => tickers[k] # tickers[m]

LEMMA TickersAreKeptOnce ==
  ASSUME NEW raw \in Seq(Tickers)
  PROVE  KeptOnce(NormalizeTickers(raw))
<1> DEFINE clean(i) == Upper[raw[i]]
           heads == {i \in DOMAIN raw : clean(i) # "" /\ \A j \in 1 .. (i - 1) : clean(j) # clean(i)}
           place(i) == Cardinality({j \in heads : j <= i})
           size == Cardinality(heads)
           at(k) == CHOOSE i \in heads : place(i) = k
<1>1. DOMAIN raw = 1 .. Len(raw) /\ Len(raw) \in Nat /\ \A i \in 1 .. Len(raw) : raw[i] \in Tickers
  OBVIOUS
<1>2. \A i \in 1 .. Len(raw) : clean(i) \in Tickers /\ Upper[clean(i)] = clean(i)
  BY <1>1, SpellingAssumption
<1>3. NormalizeTickers(raw) = [k \in 1 .. size |-> clean(at(k))]
  BY DEF NormalizeTickers
<1> HIDE DEF clean
<1>4. heads \in SUBSET (1 .. Len(raw))
  BY <1>1
<1>5. /\ \A i \in heads : i \in 1 .. Len(raw) /\ clean(i) # ""
      /\ \A i \in heads : \A j \in 1 .. (i - 1) : clean(j) # clean(i)
  BY <1>1
<1> HIDE DEF heads
<1>6. \A i, j \in heads : clean(i) = clean(j) => i = j
  <2>1. ASSUME NEW i \in 1 .. Len(raw), NEW j \in 1 .. Len(raw), i \in heads, j \in heads, i < j
        PROVE  clean(i) # clean(j)
    <3>1. i \in 1 .. (j - 1)
      BY <2>1
    <3>2. QED
      BY <1>5, <2>1, <3>1
  <2>2. \A i, j \in 1 .. Len(raw) : i < j \/ j < i \/ i = j
    OBVIOUS
  <2>3. heads \subseteq 1 .. Len(raw)
    BY <1>5
  <2> HIDE DEF clean, heads
  <2>4. QED
    BY <2>1, <2>2, <2>3
<1>7. size \in Nat /\ \A k \in 1 .. size : \E i \in heads : place(i) = k
  BY <1>1, <1>4, Places
<1> HIDE DEF place, size
<1>8. \A k \in 1 .. size : at(k) \in heads /\ place(at(k)) = k
  BY <1>7
<1> HIDE DEF at
<1>9. PICK kept : kept = NormalizeTickers(raw)
  OBVIOUS
<1>10. \A k \in 1 .. size : kept[k] = clean(at(k))
  BY <1>3, <1>9
<1>11. \A k \in 1 .. size : kept[k] \in Tickers /\ Upper[kept[k]] = kept[k] /\ kept[k] # ""
  BY <1>2, <1>5, <1>8, <1>10
<1>12. kept \in Seq(Tickers) /\ Len(kept) = size
  <2>1. kept = [k \in 1 .. size |-> kept[k]]
    BY <1>3, <1>9, <1>10
  <2>2. \A k \in 1 .. size : kept[k] \in Tickers
    BY <1>11
  <2>3. QED
    BY <1>7, <2>1, <2>2
<1>13. \A k, m \in 1 .. size : kept[k] = kept[m] => k = m
  BY <1>6, <1>8, <1>10
<1>14. KeptOnce(kept)
  BY <1>11, <1>12, <1>13 DEF KeptOnce
<1>15. QED
  BY <1>9, <1>14

LEMMA TickersKeptOnceStay ==
  ASSUME NEW raw, KeptOnce(raw)
  PROVE  NormalizeTickers(raw) = raw
<1> DEFINE clean(i) == Upper[raw[i]]
           heads == {i \in DOMAIN raw : clean(i) # "" /\ \A j \in 1 .. (i - 1) : clean(j) # clean(i)}
           place(i) == Cardinality({j \in heads : j <= i})
<1>1. raw \in Seq(Tickers)
  BY DEF KeptOnce
<1>2. Len(raw) \in Nat /\ DOMAIN raw = 1 .. Len(raw)
  BY <1>1
<1>3. \A k \in 1 .. Len(raw) : clean(k) = raw[k] /\ raw[k] # ""
  BY DEF KeptOnce
<1>4. \A k, m \in 1 .. Len(raw) : k # m => raw[k] # raw[m]
  BY DEF KeptOnce
<1>5. NormalizeTickers(raw) =
        [k \in 1 .. Cardinality(heads) |-> clean(CHOOSE i \in heads : place(i) = k)]
  BY DEF NormalizeTickers
<1> HIDE DEF clean
<1>6. heads = 1 .. Len(raw)
  <2>1. ASSUME NEW i \in 1 .. Len(raw), NEW j \in 1 .. (i - 1) PROVE clean(j) # clean(i)
    <3>1. j \in 1 .. Len(raw) /\ j # i
      BY <1>2
    <3>2. QED
      BY <1>3, <1>4, <3>1
  <2>2. \A i \in 1 .. Len(raw) : clean(i) # ""
    BY <1>3
  <2>3. QED
    BY <1>2, <2>1, <2>2
<1> HIDE DEF heads
<1>7. ASSUME NEW i \in 1 .. Len(raw) PROVE place(i) = i
  <2>1. PICK before : before = {j \in heads : j <= i}
    OBVIOUS
  <2>2. before = 1 .. i
    BY <1>2, <1>6, <2>1
  <2>3. i \in Nat
    BY <1>2
  <2>4. Cardinality(before) = i
    BY <2>2, <2>3, UpTo
  <2>5. QED
    BY <2>1, <2>4
<1>8. Cardinality(heads) = Len(raw)
  BY <1>2, <1>6, UpTo
<1> HIDE DEF place
<1>9. \A k \in 1 .. Len(raw) : (CHOOSE i \in heads : place(i) = k) = k
  BY <1>6, <1>7
<1>10. NormalizeTickers(raw) = [k \in 1 .. Len(raw) |-> raw[k]]
  BY <1>3, <1>5, <1>8, <1>9
<1>11. QED
  BY <1>1, <1>10

LEMMA BasketsReplay ==
  ASSUME NEW raw \in RawBaskets, BasketAccepted(raw)
  PROVE  BasketAccepted(NormalizeTickers(raw))
         /\ NormalizeTickers(NormalizeTickers(raw)) = NormalizeTickers(raw)
<1>1. raw \in Seq(Tickers)
  BY SavedListsAssumption, SpellingAssumption
<1>2. NormalizeTickers(NormalizeTickers(raw)) = NormalizeTickers(raw)
  BY <1>1, TickersAreKeptOnce, TickersKeptOnceStay
<1>3. QED
  BY <1>2 DEF BasketAccepted

(* A layout keeps its indicators; their colours are filled up, their style   *)
(* is named.                                                                 *)
LEMMA ColorsFit ==
  ASSUME NEW key \in Keys, NEW colors \in Seq(Int), Len(colors) <= Outputs[key],
         Range(colors) \subseteq 0 .. (PaletteSlots - 1)
  PROVE  /\ NormalizeColors(key, colors) \in Seq(Int)
         /\ Len(NormalizeColors(key, colors)) = Outputs[key]
         /\ Range(NormalizeColors(key, colors)) \subseteq 0 .. (PaletteSlots - 1)
         /\ NormalizeColors(key, NormalizeColors(key, colors)) = NormalizeColors(key, colors)
<1>1. Outputs[key] \in Nat /\ PaletteSlots \in Nat \ {0}
  BY SavedListsAssumption, SpellingAssumption
<1>2. PICK fit : fit = NormalizeColors(key, colors)
  OBVIOUS
<1>3. fit = [i \in 1 .. Outputs[key] |->
               IF i <= Len(colors) THEN colors[i] ELSE (i - 1) % PaletteSlots]
  BY <1>2 DEF NormalizeColors
<1>4. \A i \in 1 .. Len(colors) : colors[i] \in 0 .. (PaletteSlots - 1)
  BY DEF Range
<1>5. ASSUME NEW i \in 1 .. Outputs[key] PROVE fit[i] \in 0 .. (PaletteSlots - 1)
  <2>1. CASE i <= Len(colors)
    BY <1>3, <1>4, <2>1
  <2>2. CASE ~ (i <= Len(colors))
    <3>1. fit[i] = (i - 1) % PaletteSlots /\ i - 1 \in Nat
      BY <1>3, <2>2
    <3>2. QED
      BY <1>1, <3>1
  <2>3. QED
    BY <2>1, <2>2
<1>6. fit \in Seq(Int) /\ Len(fit) = Outputs[key] /\ DOMAIN fit = 1 .. Outputs[key]
  BY <1>1, <1>3, <1>5
<1>7. Range(fit) \subseteq 0 .. (PaletteSlots - 1)
  BY <1>5, <1>6 DEF Range
<1>8. NormalizeColors(key, fit) = [i \in 1 .. Outputs[key] |-> fit[i]]
  BY <1>1, <1>6 DEF NormalizeColors
<1>9. NormalizeColors(key, fit) = fit
  BY <1>3, <1>8
<1>10. QED
  BY <1>2, <1>6, <1>7, <1>9

LEMMA LayoutsReplay ==
  ASSUME NEW raw \in RawLayouts, LayoutAccepted(raw)
  PROVE  LayoutAccepted(NormalizeLayout(raw))
         /\ NormalizeLayout(NormalizeLayout(raw)) = NormalizeLayout(raw)
<1> DEFINE key(i) == Canonical[raw[i].key]
           shown(i) == OrElse(raw[i].visible, "shown")
           style(i) == OrElse(raw[i].style, "solid")
           colors(i) == NormalizeColors(key(i), raw[i].colors)
<1>1. raw \in Seq(RawEntry)
  BY SavedListsAssumption, SpellingAssumption
<1>2. DOMAIN raw = 1 .. Len(raw) /\ Len(raw) \in Nat
  BY <1>1
<1>3. PICK fit : fit = NormalizeLayout(raw)
  OBVIOUS
<1>4. /\ DOMAIN fit = 1 .. Len(raw) /\ fit = [i \in DOMAIN raw |-> fit[i]]
      /\ \A i \in DOMAIN raw : fit[i] = [key |-> key(i), visible |-> shown(i), style |-> style(i),
                                          colors |-> colors(i)]
  BY <1>2, <1>3 DEF NormalizeLayout
<1>5. \A i \in DOMAIN raw :
        /\ key(i) \in Keys /\ raw[i].colors \in Seq(Int)
        /\ Len(raw[i].colors) <= Outputs[key(i)]
        /\ Range(raw[i].colors) \subseteq 0 .. (PaletteSlots - 1)
        /\ raw[i].style \in Styles \cup {""}
        /\ raw[i].visible \in {"", "shown", "hidden"}
  <2>1. \A i \in DOMAIN raw : raw[i] \in RawEntry
    BY <1>1, <1>2
  <2>2. \A i \in DOMAIN raw : raw[i].colors \in Seq(Int) /\ raw[i].visible \in {"", "shown", "hidden"}
    BY <2>1 DEF RawEntry
  <2>3. \A i \in DOMAIN raw : key(i) \in Keys
    BY SavedListsAssumption, SpellingAssumption DEF LayoutAccepted
  <2>4. QED
    BY <2>2, <2>3 DEF LayoutAccepted
<1>6. \A i \in DOMAIN raw : /\ style(i) \in Styles /\ style(i) # ""
                            /\ shown(i) # ""
  BY <1>5 DEF Styles, OrElse
<1>7. ASSUME NEW i \in DOMAIN raw
      PROVE  /\ Len(colors(i)) = Outputs[key(i)]
             /\ Range(colors(i)) \subseteq 0 .. (PaletteSlots - 1)
             /\ NormalizeColors(key(i), colors(i)) = colors(i)
  BY <1>5, ColorsFit
<1>12. \A i \in DOMAIN raw : /\ key(i) \in Keys /\ Outputs[key(i)] \in Nat
                             /\ key(i) \in DOMAIN Canonical /\ Canonical[key(i)] = key(i)
  BY <1>5, SavedListsAssumption, SpellingAssumption
<1>13. \A i, j \in DOMAIN raw : i # j => key(i) # key(j)
  BY DEF LayoutAccepted
<1> HIDE DEF key, shown, style, colors
<1>8. \A i \in DOMAIN raw : /\ fit[i].key = key(i) /\ fit[i].visible = shown(i)
                            /\ fit[i].style = style(i) /\ fit[i].colors = colors(i)
  BY <1>4
<1>9. Len(fit) = Len(raw)
  BY <1>2, <1>4
<1>10. LayoutAccepted(fit)
  <2>1. Len(fit) <= MaxIndicators
    BY <1>9 DEF LayoutAccepted
  <2>2. ASSUME NEW i \in DOMAIN fit
        PROVE  /\ fit[i].key \in DOMAIN Canonical
               /\ Len(fit[i].colors) <= Outputs[Canonical[fit[i].key]]
               /\ Range(fit[i].colors) \subseteq 0 .. (PaletteSlots - 1)
               /\ fit[i].style \in Styles \cup {""}
    <3>1. i \in DOMAIN raw /\ fit[i].key = key(i) /\ fit[i].colors = colors(i) /\ fit[i].style = style(i)
      BY <1>2, <1>4, <1>8
    <3>2. Len(fit[i].colors) <= Outputs[Canonical[fit[i].key]]
      BY <1>7, <1>12, <3>1
    <3>3. QED
      BY <1>6, <1>7, <1>12, <3>1, <3>2
  <2>3. \A i, j \in DOMAIN fit : i # j => Canonical[fit[i].key] # Canonical[fit[j].key]
    BY <1>2, <1>4, <1>8, <1>12, <1>13
  <2>4. QED
    BY <2>1, <2>2, <2>3 DEF LayoutAccepted
<1>11. NormalizeLayout(fit) = fit
  <2>1. ASSUME NEW i \in DOMAIN raw
        PROVE  [key |-> Canonical[fit[i].key],
                visible |-> OrElse(fit[i].visible, "shown"),
                style |-> OrElse(fit[i].style, "solid"),
                colors |-> NormalizeColors(Canonical[fit[i].key], fit[i].colors)] = fit[i]
    <3>1. Canonical[fit[i].key] = key(i) /\ NormalizeColors(key(i), fit[i].colors) = colors(i)
      BY <1>7, <1>8, <1>12
    <3>2. OrElse(fit[i].visible, "shown") = shown(i) /\ OrElse(fit[i].style, "solid") = style(i)
      BY <1>6, <1>8 DEF OrElse
    <3>3. QED
      BY <1>4, <3>1, <3>2
  <2>2. NormalizeLayout(fit) = [i \in DOMAIN raw |-> fit[i]]
    BY <1>4, <2>1 DEF NormalizeLayout
  <2>3. QED
    BY <1>4, <2>2
<1>14. QED
  BY <1>3, <1>10, <1>11

(* ListsReplay: a page that reads a saved list and saves it unchanged is     *)
(* never refused, and loses nothing (normalizeTickers, normalizeLayout).     *)
THEOREM ListsReplay == ListsSpec => []SavedListsReplay
<1>1. ListsInv => SavedListsReplay
  <2> SUFFICES ASSUME ListsInv, NEW id \in DOMAIN saved
               PROVE  /\ Accepted(saved[id].kind, saved[id].body)
                      /\ Normalize(saved[id].kind, saved[id].body) = saved[id].body
    BY DEF SavedListsReplay
  <2>1. PICK row : row = saved[id]
    OBVIOUS
  <2>2. row \in Wanted
    BY <2>1 DEF ListsInv, ListsTypeOK
  <2>3. PICK raw \in Raw(row.kind) :
          Accepted(row.kind, raw) /\ row.body = Normalize(row.kind, raw)
    BY <2>2, WantedRows
  <2>4. CASE row.kind = "basket"
    BY <2>1, <2>3, <2>4, BasketsReplay DEF Raw, Accepted, Normalize
  <2>5. CASE row.kind # "basket"
    BY <2>1, <2>3, <2>5, LayoutsReplay DEF Raw, Accepted, Normalize
  <2>6. QED
    BY <2>4, <2>5
<1>2. QED
  BY <1>1, ListsInvariant, PTL

-----------------------------------------------------------------------------
(* Least and greatest elements.                                             *)

LEMMA LeastNatural ==
  ASSUME NEW S \in SUBSET Nat, S # {}
  PROVE  Min(S) \in S /\ \A n \in S : Min(S) <= n
<1> DEFINE R == OpToRel(<, Nat)
<1>1. IsWellFoundedOn(R, Nat)
  BY NatLessThanWellFounded
<1>2. \A a, b \in Nat : <<a, b>> \in R <=> a < b
  BY DEF OpToRel
<1> HIDE DEF R
<1>3. PICK m \in S : \A n \in S : ~ (<<n, m>> \in R)
  BY <1>1, WFMin
<1>4. ASSUME NEW n \in S PROVE m <= n
  <2>1. m \in Nat /\ n \in Nat
    OBVIOUS
  <2>2. ~ (n < m)
    BY <1>2, <1>3, <2>1
  <2>3. QED
    BY <2>1, <2>2
<1>5. \E x \in S : \A y \in S : x <= y
  BY <1>4
<1>6. QED
  BY <1>5 DEF Min

LEMMA GreatestNatural ==
  ASSUME NEW bound \in Nat, NEW S \in SUBSET (0 .. bound), S # {}
  PROVE  Max(S) \in S /\ \A n \in S : n <= Max(S)
<1> DEFINE T == {bound - n : n \in S}
<1>1. \A n \in S : n \in 0 .. bound
  OBVIOUS
<1>2. T \in SUBSET Nat /\ T # {}
  <2>1. \A n \in S : bound - n \in Nat
    BY <1>1
  <2>2. \A d \in T : d \in Nat
    BY <2>1
  <2>3. T # {}
    <3>1. PICK n \in S : TRUE
      OBVIOUS
    <3>2. bound - n \in T
      OBVIOUS
    <3>3. QED
      BY <3>2
  <2>4. QED
    BY <2>2, <2>3
<1>3. PICK t \in T : \A n \in T : t <= n
  BY <1>2, LeastNatural
<1>4. PICK m \in S : t = bound - m
  BY <1>3
<1>5. ASSUME NEW n \in S PROVE m >= n
  <2>1. bound - n \in T /\ m \in 0 .. bound /\ n \in 0 .. bound
    BY <1>1
  <2>2. bound - m <= bound - n
    BY <1>3, <1>4, <2>1
  <2>3. QED
    BY <2>1, <2>2
<1>6. \E x \in S : \A y \in S : x >= y
  BY <1>5
<1>7. Max(S) \in S /\ \A y \in S : Max(S) >= y
  BY <1>6 DEF Max
<1>8. QED
  BY <1>7, <1>1

-----------------------------------------------------------------------------
(* The series of a future.                                                  *)

Quotes == [contract : Contracts, day : 0 .. LastDay]

LEMMA FrontIsQuoted ==
  ASSUME NEW q \in SUBSET Quotes, NEW day \in UsedDays(q)
  PROVE  /\ day \in 0 .. LastDay /\ LastDay \in Nat
         /\ FrontContract(q, day) \in Contracts
         /\ FrontContract(q, day) \in QuotedOn(q, day)
<1>1. day \in 0 .. LastDay /\ LastDay \in Nat /\ Candidates(q, day) # {}
  BY ChartsAssumption DEF UsedDays, Quotes
<1>2. \A c \in Candidates(q, day) : c \in Contracts /\ c \in QuotedOn(q, day) /\ Expiration[c] >= day
  BY DEF Candidates, QuotedOn
<1> DEFINE ends == {Expiration[c] : c \in Candidates(q, day)}
<1>3. ends \in SUBSET Nat /\ ends # {}
  BY <1>1, <1>2, FuturesAssumption
<1>4. PICK c \in Candidates(q, day) : Expiration[c] = Min(ends)
  BY <1>3, LeastNatural
<1>5. \A d \in Candidates(q, day) : Expiration[c] <= Expiration[d]
  BY <1>3, <1>4, LeastNatural
<1>6. FrontContract(q, day) \in Candidates(q, day)
  BY <1>5 DEF FrontContract
<1>7. QED
  BY <1>1, <1>2, <1>6

LEMMA Neighbours ==
  ASSUME NEW q \in SUBSET Quotes, NEW day \in UsedDays(q)
  PROVE  /\ DaysBefore(q, day) # {} =>
              /\ Previous(q, day) \in UsedDays(q) /\ Previous(q, day) < day
              /\ \A d \in UsedDays(q) : d < day => d <= Previous(q, day)
         /\ DaysAfter(q, day) # {} =>
              /\ Min(DaysAfter(q, day)) \in UsedDays(q) /\ Min(DaysAfter(q, day)) > day
              /\ \A d \in UsedDays(q) : d > day => Min(DaysAfter(q, day)) <= d
<1>1. \A d \in UsedDays(q) : d \in 0 .. LastDay /\ LastDay \in Nat
  BY FrontIsQuoted
<1>2. DaysBefore(q, day) \in SUBSET (0 .. LastDay) /\ DaysAfter(q, day) \in SUBSET Nat
  BY <1>1 DEF DaysBefore, DaysAfter
<1>3. DaysBefore(q, day) # {} =>
        /\ Previous(q, day) \in DaysBefore(q, day)
        /\ \A d \in DaysBefore(q, day) : d <= Previous(q, day)
  BY <1>1, <1>2, GreatestNatural DEF Previous
<1>4. DaysAfter(q, day) # {} =>
        /\ Min(DaysAfter(q, day)) \in DaysAfter(q, day)
        /\ \A d \in DaysAfter(q, day) : Min(DaysAfter(q, day)) <= d
  BY <1>2, LeastNatural
<1>5. QED
  BY <1>3, <1>4 DEF DaysBefore, DaysAfter

LEMMA Settled ==
  ASSUME NEW c \in Contracts, NEW day \in 0 .. LastDay
  PROVE  Settlement[c][day] \in Int
  BY FuturesAssumption, ChartsAssumption

Gap(q, day) == IF IsRoll(q, day) THEN RollGap(q, day) ELSE 0

LEMMA GapIsInt ==
  ASSUME NEW q \in SUBSET Quotes, NEW day \in UsedDays(q)
  PROVE  Gap(q, day) \in Int
<1> SUFFICES ASSUME IsRoll(q, day), CommonDays(q, day) # {} PROVE RollGap(q, day) \in Int
  BY DEF Gap, RollGap
<1>1. \A d \in CommonDays(q, day) : d \in 0 .. LastDay
  BY FrontIsQuoted DEF CommonDays, DaysBefore
<1>2. Max(CommonDays(q, day)) \in 0 .. LastDay
  BY <1>1, ChartsAssumption, GreatestNatural
<1>3. /\ FrontContract(q, day) \in Contracts
      /\ FrontContract(q, Previous(q, day)) \in Contracts
  BY FrontIsQuoted, Neighbours DEF IsRoll
<1>4. QED
  BY <1>2, <1>3, Settled DEF RollGap

(* The walk from the last day back gives every day its offset: there is one *)
(* function that satisfies what Adjustments says of itself, and what has    *)
(* been fixed of it from a day on is not touched by the days before.        *)
LEMMA AdjustmentsWalk ==
  ASSUME NEW q \in SUBSET Quotes, NEW day \in UsedDays(q)
  PROVE  /\ Adjustments(q)[day] \in Int
         /\ DaysAfter(q, day) = {} => Adjustments(q)[day] = 0
         /\ DaysAfter(q, day) # {} =>
              Adjustments(q)[day] = Adjustments(q)[Min(DaysAfter(q, day))]
                                      + Gap(q, Min(DaysAfter(q, day)))
<1> DEFINE D == UsedDays(q)
           next(d) == Min(DaysAfter(q, d))
           Step(g, d) == IF DaysAfter(q, d) = {} THEN 0 ELSE g[next(d)] + Gap(q, next(d))
           Fixed(g, d) == g[d] = Step(g, d) /\ g[d] \in Int
           Good(g, k) == g = [d \in D |-> g[d]] /\ \A d \in D : d > LastDay - k => Fixed(g, d)
           Bad == {k \in Nat : \A g : ~ Good(g, k)}
<1>1. /\ LastDay \in Nat
      /\ \A d \in D : /\ d \in 0 .. LastDay
                      /\ DaysAfter(q, d) # {} =>
                           next(d) \in D /\ next(d) > d /\ Gap(q, next(d)) \in Int
  BY FrontIsQuoted, Neighbours, GapIsInt
<1> HIDE DEF D, next
<1>2. ASSUME NEW m \in Nat, NEW g, Good(g, m) PROVE \E h : Good(h, m + 1)
  <2> DEFINE at == LastDay - m
             h == [d \in D |-> IF d = at THEN Step(g, at) ELSE g[d]]
  <2>1. \A d \in D : d > at => h[d] = g[d]
    BY <1>1
  <2>2. ASSUME NEW d \in D, d >= at PROVE Step(h, d) = Step(g, d) /\ Step(g, d) \in Int
    <3>1. CASE DaysAfter(q, d) = {}
      BY <3>1
    <3>2. CASE DaysAfter(q, d) # {}
      <4>1. next(d) \in D /\ next(d) > at /\ Gap(q, next(d)) \in Int
        BY <1>1, <2>2, <3>2
      <4>2. h[next(d)] = g[next(d)] /\ g[next(d)] \in Int
        BY <1>2, <2>1, <4>1
      <4>3. QED
        BY <3>2, <4>1, <4>2
    <3>3. QED
      BY <3>1, <3>2
  <2>3. ASSUME NEW d \in D, d > LastDay - (m + 1) PROVE Fixed(h, d)
    <3>1. d = at \/ d > at
      BY <1>1, <2>3
    <3>2. CASE d = at
      BY <1>1, <2>2, <3>2
    <3>3. CASE d > at
      <4>1. h[d] = g[d] /\ Fixed(g, d)
        BY <1>2, <2>1, <3>3
      <4>2. Step(h, d) = Step(g, d)
        BY <1>1, <2>2, <3>3
      <4>3. QED
        BY <4>1, <4>2
    <3>4. QED
      BY <3>1, <3>2, <3>3
  <2>4. h = [d \in D |-> h[d]]
    OBVIOUS
  <2>5. Good(h, m + 1)
    BY <2>3, <2>4
  <2>6. QED
    BY <2>5
<1>3. \E g : Good(g, 0)
  <2>1. Good([d \in D |-> 0], 0)
    BY <1>1
  <2>2. QED
    BY <2>1
<1> HIDE DEF Good
<1>4. Bad = {}
  <2> SUFFICES ASSUME Bad # {} PROVE FALSE
    OBVIOUS
  <2>1. PICK m \in Bad : \A k \in Bad : m <= k
    BY LeastNatural
  <2>2. m \in Nat /\ m # 0
    BY <1>3
  <2>3. m - 1 \in Nat /\ m - 1 \notin Bad
    BY <2>1, <2>2
  <2>4. PICK g : Good(g, m - 1)
    BY <2>3
  <2>5. \E h : Good(h, m)
    BY <1>2, <2>2, <2>3, <2>4
  <2>6. QED
    BY <2>5
<1>5. PICK g : Good(g, LastDay + 1)
  BY <1>1, <1>4
<1>6. /\ g = [d \in D |-> g[d]] /\ \A d \in D : Fixed(g, d)
  BY <1>1, <1>5 DEF Good
<1>7. g = [d \in D |-> Step(g, d)]
  BY <1>6
<1>8. Adjustments(q) = [d \in D |-> Step(Adjustments(q), d)]
  <2> DEFINE Walk == CHOOSE f : f = [d \in D |-> Step(f, d)]
  <2>1. Walk = [d \in D |-> Step(Walk, d)]
    BY <1>7
  <2>2. Adjustments(q) = Walk
    BY DEF Adjustments, D, next, Gap
  <2>3. QED
    BY <2>1, <2>2
<1> DEFINE W == Adjustments(q)
           Wrong == {n \in Nat : \E d \in D : n = LastDay - d /\ W[d] \notin Int}
<1>9. \A d \in D : W[d] = IF DaysAfter(q, d) = {} THEN 0 ELSE W[next(d)] + Gap(q, next(d))
  BY <1>8
<1> HIDE DEF W
<1>10. \A d \in D : W[d] \in Int
  <2> SUFFICES ASSUME NEW e \in D, W[e] \notin Int PROVE FALSE
    OBVIOUS
  <2>1. LastDay - e \in Wrong
    BY <1>1
  <2>2. PICK n \in Wrong : \A k \in Wrong : n <= k
    BY <2>1, LeastNatural
  <2>3. PICK d \in D : n = LastDay - d /\ W[d] \notin Int
    OBVIOUS
  <2>4. DaysAfter(q, d) # {} /\ W[next(d)] \notin Int
    BY <1>1, <1>9, <2>3
  <2>5. next(d) \in D /\ next(d) > d /\ next(d) \in 0 .. LastDay /\ d \in 0 .. LastDay
    BY <1>1, <2>4
  <2>6. LastDay - next(d) \in Wrong /\ LastDay - next(d) < n
    BY <1>1, <2>3, <2>4, <2>5
  <2>7. QED
    BY <2>2, <2>6
<1>11. QED
  BY <1>9, <1>10 DEF D, next, W

(* AdjustedMovesAreTheHeldContracts, of any set of quotes.                  *)
LEMMA SeriesMoves ==
  ASSUME NEW part \in SUBSET Quotes, NEW from \in Int, NEW to \in Int
  PROVE  LET held == InWindow(part, from, to)
             series == LoadContinuous(part, from, to)
         IN  \A day \in DOMAIN series :
               LET front == FrontContract(held, day) IN
               /\ day = Max(DOMAIN series) => series[day] = Settlement[front][day]
               /\ DaysBefore(held, day) # {} =>
                    LET previous == Previous(held, day) IN
                    front \in QuotedOn(held, previous) =>
                      series[day] - series[previous]
                        = Settlement[front][day] - Settlement[front][previous]
<1>1. PICK held \in SUBSET Quotes : held = InWindow(part, from, to)
  BY DEF InWindow
<1>2. PICK series : series = LoadContinuous(part, from, to)
  OBVIOUS
<1>3. PICK offset : offset = Adjustments(held)
  OBVIOUS
<1>4. series = [d \in UsedDays(held) |-> Settlement[FrontContract(held, d)][d] + offset[d]]
  BY <1>1, <1>2, <1>3 DEF LoadContinuous
<1>5. \A d \in UsedDays(held) :
        /\ d \in 0 .. LastDay /\ LastDay \in Nat
        /\ FrontContract(held, d) \in Contracts /\ FrontContract(held, d) \in QuotedOn(held, d)
        /\ Settlement[FrontContract(held, d)][d] \in Int
        /\ offset[d] \in Int
  BY <1>3, FrontIsQuoted, Settled, AdjustmentsWalk
<1> SUFFICES ASSUME NEW day \in UsedDays(held)
             PROVE  LET front == FrontContract(held, day) IN
               /\ day = Max(UsedDays(held)) => series[day] = Settlement[front][day]
               /\ DaysBefore(held, day) # {} =>
                    LET previous == Previous(held, day) IN
                    front \in QuotedOn(held, previous) =>
                      series[day] - series[previous]
                        = Settlement[front][day] - Settlement[front][previous]
  BY <1>1, <1>2, <1>4
<1>6. PICK front : front = FrontContract(held, day)
  OBVIOUS
<1>7. ASSUME day = Max(UsedDays(held)) PROVE series[day] = Settlement[front][day]
  <2>1. \A d \in UsedDays(held) : d <= day
    BY <1>5, <1>7, GreatestNatural
  <2>2. DaysAfter(held, day) = {}
    BY <1>5, <2>1 DEF DaysAfter
  <2>3. offset[day] = 0
    BY <1>3, <2>2, AdjustmentsWalk
  <2>4. QED
    BY <1>4, <1>5, <1>6, <2>3
<1>8. ASSUME DaysBefore(held, day) # {}, front \in QuotedOn(held, Previous(held, day))
      PROVE  series[day] - series[Previous(held, day)]
               = Settlement[front][day] - Settlement[front][Previous(held, day)]
  <2>1. PICK previous : previous = Previous(held, day)
    OBVIOUS
  <2>2. /\ previous \in UsedDays(held) /\ previous < day
        /\ \A d \in UsedDays(held) : d < day => d <= previous
    BY <1>8, <2>1, Neighbours
  <2>3. PICK old : old = FrontContract(held, previous)
    OBVIOUS
  <2>4. DaysAfter(held, previous) # {}
    BY <2>2 DEF DaysAfter
  <2>5. Min(DaysAfter(held, previous)) = day
    <3>1. PICK next : next = Min(DaysAfter(held, previous))
      OBVIOUS
    <3>2. /\ next \in UsedDays(held) /\ next > previous
          /\ \A d \in UsedDays(held) : d > previous => next <= d
      BY <2>2, <2>4, <3>1, Neighbours
    <3>3. next <= day /\ ~ (next < day)
      BY <1>5, <2>2, <3>2
    <3>4. QED
      BY <1>5, <3>1, <3>2, <3>3
  <2>6. offset[previous] = offset[day] + Gap(held, day)
    BY <1>3, <2>2, <2>4, <2>5, AdjustmentsWalk
  <2>7. Gap(held, day) = Settlement[front][previous] - Settlement[old][previous]
    <3>1. CASE old = front
      <4>1. Gap(held, day) = 0
        BY <1>6, <2>1, <2>3, <3>1 DEF Gap, IsRoll
      <4>2. Settlement[front][previous] \in Int
        BY <1>5, <2>2, <2>3, <3>1
      <4>3. QED
        BY <3>1, <4>1, <4>2
    <3>2. CASE old # front
      <4>1. Gap(held, day) = RollGap(held, day)
        BY <1>6, <1>8, <2>1, <2>3, <3>2 DEF Gap, IsRoll
      <4>2. previous \in CommonDays(held, day)
        BY <1>5, <1>6, <1>8, <2>1, <2>2, <2>3 DEF CommonDays, DaysBefore
      <4>3. \A d \in CommonDays(held, day) : d <= previous /\ d \in 0 .. LastDay
        BY <1>5, <2>2 DEF CommonDays, DaysBefore
      <4>4. Max(CommonDays(held, day)) = previous
        <5>1. PICK last : last = Max(CommonDays(held, day))
          OBVIOUS
        <5>2. last \in CommonDays(held, day) /\ previous <= last
          BY <1>5, <4>2, <4>3, <5>1, GreatestNatural
        <5>3. QED
          BY <1>5, <2>2, <4>3, <5>1, <5>2
      <4>5. QED
        BY <1>6, <2>1, <2>3, <4>1, <4>2, <4>4 DEF RollGap
    <3>3. QED
      BY <3>1, <3>2
  <2>8. /\ series[day] = Settlement[front][day] + offset[day]
        /\ series[previous] = Settlement[old][previous] + offset[previous]
    BY <1>4, <1>6, <2>2, <2>3
  <2>9. /\ Settlement[front][day] \in Int /\ Settlement[old][previous] \in Int
        /\ offset[day] \in Int /\ Settlement[front][previous] \in Int
    BY <1>5, <1>6, <2>2, <2>3, Settled
  <2>10. QED
    BY <2>1, <2>6, <2>7, <2>8, <2>9
<1>9. QED
  BY <1>6, <1>7, <1>8

-----------------------------------------------------------------------------
(* Buckets.                                                                 *)

LEMMA NextMultiple ==
  ASSUME NEW x \in Nat, NEW y \in Nat, NEW w \in Nat, x < y
  PROVE  x * w \in Nat /\ y * w \in Nat /\ x * w + w <= y * w
<1>1. PICK k \in Nat : y = x + 1 + k
  <2>1. y - x - 1 \in Nat /\ y = x + 1 + (y - x - 1)
    OBVIOUS
  <2>2. QED
    BY <2>1
<1>2. y * w = x * w + w + k * w
  BY <1>1
<1>3. x * w \in Nat /\ k * w \in Nat
  OBVIOUS
<1>4. QED
  BY <1>2, <1>3

LEMMA Division ==
  ASSUME NEW n \in Nat, NEW d \in Nat \ {0}
  PROVE  /\ n \div d \in Nat /\ (n \div d) * d \in Nat
         /\ (n \div d) * d <= n /\ n < (n \div d) * d + d
  OBVIOUS

LEMMA DivisionUnique ==
  ASSUME NEW n \in Nat, NEW d \in Nat \ {0}, NEW q \in Nat, q * d <= n, n < q * d + d
  PROVE  n \div d = q
<1>1. PICK p \in Nat : p = n \div d
  BY Division
<1>2. p * d \in Nat /\ p * d <= n /\ n < p * d + d /\ q * d \in Nat
  BY <1>1, Division
<1>3. ~ (p < q)
  <2> SUFFICES ASSUME p < q PROVE FALSE
    OBVIOUS
  <2>1. p * d + d <= q * d
    BY NextMultiple
  <2>2. QED
    BY <1>2, <2>1
<1>4. ~ (q < p)
  <2> SUFFICES ASSUME q < p PROVE FALSE
    OBVIOUS
  <2>1. q * d + d <= p * d
    BY NextMultiple
  <2>2. QED
    BY <1>2, <2>1
<1>5. QED
  BY <1>1, <1>3, <1>4

LEMMA DivisionGrows ==
  ASSUME NEW a \in Nat, NEW b \in Nat, NEW d \in Nat \ {0}, a <= b
  PROVE  a \div d <= b \div d
<1>1. PICK p \in Nat : p = a \div d
  BY Division
<1>2. PICK q \in Nat : q = b \div d
  BY Division
<1>3. p * d \in Nat /\ p * d <= a /\ q * d \in Nat /\ b < q * d + d
  BY <1>1, <1>2, Division
<1>4. ~ (q < p)
  <2> SUFFICES ASSUME q < p PROVE FALSE
    OBVIOUS
  <2>1. q * d + d <= p * d
    BY NextMultiple
  <2>2. QED
    BY <1>3, <2>1
<1>5. QED
  BY <1>1, <1>2, <1>4

(* What a bucket is: the multiple k of the width after the opening of the   *)
(* session, number q, that the slot is in.                                  *)
IsBucket(width, slot, open, q, k) ==
  /\ q \in Nat /\ k \in Nat /\ q * SessionLength \in Nat /\ k * width \in Nat
  /\ q = slot \div SessionLength /\ k = (slot - q * SessionLength) \div width
  /\ open = q * SessionLength + k * width
  /\ open <= slot /\ slot < open + width
  /\ slot < q * SessionLength + SessionLength

LEMMA BucketIs ==
  ASSUME NEW width \in Nat \ {0}, NEW slot \in Nat
  PROVE  \E q, k : IsBucket(width, slot, BucketOpen(width, slot), q, k)
<1>1. PICK q \in Nat : q = slot \div SessionLength
  BY Division, PagesAssumption
<1>2. PICK open \in Nat : open = q * SessionLength
  BY PagesAssumption
<1>3. open <= slot /\ slot < open + SessionLength
  BY <1>1, <1>2, Division, PagesAssumption
<1>4. PICK k \in Nat : k = (slot - open) \div width
  <2>1. slot - open \in Nat
    BY <1>3
  <2>2. QED
    BY <2>1, Division
<1>5. k * width \in Nat /\ k * width <= slot - open /\ slot - open < k * width + width
  BY <1>3, <1>4, Division
<1>6. BucketOpen(width, slot) = open + k * width
  BY <1>1, <1>2, <1>4 DEF BucketOpen
<1>7. IsBucket(width, slot, BucketOpen(width, slot), q, k)
  BY <1>1, <1>2, <1>3, <1>4, <1>5, <1>6, PagesAssumption DEF IsBucket
<1>8. QED
  BY <1>7

LEMMA BucketHolds ==
  ASSUME NEW width \in Nat \ {0}, NEW slot \in Nat
  PROVE  /\ BucketOpen(width, slot) \in Nat
         /\ BucketOpen(width, slot) <= slot /\ slot < BucketOpen(width, slot) + width
<1>1. PICK q, k : IsBucket(width, slot, BucketOpen(width, slot), q, k)
  BY BucketIs
<1>2. QED
  BY <1>1 DEF IsBucket

LEMMA BucketsGrow ==
  ASSUME NEW width \in Nat \ {0}, NEW s \in Nat, NEW t \in Nat, s <= t
  PROVE  BucketOpen(width, s) <= BucketOpen(width, t)
<1>1. PICK a \in Nat : a = BucketOpen(width, s)
  BY BucketHolds
<1>2. PICK b \in Nat : b = BucketOpen(width, t)
  BY BucketHolds
<1>3. PICK q, k : IsBucket(width, s, a, q, k)
  BY <1>1, BucketIs
<1>4. PICK p, m : IsBucket(width, t, b, p, m)
  BY <1>2, BucketIs
<1>5. q \in Nat /\ p \in Nat /\ q <= p
  BY <1>3, <1>4, DivisionGrows, PagesAssumption DEF IsBucket
<1>6. CASE q < p
  <2>1. q * SessionLength + SessionLength <= p * SessionLength
    BY <1>5, <1>6, NextMultiple, PagesAssumption
  <2>2. a <= s /\ s < q * SessionLength + SessionLength /\ b >= p * SessionLength
    BY <1>3, <1>4 DEF IsBucket
  <2>3. q * SessionLength \in Nat /\ p * SessionLength \in Nat /\ SessionLength \in Nat
    BY <1>3, <1>4, PagesAssumption DEF IsBucket
  <2>4. QED
    BY <1>1, <1>2, <2>1, <2>2, <2>3
<1>7. CASE q = p
  <2>1. PICK open \in Nat : open = q * SessionLength
    BY <1>3 DEF IsBucket
  <2>2. /\ k \in Nat /\ m \in Nat /\ k * width \in Nat /\ m * width \in Nat
        /\ a = open + k * width /\ b = open + m * width
        /\ k = (s - open) \div width /\ m = (t - open) \div width
        /\ open <= s
    BY <1>3, <1>4, <1>7, <2>1 DEF IsBucket
  <2>3. k <= m
    BY <2>2, DivisionGrows
  <2>4. k * width <= m * width
    <3>1. CASE k = m
      BY <2>2, <3>1
    <3>2. CASE k < m
      <4>1. k * width + width <= m * width
        BY <2>2, <3>2, NextMultiple
      <4>2. QED
        BY <2>2, <4>1
    <3>3. QED
      BY <2>2, <2>3, <3>1, <3>2
  <2>5. QED
    BY <1>1, <1>2, <2>2, <2>4
<1>8. QED
  BY <1>5, <1>6, <1>7

(* An edge is a slot at which one bucket ends and another begins: the       *)
(* opening of a session, or of a bucket.                                    *)
Edge(width, e) == e \in Nat /\ \A slot \in Nat : BucketOpen(width, slot) < e <=> slot < e

LEMMA FixedIsEdge ==
  ASSUME NEW width \in Nat \ {0}, NEW e \in Nat, BucketOpen(width, e) = e
  PROVE  Edge(width, e)
<1> SUFFICES ASSUME NEW slot \in Nat PROVE BucketOpen(width, slot) < e <=> slot < e
  BY DEF Edge
<1>1. BucketOpen(width, slot) \in Nat /\ BucketOpen(width, slot) <= slot
  BY BucketHolds
<1>2. e <= slot => e <= BucketOpen(width, slot)
  BY BucketsGrow
<1>3. QED
  BY <1>1, <1>2

LEMMA OpeningsAreEdges ==
  ASSUME NEW width \in Nat \ {0}, NEW slot \in Nat
  PROVE  Edge(width, BucketOpen(width, slot))
<1>1. PICK e \in Nat : e = BucketOpen(width, slot)
  BY BucketHolds
<1>2. PICK q, k : IsBucket(width, slot, e, q, k)
  BY <1>1, BucketIs
<1>3. PICK open \in Nat : open = q * SessionLength
  BY <1>2 DEF IsBucket
<1>4. /\ q \in Nat /\ k \in Nat /\ k * width \in Nat /\ e = open + k * width
      /\ e < open + SessionLength /\ SessionLength \in Nat \ {0}
  BY <1>2, <1>3, PagesAssumption DEF IsBucket
<1>5. e \div SessionLength = q
  BY <1>3, <1>4, DivisionUnique
<1>6. (e - open) \div width = k
  <2>1. e - open = k * width /\ e - open \in Nat
    BY <1>4
  <2>2. QED
    BY <1>4, <2>1, DivisionUnique
<1>7. BucketOpen(width, e) = e
  BY <1>3, <1>4, <1>5, <1>6 DEF BucketOpen
<1>8. QED
  BY <1>1, <1>7, FixedIsEdge

LEMMA SessionsAreEdges ==
  ASSUME NEW width \in Nat \ {0}, NEW day \in Nat
  PROVE  Edge(width, day * SessionLength)
<1>1. PICK e \in Nat : e = day * SessionLength
  BY PagesAssumption
<1>2. e \div SessionLength = day
  BY <1>1, DivisionUnique, PagesAssumption
<1>3. (e - e) \div width = 0
  BY DivisionUnique
<1>4. BucketOpen(width, e) = e
  BY <1>1, <1>2, <1>3 DEF BucketOpen
<1>5. QED
  BY <1>1, <1>4, FixedIsEdge

-----------------------------------------------------------------------------
(* The newest of a set of slots.                                            *)

LEMMA NewestIsTop ==
  ASSUME NEW S \in SUBSET Nat, IsFiniteSet(S), NEW k \in Nat,
         NEW s \in Newest(S, k), NEW t \in S, s <= t
  PROVE  t \in Newest(S, k)
<1>1. PICK above : above = {u \in S : u > s}
  OBVIOUS
<1>2. PICK higher : higher = {u \in S : u > t}
  OBVIOUS
<1>3. IsFiniteSet(above) /\ Cardinality(above) < k /\ Cardinality(above) \in Nat
  BY <1>1, FS_Subset, FS_CardinalityType DEF Newest
<1>4. ASSUME NEW u \in higher PROVE u \in above
  <2>1. u \in S /\ u > t /\ u \in Nat /\ t \in Nat
    BY <1>2
  <2>2. s \in Nat /\ u > s
    BY <2>1 DEF Newest
  <2>3. QED
    BY <1>1, <2>1, <2>2
<1>5. Cardinality(higher) <= Cardinality(above) /\ Cardinality(higher) \in Nat
  BY <1>3, <1>4, FS_Subset, FS_CardinalityType
<1>6. Cardinality(higher) < k
  BY <1>3, <1>5
<1>7. QED
  BY <1>2, <1>6 DEF Newest

LEMMA FromZero ==
  ASSUME NEW m \in Nat
  PROVE  IsFiniteSet(0 .. (m - 1)) /\ Cardinality(0 .. (m - 1)) = m
<1>1. /\ IsFiniteSet(0 .. (m - 1))
      /\ Cardinality(0 .. (m - 1)) = IF 0 > m - 1 THEN 0 ELSE m - 1 - 0 + 1
  BY FS_Interval
<1>2. QED
  BY <1>1

(* Counting from the newest numbers the members of a set: fewer than its    *)
(* size stand above each, and every such number is taken.                   *)
LEMMA Ranks ==
  ASSUME NEW S \in SUBSET Nat, IsFiniteSet(S)
  PROVE  LET rank(s) == Cardinality({t \in S : t > s})
         IN  /\ Cardinality(S) \in Nat
             /\ \A s \in S : rank(s) \in 0 .. (Cardinality(S) - 1)
             /\ \A s, t \in S : s # t => rank(s) # rank(t)
             /\ \A k \in 0 .. (Cardinality(S) - 1) : \E s \in S : rank(s) = k
<1> DEFINE above(s) == {t \in S : t > s}
           rank(s) == Cardinality(above(s))
           size == Cardinality(S)
<1>1. size \in Nat
  BY FS_CardinalityType
<1>2. ASSUME NEW s \in S PROVE IsFiniteSet(above(s)) /\ rank(s) \in 0 .. (size - 1)
  <2>1. \A t \in above(s) : t \in S \ {s}
    OBVIOUS
  <2>2. IsFiniteSet(S \ {s}) /\ Cardinality(S \ {s}) = size - 1
    BY FS_RemoveElement
  <2>3. IsFiniteSet(above(s)) /\ rank(s) <= size - 1
    BY <2>1, <2>2, FS_Subset
  <2>4. QED
    BY <1>1, <2>3, FS_CardinalityType
<1>3. ASSUME NEW s \in S, NEW t \in S, s < t PROVE rank(t) < rank(s)
  <2>1. \A u \in above(t) : u \in above(s) \ {t}
    BY <1>3
  <2>2. t \in above(s)
    BY <1>3
  <2>3. /\ IsFiniteSet(above(s) \ {t})
        /\ Cardinality(above(s) \ {t}) = rank(s) - 1
    BY <1>2, <2>2, FS_RemoveElement
  <2>4. rank(t) <= Cardinality(above(s) \ {t})
    BY <2>1, <2>3, FS_Subset
  <2>5. QED
    BY <1>1, <1>2, <2>3, <2>4
<1> HIDE DEF rank
<1>4. ASSUME NEW s \in S, NEW t \in S, s # t PROVE rank(s) # rank(t)
  <2>1. rank(s) \in 0 .. (size - 1) /\ rank(t) \in 0 .. (size - 1)
    BY <1>2
  <2> HIDE DEF size
  <2>0. rank(s) \in Nat /\ rank(t) \in Nat
    BY <1>1, <2>1
  <2>2. s < t \/ t < s
    BY <1>4
  <2>3. QED
    BY <1>3, <2>0, <2>2
<1>5. ASSUME NEW k \in 0 .. (size - 1), \A s \in S : rank(s) # k PROVE FALSE
  <2> DEFINE number == [s \in S |-> rank(s)]
             others == (0 .. (size - 1)) \ {k}
  <2>1. number \in [S -> others]
    BY <1>2, <1>5
  <2>2. IsFiniteSet(others) /\ Cardinality(others) = size - 1
    <3>1. IsFiniteSet(0 .. (size - 1)) /\ Cardinality(0 .. (size - 1)) = size
      BY <1>1, FromZero
    <3>2. QED
      BY <3>1, FS_RemoveElement
  <2>3. \A s, t \in S : s # t => number[s] # number[t]
    BY <1>4
  <2> HIDE DEF number, others
  <2>4. Cardinality(others) < Cardinality(S)
    BY <1>1, <2>2
  <2>5. \E s, t \in S : s # t /\ number[s] = number[t]
    BY <2>1, <2>2, <2>4, FS_PigeonHole
  <2>6. QED
    BY <2>3, <2>5
<1>6. QED
  BY <1>1, <1>2, <1>4, <1>5 DEF rank

LEMMA NewestCounts ==
  ASSUME NEW S \in SUBSET Nat, IsFiniteSet(S), NEW k \in Nat
  PROVE  /\ IsFiniteSet(Newest(S, k)) /\ Newest(S, k) \subseteq S
         /\ Cardinality(S) < k => Newest(S, k) = S
         /\ Cardinality(S) >= k => Cardinality(Newest(S, k)) = k
<1> DEFINE rank(s) == Cardinality({t \in S : t > s})
<1>1. /\ Cardinality(S) \in Nat
      /\ \A s \in S : rank(s) \in 0 .. (Cardinality(S) - 1)
      /\ \A s, t \in S : s # t => rank(s) # rank(t)
      /\ \A i \in 0 .. (Cardinality(S) - 1) : \E s \in S : rank(s) = i
  BY Ranks
<1>2. Newest(S, k) = {s \in S : rank(s) < k}
  BY DEF Newest
<1> HIDE DEF rank
<1>3. IsFiniteSet(Newest(S, k)) /\ Newest(S, k) \subseteq S
  BY <1>2, FS_Subset
<1>4. Cardinality(S) < k => \A s \in S : s \in Newest(S, k)
  BY <1>1, <1>2
<1>5. ASSUME Cardinality(S) >= k PROVE Cardinality(Newest(S, k)) = k
  <2> DEFINE number == [s \in Newest(S, k) |-> rank(s)]
  <2>1. number \in [Newest(S, k) -> 0 .. (k - 1)]
    <3>1. ASSUME NEW s \in Newest(S, k) PROVE rank(s) \in 0 .. (k - 1)
      <4>1. s \in S /\ rank(s) < k
        BY <1>2
      <4>2. rank(s) \in 0 .. (Cardinality(S) - 1)
        BY <1>1, <4>1
      <4>3. QED
        BY <4>1, <4>2
    <3>2. QED
      BY <3>1
  <2>2. \A i \in 0 .. (k - 1) : \E s \in Newest(S, k) : number[s] = i
    <3> SUFFICES ASSUME NEW i \in 0 .. (k - 1) PROVE \E s \in Newest(S, k) : number[s] = i
      OBVIOUS
    <3>1. i \in 0 .. (Cardinality(S) - 1)
      BY <1>1, <1>5
    <3>2. PICK s \in S : rank(s) = i
      BY <1>1, <3>1
    <3>3. s \in Newest(S, k)
      BY <1>2, <3>2
    <3>4. QED
      BY <3>2, <3>3
  <2>3. \A s, t \in Newest(S, k) : s # t => number[s] # number[t]
    BY <1>1, <1>2
  <2> HIDE DEF number
  <2>4. number \in Surjection(Newest(S, k), 0 .. (k - 1))
    BY <2>1, <2>2 DEF Surjection
  <2>5. number \in Injection(Newest(S, k), 0 .. (k - 1))
    BY <2>1, <2>3 DEF Injection, IsInjective
  <2>6. Cardinality(0 .. (k - 1)) = Cardinality(Newest(S, k))
    BY <1>3, <2>4, <2>5, FS_Surjection
  <2>7. QED
    BY <2>6, FromZero
<1>6. QED
  BY <1>3, <1>4, <1>5

(* A part of a set that is at its top, and has k members, has its k newest. *)
LEMMA NewestOfTop ==
  ASSUME NEW S \in SUBSET Nat, IsFiniteSet(S), NEW U \in SUBSET S, NEW k \in Nat,
         \A u \in U, s \in S : u <= s => s \in U, k <= Cardinality(U)
  PROVE  Newest(S, k) = Newest(U, k)
<1>1. ASSUME NEW u \in U PROVE {t \in S : t > u} = {t \in U : t > u}
  <2>1. \A t \in S : t > u => t \in U
    OBVIOUS
  <2>2. QED
    BY <2>1
<1>2. \A u \in U : u \in Newest(S, k) <=> u \in Newest(U, k)
  BY <1>1 DEF Newest
<1>3. ASSUME NEW s \in S \ U PROVE s \notin Newest(S, k)
  <2>1. PICK above : above = {t \in S : t > s}
    OBVIOUS
  <2>2. \A u \in U : u \in above
    BY <1>3, <2>1
  <2>3. IsFiniteSet(above) /\ Cardinality(above) \in Nat
    BY <2>1, FS_Subset, FS_CardinalityType
  <2>4. Cardinality(U) <= Cardinality(above) /\ Cardinality(U) \in Nat
    BY <2>2, <2>3, FS_Subset, FS_CardinalityType
  <2>5. ~ (Cardinality(above) < k)
    BY <2>3, <2>4
  <2>6. QED
    BY <2>1, <2>5 DEF Newest
<1>4. \A s : s \in Newest(S, k) <=> s \in Newest(U, k)
  BY <1>2, <1>3 DEF Newest
<1>5. QED
  BY <1>4

LEMMA NewestNotEmpty ==
  ASSUME NEW S \in SUBSET Nat, IsFiniteSet(S), S # {}, NEW k \in Nat \ {0}
  PROVE  Newest(S, k) # {}
<1>1. Cardinality(S) \in Nat /\ Cardinality(S) # 0
  BY FS_CardinalityType, FS_EmptySet
<1>2. \A i \in 0 .. (Cardinality(S) - 1) : \E s \in S : Cardinality({t \in S : t > s}) = i
  BY Ranks
<1>3. 0 \in 0 .. (Cardinality(S) - 1)
  BY <1>1
<1>4. PICK s \in S : Cardinality({t \in S : t > s}) = 0
  BY <1>2, <1>3
<1>5. QED
  BY <1>4 DEF Newest

-----------------------------------------------------------------------------
(* Bars: the buckets that open at T, of the rows S.                         *)

Bucket(S, width, open) == {r \in S : BucketOpen(width, r) = open}
Opens(S, width) == {BucketOpen(width, r) : r \in S}
Bars(S, width, T) == {[ts |-> open, rows |-> Bucket(S, width, open)] : open \in T}

LEMMA ResampleIsBars ==
  ASSUME NEW S, NEW width
  PROVE  Resample(S, width) = Bars(S, width, Opens(S, width))
  BY DEF Resample, Bars, Opens, Bucket

LEMMA StampsOfBars ==
  ASSUME NEW S, NEW width, NEW T
  PROVE  {c.ts : c \in Bars(S, width, T)} = T
<1>1. \A c \in Bars(S, width, T) : c.ts \in T
  BY DEF Bars
<1>2. ASSUME NEW o \in T PROVE o \in {c.ts : c \in Bars(S, width, T)}
  <2>1. PICK c \in Bars(S, width, T) : c = [ts |-> o, rows |-> Bucket(S, width, o)]
    BY DEF Bars
  <2>2. c.ts = o
    BY <2>1
  <2>3. QED
    BY <2>2
<1>3. QED
  BY <1>1, <1>2

LEMMA SomeBars ==
  ASSUME NEW S, NEW width, NEW T, NEW K
  PROVE  \A c : (c \in Bars(S, width, T) /\ c.ts \in K) <=> c \in Bars(S, width, T \cap K)
<1>1. ASSUME NEW c, c \in Bars(S, width, T), c.ts \in K
      PROVE  c \in Bars(S, width, T \cap K)
  <2>1. PICK o \in T : c = [ts |-> o, rows |-> Bucket(S, width, o)]
    BY <1>1 DEF Bars
  <2>2. c.ts = o
    BY <2>1
  <2>3. o \in T \cap K
    BY <1>1, <2>2
  <2>4. QED
    BY <2>1, <2>3 DEF Bars
<1>2. ASSUME NEW c, c \in Bars(S, width, T \cap K)
      PROVE  c \in Bars(S, width, T) /\ c.ts \in K
  <2>1. PICK o \in T \cap K : c = [ts |-> o, rows |-> Bucket(S, width, o)]
    BY <1>2 DEF Bars
  <2>2. c.ts = o
    BY <2>1
  <2>3. QED
    BY <2>1, <2>2 DEF Bars
<1>3. QED
  BY <1>1, <1>2

LEMMA NoBars ==
  ASSUME NEW S, NEW width, NEW T
  PROVE  Bars(S, width, T) = {} <=> T = {}
  BY DEF Bars

LEMMA OldestOfBars ==
  ASSUME NEW S, NEW width, NEW T
  PROVE  Oldest(Bars(S, width, T)) = Min(T)
<1>1. PICK stamps : stamps = {c.ts : c \in Bars(S, width, T)}
  OBVIOUS
<1>2. stamps = T
  BY <1>1, StampsOfBars
<1>3. QED
  BY <1>1, <1>2 DEF Oldest

LEMMA NewestOfBars ==
  ASSUME NEW S, NEW width, NEW T, NEW k
  PROVE  NewestBars(Bars(S, width, T), k) = Bars(S, width, Newest(T, k))
<1>1. PICK stamps : stamps = {c.ts : c \in Bars(S, width, T)}
  OBVIOUS
<1>2. stamps = T
  BY <1>1, StampsOfBars
<1>3. PICK K : K = Newest(T, k)
  OBVIOUS
<1>4. NewestBars(Bars(S, width, T), k) = {c \in Bars(S, width, T) : c.ts \in K}
  BY <1>1, <1>2, <1>3 DEF NewestBars
<1>5. \A c : (c \in Bars(S, width, T) /\ c.ts \in K) <=> c \in Bars(S, width, T \cap K)
  BY SomeBars
<1>6. T \cap K = K
  BY <1>3 DEF Newest
<1>7. QED
  BY <1>3, <1>4, <1>5, <1>6

LEMMA OpensAreNatural ==
  ASSUME NEW S \in SUBSET Nat, IsFiniteSet(S), NEW width \in Nat \ {0}
  PROVE  /\ Opens(S, width) \in SUBSET Nat
         /\ IsFiniteSet(Opens(S, width))
         /\ S # {} => Opens(S, width) # {}
<1>1. Opens(S, width) \in SUBSET Nat
  BY BucketHolds DEF Opens
<1> DEFINE open == [r \in S |-> BucketOpen(width, r)]
<1>2. \A o \in Opens(S, width) : \E r \in S : open[r] = o
  BY DEF Opens
<1>3. open \in [S -> Opens(S, width)]
  BY DEF Opens
<1> HIDE DEF open
<1>4. open \in Surjection(S, Opens(S, width))
  BY <1>2, <1>3 DEF Surjection
<1>5. IsFiniteSet(Opens(S, width))
  BY <1>4, FS_Surjection
<1>6. QED
  BY <1>1, <1>5 DEF Opens

(* A bucket has no more rows than it is wide.                               *)
LEMMA RowsFillBuckets ==
  ASSUME NEW R \in SUBSET Nat, IsFiniteSet(R), NEW width \in Nat \ {0}
  PROVE  Cardinality(R) <= Cardinality(Opens(R, width)) * width
<1> DEFINE places == Opens(R, width) \X (0 .. (width - 1))
           place == [r \in R |-> <<BucketOpen(width, r), r - BucketOpen(width, r)>>]
<1>1. ASSUME NEW r \in R PROVE place[r] \in places
  <2>1. BucketOpen(width, r) \in Opens(R, width)
    BY DEF Opens
  <2>2. PICK o \in Nat : o = BucketOpen(width, r) /\ o <= r /\ r < o + width
    BY BucketHolds
  <2>3. r - o \in 0 .. (width - 1)
    BY <2>2
  <2>4. QED
    BY <2>1, <2>2, <2>3
<1>2. ASSUME NEW r \in R, NEW s \in R, place[r] = place[s] PROVE r = s
  <2>1. /\ BucketOpen(width, r) = BucketOpen(width, s)
        /\ r - BucketOpen(width, r) = s - BucketOpen(width, s)
    BY <1>2
  <2>2. PICK o \in Nat : o = BucketOpen(width, r)
    BY BucketHolds
  <2>3. r - o = s - o /\ r \in Nat /\ s \in Nat
    BY <2>1, <2>2
  <2>4. QED
    BY <2>3
<1>3. place \in [R -> places]
  BY <1>1
<1> HIDE DEF place
<1>4. place \in Injection(R, places)
  BY <1>2, <1>3 DEF Injection, IsInjective
<1>5. IsFiniteSet(Opens(R, width))
  BY OpensAreNatural
<1>6. IsFiniteSet(0 .. (width - 1)) /\ Cardinality(0 .. (width - 1)) = width
  BY FromZero
<1>7. /\ IsFiniteSet(places)
      /\ Cardinality(places) = Cardinality(Opens(R, width)) * Cardinality(0 .. (width - 1))
  BY <1>5, <1>6, FS_Product
<1> HIDE DEF places
<1>8. Cardinality(R) <= Cardinality(places)
  BY <1>4, <1>7, FS_Injection
<1>9. QED
  BY <1>6, <1>7, <1>8

-----------------------------------------------------------------------------
(* A page.                                                                  *)

(* What a page of the bars R says of all there is, W: the newest of it, and *)
(* whether there is more.                                                   *)
IsPageOf(pane, all, limit) ==
  /\ pane.candles = NewestBars(all, limit)
  /\ pane.hasMore <=> pane.candles # all
  /\ pane.hasMore => pane.cursor \in Nat
  /\ pane.cursor = IF pane.candles = all THEN NoCursor ELSE Oldest(pane.candles)

(* The rows that were read show every bucket whole but the oldest of them.  *)
LEMMA RowsRead ==
  ASSUME NEW W \in SUBSET Nat, IsFiniteSet(W), NEW width \in Nat \ {0},
         NEW cap \in Nat \ {0}, NEW R, R = Newest(W, cap), R # {}
  PROVE  LET least == Min(Opens(R, width))
             upper == Opens(R, width) \ {least}
         IN  /\ least \in Opens(R, width) /\ Opens(R, width) \subseteq Opens(W, width)
             /\ \A u \in upper, s \in Opens(W, width) : u <= s => s \in upper
             /\ \A u \in upper : Bucket(R, width, u) = Bucket(W, width, u)
<1> DEFINE least == Min(Opens(R, width))
           upper == Opens(R, width) \ {least}
<1>1. R \in SUBSET W /\ IsFiniteSet(R) /\ R \in SUBSET Nat
  BY NewestCounts
<1>2. Opens(R, width) \in SUBSET Nat /\ Opens(R, width) # {}
  BY <1>1, OpensAreNatural
<1>3. least \in Opens(R, width) /\ \A o \in Opens(R, width) : least <= o
  BY <1>2, LeastNatural
<1>4. PICK lowest \in R : BucketOpen(width, lowest) = least
  BY <1>3 DEF Opens
<1> HIDE DEF least
<1>5. ASSUME NEW r \in W, NEW u \in upper, u <= BucketOpen(width, r)
      PROVE  r \in R /\ BucketOpen(width, r) > least
  <2>1. PICK o \in Nat : o = BucketOpen(width, r)
    BY BucketHolds
  <2>2. least \in Nat /\ u \in Nat /\ least < u /\ u <= o
    BY <1>2, <1>3, <1>5, <2>1
  <2>3. lowest \in Nat /\ r \in Nat
    BY <1>1
  <2>4. r <= lowest => o <= least
    BY <1>4, <2>1, <2>3, BucketsGrow
  <2>5. lowest <= r
    BY <2>2, <2>3, <2>4, <2>1
  <2>6. r \in Newest(W, cap)
    BY <1>4, <2>5, NewestIsTop
  <2>7. QED
    BY <2>1, <2>2, <2>6
<1>6. Opens(R, width) \subseteq Opens(W, width)
  BY <1>1 DEF Opens
<1>7. ASSUME NEW u \in upper, NEW s \in Opens(W, width), u <= s PROVE s \in upper
  <2>1. PICK r \in W : s = BucketOpen(width, r)
    BY DEF Opens
  <2>2. r \in R /\ s > least
    BY <1>5, <1>7, <2>1
  <2>3. s \in Opens(R, width) /\ s \in Nat /\ least \in Nat
    BY <1>2, <1>3, <2>1, <2>2 DEF Opens
  <2>4. QED
    BY <2>2, <2>3
<1>8. ASSUME NEW u \in upper PROVE Bucket(R, width, u) = Bucket(W, width, u)
  <2>1. u \in Nat
    BY <1>2
  <2>2. ASSUME NEW r \in W, BucketOpen(width, r) = u PROVE r \in R
    BY <1>5, <2>1, <2>2
  <2>3. QED
    BY <1>1, <2>2 DEF Bucket
<1>9. QED
  BY <1>3, <1>6, <1>7, <1>8 DEF least

LEMMA EnoughBuckets ==
  ASSUME NEW R \in SUBSET Nat, IsFiniteSet(R), NEW width \in Nat \ {0}, NEW k \in Nat,
         Cardinality(R) = k * width + 1, NEW o
  PROVE  /\ IsFiniteSet(Opens(R, width) \ {o})
         /\ k <= Cardinality(Opens(R, width) \ {o})
<1>1. IsFiniteSet(Opens(R, width))
  BY OpensAreNatural
<1>2. PICK n \in Nat : n = Cardinality(Opens(R, width))
  BY <1>1, FS_CardinalityType
<1>3. k * width + 1 <= n * width
  BY <1>2, RowsFillBuckets
<1>4. k < n
  <2> SUFFICES ASSUME n <= k PROVE FALSE
    OBVIOUS
  <2>1. n * width <= k * width /\ n * width \in Nat /\ k * width \in Nat
    <3>1. CASE n = k
      BY <3>1
    <3>2. CASE n < k
      <4>1. n * width \in Nat /\ k * width \in Nat /\ n * width + width <= k * width
        BY <3>2, NextMultiple
      <4>2. QED
        BY <4>1
    <3>3. QED
      BY <3>1, <3>2
  <2>2. PICK a, b \in Nat : a = n * width /\ b = k * width /\ a <= b
    BY <2>1
  <2>3. b + 1 <= a
    BY ONLY <1>3, <2>2
  <2>4. QED
    BY ONLY <2>2, <2>3
<1>5. PICK opens : opens = Opens(R, width)
  OBVIOUS
<1>6. /\ IsFiniteSet(opens \ {o})
      /\ Cardinality(opens \ {o}) = IF o \in opens THEN n - 1 ELSE n
  BY ONLY <1>1, <1>2, <1>5, FS_RemoveElement
<1>7. k <= Cardinality(opens \ {o})
  BY ONLY k \in Nat, <1>2, <1>4, <1>6
<1>8. QED
  BY ONLY <1>5, <1>6, <1>7

LEMMA BaseRowCapIs ==
  ASSUME NEW width \in Nat \ {0}, NEW k \in Nat \ {0}
  PROVE  BaseRowCap(width, k) = k * width + 1 /\ BaseRowCap(width, k) \in Nat \ {0}
<1>1. k * width \in Nat /\ k * 1 = k
  OBVIOUS
<1>2. QED
  BY <1>1 DEF BaseRowCap

LEMMA TrimmedPage ==
  ASSUME NEW W \in SUBSET Nat, IsFiniteSet(W), NEW width \in Nat \ {0},
         NEW k \in Nat \ {0}, NEW R, R = Newest(W, BaseRowCap(width, k))
  PROVE  IsPageOf(TrimPage(Resample(R, width), k, Cardinality(R) = BaseRowCap(width, k)),
                  Resample(W, width), k)
<1>1. PICK cap \in Nat \ {0} : cap = BaseRowCap(width, k) /\ cap = k * width + 1
  BY BaseRowCapIs
<1>2. PICK candles : candles = Resample(R, width)
  OBVIOUS
<1>3. PICK pane : pane = TrimPage(candles, k, Cardinality(R) = cap)
  OBVIOUS
<1>4. PICK all : all = Resample(W, width)
  OBVIOUS
<1>5. PICK opens : opens = Opens(W, width)
  OBVIOUS
<1>6. R \in SUBSET W /\ IsFiniteSet(R) /\ R \in SUBSET Nat
  BY <1>1, NewestCounts
<1>7. opens \in SUBSET Nat /\ IsFiniteSet(opens) /\ (W # {} => opens # {})
  BY <1>5, OpensAreNatural
<1>8. all = Bars(W, width, opens)
  BY <1>4, <1>5, ResampleIsBars
<1>9. NewestBars(all, k) = Bars(W, width, Newest(opens, k))
  BY <1>8, NewestOfBars
<1>10. PICK kept : kept = NewestBars(all, k)
  OBVIOUS
<1>11. ASSUME kept # {} PROVE Oldest(kept) \in Nat
  <2>1. Newest(opens, k) # {} /\ Newest(opens, k) \in SUBSET Nat
    BY <1>7, <1>9, <1>10, <1>11, NoBars, NewestCounts
  <2>2. Oldest(kept) = Min(Newest(opens, k))
    BY <1>9, <1>10, OldestOfBars
  <2>3. QED
    BY <2>1, <2>2, LeastNatural
<1>12. CASE Cardinality(W) < cap
  <2>1. R = W /\ Cardinality(R) # cap
    BY <1>1, <1>12, NewestCounts, FS_CardinalityType
  <2>2. candles = all
    BY <1>2, <1>4, <2>1
  <2>3. /\ pane.candles = kept
        /\ pane.hasMore <=> kept # all
        /\ pane.cursor = IF kept # all /\ kept # {} THEN Oldest(kept) ELSE NoCursor
    BY <1>3, <1>10, <2>1, <2>2 DEF TrimPage
  <2>4. kept = {} => kept = all
    <3>1. CASE W = {}
      BY <1>4, <1>10, <3>1 DEF Resample, NewestBars
    <3>2. CASE W # {}
      <4>1. Newest(opens, k) # {}
        BY <1>7, <3>2, NewestNotEmpty
      <4>2. QED
        BY <1>9, <1>10, <4>1, NoBars
    <3>3. QED
      BY <3>1, <3>2
  <2>5. IsPageOf(pane, all, k)
    BY <1>10, <1>11, <2>3, <2>4 DEF IsPageOf
  <2>6. QED
    BY <1>1, <1>2, <1>3, <1>4, <2>5
<1>13. CASE ~ (Cardinality(W) < cap)
  <2>1. Cardinality(R) = cap
    BY <1>1, <1>13, NewestCounts, FS_CardinalityType
  <2>2. R # {}
    BY <1>1, <2>1, FS_EmptySet
  <2>3. PICK least : least = Min(Opens(R, width))
    OBVIOUS
  <2>4. PICK upper : upper = Opens(R, width) \ {least}
    OBVIOUS
  <2>5. /\ least \in Opens(R, width) /\ Opens(R, width) \subseteq opens
        /\ \A u \in upper, s \in opens : u <= s => s \in upper
        /\ \A u \in upper : Bucket(R, width, u) = Bucket(W, width, u)
    <3>1. R = Newest(W, cap)
      BY <1>1
    <3>2. LET low == Min(Opens(R, width))
              top == Opens(R, width) \ {low}
          IN  /\ low \in Opens(R, width) /\ Opens(R, width) \subseteq Opens(W, width)
              /\ \A u \in top, s \in Opens(W, width) : u <= s => s \in top
              /\ \A u \in top : Bucket(R, width, u) = Bucket(W, width, u)
      BY <2>2, <3>1, RowsRead
    <3>3. QED
      BY <1>5, <2>3, <2>4, <3>2
  <2>6. IsFiniteSet(upper) /\ k <= Cardinality(upper)
    BY <1>1, <1>6, <2>1, <2>4, EnoughBuckets
  <2>7. upper \in SUBSET opens /\ upper \in SUBSET Nat
    BY <1>7, <2>4, <2>5
  <2>8. Newest(opens, k) = Newest(upper, k)
    BY <1>7, <2>5, <2>6, <2>7, NewestOfTop
  <2>9. candles = Bars(R, width, Opens(R, width)) /\ candles # {} /\ Oldest(candles) = least
    BY <1>2, <2>3, <2>5, ResampleIsBars, OldestOfBars, NoBars
  <2>10. PICK whole : whole = {c \in candles : c.ts # Oldest(candles)}
    OBVIOUS
  <2>11. whole = Bars(R, width, upper)
    <3>1. PICK K : K = upper
      OBVIOUS
    <3>2. \A c : (c \in Bars(R, width, Opens(R, width)) /\ c.ts \in K)
                    <=> c \in Bars(R, width, Opens(R, width) \cap K)
      BY SomeBars
    <3>3. Opens(R, width) \cap K = upper
      BY <2>4, <3>1
    <3>4. ASSUME NEW c \in candles PROVE c.ts # least <=> c.ts \in K
      <4>1. c.ts \in Opens(R, width)
        BY <2>9, StampsOfBars
      <4>2. QED
        BY <2>4, <3>1, <4>1
    <3>5. \A c : c \in whole <=> c \in Bars(R, width, upper)
      BY <2>9, <2>10, <3>2, <3>3, <3>4
    <3>6. \A c \in Bars(R, width, upper) : c \in whole
      BY <3>5
    <3>7. QED
      BY <3>5, <3>6
  <2>12. whole = Bars(W, width, upper)
    BY <2>5, <2>11 DEF Bars
  <2>13. NewestBars(whole, k) = kept
    BY <1>9, <1>10, <2>8, <2>12, NewestOfBars
  <2>14. /\ pane.candles = kept
         /\ pane.hasMore <=> kept # candles
         /\ pane.cursor = IF kept # candles /\ kept # {} THEN Oldest(kept) ELSE NoCursor
    BY <1>3, <2>1, <2>9, <2>10, <2>13 DEF TrimPage
  <2>15. least \notin {c.ts : c \in kept}
    <3>1. {c.ts : c \in kept} = Newest(upper, k)
      BY <1>9, <1>10, <2>8, StampsOfBars
    <3>2. QED
      BY <2>4, <3>1 DEF Newest
  <2>16. {c.ts : c \in candles} = Opens(R, width) /\ {c.ts : c \in all} = opens
    BY <1>8, <2>9, StampsOfBars
  <2>17. kept # candles /\ kept # all
    BY <2>5, <2>15, <2>16
  <2>18. kept # {}
    <3>1. upper # {}
      BY <2>6, FS_EmptySet
    <3>2. Newest(upper, k) # {}
      BY <2>6, <2>7, <3>1, NewestNotEmpty
    <3>3. QED
      BY <1>9, <1>10, <2>8, <3>2, NoBars
  <2>19. IsPageOf(pane, all, k)
    BY <1>10, <1>11, <2>14, <2>17, <2>18 DEF IsPageOf
  <2>20. QED
    BY <1>1, <1>2, <1>3, <1>4, <2>19
<1>14. QED
  BY <1>12, <1>13

(* The bars of a window.                                                    *)
Between(candles, lo, hi) == {b \in candles : lo <= b.ts /\ b.ts < hi}

(* Between two edges lie whole buckets.                                     *)
LEMMA WindowEdges ==
  ASSUME NEW held \in SUBSET Nat, NEW width \in Nat \ {0}, NEW lo, Edge(width, lo),
         NEW hi, Edge(width, hi), NEW W, W = {s \in held : lo <= s /\ s < hi}
  PROVE  Resample(W, width) = Between(Resample(held, width), lo, hi)
<1>1. ASSUME NEW r \in held
      PROVE  r \in W <=> lo <= BucketOpen(width, r) /\ BucketOpen(width, r) < hi
  <2>1. r \in Nat /\ lo \in Nat /\ hi \in Nat
    BY DEF Edge
  <2>2. PICK o \in Nat : o = BucketOpen(width, r)
    BY BucketHolds
  <2>3. (o < hi <=> r < hi) /\ (o < lo <=> r < lo)
    BY <2>1, <2>2 DEF Edge
  <2>4. r \in W <=> lo <= r /\ r < hi
    OBVIOUS
  <2>5. QED
    BY <2>1, <2>2, <2>3, <2>4
<1>2. W \in SUBSET held
  OBVIOUS
<1> DEFINE T == Opens(W, width)
<1>3. ASSUME NEW o
      PROVE  o \in T <=> (o \in Opens(held, width) /\ lo <= o /\ o < hi)
  BY <1>1, <1>2 DEF Opens
<1>4. ASSUME NEW o \in T PROVE Bucket(W, width, o) = Bucket(held, width, o)
  <2>1. lo <= o /\ o < hi
    BY <1>3
  <2>2. \A r \in held : BucketOpen(width, r) = o => r \in W
    BY <1>1, <2>1
  <2>3. QED
    BY <1>2, <2>2 DEF Bucket
<1>5. Resample(W, width) = Bars(W, width, T)
  BY ResampleIsBars
<1>6. Bars(W, width, T) = Bars(held, width, T)
  BY <1>4 DEF Bars
<1>7. Resample(held, width) = Bars(held, width, Opens(held, width))
  BY ResampleIsBars
<1>8. PICK K : K = T
  OBVIOUS
<1>9. \A c : (c \in Bars(held, width, Opens(held, width)) /\ c.ts \in K)
                <=> c \in Bars(held, width, Opens(held, width) \cap K)
  BY SomeBars
<1>10. Opens(held, width) \cap K = K
  BY <1>3, <1>8
<1>11. ASSUME NEW c \in Resample(held, width) PROVE c.ts \in K <=> lo <= c.ts /\ c.ts < hi
  <2>1. c.ts \in Opens(held, width)
    BY <1>7, StampsOfBars
  <2>2. QED
    BY <1>3, <1>8, <2>1
<1> HIDE DEF T
<1>12. \A c : c \in Bars(held, width, K)
                <=> (c \in Resample(held, width) /\ lo <= c.ts /\ c.ts < hi)
  BY <1>7, <1>9, <1>10, <1>11
<1>13. Resample(W, width) = Bars(held, width, K)
  BY <1>5, <1>6, <1>8
<1>14. QED
  BY <1>12, <1>13 DEF Between

(* PagesJoin, of any stored bars and any place to end at.                   *)
LEMMA PageIs ==
  ASSUME NEW held \in SUBSET Nat, IsFiniteSet(held), NEW width \in Nat \ {0},
         NEW from \in Nat, NEW to \in Nat,
         NEW before, before # NoCursor => Edge(width, before),
         NEW limit \in Nat \ {0}, NEW k, k = ClampPageLimit(limit),
         NEW pane, pane = Page(held, width, from, to, before, limit),
         NEW whole,
         whole = Between(Resample(held, width), from * SessionLength, PageEnd(from, to, before))
  PROVE  /\ k \in Nat \ {0} /\ pane.candles = NewestBars(whole, k)
         /\ pane.cursor = IF pane.candles = whole THEN NoCursor ELSE Oldest(pane.candles)
         /\ pane.candles # whole => pane.cursor \in Nat
<1>1. PICK lo \in Nat : lo = from * SessionLength
  BY PagesAssumption
<1>2. Edge(width, lo)
  BY <1>1, SessionsAreEdges
<1>3. PICK hi : hi = PageEnd(from, to, before)
  OBVIOUS
<1>4. Edge(width, hi)
  <2>1. hi = (to + 1) * SessionLength \/ (before # NoCursor /\ hi = before)
    BY <1>3 DEF PageEnd, DayBounds
  <2>2. CASE hi = (to + 1) * SessionLength
    <3>1. to + 1 \in Nat
      OBVIOUS
    <3>2. QED
      BY <2>2, <3>1, SessionsAreEdges
  <2>3. CASE before # NoCursor /\ hi = before
    BY <2>3
  <2>4. QED
    BY <2>1, <2>2, <2>3
<1>5. PICK W : W = {s \in held : lo <= s /\ s < hi}
  OBVIOUS
<1>6. W \in SUBSET Nat /\ IsFiniteSet(W)
  BY <1>5, FS_Subset
<1>7. whole = Between(Resample(held, width), lo, hi)
  BY <1>1, <1>3
<1>8. Resample(W, width) = whole
  BY <1>2, <1>4, <1>5, <1>7, WindowEdges
<1>9. k \in Nat \ {0}
  BY PagesAssumption DEF ClampPageLimit
<1>10. PICK R : R = Newest(W, BaseRowCap(width, k))
  OBVIOUS
<1>11. R = ListCandlesDesc(held, lo, hi, BaseRowCap(width, k))
  BY <1>5, <1>10 DEF ListCandlesDesc
<1>12. PICK trimmed : trimmed = TrimPage(Resample(R, width), k,
                                         Cardinality(R) = BaseRowCap(width, k))
  OBVIOUS
<1>13. IsPageOf(trimmed, whole, k)
  BY <1>6, <1>8, <1>9, <1>10, <1>12, TrimmedPage
<1>14. DayBounds(from, to).start = lo
  BY <1>1 DEF DayBounds
<1>15. pane = IF trimmed.hasMore /\ trimmed.cursor = NoCursor /\ R # {}
              THEN [trimmed EXCEPT !.cursor = Min(R)]
              ELSE trimmed
  BY <1>3, <1>11, <1>12, <1>14 DEF Page
<1>16. pane = trimmed
  BY <1>13, <1>15 DEF IsPageOf, NoCursor
<1>17. QED
  BY <1>9, <1>13, <1>16 DEF IsPageOf

LEMMA PrimeIs ==
  ASSUME NEW held \in SUBSET Nat, IsFiniteSet(held), NEW width \in Nat \ {0},
         NEW before \in Opens(held, width), NEW n \in 1 .. MaxPrimeBars
  PROVE  Prime(held, width, before, n)
           = NewestBars({b \in Resample(held, width) : b.ts < before}, n)
<1>1. Edge(width, 0)
  <2>1. Edge(width, 0 * SessionLength) /\ 0 * SessionLength = 0
    BY SessionsAreEdges, PagesAssumption
  <2>2. QED
    BY <2>1
<1>2. PICK r \in held : before = BucketOpen(width, r)
  BY DEF Opens
<1>3. Edge(width, before)
  BY <1>2, OpeningsAreEdges
<1>4. PICK W : W = {s \in held : 0 <= s /\ s < before}
  OBVIOUS
<1>5. W \in SUBSET Nat /\ IsFiniteSet(W)
  BY <1>4, FS_Subset
<1>6. PICK whole : whole = Between(Resample(held, width), 0, before)
  OBVIOUS
<1>7. Resample(W, width) = whole
  BY <1>1, <1>3, <1>4, <1>6, WindowEdges
<1>8. n \in Nat \ {0} /\ ~ (n > MaxPrimeBars)
  BY PagesAssumption
<1>9. PICK R : R = Newest(W, BaseRowCap(width, n))
  OBVIOUS
<1>10. R = ListCandlesDesc(held, 0, before, BaseRowCap(width, n))
  BY <1>4, <1>9 DEF ListCandlesDesc
<1>11. PICK trimmed : trimmed = TrimPage(Resample(R, width), n,
                                         Cardinality(R) = BaseRowCap(width, n))
  OBVIOUS
<1>12. IsPageOf(trimmed, whole, n)
  BY <1>5, <1>7, <1>8, <1>9, <1>11, TrimmedPage
<1>13. Prime(held, width, before, n) = trimmed.candles
  BY <1>8, <1>10, <1>11 DEF Prime
<1>14. ASSUME NEW b \in Resample(held, width) PROVE b.ts \in Nat
  <2>1. b.ts \in Opens(held, width)
    BY ResampleIsBars, StampsOfBars
  <2>2. QED
    BY <2>1, OpensAreNatural
<1>15. whole = {b \in Resample(held, width) : b.ts < before}
  <2>1. \A c \in Resample(held, width) : 0 <= c.ts
    BY <1>14
  <2>2. QED
    BY <1>6, <2>1 DEF Between
<1>16. QED
  BY <1>12, <1>13, <1>15 DEF IsPageOf

(* The cursor of a page is the opening of a bucket.                         *)
LEMMA OldestIsABucket ==
  ASSUME NEW held \in SUBSET Nat, IsFiniteSet(held), NEW width \in Nat \ {0},
         NEW candles \in SUBSET Resample(held, width), candles # {}
  PROVE  Oldest(candles) \in Opens(held, width)
<1>1. PICK stamps : stamps = {c.ts : c \in candles}
  OBVIOUS
<1>2. \A c \in candles : c.ts \in Opens(held, width)
  BY ResampleIsBars, StampsOfBars
<1>3. stamps \in SUBSET Opens(held, width) /\ stamps # {}
  BY <1>1, <1>2
<1>4. stamps \in SUBSET Nat
  BY <1>3, OpensAreNatural
<1>5. Min(stamps) \in stamps
  BY <1>3, <1>4, LeastNatural
<1>6. QED
  BY <1>1, <1>3, <1>5 DEF Oldest

-----------------------------------------------------------------------------
(* What is stored.                                                          *)

(* StoredInv: a stored bar is of a slot that is over, a settlement of a     *)
(* known contract and of a day that has come.                               *)
StoredInv ==
  /\ today \in 0 .. LastDay
  /\ known \subseteq Contracts
  /\ stock \subseteq 0 .. (Now - 1)
  /\ quotes \subseteq [contract : known, day : 0 .. today]

LEMMA LeastOfTwo ==
  ASSUME NEW a \in Int, NEW b \in Int
  PROVE  Min({a, b}) \in Int /\ Min({a, b}) <= a
<1>1. \E m \in {a, b} : \A n \in {a, b} : m <= n
  <2>1. a <= b \/ b <= a
    OBVIOUS
  <2>2. QED
    BY <2>1
<1>2. QED
  BY <1>1 DEF Min

LEMMA NowIsLater ==
  ASSUME NEW day \in Nat, NEW next \in Nat, day <= next
  PROVE  /\ day * SessionLength + Elapsed \in Nat
         /\ day * SessionLength + Elapsed <= next * SessionLength + Elapsed
<1>1. SessionLength \in Nat /\ Elapsed \in Nat
  BY PagesAssumption, ChartsAssumption
<1>2. PICK a \in Nat : a = day * SessionLength
  BY <1>1
<1>3. PICK b \in Nat : b = next * SessionLength
  BY <1>1
<1>4. a <= b
  <2>1. CASE day = next
    BY <1>2, <1>3, <2>1
  <2>2. CASE day < next
    <3>1. day * SessionLength + SessionLength <= next * SessionLength
      BY <1>1, <2>2, NextMultiple
    <3>2. QED
      BY <1>1, <1>2, <1>3, <3>1
  <2>3. QED
    BY <2>1, <2>2
<1>5. QED
  BY <1>1, <1>2, <1>3, <1>4

LEMMA StoredInit == Init => StoredInv
<1> SUFFICES ASSUME Init PROVE StoredInv
  OBVIOUS
<1>1. today \in 0 .. LastDay /\ today \in Nat
  BY ChartsAssumption DEF Init
<1>2. PICK initial \in FirstStored : /\ stock = {s \in initial.stock : s < Now}
                                     /\ quotes = {q \in initial.quotes : q.day <= today}
  BY DEF Init
<1>3. /\ initial.stock \subseteq Nat
      /\ initial.quotes \subseteq [contract : Contracts, day : Nat]
  BY <1>2, ChartsAssumption
<1>4. PICK n \in Nat : n = Now
  BY <1>1, NowIsLater DEF Now
<1>5. stock \subseteq 0 .. (Now - 1)
  BY <1>2, <1>3, <1>4
<1>6. ASSUME NEW q \in quotes PROVE q \in [contract : known, day : 0 .. today] /\ q.contract \in Contracts
  <2>1. q \in [contract : Contracts, day : Nat] /\ q.day <= today
    BY <1>2, <1>3
  <2>2. q.contract \in known
    BY DEF Init
  <2>3. q.day \in 0 .. today
    BY <1>1, <2>1
  <2>4. QED
    BY <2>1, <2>2, <2>3
<1>7. known \subseteq Contracts
  BY <1>6 DEF Init
<1>8. QED
  BY <1>1, <1>5, <1>6, <1>7 DEF StoredInv

LEMMA StoredStep == StoredInv /\ [Next]_vars => StoredInv'
<1> SUFFICES ASSUME StoredInv, [Next]_vars PROVE StoredInv'
  OBVIOUS
<1>1. /\ today \in 0 .. LastDay /\ known \subseteq Contracts
      /\ stock \subseteq 0 .. (Now - 1)
      /\ quotes \subseteq [contract : known, day : 0 .. today]
      /\ today \in Nat /\ LastDay \in Nat
  BY ChartsAssumption DEF StoredInv
<1>2. CASE CandlesStored
  <2>1. stock' \subseteq 0 .. (Now - 1) /\ UNCHANGED <<known, quotes, today>>
    BY <1>1, <1>2 DEF CandlesStored
  <2>2. Now' = Now
    BY <2>1 DEF Now
  <2>3. QED
    BY <1>1, <2>1, <2>2 DEF StoredInv
<1>3. CASE IngestContract
  <2>1. PICK c \in Contracts :
          /\ known' = known \cup {c}
          /\ \/ UNCHANGED quotes
             \/ \E from \in 0 .. today :
                   quotes' = quotes \cup [contract : {c},
                                          day : from .. Min({today, Expiration[c]})]
    BY <1>3 DEF IngestContract
  <2>2. UNCHANGED <<stock, today>>
    BY <1>3 DEF IngestContract
  <2>3. Now' = Now
    BY <2>2 DEF Now
  <2>4. ASSUME NEW q \in quotes' PROVE q \in [contract : known', day : 0 .. today]
    <3>1. CASE q \in quotes
      <4>1. q \in [contract : known, day : 0 .. today] /\ known \subseteq known'
        BY <1>1, <2>1, <3>1
      <4>2. QED
        BY <4>1
    <3>2. CASE q \notin quotes
      <4>1. PICK from \in 0 .. today :
              q \in [contract : {c}, day : from .. Min({today, Expiration[c]})]
        BY <2>1, <3>2
      <4>2. PICK last \in Int : last = Min({today, Expiration[c]}) /\ last <= today
        <5>1. today \in Int /\ Expiration[c] \in Int
          BY <1>1, FuturesAssumption
        <5>2. QED
          BY <5>1, LeastOfTwo
      <4>3. q \in [contract : {c}, day : from .. last]
        BY <4>1, <4>2
      <4>4. from .. last \subseteq 0 .. today
        BY <1>1, <4>2
      <4>5. QED
        BY <2>1, <4>3, <4>4
    <3>3. QED
      BY <3>1, <3>2
  <2>5. known' \subseteq Contracts
    BY <1>1, <2>1
  <2>6. QED
    BY <1>1, <2>2, <2>3, <2>4, <2>5 DEF StoredInv
<1>4. CASE StoreTermContract
  <2>1. PICK c \in Contracts :
          /\ known' = known \cup {c}
          /\ quotes' \in {quotes, quotes \cup {[contract |-> c, day |-> today]}}
    BY <1>4 DEF StoreTermContract
  <2>2. UNCHANGED <<stock, today>>
    BY <1>4 DEF StoreTermContract
  <2>3. Now' = Now
    BY <2>2 DEF Now
  <2>4. ASSUME NEW q \in quotes' PROVE q \in [contract : known', day : 0 .. today]
    <3>1. CASE q \in quotes
      <4>1. q \in [contract : known, day : 0 .. today] /\ known \subseteq known'
        BY <1>1, <2>1, <3>1
      <4>2. QED
        BY <4>1
    <3>2. CASE q \notin quotes
      <4>1. q = [contract |-> c, day |-> today] /\ c \in known' /\ today \in 0 .. today
        BY <1>1, <2>1, <3>2
      <4>2. QED
        BY <4>1
    <3>3. QED
      BY <3>1, <3>2
  <2>5. known' \subseteq Contracts
    BY <1>1, <2>1
  <2>6. QED
    BY <1>1, <2>2, <2>3, <2>4, <2>5 DEF StoredInv
<1>5. CASE NewDay
  <2>1. today < LastDay /\ today' = today + 1 /\ UNCHANGED <<stock, known, quotes>>
    BY <1>5 DEF NewDay
  <2>2. PICK n \in Nat : n = Now
    BY <1>1, NowIsLater DEF Now
  <2>3. PICK m \in Nat : m = Now' /\ n <= m
    <3>1. today' \in Nat /\ today <= today'
      BY <1>1, <2>1
    <3>2. QED
      BY <1>1, <2>2, <3>1, NowIsLater DEF Now
  <2>4. stock' \subseteq 0 .. (Now' - 1)
    <3>1. ASSUME NEW slot \in 0 .. (n - 1) PROVE slot \in 0 .. (m - 1)
      <4>1. slot \in Nat /\ slot <= n - 1
        OBVIOUS
      <4>2. n <= m
        BY <2>3
      <4>3. slot <= m - 1
        BY <4>1, <4>2
      <4>4. QED
        BY <4>1, <4>3
    <3>2. QED
      BY <1>1, <2>1, <2>2, <2>3, <3>1
  <2>5. today' \in 0 .. LastDay /\ 0 .. today \subseteq 0 .. today'
    BY <1>1, <2>1
  <2>6. quotes' \subseteq [contract : known', day : 0 .. today']
    BY <1>1, <2>1, <2>5
  <2>7. QED
    BY <1>1, <2>1, <2>4, <2>5, <2>6 DEF StoredInv
<1>6. CASE UNCHANGED stored
  <2>1. UNCHANGED <<stock, known, quotes, today>>
    BY <1>6 DEF stored
  <2>2. Now' = Now
    BY <2>1 DEF Now
  <2>3. QED
    BY <1>1, <2>1, <2>2 DEF StoredInv
<1>7. QED
  <2>1. ASSUME NEW v \in Views, Select(v) PROVE UNCHANGED stored
    BY <2>1 DEF Select
  <2>2. Refresh \/ LoadOlder \/ Answer \/ Fail \/ UNCHANGED vars => UNCHANGED stored
    BY DEF Refresh, LoadOlder, Answer, Fail, vars
  <2>3. QED
    BY <1>2, <1>3, <1>4, <1>5, <1>6, <2>1, <2>2 DEF Next

(* What is stored is of the past and of known contracts, whatever arrives   *)
(* and in whatever order (the jobs of internal/ingest).                     *)
THEOREM StoredInvariant == Spec => []StoredInv
<1>1. QED
  BY StoredInit, StoredStep, PTL DEF Spec

LEMMA MovesHold == StoredInv => AdjustedMovesAreTheHeldContracts
<1> SUFFICES ASSUME StoredInv, NEW part \in SUBSET quotes,
                    NEW from \in 0 .. today, NEW to \in 0 .. today
             PROVE  LET held == InWindow(part, from, to)
                        series == LoadContinuous(part, from, to)
                    IN  \A day \in DOMAIN series :
                          LET front == FrontContract(held, day) IN
                          /\ day = Max(DOMAIN series) => series[day] = Settlement[front][day]
                          /\ DaysBefore(held, day) # {} =>
                               LET previous == Previous(held, day) IN
                               front \in QuotedOn(held, previous) =>
                                 series[day] - series[previous]
                                   = Settlement[front][day] - Settlement[front][previous]
  BY DEF AdjustedMovesAreTheHeldContracts
<1>1. 0 .. today \subseteq 0 .. LastDay /\ LastDay \in Nat
  BY ChartsAssumption DEF StoredInv
<1>2. ASSUME NEW q \in part PROVE q \in Quotes
  <2>1. q \in [contract : known, day : 0 .. today] /\ known \subseteq Contracts
    BY DEF StoredInv
  <2>2. [contract : known, day : 0 .. today] \subseteq Quotes
    BY <1>1, <2>1 DEF Quotes
  <2>3. QED
    BY <2>1, <2>2
<1>3. PICK p \in SUBSET Quotes : p = part
  BY <1>2
<1>4. today \in Int
  BY <1>1 DEF StoredInv
<1>5. PICK a \in Int : a = from
  BY <1>4
<1>6. PICK b \in Int : b = to
  BY <1>4
<1>7. LET held == InWindow(p, a, b)
          series == LoadContinuous(p, a, b)
      IN  \A day \in DOMAIN series :
            LET front == FrontContract(held, day) IN
            /\ day = Max(DOMAIN series) => series[day] = Settlement[front][day]
            /\ DaysBefore(held, day) # {} =>
                 LET previous == Previous(held, day) IN
                 front \in QuotedOn(held, previous) =>
                   series[day] - series[previous]
                     = Settlement[front][day] - Settlement[front][previous]
  BY SeriesMoves
<1>8. QED
  BY <1>3, <1>5, <1>6, <1>7

(* Whatever settlements are stored, the series ends at the price of the     *)
(* contract in front and moves by the moves of the contracts that are held  *)
(* (rollGap and backAdjust in futures.go).                                  *)
THEOREM MovesAreHonest == Spec => []AdjustedMovesAreTheHeldContracts
<1>1. QED
  BY StoredInvariant, MovesHold, PTL

LEMMA PagesHold == StoredInv => PagesJoin
<1> SUFFICES ASSUME StoredInv, NEW held \in SUBSET stock, NEW width \in Widths,
                    NEW from \in 0 .. today, NEW limit \in 1 .. MaxPageLimit,
                    NEW before \in {NoCursor} \cup {b.ts : b \in Resample(held, width)}
             PROVE  LET pane == Page(held, width, from, today, before, limit)
                        end == PageEnd(from, today, before)
                        whole == {b \in Resample(held, width) :
                                    from * SessionLength <= b.ts /\ b.ts < end}
                    IN  /\ pane.candles = NewestBars(whole, limit)
                        /\ pane.cursor = IF pane.candles = whole THEN NoCursor
                                         ELSE Oldest(pane.candles)
                        /\ pane.candles # {} =>
                             \A n \in 1 .. MaxPrimeBars :
                                Prime(held, width, Oldest(pane.candles), n)
                                  = NewestBars({b \in Resample(held, width) :
                                                  b.ts < Oldest(pane.candles)}, n)
  BY DEF PagesJoin
<1>1. PICK day \in Nat : day = today
  BY ChartsAssumption DEF StoredInv
<1>2. PICK n \in Nat : n = Now
  BY <1>1, NowIsLater DEF Now
<1>3. PICK S : S = held
  OBVIOUS
<1>4. S \in SUBSET Nat /\ IsFiniteSet(S)
  <2>1. S \in SUBSET (0 .. (n - 1))
    BY <1>2, <1>3 DEF StoredInv
  <2>2. IsFiniteSet(0 .. (n - 1))
    BY FromZero
  <2>3. IsFiniteSet(S)
    BY <2>1, <2>2, FS_Subset
  <2>4. QED
    BY <2>1, <2>3
<1>5. PICK w \in Nat \ {0} : w = width
  BY ChartsAssumption
<1>6. PICK a \in Nat : a = from
  BY <1>1
<1>7. PICK b \in {NoCursor} \cup Opens(S, w) : b = before
  <2>1. {c.ts : c \in Resample(S, w)} = Opens(S, w)
    BY ResampleIsBars, StampsOfBars
  <2>2. QED
    BY <1>3, <1>5, <2>1
<1>8. PICK k \in 1 .. MaxPageLimit : k = limit
  OBVIOUS
<1>9. PICK pane : pane = Page(S, w, a, day, b, k)
  OBVIOUS
<1>10. PICK all : all = Resample(S, w)
  OBVIOUS
<1>11. PICK whole : whole = Between(all, a * SessionLength, PageEnd(a, day, b))
  OBVIOUS
<1>12. /\ pane.candles = NewestBars(whole, k)
       /\ pane.cursor = IF pane.candles = whole THEN NoCursor ELSE Oldest(pane.candles)
  <2>1. b # NoCursor => Edge(w, b)
    BY <1>4, OpeningsAreEdges DEF Opens
  <2>2. k \in Nat \ {0} /\ k = ClampPageLimit(k)
    BY PagesAssumption DEF ClampPageLimit
  <2>3. QED
    BY <1>4, <1>9, <1>10, <1>11, <2>1, <2>2, PageIs
<1>13. ASSUME pane.candles # {}, NEW m \in 1 .. MaxPrimeBars
       PROVE  Prime(S, w, Oldest(pane.candles), m)
                = NewestBars({c \in all : c.ts < Oldest(pane.candles)}, m)
  <2>1. pane.candles \in SUBSET all
    BY <1>11, <1>12 DEF NewestBars, Between
  <2>2. Oldest(pane.candles) \in Opens(S, w)
    BY <1>4, <1>10, <1>13, <2>1, OldestIsABucket
  <2>3. QED
    BY <1>4, <1>10, <2>2, PrimeIs
<1>14. QED
  BY <1>1, <1>3, <1>5, <1>6, <1>7, <1>8, <1>9, <1>10, <1>11, <1>12, <1>13 DEF Between

(* Whatever bars are stored, pages are whole, say truly whether there is    *)
(* more, join where they end, and prime an indicator with the bars right    *)
(* before them (page.go and prime.go).                                      *)
THEOREM PagesAreWhole == Spec => []PagesJoin
<1>1. QED
  BY StoredInvariant, PagesHold, PTL

-----------------------------------------------------------------------------
(* The bars of a set in the order of their stamps.                          *)

ChartBar == [ts : Nat, rows : SUBSET Nat]
Distinct(C) == \A c, d \in C : c.ts = d.ts => c = d

LEMMA BucketPlaces ==
  ASSUME NEW C \in SUBSET ChartBar, IsFiniteSet(C), Distinct(C)
  PROVE  LET below(c) == Cardinality({d \in C : d.ts < c.ts})
         IN  /\ Cardinality(C) \in Nat
             /\ \A c \in C : below(c) \in 0 .. (Cardinality(C) - 1)
             /\ \A c, d \in C : c.ts < d.ts => below(c) < below(d)
             /\ \A k \in 0 .. (Cardinality(C) - 1) : \E c \in C : below(c) = k
<1> DEFINE lower(c) == {d \in C : d.ts < c.ts}
           below(c) == Cardinality(lower(c))
           size == Cardinality(C)
<1>1. size \in Nat
  BY FS_CardinalityType
<1>0. \A c \in C : c.ts \in Nat
  BY DEF ChartBar
<1>2. ASSUME NEW c \in C
      PROVE  IsFiniteSet(lower(c)) /\ below(c) \in Nat /\ below(c) \in 0 .. (size - 1)
  <2>1. \A d \in lower(c) : d \in C \ {c}
    BY <1>0
  <2>2. IsFiniteSet(C \ {c}) /\ Cardinality(C \ {c}) = size - 1
    BY FS_RemoveElement
  <2>3. IsFiniteSet(lower(c)) /\ below(c) <= size - 1
    BY <2>1, <2>2, FS_Subset
  <2>4. QED
    BY <1>1, <2>3, FS_CardinalityType
<1>3. ASSUME NEW c \in C, NEW d \in C, c.ts < d.ts PROVE below(c) < below(d)
  <2>1. \A e \in lower(c) : e \in lower(d) \ {c}
    BY <1>0, <1>3
  <2>2. c \in lower(d)
    BY <1>3
  <2>3. /\ IsFiniteSet(lower(d) \ {c})
        /\ Cardinality(lower(d) \ {c}) = below(d) - 1
    BY <1>2, <2>2, FS_RemoveElement
  <2>4. below(c) <= Cardinality(lower(d) \ {c})
    BY <2>1, <2>3, FS_Subset
  <2>5. below(c) \in Nat /\ below(d) \in Nat
    BY <1>2
  <2>6. QED
    BY <2>3, <2>4, <2>5
<1> HIDE DEF below
<1>4. ASSUME NEW c \in C, NEW d \in C, c # d PROVE below(c) # below(d)
  <2>1. c.ts # d.ts /\ c.ts \in Nat /\ d.ts \in Nat
    BY <1>0, <1>4 DEF Distinct
  <2>2. c.ts < d.ts \/ d.ts < c.ts
    BY <2>1
  <2>3. below(c) \in Nat /\ below(d) \in Nat
    BY <1>2
  <2>4. QED
    BY <1>3, <2>2, <2>3
<1>5. ASSUME NEW k \in 0 .. (size - 1), \A c \in C : below(c) # k PROVE FALSE
  <2> DEFINE number == [c \in C |-> below(c)]
             others == (0 .. (size - 1)) \ {k}
  <2>1. number \in [C -> others]
    BY <1>2, <1>5
  <2>2. IsFiniteSet(others) /\ Cardinality(others) = size - 1
    <3>1. IsFiniteSet(0 .. (size - 1)) /\ Cardinality(0 .. (size - 1)) = size
      BY <1>1, FromZero
    <3>2. QED
      BY <3>1, FS_RemoveElement
  <2>3. \A c, d \in C : c # d => number[c] # number[d]
    BY <1>4
  <2> HIDE DEF number, others
  <2>4. Cardinality(others) < Cardinality(C)
    BY <1>1, <2>2
  <2>5. \E c, d \in C : c # d /\ number[c] = number[d]
    BY <2>1, <2>2, <2>4, FS_PigeonHole
  <2>6. QED
    BY <2>3, <2>5
<1>6. QED
  BY <1>1, <1>2, <1>3, <1>5 DEF below

Sorted(s) == \A i, j \in 1 .. Len(s) : i < j => s[i].ts < s[j].ts

LEMMA InOrderSorts ==
  ASSUME NEW C \in SUBSET ChartBar, IsFiniteSet(C), Distinct(C),
         NEW s, s = InOrder(C)
  PROVE  /\ s \in Seq(ChartBar) /\ Sorted(s)
         /\ \A i \in 1 .. Len(s) : s[i] \in C
         /\ \A c \in C : \E i \in 1 .. Len(s) : s[i] = c
<1> DEFINE below(c) == Cardinality({d \in C : d.ts < c.ts})
           size == Cardinality(C)
<1>1. /\ size \in Nat
      /\ \A c \in C : below(c) \in 0 .. (size - 1)
      /\ \A c, d \in C : c.ts < d.ts => below(c) < below(d)
      /\ \A k \in 0 .. (size - 1) : \E c \in C : below(c) = k
  BY BucketPlaces
<1>2. s = [i \in 1 .. size |-> CHOOSE c \in C : below(c) = i - 1]
  BY DEF InOrder
<1> HIDE DEF below, size
<1>3. ASSUME NEW i \in 1 .. size PROVE s[i] \in C /\ below(s[i]) = i - 1
  <2>1. i - 1 \in 0 .. (size - 1)
    BY <1>1
  <2>2. \E c \in C : below(c) = i - 1
    BY <1>1, <2>1
  <2>3. QED
    BY <1>2, <2>2
<1>4. s \in Seq(ChartBar) /\ Len(s) = size
  <2>1. s \in [1 .. size -> ChartBar]
    BY <1>2, <1>3
  <2>2. QED
    BY <1>1, <2>1
<1>5. ASSUME NEW i \in 1 .. size, NEW j \in 1 .. size, i < j PROVE s[i].ts < s[j].ts
  <2>1. PICK c \in C : c = s[i] /\ below(c) = i - 1
    BY <1>3
  <2>2. PICK d \in C : d = s[j] /\ below(d) = j - 1
    BY <1>3
  <2>3. c.ts \in Nat /\ d.ts \in Nat
    BY DEF ChartBar
  <2>4. c.ts # d.ts
    <3>1. c # d
      BY <1>1, <1>5, <2>1, <2>2
    <3>2. QED
      BY <3>1 DEF Distinct
  <2>5. ~ (d.ts < c.ts)
    <3> SUFFICES ASSUME d.ts < c.ts PROVE FALSE
      OBVIOUS
    <3>1. below(d) < below(c)
      BY <1>1
    <3>2. QED
      BY <1>1, <1>5, <2>1, <2>2, <3>1
  <2>6. QED
    BY <2>1, <2>2, <2>3, <2>4, <2>5
<1>6. ASSUME NEW c \in C PROVE \E i \in 1 .. size : s[i] = c
  <2>1. PICK k : k = below(c) /\ k \in 0 .. (size - 1)
    BY <1>1
  <2>2. k + 1 \in 1 .. size /\ k \in Nat
    BY <1>1, <2>1
  <2>3. PICK d \in C : d = s[k + 1] /\ below(d) = k
    BY <1>3, <2>2
  <2>4. c.ts \in Nat /\ d.ts \in Nat
    BY DEF ChartBar
  <2>5. ~ (c.ts < d.ts) /\ ~ (d.ts < c.ts)
    BY <1>1, <2>1, <2>2, <2>3
  <2>6. c = d
    BY <2>4, <2>5 DEF Distinct
  <2>7. QED
    BY <2>2, <2>3, <2>6
<1>7. QED
  BY <1>3, <1>4, <1>5, <1>6 DEF Sorted

-----------------------------------------------------------------------------
(* What a sequence of bars shows of a view.                                 *)

(* Bars and settlements, those of now and those there were all along.       *)
Kept == [stock : SUBSET Nat, quotes : SUBSET Quotes]

HonestBar(all, old, v, bar) ==
  /\ v = Future => bar.ts \div SessionLength \in UsedDays(all.quotes)
  /\ v # Future => /\ bar.rows \subseteq Bucket(all.stock, v, bar.ts)
                   /\ Bucket(old.stock, v, bar.ts) \subseteq bar.rows

Stamps(old, v) == IF v = Future THEN {day * SessionLength : day \in UsedDays(old.quotes)}
                  ELSE Opens(old.stock, v)

(* Where a page of a view may end: no bucket lies on both sides.            *)
IsPlace(v, ts) == IF v = Future THEN \E day \in Nat : ts = day * SessionLength
                  ELSE Edge(v, ts)

(* Shows: the bars before a place are honest, each once and in order, and   *)
(* none is missing down to the cursor, which is the oldest of them; without *)
(* a cursor none is missing at all.                                         *)
Shows(all, old, v, before, s, c) ==
  /\ s \in Seq(ChartBar) /\ Sorted(s)
  /\ \A i \in 1 .. Len(s) : /\ HonestBar(all, old, v, s[i])
                            /\ before # NoCursor => s[i].ts < before
  /\ \A ts \in Stamps(old, v) :
        (before = NoCursor \/ ts < before) /\ (c = NoCursor \/ c <= ts)
          => \E i \in 1 .. Len(s) : s[i].ts = ts
  /\ c # NoCursor => /\ c \in Nat /\ IsPlace(v, c)
                     /\ \E i \in 1 .. Len(s) : s[i].ts = c
                     /\ \A i \in 1 .. Len(s) : c <= s[i].ts

LEMMA UsedDaysGrow ==
  ASSUME NEW q, NEW r, q \subseteq r
  PROVE  UsedDays(q) \subseteq UsedDays(r)
<1> SUFFICES ASSUME NEW day \in UsedDays(q) PROVE day \in UsedDays(r)
  OBVIOUS
<1>1. Candidates(q, day) \subseteq Candidates(r, day)
  BY DEF Candidates, QuotedOn
<1>2. QED
  BY <1>1 DEF UsedDays

LEMMA ShowsStill ==
  ASSUME NEW all, NEW more, NEW old, NEW v, NEW before, NEW s, NEW c,
         Shows(all, old, v, before, s, c),
         all.stock \subseteq more.stock, all.quotes \subseteq more.quotes
  PROVE  Shows(more, old, v, before, s, c)
<1>1. UsedDays(all.quotes) \subseteq UsedDays(more.quotes)
  BY UsedDaysGrow
<1>2. \A ts : Bucket(all.stock, v, ts) \subseteq Bucket(more.stock, v, ts)
  BY DEF Bucket
<1>3. \A bar : HonestBar(all, old, v, bar) => HonestBar(more, old, v, bar)
  BY <1>1, <1>2 DEF HonestBar
<1>4. QED
  BY <1>3 DEF Shows

(* Bars put in order show what they are.                                    *)
LEMMA OrderedShow ==
  ASSUME NEW all, NEW old, NEW v, NEW before, NEW c,
         NEW C \in SUBSET ChartBar, IsFiniteSet(C), Distinct(C),
         \A bar \in C : HonestBar(all, old, v, bar) /\ (before # NoCursor => bar.ts < before),
         \A ts \in Stamps(old, v) :
            (before = NoCursor \/ ts < before) /\ (c = NoCursor \/ c <= ts)
              => \E bar \in C : bar.ts = ts,
         c # NoCursor => /\ c \in Nat /\ IsPlace(v, c)
                         /\ \E bar \in C : bar.ts = c
                         /\ \A bar \in C : c <= bar.ts
  PROVE  Shows(all, old, v, before, InOrder(C), c)
<1>1. PICK s : s = InOrder(C)
  OBVIOUS
<1>2. /\ s \in Seq(ChartBar) /\ Sorted(s)
      /\ \A i \in 1 .. Len(s) : s[i] \in C
      /\ \A bar \in C : \E i \in 1 .. Len(s) : s[i] = bar
  BY <1>1, InOrderSorts
<1>3. \A ts : (\E bar \in C : bar.ts = ts) => \E i \in 1 .. Len(s) : s[i].ts = ts
  BY <1>2
<1>4. Shows(all, old, v, before, s, c)
  BY <1>2, <1>3 DEF Shows
<1>5. QED
  BY <1>1, <1>4

LEMMA BarsOfSequence ==
  ASSUME NEW s \in Seq(ChartBar), Sorted(s)
  PROVE  /\ ToSet(s) \in SUBSET ChartBar /\ IsFiniteSet(ToSet(s)) /\ Distinct(ToSet(s))
         /\ \A bar \in ToSet(s) : \E i \in 1 .. Len(s) : s[i] = bar
         /\ \A i \in 1 .. Len(s) : s[i] \in ToSet(s)
<1>1. Len(s) \in Nat /\ DOMAIN s = 1 .. Len(s) /\ \A i \in 1 .. Len(s) : s[i] \in ChartBar
  OBVIOUS
<1>2. /\ \A bar \in ToSet(s) : \E i \in 1 .. Len(s) : s[i] = bar
      /\ \A i \in 1 .. Len(s) : s[i] \in ToSet(s)
  BY <1>1 DEF ToSet
<1>3. IsFiniteSet(ToSet(s))
  <2> DEFINE at == [i \in 1 .. Len(s) |-> s[i]]
  <2>1. at \in [1 .. Len(s) -> ToSet(s)] /\ \A bar \in ToSet(s) : \E i \in 1 .. Len(s) : at[i] = bar
    BY <1>2
  <2> HIDE DEF at
  <2>2. at \in Surjection(1 .. Len(s), ToSet(s))
    BY <2>1 DEF Surjection
  <2>3. IsFiniteSet(1 .. Len(s))
    BY <1>1, FS_Interval
  <2>4. QED
    BY <2>2, <2>3, FS_Surjection
<1>4. Distinct(ToSet(s))
  <2> SUFFICES ASSUME NEW b \in ToSet(s), NEW d \in ToSet(s), b.ts = d.ts PROVE b = d
    BY DEF Distinct
  <2>1. PICK i \in 1 .. Len(s) : s[i] = b
    BY <1>2
  <2>2. PICK j \in 1 .. Len(s) : s[j] = d
    BY <1>2
  <2>3. b.ts \in Nat /\ d.ts \in Nat
    BY <1>1, <2>1, <2>2 DEF ChartBar
  <2>4. ~ (i < j) /\ ~ (j < i)
    BY <2>1, <2>2, <2>3 DEF Sorted
  <2>5. i = j
    BY <1>1, <2>4
  <2>6. QED
    BY <2>1, <2>2, <2>5
<1>5. QED
  BY <1>1, <1>2, <1>3, <1>4

(* An older page that ends where the bars on screen begin is put in front.  *)
LEMMA JoinShows ==
  ASSUME NEW all, NEW old, NEW v, NEW s, NEW c, NEW t, NEW e,
         Shows(all, old, v, NoCursor, s, c), c # NoCursor,
         Shows(all, old, v, c, t, e), Stamps(old, v) \in SUBSET Nat, NEW older,
         older = {bar \in ToSet(t) : bar.ts \notin {b.ts : b \in ToSet(s)}}
  PROVE  Shows(all, old, v, NoCursor, InOrder(older) \o s, e)
<1>1. /\ s \in Seq(ChartBar) /\ Sorted(s) /\ c \in Nat
      /\ \A i \in 1 .. Len(s) : HonestBar(all, old, v, s[i]) /\ c <= s[i].ts
      /\ \A ts \in Stamps(old, v) : c <= ts => \E i \in 1 .. Len(s) : s[i].ts = ts
  BY DEF Shows
<1>2. /\ t \in Seq(ChartBar) /\ Sorted(t)
      /\ \A i \in 1 .. Len(t) : HonestBar(all, old, v, t[i]) /\ t[i].ts < c
      /\ \A ts \in Stamps(old, v) :
            ts < c /\ (e = NoCursor \/ e <= ts) => \E i \in 1 .. Len(t) : t[i].ts = ts
      /\ e # NoCursor => /\ e \in Nat /\ IsPlace(v, e)
                         /\ \E i \in 1 .. Len(t) : t[i].ts = e
                         /\ \A i \in 1 .. Len(t) : e <= t[i].ts
  BY DEF Shows
<1>3. /\ ToSet(t) \in SUBSET ChartBar /\ IsFiniteSet(ToSet(t)) /\ Distinct(ToSet(t))
      /\ \A bar \in ToSet(t) : \E i \in 1 .. Len(t) : t[i] = bar
      /\ \A i \in 1 .. Len(t) : t[i] \in ToSet(t)
  BY <1>2, BarsOfSequence
<1>4. \A bar \in ToSet(s) : \E i \in 1 .. Len(s) : s[i] = bar
  BY <1>1, BarsOfSequence
<1>5. older = ToSet(t)
  <2>1. ASSUME NEW bar \in ToSet(t), NEW b \in ToSet(s) PROVE bar.ts # b.ts
    <3>1. bar.ts < c /\ bar.ts \in Nat
      BY <1>2, <1>3 DEF ChartBar
    <3>2. c <= b.ts /\ b.ts \in Nat
      <4>1. PICK i \in 1 .. Len(s) : s[i] = b
        BY <1>4
      <4>2. s[i] \in ChartBar
        BY <1>1
      <4>3. QED
        BY <1>1, <4>1, <4>2 DEF ChartBar
    <3>3. QED
      BY <1>1, <3>1, <3>2
  <2>2. QED
    BY <2>1
<1>6. PICK u : u = InOrder(older)
  OBVIOUS
<1>7. /\ u \in Seq(ChartBar) /\ Sorted(u)
      /\ \A i \in 1 .. Len(u) : u[i] \in ToSet(t)
      /\ \A bar \in ToSet(t) : \E i \in 1 .. Len(u) : u[i] = bar
  BY <1>3, <1>5, <1>6, InOrderSorts
<1>8. ASSUME NEW i \in 1 .. Len(u)
      PROVE  u[i].ts \in Nat /\ u[i].ts < c /\ HonestBar(all, old, v, u[i])
  <2>1. PICK j \in 1 .. Len(t) : t[j] = u[i]
    BY <1>3, <1>7
  <2>2. u[i] \in ChartBar
    BY <1>7
  <2>3. QED
    BY <1>2, <2>1, <2>2 DEF ChartBar
<1>9. \A ts : (\E i \in 1 .. Len(t) : t[i].ts = ts) => \E i \in 1 .. Len(u) : u[i].ts = ts
  BY <1>3, <1>7
<1>10. PICK n \in Nat : n = Len(u)
  BY <1>7
<1>11. PICK m \in Nat : m = Len(s)
  BY <1>1
<1>12. PICK w : w = u \o s
  OBVIOUS
<1>13. /\ w \in Seq(ChartBar) /\ Len(w) = n + m
       /\ \A i \in 1 .. n : w[i] = u[i]
       /\ \A i \in 1 .. m : w[n + i] = s[i]
  BY <1>1, <1>7, <1>10, <1>11, <1>12
<1>14. ASSUME NEW i \in 1 .. (n + m)
       PROVE  (i \in 1 .. n /\ w[i] = u[i]) \/ (\E k \in 1 .. m : i = n + k /\ w[i] = s[k])
  <2>1. CASE i <= n
    BY <1>13, <2>1
  <2>2. CASE i > n
    <3>1. i - n \in 1 .. m /\ i = n + (i - n)
      BY <2>2
    <3>2. w[n + (i - n)] = s[i - n]
      BY <1>13, <3>1
    <3>3. QED
      BY <3>1, <3>2
  <2>3. QED
    BY <2>1, <2>2
<1>15. \A i \in 1 .. m : s[i] \in ChartBar /\ s[i].ts \in Nat
  <2>1. \A i \in 1 .. m : s[i] \in ChartBar
    BY <1>1, <1>11
  <2>2. QED
    BY <2>1 DEF ChartBar
<1>16. Sorted(w)
  <2> SUFFICES ASSUME NEW i \in 1 .. (n + m), NEW j \in 1 .. (n + m), i < j
               PROVE  w[i].ts < w[j].ts
    BY <1>13 DEF Sorted
  <2>1. CASE i \in 1 .. n /\ w[i] = u[i] /\ j \in 1 .. n /\ w[j] = u[j]
    BY <1>7, <1>10, <2>1 DEF Sorted
  <2>2. CASE i \in 1 .. n /\ w[i] = u[i] /\ \E k \in 1 .. m : j = n + k /\ w[j] = s[k]
    <3>1. PICK k \in 1 .. m : j = n + k /\ w[j] = s[k]
      BY <2>2
    <3>2. u[i].ts \in Nat /\ u[i].ts < c /\ c <= s[k].ts /\ s[k].ts \in Nat
      BY <1>1, <1>8, <1>10, <1>11, <1>15, <2>2
    <3>3. QED
      BY <1>1, <2>2, <3>1, <3>2
  <2>3. CASE \E k \in 1 .. m : i = n + k /\ w[i] = s[k]
    <3>1. PICK k \in 1 .. m : i = n + k /\ w[i] = s[k]
      BY <2>3
    <3>2. PICK l \in 1 .. m : j = n + l /\ w[j] = s[l]
      <4>1. ~ (j \in 1 .. n)
        BY <3>1
      <4>2. QED
        BY <1>14, <4>1
    <3>3. k < l
      BY <3>1, <3>2
    <3>4. QED
      BY <1>1, <1>11, <3>1, <3>2, <3>3 DEF Sorted
  <2>4. QED
    BY <1>14, <2>1, <2>2, <2>3
<1>17. \A i \in 1 .. (n + m) : HonestBar(all, old, v, w[i])
  BY <1>1, <1>8, <1>10, <1>11, <1>14
<1>18. \A i \in 1 .. n : i \in 1 .. (n + m)
  OBVIOUS
<1>19. \A i \in 1 .. m : n + i \in 1 .. (n + m)
  OBVIOUS
<1>20. \A ts : (\E i \in 1 .. Len(u) : u[i].ts = ts) \/ (\E i \in 1 .. Len(s) : s[i].ts = ts)
                 => \E i \in 1 .. (n + m) : w[i].ts = ts
  BY <1>10, <1>11, <1>13, <1>18, <1>19
<1>21. ASSUME NEW ts \in Stamps(old, v), e = NoCursor \/ e <= ts
       PROVE  \E i \in 1 .. (n + m) : w[i].ts = ts
  <2>1. c <= ts \/ ts < c
    BY <1>1
  <2>2. CASE c <= ts
    BY <1>1, <1>20, <2>2
  <2>3. CASE ts < c
    BY <1>2, <1>9, <1>20, <1>21, <2>3
  <2>4. QED
    BY <2>1, <2>2, <2>3
<1>22. ASSUME e # NoCursor
       PROVE  /\ e \in Nat /\ IsPlace(v, e)
              /\ \E i \in 1 .. (n + m) : w[i].ts = e
              /\ \A i \in 1 .. (n + m) : e <= w[i].ts
  <2>1. /\ e \in Nat /\ IsPlace(v, e)
        /\ \E i \in 1 .. (n + m) : w[i].ts = e
    BY <1>2, <1>9, <1>20, <1>22
  <2>2. e < c
    BY <1>2, <1>22
  <2>3. ASSUME NEW i \in 1 .. (n + m) PROVE e <= w[i].ts
    <3>1. CASE i \in 1 .. n /\ w[i] = u[i]
      <4>1. PICK j \in 1 .. Len(t) : t[j] = u[i]
        BY <1>3, <1>7, <1>10, <3>1
      <4>2. QED
        BY <1>2, <1>22, <3>1, <4>1
    <3>2. CASE \E k \in 1 .. m : i = n + k /\ w[i] = s[k]
      <4>1. PICK k \in 1 .. m : w[i] = s[k]
        BY <3>2
      <4>2. c <= s[k].ts /\ s[k].ts \in Nat
        BY <1>1, <1>11, <1>15
      <4>3. QED
        BY <1>1, <2>1, <2>2, <4>1, <4>2
    <3>3. QED
      BY <1>14, <3>1, <3>2
  <2>4. QED
    BY <2>1, <2>3
<1>23. Shows(all, old, v, NoCursor, w, e)
  BY <1>13, <1>16, <1>17, <1>21, <1>22 DEF Shows
<1>24. QED
  BY <1>6, <1>12, <1>23

-----------------------------------------------------------------------------
(* What a body shows.                                                       *)

LEMMA BarsAreFinite ==
  ASSUME NEW S \in SUBSET Nat, NEW width, NEW T \in SUBSET Nat, IsFiniteSet(T)
  PROVE  /\ Bars(S, width, T) \in SUBSET ChartBar
         /\ IsFiniteSet(Bars(S, width, T)) /\ Distinct(Bars(S, width, T))
<1> DEFINE bar == [o \in T |-> [ts |-> o, rows |-> Bucket(S, width, o)]]
<1>1. \A b \in Bars(S, width, T) : \E o \in T : bar[o] = b
  BY DEF Bars
<1>2. bar \in [T -> Bars(S, width, T)]
  BY DEF Bars
<1>3. \A o \in T : Bucket(S, width, o) \in SUBSET Nat
  BY DEF Bucket
<1>4. Bars(S, width, T) \in SUBSET ChartBar
  BY <1>3 DEF Bars, ChartBar
<1>5. Distinct(Bars(S, width, T))
  BY DEF Distinct, Bars
<1> HIDE DEF bar
<1>6. bar \in Surjection(T, Bars(S, width, T))
  BY <1>1, <1>2 DEF Surjection
<1>7. IsFiniteSet(Bars(S, width, T))
  BY <1>6, FS_Surjection
<1>8. QED
  BY <1>4, <1>5, <1>7

(* A page of the stock: the newest of the bars before its end.              *)
LEMMA StockBody ==
  ASSUME NEW all \in Kept, NEW old \in Kept, old.stock \subseteq all.stock,
         NEW day \in Nat, NEW tip, tip = day * SessionLength + Elapsed,
         all.stock \subseteq 0 .. (tip - 1),
         NEW v \in Nat \ {0}, NEW before,
         before # NoCursor => before \in Nat /\ Edge(v, before),
         NEW limit \in Nat \ {0},
         NEW pane, pane = Page(all.stock, v, 0, day, before, limit)
  PROVE  Shows(all, old, v, before, InOrder(pane.candles), pane.cursor)
<1>1. PICK S : S = all.stock
  OBVIOUS
<1>2. S \in SUBSET Nat /\ old.stock \subseteq S /\ v # Future
  BY <1>1, ChartsAssumption DEF Kept
<1>3. tip \in Nat /\ tip <= (day + 1) * SessionLength
  <2>1. SessionLength \in Nat /\ Elapsed \in 0 .. SessionLength
    BY PagesAssumption, ChartsAssumption
  <2>2. PICK a \in Nat : a = day * SessionLength
    BY <2>1
  <2>3. (day + 1) * SessionLength = a + SessionLength
    BY <2>1, <2>2
  <2>4. QED
    BY <2>1, <2>2, <2>3
<1>4. S \subseteq 0 .. (tip - 1)
  BY <1>1
<1>5. IsFiniteSet(S)
  <2>1. IsFiniteSet(0 .. (tip - 1))
    BY <1>3, FromZero
  <2>2. QED
    BY <1>4, <2>1, FS_Subset
<1>6. PICK opens : opens = Opens(S, v)
  OBVIOUS
<1>7. opens \in SUBSET Nat /\ IsFiniteSet(opens)
  BY <1>2, <1>5, <1>6, OpensAreNatural
<1>8. \A o \in opens : o < tip
  <2> SUFFICES ASSUME NEW r \in S PROVE BucketOpen(v, r) < tip
    BY <1>6 DEF Opens
  <2>1. PICK o \in Nat : o = BucketOpen(v, r) /\ o <= r
    BY <1>2, BucketHolds
  <2>2. r \in Nat /\ r < tip
    BY <1>2, <1>3, <1>4
  <2>3. QED
    BY <2>1, <2>2
<1>9. PICK end : end = PageEnd(0, day, before)
  OBVIOUS
<1>10. PICK k : k = ClampPageLimit(limit)
  OBVIOUS
<1>11. PICK whole : whole = Between(Resample(S, v), 0 * SessionLength, end)
  OBVIOUS
<1>12. /\ k \in Nat \ {0} /\ pane.candles = NewestBars(whole, k)
       /\ pane.cursor = IF pane.candles = whole THEN NoCursor ELSE Oldest(pane.candles)
       /\ pane.candles # whole => pane.cursor \in Nat
  BY <1>1, <1>2, <1>5, <1>9, <1>10, <1>11, PageIs
<1>13. ASSUME NEW o \in opens PROVE (o < end) <=> (before = NoCursor \/ o < before)
  <2>1. o \in Nat /\ o < tip /\ o < (day + 1) * SessionLength
    <3>1. PICK last \in Nat : last = (day + 1) * SessionLength
      BY PagesAssumption
    <3>2. QED
      BY <1>3, <1>7, <1>8, <3>1
  <2>2. CASE before = NoCursor
    BY <1>9, <2>1, <2>2 DEF PageEnd, DayBounds
  <2>3. CASE before # NoCursor
    <3>1. PICK last \in Nat : last = (day + 1) * SessionLength
      BY PagesAssumption
    <3>2. end = IF before < last THEN before ELSE last
      BY <1>9, <2>3, <3>1 DEF PageEnd, DayBounds
    <3>3. QED
      BY <2>1, <2>3, <3>1, <3>2
  <2>4. QED
    BY <2>2, <2>3
<1>14. PICK T : T = {o \in opens : o < end}
  OBVIOUS
<1>15. whole = Bars(S, v, T)
  <2>1. Resample(S, v) = Bars(S, v, opens)
    BY <1>6, ResampleIsBars
  <2>2. \A c : (c \in Bars(S, v, opens) /\ c.ts \in T) <=> c \in Bars(S, v, opens \cap T)
    BY SomeBars
  <2>3. opens \cap T = T
    BY <1>14
  <2>4. ASSUME NEW c \in Resample(S, v)
        PROVE  c.ts \in T <=> 0 * SessionLength <= c.ts /\ c.ts < end
    <3>1. c.ts \in opens
      BY <2>1, StampsOfBars
    <3>2. c.ts \in Nat
      BY <1>7, <3>1
    <3>3. 0 * SessionLength = 0
      BY PagesAssumption
    <3>4. 0 * SessionLength <= c.ts
      BY <3>2, <3>3
    <3>5. QED
      BY <1>14, <3>1, <3>4
  <2>5. \A c : c \in whole <=> c \in Bars(S, v, T)
    BY <1>11, <2>1, <2>2, <2>3, <2>4 DEF Between
  <2>6. \A c \in Bars(S, v, T) : c \in whole
    BY <2>5
  <2>7. QED
    BY <2>5, <2>6
<1>16. T \in SUBSET Nat /\ IsFiniteSet(T)
  BY <1>7, <1>14, FS_Subset
<1>17. PICK N : N = Newest(T, k)
  OBVIOUS
<1>18. N \in SUBSET T /\ N \in SUBSET Nat /\ IsFiniteSet(N)
  BY <1>12, <1>16, <1>17, NewestCounts
<1>19. PICK C : C = Bars(S, v, N)
  OBVIOUS
<1>20. pane.candles = C
  BY <1>12, <1>15, <1>17, <1>19, NewestOfBars
<1>21. C \in SUBSET ChartBar /\ IsFiniteSet(C) /\ Distinct(C)
  BY <1>2, <1>18, <1>19, BarsAreFinite
<1>22. \A ts : ts \in N <=> \E bar \in C : bar.ts = ts
  <2>1. {c.ts : c \in C} = N
    BY <1>19, StampsOfBars
  <2>2. QED
    BY <2>1
<1>23. ASSUME NEW bar \in C
       PROVE  HonestBar(all, old, v, bar) /\ (before # NoCursor => bar.ts < before)
  <2>1. PICK o \in N : bar = [ts |-> o, rows |-> Bucket(S, v, o)]
    BY <1>19 DEF Bars
  <2>2. bar.ts = o /\ bar.rows = Bucket(S, v, o)
    BY <2>1
  <2>3. Bucket(old.stock, v, o) \subseteq Bucket(S, v, o)
    BY <1>2 DEF Bucket
  <2>4. o \in opens /\ o < end
    BY <1>14, <1>18
  <2>5. QED
    BY <1>1, <1>2, <1>13, <2>2, <2>3, <2>4 DEF HonestBar
<1>24. ASSUME pane.cursor # NoCursor
       PROVE  /\ pane.cursor \in N /\ \A o \in N : pane.cursor <= o
              /\ IsPlace(v, pane.cursor)
  <2>1. pane.candles # whole /\ pane.cursor = Oldest(C)
    BY <1>12, <1>20, <1>24
  <2>2. T # {}
    <3>1. whole # {}
      BY <1>12, <2>1 DEF NewestBars
    <3>2. QED
      BY <1>15, <3>1 DEF Bars
  <2>3. N # {}
    BY <1>12, <1>16, <1>17, <2>2, NewestNotEmpty
  <2>4. Oldest(C) = Min(N)
    BY <1>19, OldestOfBars
  <2>5. Min(N) \in N /\ \A o \in N : Min(N) <= o
    BY <1>18, <2>3, LeastNatural
  <2>6. PICK r \in S : Min(N) = BucketOpen(v, r)
    BY <1>6, <1>14, <1>18, <2>5 DEF Opens
  <2>7. Edge(v, BucketOpen(v, r))
    BY <1>2, OpeningsAreEdges
  <2>8. QED
    BY <1>2, <2>1, <2>4, <2>5, <2>6, <2>7 DEF IsPlace
<1>25. ASSUME NEW ts \in Stamps(old, v), before = NoCursor \/ ts < before,
              pane.cursor = NoCursor \/ pane.cursor <= ts
       PROVE  ts \in N
  <2>1. ts \in opens
    BY <1>2, <1>6 DEF Stamps, Opens
  <2>2. ts \in T
    BY <1>13, <1>14, <1>25, <2>1
  <2>3. CASE pane.cursor = NoCursor
    <3>1. pane.candles = whole
      BY <1>12, <2>3 DEF NoCursor
    <3>2. {c.ts : c \in Bars(S, v, T)} = T /\ {c.ts : c \in Bars(S, v, N)} = N
      BY StampsOfBars
    <3>3. QED
      BY <1>15, <1>19, <1>20, <2>2, <3>1, <3>2
  <2>4. CASE pane.cursor # NoCursor
    <3>1. pane.cursor \in Newest(T, k) /\ pane.cursor <= ts
      BY <1>17, <1>24, <1>25, <2>4
    <3>2. QED
      BY <1>12, <1>16, <1>17, <2>2, <3>1, NewestIsTop
  <2>5. QED
    BY <2>3, <2>4
<1>26. Shows(all, old, v, before, InOrder(C), pane.cursor)
  <2>1. \A ts \in Stamps(old, v) :
           (before = NoCursor \/ ts < before) /\ (pane.cursor = NoCursor \/ pane.cursor <= ts)
             => \E bar \in C : bar.ts = ts
    BY <1>22, <1>25
  <2>2. pane.cursor # NoCursor => /\ pane.cursor \in Nat /\ IsPlace(v, pane.cursor)
                                  /\ \E bar \in C : bar.ts = pane.cursor
                                  /\ \A bar \in C : pane.cursor <= bar.ts
    BY <1>18, <1>22, <1>24
  <2>3. PICK c : c = pane.cursor
    OBVIOUS
  <2>4. QED
    BY <1>21, <1>23, <2>1, <2>2, <2>3, OrderedShow
<1>27. QED
  BY <1>20, <1>26

LEMMA OpeningOfDay ==
  ASSUME NEW d \in Nat
  PROVE  /\ d * SessionLength \in Nat /\ (d * SessionLength) \div SessionLength = d
         /\ \A e \in Nat : d < e <=> d * SessionLength < e * SessionLength
<1>1. SessionLength \in Nat \ {0}
  BY PagesAssumption
<1>2. PICK a \in Nat : a = d * SessionLength
  BY <1>1
<1>3. a \div SessionLength = d
  BY <1>1, <1>2, DivisionUnique
<1>4. ASSUME NEW e \in Nat PROVE d < e <=> a < e * SessionLength
  <2>1. PICK b \in Nat : b = e * SessionLength
    BY <1>1
  <2>2. CASE d < e
    <3>1. d * SessionLength + SessionLength <= e * SessionLength
      BY <1>1, <2>2, NextMultiple
    <3>2. QED
      BY <1>1, <1>2, <2>1, <2>2, <3>1
  <2>3. CASE e < d
    <3>1. e * SessionLength + SessionLength <= d * SessionLength
      BY <1>1, <2>3, NextMultiple
    <3>2. QED
      BY <1>1, <1>2, <2>1, <2>3, <3>1
  <2>4. CASE e = d
    BY <1>2, <2>4
  <2>5. QED
    BY <2>2, <2>3, <2>4
<1>5. QED
  BY <1>2, <1>3, <1>4

DayBar(d) == [ts |-> d * SessionLength, rows |-> {d * SessionLength}]
DayBars(days) == {DayBar(d) : d \in days}

LEMMA DayBarsAreFinite ==
  ASSUME NEW days \in SUBSET Nat, IsFiniteSet(days)
  PROVE  /\ DayBars(days) \in SUBSET ChartBar
         /\ IsFiniteSet(DayBars(days)) /\ Distinct(DayBars(days))
<1> DEFINE bar == [d \in days |-> DayBar(d)]
<1>1. \A b \in DayBars(days) : \E d \in days : bar[d] = b
  BY DEF DayBars
<1>2. bar \in [days -> DayBars(days)]
  BY DEF DayBars
<1>3. \A d \in days : d * SessionLength \in Nat
  BY OpeningOfDay
<1>4. \A d \in days : DayBar(d) \in ChartBar
  BY <1>3 DEF DayBar, ChartBar
<1>5. DayBars(days) \in SUBSET ChartBar
  BY <1>4 DEF DayBars
<1>6. Distinct(DayBars(days))
  BY DEF Distinct, DayBars, DayBar
<1> HIDE DEF bar
<1>7. bar \in Surjection(days, DayBars(days))
  BY <1>1, <1>2 DEF Surjection
<1>8. IsFiniteSet(DayBars(days))
  BY <1>7, FS_Surjection
<1>9. QED
  BY <1>5, <1>6, <1>8

(* A page of the future: the newest of the days before its end.             *)
LEMMA FutureBody ==
  ASSUME NEW all \in Kept, NEW old \in Kept, old.quotes \subseteq all.quotes,
         NEW last \in 0 .. LastDay, \A q \in all.quotes : q.day \in 0 .. last,
         NEW before, before # NoCursor => \E d \in Nat : before = d * SessionLength,
         NEW upTo, upTo = IF before = NoCursor THEN last + 1 ELSE before \div SessionLength,
         NEW limit \in Nat \ {0},
         NEW pane, pane = PageContinuous(all.quotes, 0, last, upTo, limit),
         NEW c, c = IF pane.hasMore THEN Min(pane.days) * SessionLength ELSE NoCursor
  PROVE  Shows(all, old, Future, before, InOrder(DayBars(pane.days)), c)
<1>1. PICK q \in SUBSET Quotes : q = all.quotes
  BY DEF Kept
<1>2. last \in Nat /\ LastDay \in Nat
  BY ChartsAssumption
<1>3. InWindow(q, 0, last) = q
  <2>1. \A x \in q : 0 <= x.day /\ x.day <= last
    BY <1>1, <1>2
  <2>2. QED
    BY <2>1 DEF InWindow
<1>4. PICK used : used = UsedDays(q)
  OBVIOUS
<1>5. \A d \in used : d \in 0 .. last
  BY <1>1, <1>4 DEF UsedDays
<1>6. IsFiniteSet(used) /\ used \in SUBSET Nat
  <2>1. last + 1 \in Nat /\ (last + 1) - 1 = last
    BY <1>2
  <2>2. IsFiniteSet(0 .. last)
    BY <2>1, FromZero
  <2>3. used \in SUBSET (0 .. last)
    BY <1>5
  <2>4. IsFiniteSet(used)
    BY <2>2, <2>3, FS_Subset
  <2>5. QED
    BY <1>5, <2>4
<1>7. PICK days : days = {d \in used : d < upTo}
  OBVIOUS
<1>8. days \in SUBSET Nat /\ IsFiniteSet(days)
  BY <1>6, <1>7, FS_Subset
<1>9. PICK N : N = Newest(days, limit)
  OBVIOUS
<1>10. N \in SUBSET days /\ N \in SUBSET Nat /\ IsFiniteSet(N)
  BY <1>8, <1>9, NewestCounts
<1>11. pane.days = N /\ (pane.hasMore <=> N # days)
  <2>1. DOMAIN LoadContinuous(q, 0, last) = used
    BY <1>3, <1>4 DEF LoadContinuous
  <2>2. QED
    BY <1>1, <1>7, <1>9, <2>1 DEF PageContinuous, Newest
<1>12. ASSUME NEW d \in used
       PROVE  /\ d \in Nat /\ d * SessionLength \in Nat
              /\ (d * SessionLength) \div SessionLength = d
              /\ d < upTo <=> (before = NoCursor \/ d * SessionLength < before)
  <2>1. d \in Nat /\ d <= last
    BY <1>5
  <2>2. d * SessionLength \in Nat /\ (d * SessionLength) \div SessionLength = d
    BY <2>1, OpeningOfDay
  <2>3. d < upTo <=> (before = NoCursor \/ d * SessionLength < before)
    <3>1. CASE before = NoCursor
      <4>1. upTo = last + 1
        BY <3>1
      <4>2. QED
        BY <1>2, <2>1, <3>1, <4>1
    <3>2. CASE before # NoCursor
      <4>1. PICK e \in Nat : before = e * SessionLength
        BY <3>2
      <4>2. upTo = e
        BY <3>2, <4>1, OpeningOfDay
      <4>3. d < e <=> d * SessionLength < e * SessionLength
        BY <2>1, OpeningOfDay
      <4>4. QED
        BY <3>2, <4>1, <4>2, <4>3
    <3>3. QED
      BY <3>1, <3>2
  <2>4. QED
    BY <2>1, <2>2, <2>3
<1>13. PICK C : C = DayBars(N)
  OBVIOUS
<1>14. C \in SUBSET ChartBar /\ IsFiniteSet(C) /\ Distinct(C)
  BY <1>10, <1>13, DayBarsAreFinite
<1>15. ASSUME NEW bar \in C
       PROVE  \E d \in N : bar.ts = d * SessionLength
  BY <1>13 DEF DayBars, DayBar
<1>16. ASSUME NEW d \in N
       PROVE  \E bar \in C : bar.ts = d * SessionLength
  <2>1. DayBar(d) \in C /\ DayBar(d).ts = d * SessionLength
    BY <1>13 DEF DayBars, DayBar
  <2>2. QED
    BY <2>1
<1>17. ASSUME NEW bar \in C
       PROVE  HonestBar(all, old, Future, bar) /\ (before # NoCursor => bar.ts < before)
  <2>1. PICK d \in N : bar.ts = d * SessionLength
    BY <1>15
  <2>2. d \in used /\ d < upTo
    BY <1>7, <1>10
  <2>3. bar.ts \div SessionLength = d /\ (before # NoCursor => bar.ts < before)
    BY <1>12, <2>1, <2>2
  <2>4. HonestBar(all, old, Future, bar)
    BY <1>1, <1>4, <2>2, <2>3 DEF HonestBar
  <2>5. QED
    BY <2>3, <2>4
<1>18. ASSUME c # NoCursor
       PROVE  \E d \in N : c = d * SessionLength /\ \A e \in N : d <= e
  <2>1. N # days /\ c = Min(N) * SessionLength
    BY <1>11, <1>18
  <2>2. days # {}
    BY <1>10, <2>1
  <2>3. N # {}
    BY <1>8, <1>9, <2>2, NewestNotEmpty
  <2>4. QED
    BY <1>10, <2>1, <2>3, LeastNatural
<1>19. ASSUME c # NoCursor
       PROVE  /\ c \in Nat /\ IsPlace(Future, c)
              /\ \E bar \in C : bar.ts = c
              /\ \A bar \in C : c <= bar.ts
  <2>1. PICK d \in N : c = d * SessionLength /\ \A e \in N : d <= e
    BY <1>18, <1>19
  <2>2. c \in Nat /\ IsPlace(Future, c) /\ d \in Nat
    BY <1>10, <2>1, OpeningOfDay DEF IsPlace
  <2>3. ASSUME NEW bar \in C PROVE c <= bar.ts
    <3>1. PICK e \in N : bar.ts = e * SessionLength
      BY <1>15
    <3>2. e \in Nat /\ ~ (e < d) /\ e * SessionLength \in Nat
      BY <1>10, <2>1, <2>2, OpeningOfDay
    <3>3. ~ (e * SessionLength < d * SessionLength)
      BY <2>2, <3>2, OpeningOfDay
    <3>4. QED
      BY <2>1, <2>2, <3>1, <3>2, <3>3
  <2>4. QED
    BY <1>16, <2>1, <2>2, <2>3
<1>20. ASSUME NEW ts \in Stamps(old, Future), before = NoCursor \/ ts < before,
              c = NoCursor \/ c <= ts
       PROVE  \E bar \in C : bar.ts = ts
  <2>1. PICK d \in UsedDays(old.quotes) : ts = d * SessionLength
    BY DEF Stamps
  <2>2. d \in used
    BY <1>1, <1>4, UsedDaysGrow
  <2>3. d \in days /\ d \in Nat
    BY <1>7, <1>12, <1>20, <2>1, <2>2
  <2>4. d \in N
    <3>1. CASE c = NoCursor
      <4>1. N = days
        <5> SUFFICES ASSUME N # days PROVE FALSE
          OBVIOUS
        <5>1. pane.hasMore /\ days # {}
          BY <1>10, <1>11
        <5>2. N # {}
          BY <1>8, <1>9, <5>1, NewestNotEmpty
        <5>3. c = Min(N) * SessionLength /\ Min(N) \in Nat
          BY <1>10, <1>11, <5>1, <5>2, LeastNatural
        <5>4. c \in Nat
          BY <5>3, OpeningOfDay
        <5>5. QED
          BY <3>1, <5>4 DEF NoCursor
      <4>2. QED
        BY <2>3, <4>1
    <3>2. CASE c # NoCursor
      <4>1. PICK e \in N : c = e * SessionLength
        BY <1>18, <3>2
      <4>2. e * SessionLength <= d * SessionLength /\ e \in Nat
        BY <1>10, <1>20, <2>1, <3>2, <4>1
      <4>3. e * SessionLength \in Nat /\ d * SessionLength \in Nat
        BY <2>3, <4>2, OpeningOfDay
      <4>4. ~ (d * SessionLength < e * SessionLength)
        BY <4>2, <4>3
      <4>5. ~ (d < e)
        BY <2>3, <4>2, <4>4, OpeningOfDay
      <4>6. e <= d /\ e \in Newest(days, limit)
        BY <1>9, <2>3, <4>2, <4>5
      <4>7. QED
        BY <1>8, <1>9, <2>3, <4>6, NewestIsTop
    <3>3. QED
      BY <3>1, <3>2
  <2>5. QED
    BY <1>16, <2>1, <2>4
<1>21. Shows(all, old, Future, before, InOrder(C), c)
  <2>1. \A ts \in Stamps(old, Future) :
           (before = NoCursor \/ ts < before) /\ (c = NoCursor \/ c <= ts)
             => \E bar \in C : bar.ts = ts
    BY <1>20
  <2>2. QED
    BY <1>14, <1>17, <1>19, <2>1, OrderedShow
<1>22. QED
  BY <1>11, <1>13, <1>21

-----------------------------------------------------------------------------
(* The chart.                                                               *)

All == [stock |-> stock, quotes |-> quotes]
Old == [stock |-> stock0, quotes |-> quotes0]

(* A page somebody may ask for.                                             *)
Askable(url) ==
  /\ url.view \in Views /\ url.limit \in Nat \ {0}
  /\ url.before # NoCursor => url.before \in Nat /\ IsPlace(url.view, url.before)

(* FirstStays: nothing that was stored is lost again.                       *)
FirstStays == stock0 \subseteq stock /\ quotes0 \subseteq quotes

(* CachesShow: what the browser kept still shows what it showed.            *)
CachesShow ==
  \A entry \in cache :
     /\ Askable(entry.url)
     /\ Shows(All, Old, entry.url.view, entry.url.before, entry.body.bars, entry.body.cursor)

(* RequestsFit: the one answer the chart still waits for continues what is  *)
(* on screen.                                                               *)
RequestsFit ==
  /\ generation \in Nat
  /\ \A request \in requests :
        /\ Askable(request.url) /\ request.generation \in Nat
        /\ request.generation <= generation
        /\ request.generation = generation =>
              /\ loading /\ request.url.view = view
              /\ request.url.before = IF request.kind = "page" THEN NoCursor ELSE cursor
              /\ request.kind # "page" => cursor # NoCursor
  /\ \A request, other \in requests :
        request.generation = generation /\ other.generation = generation => request = other

(* ScreenShows: what is on screen is the view that is selected.             *)
ScreenShows ==
  /\ view \in Views \cup {NoView}
  /\ bars = <<>> => cursor = NoCursor
  /\ bars # <<>> => view \in Views /\ Shows(All, Old, view, NoCursor, bars, cursor)

ScreenInv == FirstStays /\ CachesShow /\ RequestsFit /\ ScreenShows

LEMMA HeldIs ==
  ASSUME StoredInv, FirstStays
  PROVE  /\ All \in Kept /\ Old \in Kept
         /\ Old.stock \subseteq All.stock /\ Old.quotes \subseteq All.quotes
<1>1. PICK day \in Nat : day = today
  BY ChartsAssumption DEF StoredInv
<1>2. PICK n \in Nat : n = Now
  BY <1>1, NowIsLater DEF Now
<1>3. ASSUME NEW s \in stock PROVE s \in Nat
  BY <1>2 DEF StoredInv
<1>4. ASSUME NEW q \in quotes PROVE q \in Quotes
  <2>1. q \in [contract : known, day : 0 .. today] /\ known \subseteq Contracts
    BY DEF StoredInv
  <2>2. 0 .. today \subseteq 0 .. LastDay
    BY ChartsAssumption DEF StoredInv
  <2>3. [contract : known, day : 0 .. today] \subseteq Quotes
    BY <2>1, <2>2 DEF Quotes
  <2>4. QED
    BY <2>1, <2>3
<1>5. QED
  BY <1>3, <1>4 DEF Kept, All, Old, FirstStays

LEMMA StampsAreNatural ==
  ASSUME NEW old \in Kept, NEW v \in Views
  PROVE  Stamps(old, v) \in SUBSET Nat
<1>1. CASE v = Future
  <2>1. \A day \in UsedDays(old.quotes) : day \in Nat
    BY DEF UsedDays, Kept, Quotes
  <2>2. QED
    BY <1>1, <2>1, OpeningOfDay DEF Stamps
<1>2. CASE v # Future
  <2>1. v \in Nat \ {0} /\ old.stock \in SUBSET Nat
    BY <1>2, ChartsAssumption DEF Views, Kept
  <2>2. \A s \in old.stock : BucketOpen(v, s) \in Nat
    BY <2>1, BucketHolds
  <2>3. QED
    BY <1>2, <2>2 DEF Stamps, Opens
<1>3. QED
  BY <1>1, <1>2

(* The handler's answer.                                                    *)
LEMMA BodyShows ==
  ASSUME StoredInv, FirstStays, NEW all, all = All, NEW old, old = Old,
         NEW url, Askable(url),
         NEW body, body = CandlesBody(url.view, url.before, url.limit)
  PROVE  Shows(all, old, url.view, url.before, body.bars, body.cursor)
<1>1. /\ all \in Kept /\ old \in Kept
      /\ old.stock \subseteq all.stock /\ old.quotes \subseteq all.quotes
      /\ all.stock = stock /\ all.quotes = quotes
  BY HeldIs DEF All
<1>2. PICK day \in 0 .. LastDay : day = today
  BY DEF StoredInv
<1>3. day \in Nat
  BY ChartsAssumption
<1>4. PICK n \in Nat : n = Now /\ n = day * SessionLength + Elapsed
  BY <1>2, <1>3, NowIsLater DEF Now
<1>5. PICK before : before = url.before
  OBVIOUS
<1>6. PICK limit \in Nat \ {0} : limit = url.limit
  BY DEF Askable
<1>7. CASE url.view = Future
  <2>1. PICK upTo : upTo = IF before = NoCursor THEN day + 1 ELSE before \div SessionLength
    OBVIOUS
  <2>2. PICK pane : pane = PageContinuous(all.quotes, 0, day, upTo, limit)
    OBVIOUS
  <2>3. PICK c : c = IF pane.hasMore THEN Min(pane.days) * SessionLength ELSE NoCursor
    OBVIOUS
  <2>4. body.bars = InOrder(DayBars(pane.days)) /\ body.cursor = c
    BY <1>1, <1>2, <1>5, <1>6, <1>7, <2>1, <2>2, <2>3 DEF CandlesBody, DayBars, DayBar
  <2>5. before # NoCursor => \E d \in Nat : before = d * SessionLength
    BY <1>5, <1>7 DEF Askable, IsPlace
  <2>6. \A q \in all.quotes : q.day \in 0 .. day
    BY <1>1, <1>2 DEF StoredInv
  <2>7. Shows(all, old, Future, before, InOrder(DayBars(pane.days)), c)
    BY <1>1, <2>1, <2>2, <2>3, <2>5, <2>6, FutureBody
  <2>8. QED
    BY <1>5, <1>7, <2>4, <2>7
<1>8. CASE url.view # Future
  <2>1. PICK v \in Nat \ {0} : v = url.view
    BY <1>8, ChartsAssumption DEF Askable, Views
  <2>2. PICK pane : pane = Page(all.stock, v, 0, day, before, limit)
    OBVIOUS
  <2>3. body.bars = InOrder(pane.candles) /\ body.cursor = pane.cursor
    BY <1>1, <1>2, <1>5, <1>6, <1>8, <2>1, <2>2 DEF CandlesBody
  <2>4. before # NoCursor => before \in Nat /\ Edge(v, before)
    BY <1>5, <1>8, <2>1 DEF Askable, IsPlace
  <2>5. all.stock \subseteq 0 .. (n - 1)
    BY <1>1, <1>4 DEF StoredInv
  <2>6. Shows(all, old, v, before, InOrder(pane.candles), pane.cursor)
    BY <1>1, <1>3, <1>4, <2>2, <2>4, <2>5, StockBody
  <2>7. QED
    BY <1>5, <2>1, <2>3, <2>6
<1>9. QED
  BY <1>7, <1>8

LEMMA ScreenInit == StoredInv /\ Init => ScreenInv
<1> SUFFICES ASSUME StoredInv, Init PROVE ScreenInv
  OBVIOUS
<1>1. FirstStays
  BY DEF Init, FirstStays
<1>2. CachesShow /\ RequestsFit
  BY DEF Init, CachesShow, RequestsFit
<1>3. ScreenShows
  BY DEF Init, ScreenShows
<1>4. QED
  BY <1>1, <1>2, <1>3 DEF ScreenInv

(* What arrives in the tables disturbs nothing the chart or the browser     *)
(* has.                                                                     *)
LEMMA StorageKeepsScreen ==
  ASSUME ScreenInv, stock \subseteq stock', quotes \subseteq quotes',
         UNCHANGED <<stock0, quotes0, view, bars, cursor, generation, loading, requests>>,
         cache' \subseteq cache
  PROVE  ScreenInv'
<1>1. FirstStays'
  BY DEF ScreenInv, FirstStays
<1>2. PICK all : all = All
  OBVIOUS
<1>3. PICK more : more = All'
  OBVIOUS
<1>4. PICK old : old = Old /\ old = Old'
  BY DEF Old
<1>5. all.stock \subseteq more.stock /\ all.quotes \subseteq more.quotes
  BY <1>2, <1>3 DEF All
<1>6. ASSUME NEW v, NEW before, NEW s, NEW c, Shows(all, old, v, before, s, c)
      PROVE  Shows(more, old, v, before, s, c)
  BY <1>5, <1>6, ShowsStill
<1>7. CachesShow'
  <2> SUFFICES ASSUME NEW entry \in cache'
               PROVE  /\ Askable(entry.url)
                      /\ Shows(more, old, entry.url.view, entry.url.before,
                               entry.body.bars, entry.body.cursor)
    BY <1>3, <1>4 DEF CachesShow
  <2>1. /\ Askable(entry.url)
        /\ Shows(all, old, entry.url.view, entry.url.before, entry.body.bars, entry.body.cursor)
    BY <1>2, <1>4 DEF ScreenInv, CachesShow
  <2>2. QED
    BY <1>6, <2>1
<1>8. RequestsFit'
  BY DEF ScreenInv, RequestsFit
<1>9. ScreenShows'
  <2>1. bars # <<>> => Shows(more, old, view, NoCursor, bars, cursor)
    <3> SUFFICES ASSUME bars # <<>> PROVE Shows(more, old, view, NoCursor, bars, cursor)
      OBVIOUS
    <3>1. PICK v, s, c : v = view /\ s = bars /\ c = cursor
      OBVIOUS
    <3>2. Shows(all, old, v, NoCursor, s, c)
      BY <1>2, <1>4, <3>1 DEF ScreenInv, ScreenShows
    <3>3. QED
      BY <1>6, <3>1, <3>2
  <2>2. QED
    BY <1>3, <1>4, <2>1 DEF ScreenInv, ScreenShows
<1>10. QED
  BY <1>1, <1>7, <1>8, <1>9 DEF ScreenInv

(* A new request is of a new generation, or asked when none is under way.   *)
LEMMA AskedFits ==
  ASSUME RequestsFit, NEW request, request.generation = generation',
         requests' = requests \cup {request}, Askable(request.url),
         loading', request.url.view = view',
         request.url.before = IF request.kind = "page" THEN NoCursor ELSE cursor',
         request.kind # "page" => cursor' # NoCursor,
         generation' = generation + 1 \/ (generation' = generation /\ ~ loading)
  PROVE  RequestsFit'
<1>1. generation \in Nat /\ generation' \in Nat /\ generation <= generation'
  BY DEF RequestsFit
<1>2. ASSUME NEW r \in requests
      PROVE  /\ Askable(r.url) /\ r.generation \in Nat /\ r.generation <= generation'
             /\ r.generation # generation'
  <2>1. /\ Askable(r.url) /\ r.generation \in Nat /\ r.generation <= generation
        /\ r.generation = generation => loading
    BY DEF RequestsFit
  <2>2. QED
    BY <1>1, <2>1
<1>3. QED
  BY <1>1, <1>2 DEF RequestsFit

LEMMA AskKeepsScreen ==
  ASSUME ScreenInv, UNCHANGED <<stock, quotes, stock0, quotes0, cache>>
  PROVE  /\ FirstStays' /\ CachesShow' /\ All' = All /\ Old' = Old
<1>1. All' = All /\ Old' = Old
  BY DEF All, Old
<1>2. QED
  BY <1>1 DEF ScreenInv, FirstStays, CachesShow

LEMMA ReloadFits ==
  ASSUME ScreenInv, UNCHANGED <<stock, quotes, stock0, quotes0, cache>>,
         NEW v \in Views, Reload(v)
  PROVE  ScreenInv'
<1>1. FirstStays' /\ CachesShow'
  BY AskKeepsScreen
<1>2. PICK request : request = [generation |-> generation', kind |-> "page",
                                url |-> [view |-> v, before |-> NoCursor, limit |-> PageLimit]]
  OBVIOUS
<1>3. /\ generation' = generation + 1 /\ view' = v /\ bars' = <<>> /\ cursor' = NoCursor
      /\ loading' = TRUE /\ requests' = requests \cup {request}
  BY <1>2 DEF Reload, Ask
<1>4. request.generation = generation' /\ request.kind = "page"
  BY <1>2
<1>5. request.url.view = v /\ request.url.before = NoCursor /\ request.url.limit = PageLimit
  BY <1>2
<1>6. Askable(request.url)
  BY <1>5, ChartsAssumption DEF Askable
<1>7. RequestsFit'
  BY <1>3, <1>4, <1>5, <1>6, AskedFits DEF ScreenInv
<1>8. ScreenShows'
  BY <1>3 DEF ScreenShows
<1>9. QED
  BY <1>1, <1>7, <1>8 DEF ScreenInv

LEMMA RefreshFits ==
  ASSUME ScreenInv, Refresh
  PROVE  ScreenInv'
<1>1. UNCHANGED <<stock, quotes, stock0, quotes0, cache>> /\ view \in Views
  BY DEF ScreenInv, ScreenShows, Refresh, stored, first
<1>2. CASE bars = <<>>
  <2>1. PICK v \in Views : v = view
    BY <1>1
  <2>2. Reload(v)
    BY <1>2, <2>1 DEF Refresh
  <2>3. QED
    BY <1>1, <2>2, ReloadFits
<1>3. CASE bars # <<>>
  <2>1. FirstStays' /\ CachesShow' /\ All' = All /\ Old' = Old
    BY <1>1, AskKeepsScreen
  <2>2. PICK limit : limit = Min({Len(bars), MaxPageLimit})
    OBVIOUS
  <2>3. limit \in Nat \ {0}
    <3>1. PICK s : s = bars
      OBVIOUS
    <3>2. s \in Seq(ChartBar) /\ s # <<>>
      BY <1>3, <3>1 DEF ScreenInv, ScreenShows, Shows
    <3>3. PICK n \in Nat \ {0} : n = Len(s)
      BY <3>2
    <3>4. {n, MaxPageLimit} \in SUBSET Nat /\ {n, MaxPageLimit} # {}
      BY PagesAssumption
    <3>5. Min({n, MaxPageLimit}) \in {n, MaxPageLimit}
      BY <3>4, LeastNatural
    <3>6. QED
      BY <2>2, <3>1, <3>3, <3>5, PagesAssumption
  <2>4. PICK request : request = [generation |-> generation', kind |-> "page",
                                  url |-> [view |-> view, before |-> NoCursor, limit |-> limit]]
    OBVIOUS
  <2>5. /\ generation' = generation + 1 /\ loading' = TRUE
        /\ requests' = requests \cup {request} /\ UNCHANGED <<view, bars, cursor>>
    BY <1>3, <2>2, <2>4 DEF Refresh, Ask
  <2>6. request.generation = generation' /\ request.kind = "page"
    BY <2>4
  <2>7. request.url.view = view /\ request.url.before = NoCursor /\ request.url.limit = limit
    BY <2>4
  <2>8. Askable(request.url)
    BY <1>1, <2>3, <2>7 DEF Askable
  <2>9. RequestsFit'
    BY <2>5, <2>6, <2>7, <2>8, AskedFits DEF ScreenInv
  <2>10. ScreenShows'
    BY <2>1, <2>5 DEF ScreenInv, ScreenShows
  <2>11. QED
    BY <2>1, <2>9, <2>10 DEF ScreenInv
<1>4. QED
  BY <1>2, <1>3

LEMMA LoadOlderFits ==
  ASSUME ScreenInv, LoadOlder
  PROVE  ScreenInv'
<1>1. /\ UNCHANGED <<stock, quotes, stock0, quotes0, cache, view, bars, cursor, generation>>
      /\ ~ loading /\ cursor # NoCursor /\ loading' = TRUE
  BY DEF LoadOlder, stored, first
<1>2. FirstStays' /\ CachesShow' /\ All' = All /\ Old' = Old
  BY <1>1, AskKeepsScreen
<1>3. PICK request : request = [generation |-> generation', kind |-> "older",
                                url |-> [view |-> view, before |-> cursor, limit |-> PageLimit]]
  OBVIOUS
<1>4. requests' = requests \cup {request}
  BY <1>3 DEF LoadOlder, Ask
<1>5. request.generation = generation' /\ request.kind # "page"
  BY <1>3
<1>6. request.url.view = view /\ request.url.before = cursor /\ request.url.limit = PageLimit
  BY <1>3
<1>7. view \in Views /\ cursor \in Nat /\ IsPlace(view, cursor)
  BY <1>1 DEF ScreenInv, ScreenShows, Shows
<1>8. Askable(request.url)
  BY <1>6, <1>7, ChartsAssumption DEF Askable
<1>9. RequestsFit'
  BY <1>1, <1>4, <1>5, <1>6, <1>8, AskedFits DEF ScreenInv
<1>10. ScreenShows'
  BY <1>1, <1>2 DEF ScreenInv, ScreenShows
<1>11. QED
  BY <1>2, <1>9, <1>10 DEF ScreenInv

LEMMA FailFits ==
  ASSUME ScreenInv, Fail
  PROVE  ScreenInv'
<1>1. PICK request \in requests :
        /\ requests' = requests \ {request}
        /\ loading' = (loading /\ request.generation # generation)
        /\ UNCHANGED <<stored, first, view, bars, cursor, generation, cache>>
  BY DEF Fail
<1>2. UNCHANGED <<stock, quotes, stock0, quotes0, cache, view, bars, cursor, generation>>
  BY <1>1 DEF stored, first
<1>3. FirstStays' /\ CachesShow' /\ All' = All /\ Old' = Old
  BY <1>2, AskKeepsScreen
<1>4. ASSUME NEW r \in requests' PROVE r.generation = generation => loading'
  <2>1. r \in requests /\ r # request
    BY <1>1
  <2>2. r.generation = generation => loading /\ request.generation # generation
    BY <2>1 DEF ScreenInv, RequestsFit
  <2>3. QED
    BY <1>1, <2>2
<1>5. RequestsFit'
  BY <1>1, <1>2, <1>4 DEF ScreenInv, RequestsFit
<1>6. ScreenShows'
  BY <1>2, <1>3 DEF ScreenInv, ScreenShows
<1>7. QED
  BY <1>3, <1>5, <1>6 DEF ScreenInv

(* An answer that is still wanted replaces what is on screen or is joined   *)
(* to it.                                                                   *)
LEMMA DeliverFits ==
  ASSUME StoredInv, ScreenInv, UNCHANGED <<stock, quotes, stock0, quotes0>>,
         NEW request \in requests, requests' = requests \ {request},
         NEW body, Shows(All, Old, request.url.view, request.url.before, body.bars, body.cursor),
         Deliver(request, body)
  PROVE  RequestsFit' /\ ScreenShows' /\ FirstStays'
<1>1. All' = All /\ Old' = Old /\ FirstStays'
  BY DEF All, Old, ScreenInv, FirstStays
<1>2. CASE request.generation # generation
  <2>1. UNCHANGED <<view, bars, cursor, generation, loading>>
    BY <1>2 DEF Deliver, screen
  <2>2. QED
    BY <1>1, <2>1 DEF ScreenInv, RequestsFit, ScreenShows
<1>3. CASE request.generation = generation
  <2>1. /\ UNCHANGED <<view, generation>>
        /\ IF request.kind = "page" THEN Replace(body) ELSE Prepend(body)
    BY <1>3 DEF Deliver
  <2>2. /\ request.url.view = view /\ view \in Views
        /\ request.url.before = IF request.kind = "page" THEN NoCursor ELSE cursor
        /\ request.kind # "page" => cursor # NoCursor
    BY <1>3 DEF ScreenInv, RequestsFit, Askable
  <2>3. RequestsFit'
    <3>1. \A r \in requests' : r \in requests /\ r.generation # generation
      BY <1>3 DEF ScreenInv, RequestsFit
    <3>2. QED
      BY <2>1, <3>1 DEF ScreenInv, RequestsFit
  <2>4. PICK all : all = All
    OBVIOUS
  <2>5. PICK old : old = Old
    OBVIOUS
  <2>6. Shows(all, old, view, NoCursor, bars', cursor')
    <3>1. CASE request.kind = "page"
      BY <2>1, <2>2, <2>4, <2>5, <3>1 DEF Replace
    <3>2. CASE request.kind # "page"
      <4>1. PICK v, s, c : v = view /\ s = bars /\ c = cursor
        OBVIOUS
      <4>2. Shows(all, old, v, NoCursor, s, c) /\ c # NoCursor
        BY <2>2, <2>4, <2>5, <3>2, <4>1 DEF ScreenInv, ScreenShows
      <4>3. PICK t, e : t = body.bars /\ e = body.cursor
        OBVIOUS
      <4>4. Shows(all, old, v, c, t, e)
        BY <2>2, <2>4, <2>5, <3>2, <4>1, <4>3
      <4>5. Stamps(old, v) \in SUBSET Nat
        <5>1. old \in Kept /\ v \in Views
          BY <2>2, <2>5, <4>1, HeldIs DEF ScreenInv
        <5>2. QED
          BY <5>1, StampsAreNatural
      <4>6. PICK older : older = {bar \in ToSet(t) : bar.ts \notin {b.ts : b \in ToSet(s)}}
        OBVIOUS
      <4>7. bars' = InOrder(older) \o s /\ cursor' = e
        BY <2>1, <3>2, <4>1, <4>3, <4>6 DEF Prepend
      <4>8. Shows(all, old, v, NoCursor, InOrder(older) \o s, e)
        BY <4>2, <4>4, <4>5, <4>6, JoinShows
      <4>9. QED
        BY <4>1, <4>7, <4>8
    <3>3. QED
      BY <3>1, <3>2
  <2>7. bars' = <<>> => cursor' = NoCursor
    <3> SUFFICES ASSUME bars' = <<>>, cursor' # NoCursor PROVE FALSE
      OBVIOUS
    <3>1. PICK s, c : s = bars' /\ c = cursor'
      OBVIOUS
    <3>2. \E i \in 1 .. Len(s) : s[i].ts = c
      BY <2>6, <3>1 DEF Shows
    <3>3. s = <<>>
      BY <3>1
    <3>4. QED
      BY <3>2, <3>3
  <2>8. ScreenShows'
    BY <1>1, <2>1, <2>2, <2>4, <2>5, <2>6, <2>7 DEF ScreenShows
  <2>9. QED
    BY <1>1, <2>3, <2>8
<1>4. QED
  BY <1>2, <1>3

LEMMA AnswerFits ==
  ASSUME StoredInv, ScreenInv, Answer
  PROVE  ScreenInv'
<1>1. PICK request \in requests :
        /\ requests' = requests \ {request}
        /\ \/ \E body \in {CandlesBody(request.url.view, request.url.before, request.url.limit)} :
                 /\ Deliver(request, body)
                 /\ cache' = {e \in cache : e.url # request.url}
                       \cup {e \in {[url |-> request.url, body |-> body, day |-> today]} : body.closed}
           \/ \E entry \in cache :
                 /\ entry.url = request.url /\ Deliver(request, entry.body)
                 /\ UNCHANGED cache
        /\ UNCHANGED <<stored, first>>
  BY DEF Answer
<1>2. UNCHANGED <<stock, quotes, stock0, quotes0>> /\ All' = All /\ Old' = Old
  BY <1>1 DEF stored, first, All, Old
<1>3. Askable(request.url)
  BY DEF ScreenInv, RequestsFit
<1>4. ASSUME NEW body,
             body = CandlesBody(request.url.view, request.url.before, request.url.limit),
             Deliver(request, body),
             cache' = {e \in cache : e.url # request.url}
                \cup {e \in {[url |-> request.url, body |-> body, day |-> today]} : body.closed}
      PROVE  ScreenInv'
  <2>1. Shows(All, Old, request.url.view, request.url.before, body.bars, body.cursor)
    <3>1. PICK all : all = All
      OBVIOUS
    <3>2. PICK old : old = Old
      OBVIOUS
    <3>3. PICK url : url = request.url
      OBVIOUS
    <3>4. Shows(all, old, url.view, url.before, body.bars, body.cursor)
      BY <1>3, <1>4, <3>1, <3>2, <3>3, BodyShows DEF ScreenInv
    <3>5. QED
      BY <3>1, <3>2, <3>3, <3>4
  <2>2. RequestsFit' /\ ScreenShows' /\ FirstStays'
    BY <1>1, <1>2, <1>4, <2>1, DeliverFits
  <2>3. CachesShow'
    <3> SUFFICES ASSUME NEW e \in cache'
                 PROVE  /\ Askable(e.url)
                        /\ Shows(All, Old, e.url.view, e.url.before, e.body.bars, e.body.cursor)
      BY <1>2 DEF CachesShow
    <3>1. CASE e \in cache
      BY <3>1 DEF ScreenInv, CachesShow
    <3>2. CASE e \notin cache
      <4>1. e = [url |-> request.url, body |-> body, day |-> today]
        BY <1>4, <3>2
      <4>2. e.url = request.url /\ e.body = body
        BY <4>1
      <4>3. QED
        BY <1>3, <2>1, <4>2
    <3>3. QED
      BY <3>1, <3>2
  <2>4. QED
    BY <2>2, <2>3 DEF ScreenInv
<1>5. ASSUME NEW entry \in cache, entry.url = request.url, Deliver(request, entry.body),
             UNCHANGED cache
      PROVE  ScreenInv'
  <2>1. Shows(All, Old, request.url.view, request.url.before, entry.body.bars, entry.body.cursor)
    BY <1>5 DEF ScreenInv, CachesShow
  <2>2. PICK body : body = entry.body
    OBVIOUS
  <2>3. Shows(All, Old, request.url.view, request.url.before, body.bars, body.cursor)
    BY <2>1, <2>2
  <2>4. Deliver(request, body)
    BY <1>5, <2>2
  <2>5. RequestsFit' /\ ScreenShows' /\ FirstStays'
    BY <1>1, <1>2, <2>3, <2>4, DeliverFits
  <2>6. CachesShow'
    BY <1>2, <1>5 DEF ScreenInv, CachesShow
  <2>7. QED
    BY <2>5, <2>6 DEF ScreenInv
<1>6. QED
  BY <1>1, <1>4, <1>5

LEMMA ScreenStep == StoredInv /\ ScreenInv /\ [Next]_vars => ScreenInv'
<1> SUFFICES ASSUME StoredInv, ScreenInv, [Next]_vars PROVE ScreenInv'
  OBVIOUS
<1>1. CASE CandlesStored
  <2>1. stock \subseteq stock' /\ UNCHANGED <<known, quotes, today, first, screen, requests, cache>>
    BY <1>1 DEF CandlesStored
  <2>2. QED
    BY <2>1, StorageKeepsScreen DEF first, screen
<1>2. CASE IngestContract
  <2>1. quotes \subseteq quotes' /\ UNCHANGED <<stock, today, first, screen, requests, cache>>
    BY <1>2 DEF IngestContract
  <2>2. QED
    BY <2>1, StorageKeepsScreen DEF first, screen
<1>3. CASE StoreTermContract
  <2>1. quotes \subseteq quotes' /\ UNCHANGED <<stock, today, first, screen, requests, cache>>
    BY <1>3 DEF StoreTermContract
  <2>2. QED
    BY <2>1, StorageKeepsScreen DEF first, screen
<1>4. CASE NewDay
  <2>1. cache' \subseteq cache /\ UNCHANGED <<stock, known, quotes, arrivals, first, screen, requests>>
    BY <1>4 DEF NewDay
  <2>2. QED
    BY <2>1, StorageKeepsScreen DEF first, screen
<1>5. ASSUME NEW v \in Views, Select(v) PROVE ScreenInv'
  <2>1. UNCHANGED <<stock, quotes, stock0, quotes0, cache>> /\ Reload(v)
    BY <1>5 DEF Select, stored, first
  <2>2. QED
    BY <2>1, ReloadFits
<1>6. CASE UNCHANGED vars
  <2>1. UNCHANGED <<stock, quotes, first, screen, requests, cache>>
    BY <1>6 DEF vars, stored
  <2>2. QED
    BY <2>1, StorageKeepsScreen DEF first, screen
<1>7. QED
  BY <1>1, <1>2, <1>3, <1>4, <1>5, <1>6, RefreshFits, LoadOlderFits, AnswerFits, FailFits DEF Next

(* Whatever the browser kept and whatever is still under way fits what is on*)
(* screen, and that is the view that is selected (Chart.svelte, cache.go).  *)
THEOREM ScreenInvariant == Spec => []ScreenInv
<1>1. Init /\ [][Next]_vars /\ []StoredInv => []ScreenInv
  BY ScreenInit, ScreenStep, PTL
<1>2. QED
  BY <1>1, StoredInvariant, PTL DEF Spec

LEMMA ShownIsOneSeries == StoredInv /\ ScreenInv => OneSeriesOnScreen
<1> SUFFICES ASSUME StoredInv, ScreenInv, bars # <<>>
             PROVE  /\ \A i \in 1 .. (Len(bars) - 1) : bars[i].ts < bars[i + 1].ts
                    /\ \A i \in DOMAIN bars :
                         /\ view = Future => bars[i].ts \div SessionLength \in UsedDays(quotes)
                         /\ view # Future =>
                              LET bucket(S) == {s \in S : BucketOpen(view, s) = bars[i].ts}
                              IN  /\ bars[i].rows \subseteq bucket(stock)
                                  /\ bucket(stock0) \subseteq bars[i].rows
                    /\ {ts \in StampsOf(view) : ts >= bars[1].ts /\ ts <= Last(bars).ts}
                         \subseteq {bar.ts : bar \in ToSet(bars)}
                    /\ cursor = NoCursor => \A ts \in StampsOf(view) : ts >= bars[1].ts
  BY DEF OneSeriesOnScreen
<1>1. PICK s, c : s = bars /\ c = cursor
  OBVIOUS
<1>2. /\ All.stock = stock /\ All.quotes = quotes
      /\ Old.stock = stock0 /\ Old.quotes = quotes0
  BY DEF All, Old
<1>3. PICK all, old : all = All /\ old = Old
  OBVIOUS
<1>4. PICK v : v = view
  OBVIOUS
<1>5. Shows(all, old, v, NoCursor, s, c) /\ v \in Views
  BY <1>1, <1>3, <1>4 DEF ScreenInv, ScreenShows
<1>6. /\ s \in Seq(ChartBar) /\ Sorted(s) /\ s # <<>>
      /\ \A i \in 1 .. Len(s) : HonestBar(all, old, v, s[i])
      /\ \A ts \in Stamps(old, v) :
            c = NoCursor \/ c <= ts => \E i \in 1 .. Len(s) : s[i].ts = ts
      /\ c # NoCursor => c \in Nat /\ \A i \in 1 .. Len(s) : c <= s[i].ts
  BY <1>1, <1>5 DEF Shows
<1>7. PICK n \in Nat \ {0} : n = Len(s) /\ DOMAIN s = 1 .. n
  BY <1>6
<1>8. \A i \in 1 .. n : s[i].ts \in Nat
  <2>1. \A i \in 1 .. n : s[i] \in ChartBar
    BY <1>6, <1>7
  <2>2. QED
    BY <2>1 DEF ChartBar
<1>9. StampsOf(view) = Stamps(old, v)
  BY <1>2, <1>3, <1>4 DEF StampsOf, Stamps, Opens
<1>10. Stamps(old, v) \in SUBSET Nat
  <2>1. old \in Kept
    BY <1>3, HeldIs DEF ScreenInv
  <2>2. QED
    BY <1>5, <2>1, StampsAreNatural
<1>11. \A i \in 1 .. (n - 1) : s[i].ts < s[i + 1].ts
  BY <1>6, <1>7 DEF Sorted
<1>12. ASSUME NEW i \in 1 .. n
       PROVE  /\ v = Future => s[i].ts \div SessionLength \in UsedDays(quotes)
              /\ v # Future =>
                   /\ s[i].rows \subseteq {slot \in stock : BucketOpen(v, slot) = s[i].ts}
                   /\ {slot \in stock0 : BucketOpen(v, slot) = s[i].ts} \subseteq s[i].rows
  BY <1>2, <1>3, <1>6, <1>7 DEF HonestBar, Bucket
<1>13. ASSUME NEW ts \in Stamps(old, v), ts >= s[1].ts
       PROVE  ts \in {bar.ts : bar \in ToSet(s)}
  <2>1. c = NoCursor \/ c <= ts
    BY <1>6, <1>7, <1>8, <1>10, <1>13
  <2>2. PICK i \in 1 .. n : s[i].ts = ts
    BY <1>6, <1>7, <2>1
  <2>3. s[i] \in ToSet(s)
    BY <1>7 DEF ToSet
  <2>4. QED
    BY <2>2, <2>3
<1>14. ASSUME c = NoCursor, NEW ts \in Stamps(old, v) PROVE ts >= s[1].ts
  <2>1. PICK i \in 1 .. n : s[i].ts = ts
    BY <1>6, <1>7, <1>14
  <2>2. i = 1 \/ s[1].ts < s[i].ts
    BY <1>6, <1>7 DEF Sorted
  <2>3. QED
    BY <1>7, <1>8, <2>1, <2>2
<1>15. QED
  BY <1>1, <1>4, <1>7, <1>9, <1>11, <1>12, <1>13, <1>14

(* OneSeriesOnScreen: the bars on screen are those of the view that is      *)
(* selected, each once and in order, with no hole and no half bucket        *)
(* (Chart.svelte, candles.go).                                              *)
THEOREM ScreenIsOneSeries == Spec => []OneSeriesOnScreen
  BY StoredInvariant, ScreenInvariant, ShownIsOneSeries, PTL
===============================================================================
