------------------------- MODULE CapabilityCalls_proofs -------------------------
(***************************************************************************)
(* Proofs about login and sessions, for any number of overlapping logins,  *)
(* keys, sessions and lifetimes, and about the capability routes on top of *)
(* them, for every number of retries.                                      *)
(***************************************************************************)
EXTENDS CapabilityCalls, TLAPS

-----------------------------------------------------------------------------
(* Time, keys and the allowlist.                                           *)

LEMMA LoginConstants ==
  /\ Staff \subseteq Emails
  /\ CertsTTL \in Nat \ {0} /\ SessionTTL \in Nat \ {0} /\ MaxFetch \in Nat
  /\ KeyGrace \in Nat \ {0} /\ KeyGrace = CertsTTL + MaxFetch
BY LoginAssumption DEF LoginAssumption, KeyGrace

LEMMA LoginFacts ==
  ASSUME LoginTypeOK, NEW a \in Attempts
  PROVE  /\ login[a] = NoLogin \/ (login[a].email \in Emails /\ login[a].kid \in Kids)
         /\ login[a].at \in {"idle", "asking", "answered", "verified", "allowed"}
         /\ login[a].at = "idle" => login[a] = NoLogin
         /\ login[a].at \in {"asking", "answered"} => login[a].known \in BOOLEAN
         /\ login[a].at = "answered" => login[a].keys \in SUBSET Kids /\ login[a].asOf \in Int
         /\ login[a].at \in {"verified", "allowed"} => login[a].when \in Int
BY DEF LoginTypeOK, Logins, NoLogin

\* What was served or entitled at some moment stays so for the moments before now.
Remembers ==
  /\ \A k \in Kids, t \in Int : t <= now /\ ServedSince(k, t) => ServedSince(k, t)'
  /\ \A e \in Emails, t \in Int : t <= now /\ EntitledSince(e, t) => EntitledSince(e, t)'

LEMMA NothingForgotten ==
  ASSUME LoginTypeOK, HistorySound,
         World \/ UNCHANGED <<now, published, withdrawn, approved, struck>>
  PROVE  Remembers
<1>1. /\ now \in Nat /\ withdrawn \in [Kids -> Int] /\ struck \in [Emails -> Int]
      /\ \A k \in published : withdrawn[k] = -1
      /\ \A e \in Emails : struck[e] <= now
  BY DEF LoginTypeOK, HistorySound
<1>2. CASE UNCHANGED <<published, withdrawn, approved, struck>>
  BY <1>2 DEF Remembers, ServedSince, EntitledSince
<1>3. ASSUME NEW j \in Kids, PublishKey(j) PROVE Remembers
  BY <1>1, <1>3 DEF Remembers, ServedSince, EntitledSince, PublishKey
<1>4. ASSUME NEW j \in Kids, WithdrawKey(j) PROVE Remembers
  <2>1. \A k \in Kids : withdrawn'[k] = IF k = j THEN now ELSE withdrawn[k]
    BY <1>1, <1>4 DEF WithdrawKey
  <2> QED
    BY <1>1, <1>4, <2>1 DEF Remembers, ServedSince, EntitledSince, WithdrawKey
<1>5. ASSUME NEW f \in Emails, AddConsultant(f) PROVE Remembers
  BY <1>1, <1>5 DEF Remembers, ServedSince, EntitledSince, AddConsultant
<1>6. ASSUME NEW f \in Emails, RemoveConsultant(f) PROVE Remembers
  <2>1. \A e \in Emails : struck'[e] = IF e = f THEN now ELSE struck[e]
    BY <1>1, <1>6 DEF RemoveConsultant
  <2> QED
    BY <1>1, <1>6, <2>1 DEF Remembers, ServedSince, EntitledSince, RemoveConsultant
<1> QED
  BY <1>2, <1>3, <1>4, <1>5, <1>6 DEF World, Tick

-----------------------------------------------------------------------------
(* The invariant of login and sessions.                                    *)

LEMMA LoginInitially == LoginInit => LoginIInv
<1> SUFFICES ASSUME LoginInit PROVE LoginIInv
  OBVIOUS
<1> USE LoginConstants
<1>1. LoginTypeOK
  BY DEF LoginInit, LoginTypeOK, Logins, Rows
<1>2. HistorySound /\ CertsSound
  BY DEF LoginInit, HistorySound, CertsSound
<1>3. LoginsSound
  BY DEF LoginInit, LoginsSound, LoginSound, NoLogin
<1>4. SessionsSound /\ RequestsVouched
  BY DEF LoginInit, SessionsSound, RequestsVouched, NoRequest
<1> QED
  BY <1>1, <1>2, <1>3, <1>4 DEF LoginIInv

\* What a login carries stays sound while the world moves and the clock stands.
LEMMA LoginStaysSound ==
  ASSUME LoginTypeOK, Remembers, now' = now,
         NEW a \in Attempts, login'[a] = login[a], LoginSound(login[a]),
         \A k \in Kids : k \in published \/ withdrawn[k] # -1 => k \in published' \/ withdrawn'[k] # -1,
         \A k \in published' : k \in published \/ (withdrawn[k] = -1 /\ k \notin published)
  PROVE  LoginSound(login[a])'
<1> DEFINE l == login[a]
<1>0. now \in Nat /\ KeyGrace \in Nat \ {0} /\ MaxFetch \in Nat
  BY LoginConstants DEF LoginTypeOK
<1>1. ASSUME l.at \in {"asking", "answered"}, l.known
      PROVE  l.kid \in published' \/ withdrawn'[l.kid] # -1
  BY <1>1, LoginFacts DEF LoginSound, NoLogin
<1>2. ASSUME l.at = "answered"
      PROVE  /\ l.asOf <= now' /\ now' <= l.asOf + MaxFetch
             /\ \A k \in l.keys : ServedSince(k, l.asOf)'
             /\ l.known /\ l.kid \in published' => l.kid \in l.keys
  <2>1. l.asOf \in Int /\ l.asOf <= now /\ l.keys \subseteq Kids
    BY <1>2, LoginFacts DEF LoginSound
  <2>2. \A k \in l.keys : ServedSince(k, l.asOf)'
    BY <1>2, <2>1 DEF LoginSound, Remembers
  <2> QED
    BY <1>2, <2>2 DEF LoginSound
<1>3. ASSUME l.at \in {"verified", "allowed"}
      PROVE  l.when <= now' /\ ServedSince(l.kid, l.when - KeyGrace + 1)'
  <2>1. l.when \in Int /\ l.kid \in Kids /\ l.when <= now
    BY <1>3, LoginFacts DEF LoginSound, NoLogin
  <2>2. l.when - KeyGrace + 1 \in Int /\ l.when - KeyGrace + 1 <= now
    BY <1>0, <2>1
  <2> QED
    BY <1>3, <2>1, <2>2 DEF LoginSound, Remembers
<1>4. ASSUME l.at = "allowed" PROVE EntitledSince(l.email, l.when)'
  BY <1>4, LoginFacts DEF LoginSound, Remembers, NoLogin
<1> QED
  BY <1>1, <1>2, <1>3, <1>4 DEF LoginSound

LEMMA WorldKeeps ==
  ASSUME LoginIInv, World
  PROVE  LoginIInv'
<1> USE DEF LoginIInv
<1>0. /\ Remembers /\ UNCHANGED <<certs, login, session, request>>
      /\ now \in Nat /\ certs.at \in Int /\ certs.at <= now /\ certs.keys \subseteq Kids
  BY NothingForgotten DEF World, Tick, PublishKey, WithdrawKey, AddConsultant, RemoveConsultant,
     LoginTypeOK, HistorySound
<1>1. LoginTypeOK' /\ HistorySound'
  <2>1. CASE Tick
    BY <2>1 DEF Tick, LoginTypeOK, HistorySound
  <2>2. ASSUME NEW k \in Kids, PublishKey(k) PROVE LoginTypeOK' /\ HistorySound'
    BY <2>2 DEF PublishKey, LoginTypeOK, HistorySound
  <2>3. ASSUME NEW k \in Kids, WithdrawKey(k) PROVE LoginTypeOK' /\ HistorySound'
    BY <2>3 DEF WithdrawKey, LoginTypeOK, HistorySound
  <2>4. ASSUME NEW e \in Emails, AddConsultant(e) PROVE LoginTypeOK' /\ HistorySound'
    BY <2>4 DEF AddConsultant, LoginTypeOK, HistorySound
  <2>5. ASSUME NEW e \in Emails, RemoveConsultant(e) PROVE LoginTypeOK' /\ HistorySound'
    BY <2>5 DEF RemoveConsultant, LoginTypeOK, HistorySound
  <2> QED
    BY <2>1, <2>2, <2>3, <2>4, <2>5 DEF World
<1>2. CertsSound'
  <2>1. certs.at - MaxFetch \in Int /\ certs.at - MaxFetch <= now
    BY <1>0, LoginConstants
  <2> QED
    BY <1>0, <2>1 DEF CertsSound, Remembers
<1>3. now' \in Int /\ now' >= now
  BY <1>0 DEF World, Tick, PublishKey, WithdrawKey, AddConsultant, RemoveConsultant
<1>4. SessionsSound'
  <2>1. ASSUME NEW s \in Sessions, session[s] # NoRow
        PROVE  session[s].expires \in Int /\ session[s].expires <= now + SessionTTL
    BY <2>1 DEF SessionsSound, LoginTypeOK, Rows
  <2> QED
    BY <1>0, <1>3, <2>1, LoginConstants DEF SessionsSound
<1>5. RequestsVouched'
  BY <1>0 DEF RequestsVouched
<1>6. ASSUME NEW a \in Attempts PROVE LoginSound(login[a])'
  <2>0. LoginSound(login[a]) /\ login'[a] = login[a]
    BY <1>0 DEF LoginsSound
  <2>1. CASE Tick
    <3>1. login[a].at = "answered" => login[a].asOf \in Int /\ now' <= login[a].asOf + MaxFetch /\ login[a].asOf <= now'
      BY <1>0, <2>0, <2>1, LoginFacts, LoginConstants DEF Tick, LoginSound
    <3>2. login[a].at \in {"verified", "allowed"} => login[a].when <= now'
      BY <1>0, <1>3, <2>0, LoginFacts DEF LoginSound
    <3>3. published' = published /\ withdrawn' = withdrawn /\ approved' = approved /\ struck' = struck
      BY <2>1 DEF Tick
    <3> QED
      BY <2>0, <3>1, <3>2, <3>3 DEF LoginSound, ServedSince, EntitledSince
  <2>2. CASE ~Tick
    <3>1. now' = now
      BY <2>2 DEF World, PublishKey, WithdrawKey, AddConsultant, RemoveConsultant
    <3>2. \A k \in Kids : k \in published \/ withdrawn[k] # -1 => k \in published' \/ withdrawn'[k] # -1
      <4>1. ASSUME NEW j \in Kids, WithdrawKey(j)
            PROVE  \A k \in Kids : k \in published \/ withdrawn[k] # -1 => k \in published' \/ withdrawn'[k] # -1
        BY <1>0, <4>1 DEF WithdrawKey, LoginTypeOK
      <4> QED
        BY <1>0, <2>2, <4>1 DEF World, PublishKey, AddConsultant, RemoveConsultant
    <3>3. \A k \in published' : k \in published \/ (withdrawn[k] = -1 /\ k \notin published)
      BY <2>2 DEF World, PublishKey, WithdrawKey, AddConsultant, RemoveConsultant
    <3> QED
      BY <1>0, <2>0, <3>1, <3>2, <3>3, LoginStaysSound
  <2> QED
    BY <2>1, <2>2
<1> QED
  BY <1>1, <1>2, <1>4, <1>5, <1>6 DEF LoginsSound

\* A step of login a alone.
LEMMA LoginMoves ==
  ASSUME LoginIInv, NEW a \in Attempts, NEW l \in Logins, login' = [login EXCEPT ![a] = l],
         UNCHANGED <<now, published, withdrawn, approved, struck, certs, session, request>>,
         LoginSound(l)
  PROVE  LoginIInv'
<1> USE DEF LoginIInv
<1>1. \A b \in Attempts : login'[b] = IF b = a THEN l ELSE login[b]
  BY DEF LoginTypeOK
<1>2. LoginTypeOK' /\ HistorySound' /\ CertsSound'
  BY DEF LoginTypeOK, HistorySound, CertsSound, ServedSince
<1>3. ASSUME NEW b \in Attempts PROVE LoginSound(login[b])'
  <2>1. LoginSound(login'[b])
    BY <1>1 DEF LoginsSound
  <2> QED
    BY <2>1 DEF LoginSound, ServedSince, EntitledSince
<1>4. SessionsSound' /\ RequestsVouched'
  BY DEF SessionsSound, RequestsVouched
<1> QED
  BY <1>2, <1>3, <1>4 DEF LoginsSound

LEMMA LoginStepKeeps ==
  ASSUME LoginIInv, NEW a \in Attempts, LoginStep(a)
  PROVE  LoginIInv'
<1> USE DEF LoginIInv
<1>0. /\ now \in Nat /\ published \subseteq Kids
      /\ certs.keys \subseteq Kids /\ certs.at \in Int /\ certs.at <= now
      /\ LoginSound(login[a])
  BY DEF LoginTypeOK, HistorySound, LoginsSound
<1>1. NoLogin \in Logins /\ LoginSound(NoLogin)
  BY DEF Logins, NoLogin, LoginSound
<1>2. ASSUME NEW e \in Emails, NEW k \in Kids, CertFromCache(a, e, k) PROVE LoginIInv'
  <2> DEFINE l == Verified(e, k)
  <2>1. l \in Logins /\ l.at = "verified" /\ l.when = now /\ l.kid = k
    BY <1>0 DEF Verified, Logins
  <2>2. ServedSince(k, certs.at - MaxFetch) /\ now - certs.at < CertsTTL
    BY <1>2 DEF CertFromCache, Cached, Fresh, CertsSound
  <2>3. /\ now - KeyGrace + 1 \in Int /\ certs.at - MaxFetch \in Int
        /\ now - KeyGrace + 1 <= certs.at - MaxFetch
    BY <1>0, <2>2, LoginConstants
  <2>4. ServedSince(k, now - KeyGrace + 1)
    BY <2>2, <2>3 DEF ServedSince, LoginTypeOK
  <2> HIDE DEF l
  <2>5. LoginSound(l)
    BY <1>0, <2>1, <2>4 DEF LoginSound
  <2> QED
    BY <1>2, <2>1, <2>5, LoginMoves DEF CertFromCache, l
<1>3. ASSUME NEW e \in Emails, NEW k \in Kids, AskGoogle(a, e, k) PROVE LoginIInv'
  <2> DEFINE l == [at |-> "asking", email |-> e, kid |-> k, known |-> k \in published]
  <2>1. l \in Logins
    BY DEF Logins
  <2>2. LoginSound(l)
    BY DEF LoginSound
  <2> QED
    BY <1>3, <2>1, <2>2, LoginMoves DEF AskGoogle
<1>4. ASSUME GoogleAnswers(a) PROVE LoginIInv'
  <2> DEFINE l == Answered(a, published)
  <2>1. login[a].email \in Emails /\ login[a].kid \in Kids /\ login[a].known \in BOOLEAN
    BY <1>4, LoginFacts DEF GoogleAnswers, NoLogin
  <2>2. l \in Logins
    BY <1>0, <2>1 DEF Answered, Logins
  <2>3. LoginSound(l)
    BY <1>0, <1>4, LoginConstants DEF Answered, LoginSound, GoogleAnswers, ServedSince
  <2> QED
    BY <1>4, <2>2, <2>3, LoginMoves DEF GoogleAnswers
<1>5. ASSUME StoreCerts(a) PROVE LoginIInv'
  <2> DEFINE l == Verified(login[a].email, login[a].kid)
  <2>1. /\ login[a].at = "answered" /\ login[a].kid \in login[a].keys
        /\ login[a].email \in Emails /\ login[a].keys \subseteq Kids /\ login[a].asOf \in Int
        /\ now <= login[a].asOf + MaxFetch /\ login[a].asOf <= now
        /\ \A k \in login[a].keys : ServedSince(k, login[a].asOf)
    BY <1>0, <1>5, LoginFacts DEF StoreCerts, LoginSound, NoLogin
  <2>2. l \in Logins
    BY <1>0, <2>1 DEF Verified, Logins
  <2>3. login[a].kid \in Kids /\ withdrawn \in [Kids -> Int]
    BY <2>1 DEF LoginTypeOK
  <2>4. \A k \in login[a].keys : ServedSince(k, now - MaxFetch)
    <3>1. now - MaxFetch \in Int /\ now - MaxFetch <= login[a].asOf
      BY <1>0, <2>1, LoginConstants
    <3> QED
      BY <2>1, <2>3, <3>1 DEF ServedSince
  <2>5. ServedSince(login[a].kid, now - KeyGrace + 1)
    <3>1. now - MaxFetch \in Int /\ now - KeyGrace + 1 \in Int /\ now - KeyGrace + 1 <= now - MaxFetch
      BY <1>0, LoginConstants
    <3> QED
      BY <2>1, <2>3, <2>4, <3>1 DEF ServedSince
  <2>6. LoginSound(l)
    BY <1>0, <2>5 DEF Verified, LoginSound
  <2>7. /\ login' = [login EXCEPT ![a] = l] /\ certs' = [keys |-> login[a].keys, at |-> now]
        /\ UNCHANGED <<now, published, withdrawn, approved, struck, session, request>>
    BY <1>5 DEF StoreCerts
  <2> HIDE DEF l
  <2>8. LoginTypeOK' /\ HistorySound'
    BY <1>0, <2>1, <2>2, <2>7 DEF LoginTypeOK, HistorySound
  <2>9. CertsSound'
    BY <2>4, <2>7 DEF CertsSound, ServedSince
  <2>10. ASSUME NEW b \in Attempts PROVE LoginSound(login[b])'
    <3>1. LoginSound(login'[b])
      BY <2>6, <2>7 DEF LoginsSound, LoginTypeOK
    <3> QED
      BY <2>7, <3>1 DEF LoginSound, ServedSince, EntitledSince
  <2>11. SessionsSound' /\ RequestsVouched'
    BY <2>7 DEF SessionsSound, RequestsVouched
  <2> QED
    BY <2>8, <2>9, <2>10, <2>11 DEF LoginsSound
<1>6. ASSUME CheckAllowlist(a) PROVE LoginIInv'
  <2> DEFINE l == [login[a] EXCEPT !.at = "allowed"]
  <2>0. /\ login[a].at = "verified"
        /\ login[a] \in [at : {"verified", "allowed"}, email : Emails, kid : Kids, when : Int]
        /\ login[a].email \in Staff \cup approved
    BY <1>6 DEF CheckAllowlist, Approved, LoginTypeOK, Logins, NoLogin
  <2>1. /\ l \in [at : {"verified", "allowed"}, email : Emails, kid : Kids, when : Int]
        /\ l.at = "allowed" /\ l.kid = login[a].kid /\ l.when = login[a].when /\ l.email = login[a].email
    BY <2>0
  <2>2. l \in Logins
    BY <2>1 DEF Logins
  <2>3. login' = [login EXCEPT ![a] = l]
    BY <1>6 DEF CheckAllowlist
  <2> HIDE DEF l
  <2>4. LoginSound(l)
    BY <1>0, <2>0, <2>1 DEF LoginSound, EntitledSince
  <2> QED
    BY <1>6, <2>2, <2>3, <2>4, LoginMoves DEF CheckAllowlist
<1>7. ASSUME RefuseUnknownKey(a) \/ EndLogin(a) PROVE LoginIInv'
  BY <1>1, <1>7, LoginMoves DEF RefuseUnknownKey, EndLogin
<1>8. ASSUME NEW s \in Sessions, IssueSession(a, s) PROVE LoginIInv'
  <2> DEFINE new == [status |-> "live", consultant |-> login[a].email, expires |-> now + SessionTTL]
  <2>1. login[a].email \in Emails
    BY <1>8, LoginFacts DEF IssueSession, NoLogin
  <2>2. new \in Rows /\ new.expires <= now + SessionTTL
    BY <1>0, <2>1, LoginConstants DEF Rows
  <2>3. /\ login' = [login EXCEPT ![a] = NoLogin]
        /\ \A u \in Sessions : session'[u] = IF u = s THEN new ELSE session[u]
        /\ session' = [session EXCEPT ![s] = new] /\ session[s] = NoRow
        /\ UNCHANGED <<now, published, withdrawn, approved, struck, certs, request>>
    BY <1>8 DEF IssueSession, LoginTypeOK, Rows, NoRow
  <2> HIDE DEF new
  <2>4. LoginTypeOK' /\ HistorySound' /\ CertsSound'
    BY <1>1, <2>2, <2>3 DEF LoginTypeOK, HistorySound, CertsSound, ServedSince
  <2>5. SessionsSound'
    BY <2>2, <2>3 DEF SessionsSound
  <2>6. ASSUME NEW r \in Requests, request[r].at = "inside"
        PROVE  request[r].session \in Sessions /\ session'[request[r].session] = session[request[r].session]
    <3>1. request[r].session \in Sessions /\ session[request[r].session] # NoRow
      BY <2>6 DEF RequestsVouched, LoginTypeOK, NoRequest
    <3> QED
      BY <2>3, <3>1
  <2>7. RequestsVouched'
    BY <2>3, <2>6 DEF RequestsVouched
  <2>8. ASSUME NEW b \in Attempts PROVE LoginSound(login[b])'
    <3>1. LoginSound(login'[b])
      BY <1>1, <2>3 DEF LoginsSound, LoginTypeOK
    <3> QED
      BY <2>3, <3>1 DEF LoginSound, ServedSince, EntitledSince
  <2> QED
    BY <2>4, <2>5, <2>7, <2>8 DEF LoginsSound
<1> QED
  BY <1>2, <1>3, <1>4, <1>5, <1>6, <1>7, <1>8 DEF LoginStep

\* Logout takes a row away, and its requests remain what they were.
LEMMA SessionStepKeeps ==
  ASSUME LoginIInv,
         \/ \E s \in Sessions : Logout(s)
         \/ \E r \in Requests : EndRequest(r) \/ \E s \in Sessions : RequireSession(r, s)
  PROVE  LoginIInv'
<1> USE DEF LoginIInv
<1>0. UNCHANGED <<now, published, withdrawn, approved, struck, certs, login>> /\ now \in Nat
  BY DEF Logout, DeleteSession, EndRequest, RequireSession, LoginTypeOK
<1>1. HistorySound' /\ CertsSound' /\ LoginsSound'
  BY <1>0 DEF HistorySound, CertsSound, LoginsSound, LoginSound, ServedSince, EntitledSince
<1>2. ASSUME NEW s \in Sessions, Logout(s) PROVE LoginTypeOK' /\ SessionsSound' /\ RequestsVouched'
  <2> DEFINE new == [session[s] EXCEPT !.status = "deleted"]
  <2>1. /\ session[s].status = "live" /\ session[s] # NoRow
        /\ session[s] \in [status : {"live", "deleted"}, consultant : Emails, expires : Int]
    BY <1>2 DEF Logout, DeleteSession, LoginTypeOK, Rows, NoRow
  <2>2. /\ new \in [status : {"live", "deleted"}, consultant : Emails, expires : Int]
        /\ new # NoRow /\ new.consultant = session[s].consultant /\ new.expires = session[s].expires
    BY <2>1 DEF NoRow
  <2>3. /\ session' = [session EXCEPT ![s] = new]
        /\ \A u \in Sessions : session'[u] = IF u = s THEN new ELSE session[u]
        /\ request' = request
    BY <1>2 DEF Logout, DeleteSession, LoginTypeOK
  <2> HIDE DEF new
  <2>4. LoginTypeOK'
    BY <1>0, <2>2, <2>3 DEF LoginTypeOK, Rows
  <2>5. SessionsSound'
    BY <1>0, <2>1, <2>2, <2>3 DEF SessionsSound
  <2>6. RequestsVouched'
    <3> SUFFICES ASSUME NEW r \in Requests, request[r].at = "inside"
                 PROVE  LET row == session'[request[r].session] IN
                        /\ row # NoRow /\ row.consultant = request[r].consultant
                        /\ request[r].since < row.expires /\ request[r].since >= row.expires - SessionTTL
      BY <2>3 DEF RequestsVouched
    <3>1. request[r].session \in Sessions
      BY DEF LoginTypeOK, NoRequest
    <3>2. LET row == session[request[r].session] IN
          /\ row # NoRow /\ row.consultant = request[r].consultant
          /\ request[r].since < row.expires /\ request[r].since >= row.expires - SessionTTL
      BY DEF RequestsVouched
    <3> QED
      BY <2>2, <2>3, <3>1, <3>2
  <2> QED
    BY <2>4, <2>5, <2>6
<1>3. ASSUME NEW r \in Requests, EndRequest(r) PROVE LoginTypeOK' /\ SessionsSound' /\ RequestsVouched'
  BY <1>3 DEF EndRequest, LoginTypeOK, SessionsSound, RequestsVouched, NoRequest
<1>4. ASSUME NEW r \in Requests, NEW s \in Sessions, RequireSession(r, s)
      PROVE  LoginTypeOK' /\ SessionsSound' /\ RequestsVouched'
  <2> DEFINE new == [at |-> "inside", session |-> s, consultant |-> session[s].consultant, since |-> now]
  <2>1. /\ session[s] # NoRow /\ session[s].consultant \in Emails
        /\ session[s].expires \in Int /\ session[s].expires > now /\ session[s].expires <= now + SessionTTL
    BY <1>4 DEF RequireSession, GetSession, LoginTypeOK, Rows, NoRow, SessionsSound
  <2>2. new \in [at : {"inside"}, session : Sessions, consultant : Emails, since : Int]
    BY <1>0, <2>1
  <2>3. /\ request' = [request EXCEPT ![r] = new] /\ session' = session
        /\ \A q \in Requests : request'[q] = IF q = r THEN new ELSE request[q]
        /\ new.at = "inside" /\ new.session = s /\ new.consultant = session[s].consultant /\ new.since = now
    BY <1>4 DEF RequireSession, LoginTypeOK
  <2> HIDE DEF new
  <2>4. LoginTypeOK' /\ SessionsSound'
    BY <1>0, <2>2, <2>3 DEF LoginTypeOK, SessionsSound
  <2>5. RequestsVouched'
    BY <1>0, <2>1, <2>3, LoginConstants DEF RequestsVouched
  <2> QED
    BY <2>4, <2>5
<1> QED
  BY <1>1, <1>2, <1>3, <1>4

LEMMA LoginStuttering ==
  ASSUME LoginIInv, UNCHANGED loginVars
  PROVE  LoginIInv'
BY DEF LoginIInv, loginVars, LoginTypeOK, HistorySound, CertsSound, LoginsSound, LoginSound, SessionsSound,
   RequestsVouched, ServedSince, EntitledSince

LEMMA LoginIsInductive == LoginIInv /\ [LoginNext]_loginVars => LoginIInv'
BY WorldKeeps, LoginStepKeeps, SessionStepKeeps, LoginStuttering DEF LoginNext

\* Keys cached by overlapping logins, logins under way and requests inside are
\* all within their bounds, at every moment.
THEOREM LoginInvariance == LoginSpec => []LoginIInv
BY LoginInitially, LoginIsInductive, PTL DEF LoginSpec

\* A request keeps the consultant and the lifetime of its session, which may
\* be logged out under it.
THEOREM InsideVouched == LoginSpec => []RequestsVouched
<1>1. LoginIInv => RequestsVouched
  BY DEF LoginIInv
<1> QED
  BY <1>1, LoginInvariance, PTL

\* Whatever overlaps, a session is issued only to an address that was entitled
\* after its token was verified, with a key served within the grace before.
THEOREM IssuedVouched == LoginSpec => SessionsVouched
<1>1. ASSUME LoginIInv, LoginNext, NEW s \in Sessions, session[s] = NoRow, session'[s] # NoRow
      PROVE  \E a \in Attempts :
               /\ login[a].at = "allowed" /\ login'[a] = NoLogin
               /\ session'[s].consultant = login[a].email
               /\ EntitledSince(login[a].email, login[a].when)
               /\ ServedSince(login[a].kid, login[a].when - KeyGrace + 1)
  <2>0. session \in [Sessions -> Rows] /\ login \in [Attempts -> Logins]
    BY <1>1 DEF LoginIInv, LoginTypeOK
  <2>1. session' # session
    BY <1>1
  <2>2. ASSUME NEW u \in Sessions, Logout(u) PROVE FALSE
    <3>1. session[u] # NoRow
      BY <2>2 DEF Logout, DeleteSession, NoRow
    <3> QED
      BY <1>1, <2>0, <2>2, <3>1 DEF Logout, DeleteSession
  <2>3. PICK a \in Attempts, u \in Sessions : IssueSession(a, u)
    BY <1>1, <2>1, <2>2 DEF LoginNext, World, Tick, PublishKey, WithdrawKey, AddConsultant, RemoveConsultant,
       LoginStep, CertFromCache, AskGoogle, GoogleAnswers, StoreCerts, RefuseUnknownKey, CheckAllowlist,
       EndLogin, EndRequest, RequireSession
  <2>4. u = s
    BY <1>1, <2>0, <2>3 DEF IssueSession
  <2>5. /\ login[a].at = "allowed" /\ login'[a] = NoLogin
        /\ session'[s].consultant = login[a].email
    BY <2>0, <2>3, <2>4 DEF IssueSession
  <2>6. LoginSound(login[a])
    BY <1>1 DEF LoginIInv, LoginsSound
  <2> QED
    BY <2>5, <2>6 DEF LoginSound
<1>2. LoginIInv /\ [LoginNext]_loginVars =>
        [\A s \in Sessions : session[s] = NoRow /\ session'[s] # NoRow =>
          \E a \in Attempts :
              /\ login[a].at = "allowed" /\ login'[a] = NoLogin
              /\ session'[s].consultant = login[a].email
              /\ EntitledSince(login[a].email, login[a].when)
              /\ ServedSince(login[a].kid, login[a].when - KeyGrace + 1)]_loginVars
  BY <1>1
<1> QED
  BY <1>2, LoginInvariance, PTL DEF LoginSpec, SessionsVouched

\* However the cache is filled meanwhile, no login is refused for a key that
\* has been served since it came in.
THEOREM RefusedRightly == LoginSpec => RotationRefusesNobody
<1>1. ASSUME LoginIInv, NEW a \in Attempts, RefuseUnknownKey(a)
      PROVE  ~(login[a].known /\ login[a].kid \in published)
  BY <1>1 DEF RefuseUnknownKey, LoginIInv, LoginsSound, LoginSound
<1>2. LoginIInv /\ [LoginNext]_loginVars =>
        [\A a \in Attempts : RefuseUnknownKey(a) => ~(login[a].known /\ login[a].kid \in published)]_loginVars
  BY <1>1
<1> QED
  BY <1>2, LoginInvariance, PTL DEF LoginSpec, RotationRefusesNobody

-----------------------------------------------------------------------------
(* The wiring of the routes.                                               *)

WellWired(route) ==
  /\ route.retries \in Nat
  /\ route.effect = "command" => route.retries = 0
  /\ route.gate = route.target

\* Of all the capability routes: each asks for the permission of the
\* capability it calls, and each command goes over a stack that never retries.
LEMMA RoutesWellWired == \A route \in Routes : WellWired(route)
<1> USE RetriesAssumption DEF RetriesAssumption, WellWired, Route, Query, Command, CommandAck, Retrying, TimeoutOnly
<1>1. \A route \in SalesRoutes : WellWired(route)
  BY DEF SalesRoutes, SalesGateway, SalesQueryTransport, SalesCommandTransport
<1>2. \A route \in CommitRoutes : WellWired(route)
  BY DEF CommitRoutes, CommitGateway, CommitQueryTransport, CommitCommandTransport
<1>3. \A route \in EduRoutes : WellWired(route)
  BY DEF EduRoutes, EduGateway, EduTransport
<1>4. \A route \in CapacityRoutes : WellWired(route)
  BY DEF CapacityRoutes, CapacityGateway, CapacityQueryTransport, CapacityCommandTransport
<1>5. \A route \in CustomerRoutes : WellWired(route)
  BY DEF CustomerRoutes, CustomerGateway, CustomerTransport
<1>6. \A route \in ExecutionRoutes : WellWired(route)
  BY DEF ExecutionRoutes, ExecutionGateway, ExecutionQueryTransport, ExecutionCommandTransport
<1>7. \A route \in ProductsRoutes : WellWired(route)
  BY DEF ProductsRoutes, ProductsGateway, ProductsTransport
<1>8. \A route \in LandscapeRoutes : WellWired(route)
  BY DEF LandscapeRoutes, LandscapeGateway, LandscapeQueryTransport, LandscapeCommandTransport
<1>9. \A route \in LegalRoutes : WellWired(route)
  BY DEF LegalRoutes, LegalGateway, LegalTransport
<1> HIDE DEF WellWired
<1> QED
  BY <1>1, <1>2, <1>3, <1>4, <1>5, <1>6, <1>7, <1>8, <1>9 DEF Routes

-----------------------------------------------------------------------------
(* The calls.                                                              *)

\* The portal's logins and sessions are LoginSessions'.
THEOREM PortalLogsIn == CallSpec => LoginSpec
<1>1. CallInit => LoginInit
  BY DEF CallInit
<1>2. ASSUME NEW r \in Requests, CallStep(r) PROVE [LoginNext]_loginVars
  BY <1>2 DEF CallStep, BeginCall, Refuse, StartCall, SendAttempt, NexusRuns, LateCopy, RetryAttempt, FinishCall,
     DropCall, EndCall, LoginNext
<1>3. [CallNext]_portalVars => [LoginNext]_loginVars
  BY <1>2 DEF CallNext, LoginNext, portalVars
<1> QED
  BY <1>1, <1>3, PTL DEF CallSpec, LoginSpec

HandlerStates == {"gate", "token", "sent", "run", "answered"}
Statuses == {0, 200, 400, 403, 499, 502}
Handlers == [at : HandlerStates, route : Routes, left : Nat, late : Nat, runs : Nat, status : Statuses]

CopiesOf(c) == c.runs + c.late + IF c.at = "sent" THEN 1 ELSE 0

\* What CallSound and AnswersHonest say of one handler.
HandlerSound(c, permitted) ==
  /\ c.at = "gate" => CopiesOf(c) = 0 /\ c.left = c.route.retries
  /\ c.at = "token" \/ CopiesOf(c) > 0 => permitted
  /\ c.at = "run" => c.runs > 0
  /\ CopiesOf(c) + c.left <= c.route.retries + IF c.at \in {"gate", "token"} THEN 0 ELSE 1
  /\ c.at = "answered" =>
       /\ c.status = 200 => c.runs > 0
       /\ c.status \in {400, 403} => CopiesOf(c) = 0

LEMMA HandlersSound ==
  CallIInv <=>
    /\ LoginIInv
    /\ call \in [Requests -> {NoCall} \cup Handlers]
    /\ \A r \in Requests : call[r] # NoCall =>
         request[r].at = "inside" /\ HandlerSound(call[r], Permitted(r))
<1>1. ASSUME call \in [Requests -> {NoCall} \cup Handlers]
      PROVE  \A r \in Requests : /\ call[r].at # "idle" <=> call[r] # NoCall
                                 /\ call[r] # NoCall => call[r] \in Handlers
  BY <1>1 DEF NoCall, Handlers, HandlerStates, Statuses
<1>2. CallTypeOK <=> call \in [Requests -> {NoCall} \cup Handlers]
  BY DEF CallTypeOK, Handlers, HandlerStates, Statuses
<1>3. \A r \in Requests : Copies(r) = CopiesOf(call[r])
  BY DEF Copies, CopiesOf
<1> QED
  BY <1>1, <1>2, <1>3 DEF CallIInv, CallsSound, CallSound, AnswersHonest, HandlerSound

\* Where request r's handler becomes c, and the requests stay.
LEMMA CallMoves ==
  ASSUME CallIInv, LoginIInv', NEW r \in Requests, call[r] # NoCall, NEW c \in Handlers,
         call' = [call EXCEPT ![r] = c], request' = request, c.route = call[r].route,
         HandlerSound(c, Permitted(r))
  PROVE  CallIInv'
<1>1. /\ call \in [Requests -> {NoCall} \cup Handlers]
      /\ \A q \in Requests : call[q] # NoCall =>
           request[q].at = "inside" /\ HandlerSound(call[q], Permitted(q))
  BY HandlersSound
<1>2. \A q \in Requests : call'[q] = IF q = r THEN c ELSE call[q]
  BY <1>1
<1>3. call' \in [Requests -> {NoCall} \cup Handlers]
  BY <1>1
<1>4. ASSUME NEW q \in Requests, call'[q] # NoCall
      PROVE  request'[q].at = "inside" /\ HandlerSound(call'[q], Permitted(q)')
  <2>1. Permitted(q)' = Permitted(q)
    BY <1>2 DEF Permitted
  <2> QED
    BY <1>1, <1>2, <1>4, <2>1
<1> QED
  BY <1>3, <1>4, HandlersSound DEF HandlerSound, CopiesOf, CallIInv, CallTypeOK, CallsSound, CallSound,
     AnswersHonest, Copies, Handlers, HandlerStates, Statuses, NoCall

\* Giving an attempt up leaves at most the copy that was out.
LEMMA AbandonedBound ==
  ASSUME NEW r \in Requests, call[r] \in Handlers, NEW result
  PROVE  /\ Abandoned(r, result) \in Nat
         /\ call[r].runs + Abandoned(r, result) <= CopiesOf(call[r])
         /\ call[r].runs + Abandoned(r, result) <= call[r].runs + call[r].late + 1
BY DEF Abandoned, CopiesOf, Handlers

\* The records the steps make of a handler.
LEMMA RetriedHandler ==
  ASSUME NEW h \in Handlers, NEW left \in Nat, NEW late \in Nat
  PROVE  [h EXCEPT !.at = "token", !.left = left, !.late = late] \in Handlers
<1>1. "token" \in HandlerStates
  BY DEF HandlerStates
<1> QED
  BY <1>1 DEF Handlers

LEMMA RunHandler ==
  ASSUME NEW h \in Handlers, NEW runs \in Nat
  PROVE  [h EXCEPT !.at = "run", !.runs = runs] \in Handlers
<1>1. "run" \in HandlerStates
  BY DEF HandlerStates
<1> QED
  BY <1>1 DEF Handlers

LEMMA CallStepKeeps ==
  ASSUME CallIInv, LoginIInv', NEW r \in Requests, CallStep(r)
  PROVE  CallIInv'
<1> DEFINE h == call[r]
<1>0. /\ LoginIInv /\ call \in [Requests -> {NoCall} \cup Handlers]
      /\ \A q \in Requests : call[q] # NoCall =>
           request[q].at = "inside" /\ HandlerSound(call[q], Permitted(q))
  BY HandlersSound
<1>1. h # NoCall =>
        /\ h \in Handlers /\ HandlerSound(h, Permitted(r)) /\ WellWired(h.route)
        /\ h.left \in Nat /\ h.late \in Nat /\ h.runs \in Nat /\ h.route.retries \in Nat
  BY <1>0, RoutesWellWired DEF Handlers, WellWired
<1>2. NoCall.at = "idle"
  BY DEF NoCall
<1>3. UNCHANGED loginVars => request' = request
  BY DEF loginVars
<1>S. /\ {"gate", "token", "sent", "run", "answered"} \subseteq HandlerStates
      /\ 0 \in Statuses /\ 200 \in Statuses /\ 400 \in Statuses /\ 403 \in Statuses /\ 499 \in Statuses /\ 502 \in Statuses
  BY DEF HandlerStates, Statuses
<1>4. ASSUME NEW s \in Sessions, NEW route \in Routes, BeginCall(r, s, route) PROVE CallIInv'
  <2> DEFINE c == Handler(route, "gate", route.retries, 0, 0, 0)
  <2>1. WellWired(route) /\ c \in Handlers
    BY <1>S, RoutesWellWired DEF WellWired, Handler, Handlers
  <2>2. HandlerSound(c, FALSE)
    BY <2>1 DEF Handler, HandlerSound, CopiesOf, WellWired
  <2>3. /\ call' = [call EXCEPT ![r] = c] /\ request'[r].at = "inside"
        /\ \A q \in Requests : q # r => request'[q] = request[q]
    BY <1>0, <1>4 DEF BeginCall, RequireSession, LoginIInv, LoginTypeOK
  <2> HIDE DEF c
  <2>4. HandlerSound(c, Permitted(r)')
    BY <2>2 DEF HandlerSound
  <2>5. call' \in [Requests -> {NoCall} \cup Handlers]
    BY <1>0, <2>1, <2>3
  <2>6. ASSUME NEW q \in Requests, call'[q] # NoCall
        PROVE  request'[q].at = "inside" /\ HandlerSound(call'[q], Permitted(q)')
    <3>1. CASE q = r
      BY <1>0, <2>3, <2>4, <3>1
    <3>2. CASE q # r
      <4>1. call'[q] = call[q] /\ Permitted(q)' = Permitted(q)
        BY <1>0, <2>3, <3>2 DEF Permitted
      <4> QED
        BY <1>0, <2>3, <2>6, <3>2, <4>1
    <3> QED
      BY <3>1, <3>2
  <2> QED
    BY <2>5, <2>6 DEF HandlerSound, CopiesOf, CallIInv, CallTypeOK, CallsSound, CallSound,
       AnswersHonest, Copies, Handlers, HandlerStates, Statuses, NoCall
<1>5. ASSUME NEW status \in {400, 403}, Refuse(r, status) PROVE CallIInv'
  <2> DEFINE c == [h EXCEPT !.at = "answered", !.left = 0, !.status = status]
  <2>1. h # NoCall /\ h.at = "gate" /\ call' = [call EXCEPT ![r] = c] /\ request' = request
    BY <1>2, <1>3, <1>5 DEF Refuse, Answer
  <2>2. c \in Handlers
    <3>1. h \in Handlers /\ status \in Statuses /\ "answered" \in HandlerStates
      BY <1>S, <1>1, <2>1
    <3> QED
      BY <3>1 DEF Handlers
  <2>3. HandlerSound(c, Permitted(r))
    BY <1>1, <2>1 DEF HandlerSound, CopiesOf, Handlers
  <2>4. c.route = h.route
    BY <1>1, <2>1 DEF Handlers
  <2> HIDE DEF c
  <2> QED
    BY <2>1, <2>2, <2>3, <2>4, CallMoves
<1>6. ASSUME StartCall(r) \/ SendAttempt(r) PROVE CallIInv'
  <2> DEFINE c == [h EXCEPT !.at = IF h.at = "gate" THEN "token" ELSE "sent"]
  <2>1. /\ h # NoCall /\ call' = [call EXCEPT ![r] = c] /\ request' = request
        /\ (h.at = "gate" /\ Permitted(r)) \/ h.at = "token"
    BY <1>2, <1>3, <1>6 DEF StartCall, SendAttempt
  <2>2. c \in Handlers /\ c.route = h.route
    BY <1>S, <1>1, <2>1 DEF Handlers
  <2>3. HandlerSound(c, Permitted(r))
    BY <1>1, <2>1 DEF HandlerSound, CopiesOf, Handlers
  <2> HIDE DEF c
  <2> QED
    BY <2>1, <2>2, <2>3, CallMoves
<1>7. ASSUME NexusRuns(r) PROVE CallIInv'
  <2> DEFINE c == [h EXCEPT !.at = "run", !.runs = h.runs + 1]
  <2>1. h # NoCall /\ h.at = "sent" /\ call' = [call EXCEPT ![r] = c] /\ request' = request
    BY <1>2, <1>3, <1>7 DEF NexusRuns
  <2>2. c \in Handlers /\ c.route = h.route
    <3>1. h \in Handlers /\ h.runs + 1 \in Nat
      BY <1>1, <2>1
    <3>2. c \in Handlers
      BY <3>1, RunHandler
    <3> QED
      BY <3>1, <3>2 DEF Handlers
  <2>3. HandlerSound(c, Permitted(r))
    BY <1>1, <2>1 DEF HandlerSound, CopiesOf, Handlers
  <2> HIDE DEF c
  <2> QED
    BY <2>1, <2>2, <2>3, CallMoves
<1>8. ASSUME LateCopy(r) PROVE CallIInv'
  <2>1. PICK n \in {0, 1} :
          call' = [call EXCEPT ![r] = [h EXCEPT !.late = h.late - 1, !.runs = h.runs + n]]
    BY <1>8 DEF LateCopy
  <2> DEFINE c == [h EXCEPT !.late = h.late - 1, !.runs = h.runs + n]
  <2>2. h # NoCall /\ h.late > 0 /\ request' = request
    BY <1>2, <1>3, <1>8 DEF LateCopy
  <2>3. h.late - 1 \in Nat /\ h.runs + n \in Nat
    BY <1>1, <2>2
  <2>4. c \in Handlers /\ c.route = h.route
    BY <1>1, <2>2, <2>3 DEF Handlers
  <2>5. HandlerSound(c, Permitted(r))
    BY <1>1, <2>2 DEF HandlerSound, CopiesOf, Handlers
  <2> HIDE DEF c
  <2> QED
    BY <2>1, <2>2, <2>4, <2>5, CallMoves DEF c
<1>9. ASSUME NEW result, RetryAttempt(r, result) PROVE CallIInv'
  <2> DEFINE c == [h EXCEPT !.at = "token", !.left = h.left - 1, !.late = Abandoned(r, result)]
  <2>1. /\ h # NoCall /\ h.at \in {"token", "sent", "run"} /\ h.left > 0
        /\ call' = [call EXCEPT ![r] = c] /\ request' = request
    BY <1>2, <1>3, <1>9 DEF RetryAttempt
  <2>2. h.left - 1 \in Nat /\ Abandoned(r, result) \in Nat
    BY <1>1, <2>1, AbandonedBound
  <2>3. c \in Handlers /\ c.route = h.route
    <3>1. h \in Handlers
      BY <1>1, <2>1
    <3>2. c \in Handlers
      BY <2>2, <3>1, RetriedHandler
    <3> QED
      BY <3>1, <3>2 DEF Handlers
  <2>4. HandlerSound(c, Permitted(r))
    BY <1>1, <2>1, AbandonedBound DEF HandlerSound, CopiesOf, Handlers
  <2> HIDE DEF c
  <2> QED
    BY <2>1, <2>3, <2>4, CallMoves
<1>10. ASSUME NEW result, NEW status \in {200, 499, 502},
              FinishCall(r, result, status) \/ (DropCall(r) /\ result = "timeout" /\ status = 499)
       PROVE  CallIInv'
  <2> DEFINE late == Abandoned(r, result)
             c == [h EXCEPT !.at = "answered", !.left = 0, !.status = status, !.late = late]
  <2>1. /\ call' = [call EXCEPT ![r] = c] /\ (status = 200 => h.at = "run")
        /\ h.at \in {"gate", "token", "sent", "run"} /\ request' = request
    <3>1. CASE FinishCall(r, result, status)
      <4>1. call' = [call EXCEPT ![r] = c] /\ h.at \in {"token", "sent", "run"} /\ request' = request
        BY <1>3, <3>1 DEF FinishCall
      <4>2. status = 200 => result = "ok" /\ result \in Results(h.at)
        BY <3>1 DEF FinishCall, Succeeded
      <4>3. "ok" \in Results(h.at) => h.at = "run"
        BY DEF Results
      <4> QED
        BY <4>1, <4>2, <4>3
    <3>2. CASE DropCall(r) /\ result = "timeout" /\ status = 499
      <4>1. h.at \in {"gate", "token", "sent", "run"} /\ request' = request
        BY <1>3, <3>2 DEF DropCall
      <4>2. call' = [call EXCEPT ![r] = c]
        BY <3>2 DEF DropCall
      <4> QED
        BY <3>2, <4>1, <4>2
    <3> QED
      BY <1>10, <3>1, <3>2
  <2>2. h \in Handlers /\ h # NoCall
    BY <1>1, <1>2, <2>1
  <2>3. /\ late \in Nat
        /\ h.runs + late <= CopiesOf(h) /\ h.runs + late <= h.runs + h.late + 1
    BY <2>2, AbandonedBound
  <2>4. status \in Statuses /\ "answered" \in HandlerStates
    BY <1>S
  <2>5. c \in Handlers
    BY <2>2, <2>3, <2>4 DEF Handlers
  <2>6. /\ c.at = "answered" /\ c.left = 0 /\ c.status = status /\ c.late = late
        /\ c.runs = h.runs /\ c.route = h.route
    BY <2>2 DEF Handlers
  <2> HIDE DEF c, late
  <2>7. HandlerSound(c, Permitted(r))
    <3>1. HandlerSound(h, Permitted(r)) /\ h.left \in Nat /\ h.late \in Nat /\ h.runs \in Nat /\ h.route.retries \in Nat
      BY <1>1, <2>2
    <3>2. CopiesOf(c) = h.runs + late
      BY <2>3, <2>6, <3>1 DEF CopiesOf
    <3>3. CopiesOf(c) > 0 => Permitted(r)
      BY <2>3, <3>1, <3>2 DEF HandlerSound, CopiesOf
    <3>4. CopiesOf(c) <= h.route.retries + 1
      BY <2>1, <2>3, <3>1, <3>2 DEF HandlerSound, CopiesOf
    <3>5. h.at = "run" => h.runs > 0
      BY <3>1 DEF HandlerSound
    <3> QED
      <4>1. /\ c.at = "answered" /\ c.left = 0 /\ c.runs = h.runs /\ c.route = h.route
            /\ c.status # 400 /\ c.status # 403
            /\ c.status = 200 => c.runs > 0
        BY <2>1, <2>6, <3>5
      <4>2. CopiesOf(c) + c.left <= c.route.retries + 1
        BY <3>1, <3>2, <3>4, <4>1, <2>3
      <4> QED
        BY <3>3, <4>1, <4>2 DEF HandlerSound
  <2> QED
    BY <2>1, <2>2, <2>5, <2>6, <2>7, CallMoves
<1>11. ASSUME EndCall(r) PROVE CallIInv'
  <2>1. /\ call' = [call EXCEPT ![r] = NoCall]
        /\ \A q \in Requests : q # r => request'[q] = request[q]
    BY <1>0, <1>11 DEF EndCall, EndRequest, LoginIInv, LoginTypeOK
  <2>2. call' \in [Requests -> {NoCall} \cup Handlers]
    BY <1>0, <2>1
  <2>3. ASSUME NEW q \in Requests, call'[q] # NoCall
        PROVE  request'[q].at = "inside" /\ HandlerSound(call'[q], Permitted(q)')
    <3>1. q # r /\ call'[q] = call[q]
      BY <1>0, <2>1, <2>3
    <3>2. Permitted(q)' = Permitted(q)
      BY <2>1, <3>1 DEF Permitted
    <3> QED
      BY <1>0, <2>1, <2>3, <3>1, <3>2
  <2> QED
    BY <2>2, <2>3 DEF HandlerSound, CopiesOf, CallIInv, CallTypeOK, CallsSound, CallSound,
       AnswersHonest, Copies, Handlers, HandlerStates, Statuses, NoCall
<1>12. ASSUME DropCall(r) PROVE CallIInv'
  BY <1>10, <1>12
<1>13. ASSUME NEW result \in {"timeout", "request", "5xx", "bad", "ok"}, NEW status \in {200, 502},
              FinishCall(r, result, status)
       PROVE  CallIInv'
  BY <1>10, <1>13
<1> QED
  BY <1>4, <1>5, <1>6, <1>7, <1>8, <1>9, <1>11, <1>12, <1>13 DEF CallStep

LEMMA CallIsInductive == CallIInv /\ LoginIInv' /\ [CallNext]_portalVars => CallIInv'
<1> SUFFICES ASSUME CallIInv, LoginIInv', [CallNext]_portalVars PROVE CallIInv'
  OBVIOUS
<1>1. CASE UNCHANGED <<call, request>>
  BY <1>1 DEF CallIInv, CallTypeOK, CallsSound, CallSound, AnswersHonest, Copies, Permitted
<1>2. ASSUME NEW r \in Requests, CallStep(r) PROVE CallIInv'
  BY <1>2, CallStepKeeps
<1>3. ASSUME World \/ (\E a \in Attempts : LoginStep(a)) \/ (\E s \in Sessions : Logout(s))
      PROVE  request' = request
  BY <1>3 DEF World, Tick, PublishKey, WithdrawKey, AddConsultant, RemoveConsultant, Logout, DeleteSession,
     LoginStep, CertFromCache, AskGoogle, GoogleAnswers, StoreCerts, RefuseUnknownKey, CheckAllowlist,
     EndLogin, IssueSession
<1> QED
  BY <1>1, <1>2, <1>3 DEF CallNext, portalVars, loginVars

LEMMA CallInitially == CallInit => CallIInv
<1> SUFFICES ASSUME CallInit PROVE CallIInv
  OBVIOUS
<1>1. LoginIInv
  BY LoginInitially DEF CallInit
<1> QED
  BY <1>1 DEF CallInit, CallIInv, CallTypeOK, CallsSound, AnswersHonest, NoCall

\* For every number of retries and of overlapping requests: a handler has sent
\* no more than its stack allows, and only what it was permitted to.
THEOREM CallInvariance == CallSpec => []CallIInv
<1>1. CallSpec => []LoginIInv
  BY PortalLogsIn, LoginInvariance, PTL
<1> QED
  BY <1>1, CallInitially, CallIsInductive, PTL DEF CallSpec

\* No command of the nine capabilities is run twice, whichever attempt is lost,
\* late or given up.
THEOREM CommandsOnce == CallSpec => []CommandsRunOnce
<1>1. ASSUME CallIInv PROVE CommandsRunOnce
  <2> SUFFICES ASSUME NEW r \in Requests, call[r].at # "idle", call[r].route.effect = "command"
               PROVE  Copies(r) <= 1
    BY DEF CommandsRunOnce
  <2>1. call[r] \in Handlers /\ HandlerSound(call[r], Permitted(r))
    BY <1>1, HandlersSound DEF NoCall
  <2>2. call[r].route.retries = 0
    BY <2>1, RoutesWellWired DEF Handlers, WellWired
  <2>3. CopiesOf(call[r]) <= 1
    BY <2>1, <2>2 DEF HandlerSound, CopiesOf, Handlers
  <2> QED
    BY <2>3 DEF Copies, CopiesOf
<1> QED
  BY <1>1, CallInvariance, PTL

\* 200 is answered only for what Nexus has run, 400 and 403 only for what it
\* never will.
THEOREM HonestAnswers == CallSpec => []AnswersHonest
<1>1. CallIInv => AnswersHonest
  BY DEF CallIInv
<1> QED
  BY <1>1, CallInvariance, PTL

\* Nexus is asked for a capability only in the name of whom the session was
\* issued to, who is granted that capability.
THEOREM PermissionFirst == CallSpec => []AskedWithPermission
<1>1. ASSUME CallIInv PROVE AskedWithPermission
  <2> SUFFICES ASSUME NEW r \in Requests, call[r].at # "idle", Copies(r) > 0
               PROVE  /\ request[r].at = "inside"
                      /\ session[request[r].session] # NoRow
                      /\ <<session[request[r].session].consultant, call[r].route.target>> \in Granted
    BY DEF AskedWithPermission
  <2>1. call[r] \in Handlers /\ request[r].at = "inside" /\ HandlerSound(call[r], Permitted(r))
    BY <1>1, HandlersSound DEF NoCall
  <2>2. Permitted(r)
    BY <2>1 DEF HandlerSound, Copies, CopiesOf
  <2>3. call[r].route.gate = call[r].route.target
    BY <2>1, RoutesWellWired DEF Handlers, WellWired
  <2>4. /\ session[request[r].session] # NoRow
        /\ session[request[r].session].consultant = request[r].consultant
    BY <1>1, <2>1 DEF CallIInv, LoginIInv, RequestsVouched
  <2> QED
    BY <2>1, <2>2, <2>3, <2>4 DEF Permitted
<1> QED
  BY <1>1, CallInvariance, PTL

-----------------------------------------------------------------------------
(* Every request comes to an end.                                          *)

LEMMA WorkTyped ==
  ASSUME NEW h \in Handlers
  PROVE  /\ h.left \in Nat /\ h.late \in Nat /\ Phase[h.at] \in 0 .. 4
         /\ h.at = "gate" => Phase[h.at] = 4
         /\ h.at = "token" => Phase[h.at] = 3
         /\ h.at = "sent" => Phase[h.at] = 2
         /\ h.at = "run" => Phase[h.at] = 1
         /\ h.at = "answered" => Phase[h.at] = 0
BY DEF Handlers, HandlerStates, Phase

\* What a step of a request makes of its handler, in the terms of Work: what an
\* attempt gives up to Nexus it has had for itself.
LEMMA CallStepWorks ==
  ASSUME CallIInv, NEW r \in Requests, CallStep(r)
  PROVE  /\ \A q \in Requests : q # r => call'[q] = call[q]
         /\ call[r] = NoCall /\ call'[r] # NoCall => Work(r)' <= 4 * (call'[r].route.retries + 1)
         /\ call[r] # NoCall /\ call'[r] # NoCall => Work(r)' < Work(r)
<1> DEFINE h == call[r]
<1>0. /\ call \in [Requests -> {NoCall} \cup Handlers] /\ NoCall.at = "idle"
      /\ h # NoCall => /\ h \in Handlers /\ h.left \in Nat /\ h.late \in Nat
                        /\ Phase[h.at] \in 0 .. 4
  BY HandlersSound, WorkTyped DEF NoCall
<1>1. ASSUME NEW h2, call' = [call EXCEPT ![r] = h2]
      PROVE  call'[r] = h2 /\ \A q \in Requests : q # r => call'[q] = call[q]
  BY <1>0, <1>1
<1>P. /\ Phase["gate"] = 4 /\ Phase["token"] = 3 /\ Phase["sent"] = 2
      /\ Phase["run"] = 1 /\ Phase["answered"] = 0
  BY DEF Phase
<1>2. ASSUME NEW s \in Sessions, NEW route \in Routes, BeginCall(r, s, route)
      PROVE  /\ call[r] = NoCall /\ \A q \in Requests : q # r => call'[q] = call[q]
             /\ Work(r)' <= 4 * (call'[r].route.retries + 1)
  <2>1. /\ call'[r] = Handler(route, "gate", route.retries, 0, 0, 0)
        /\ \A q \in Requests : q # r => call'[q] = call[q]
    BY <1>1, <1>2 DEF BeginCall
  <2>2. route.retries \in Nat
    BY RoutesWellWired DEF WellWired
  <2> QED
    BY <1>P, <1>2, <2>1, <2>2 DEF BeginCall, Handler, Work
<1>4. ASSUME NEW status \in {400, 403}, Refuse(r, status)
      PROVE  h # NoCall /\ Work(r)' < Work(r) /\ \A q \in Requests : q # r => call'[q] = call[q]
  BY <1>0, <1>1, <1>P, <1>4 DEF Refuse, Answer, Work
<1>5. ASSUME StartCall(r) \/ SendAttempt(r) \/ NexusRuns(r)
      PROVE  h # NoCall /\ Work(r)' < Work(r) /\ \A q \in Requests : q # r => call'[q] = call[q]
  <2>1. CASE StartCall(r)
    BY <1>0, <1>P, <2>1 DEF StartCall, Work
  <2>2. CASE SendAttempt(r)
    BY <1>0, <1>P, <2>2 DEF SendAttempt, Work
  <2>3. CASE NexusRuns(r)
    BY <1>0, <1>P, <2>3 DEF NexusRuns, Work
  <2> QED
    BY <1>5, <2>1, <2>2, <2>3
<1>6. ASSUME LateCopy(r)
      PROVE  h # NoCall /\ Work(r)' < Work(r) /\ \A q \in Requests : q # r => call'[q] = call[q]
  BY <1>0, <1>6 DEF LateCopy, Work
<1>7. ASSUME NEW result
      PROVE  /\ h # NoCall => Abandoned(r, result) \in {h.late, h.late + 1}
             /\ h # NoCall /\ h.at # "sent" => Abandoned(r, result) = h.late
  BY <1>0 DEF Abandoned
<1>8. ASSUME NEW result, RetryAttempt(r, result)
      PROVE  h # NoCall /\ Work(r)' < Work(r) /\ \A q \in Requests : q # r => call'[q] = call[q]
  BY <1>0, <1>P, <1>7, <1>8 DEF RetryAttempt, Work
<1>9. ASSUME NEW result, NEW status, FinishCall(r, result, status)
      PROVE  h # NoCall /\ Work(r)' < Work(r) /\ \A q \in Requests : q # r => call'[q] = call[q]
  BY <1>0, <1>P, <1>7, <1>9 DEF FinishCall, Work
<1>10. ASSUME DropCall(r)
       PROVE  h # NoCall /\ Work(r)' < Work(r) /\ \A q \in Requests : q # r => call'[q] = call[q]
  BY <1>0, <1>P, <1>7, <1>10 DEF DropCall, Work
<1>11. ASSUME EndCall(r)
       PROVE  call'[r] = NoCall /\ \A q \in Requests : q # r => call'[q] = call[q]
  BY <1>0, <1>11 DEF EndCall
<1> QED
  BY <1>2, <1>4, <1>5, <1>6, <1>8, <1>9, <1>10, <1>11 DEF CallStep

\* However timeouts, answers and late copies are ordered, and however many
\* retries a stack has, what a request can still do becomes less and less.
THEOREM CallsWindDown == CallSpec => WindsDown
<1>1. ASSUME CallIInv, [CallNext]_portalVars, NEW r \in Requests
      PROVE  /\ call[r] = NoCall /\ call'[r] # NoCall => Work(r)' <= 4 * (call'[r].route.retries + 1)
             /\ call[r] # NoCall /\ call'[r] \notin {call[r], NoCall} => Work(r)' < Work(r)
  <2>1. CASE call' = call
    BY <2>1
  <2>2. ASSUME NEW q \in Requests, CallStep(q), q = r
        PROVE  /\ call[r] = NoCall /\ call'[r] # NoCall => Work(r)' <= 4 * (call'[r].route.retries + 1)
               /\ call[r] # NoCall /\ call'[r] \notin {call[r], NoCall} => Work(r)' < Work(r)
    BY <1>1, <2>2, CallStepWorks
  <2>3. ASSUME NEW q \in Requests, CallStep(q), q # r PROVE call'[r] = call[r]
    BY <1>1, <2>3, CallStepWorks
  <2> QED
    BY <1>1, <2>1, <2>2, <2>3 DEF CallNext, portalVars
<1>2. CallIInv /\ [CallNext]_portalVars =>
        [\A r \in Requests :
           /\ call[r] = NoCall /\ call'[r] # NoCall => Work(r)' <= 4 * (call'[r].route.retries + 1)
           /\ call[r] # NoCall /\ call'[r] \notin {call[r], NoCall} => Work(r)' < Work(r)]_portalVars
  BY <1>1
<1> QED
  BY <1>2, CallInvariance, PTL DEF CallSpec, WindsDown

LEMMA OnlyItsSteps ==
  ASSUME CallIInv, [CallNext]_portalVars, NEW r \in Requests
  PROVE  call'[r] = call[r] \/ CallStep(r)
<1>1. ASSUME NEW q \in Requests, CallStep(q), q # r PROVE call'[r] = call[r]
  BY <1>1, CallStepWorks
<1> QED
  BY <1>1 DEF CallNext, portalVars

\* From its gate a handler goes on to its first attempt or to an answer.
LEMMA GateMoves ==
  ASSUME CallIInv, [CallNext]_portalVars, NEW r \in Requests, call[r].at = "gate"
  PROVE  /\ call'[r].route = call[r].route
         /\ call'[r].at \in {"gate", "token", "answered"}
         /\ call'[r].at # "answered" => call'[r].left = call[r].left
         /\ Decide(r) => call'[r].at \in {"token", "answered"}
<1>1. call \in [Requests -> {NoCall} \cup Handlers] /\ NoCall.at = "idle" /\ call[r] \in Handlers
  BY HandlersSound DEF NoCall
<1>2. ASSUME StartCall(r) \/ \E status \in {400, 403} : Refuse(r, status)
      PROVE  /\ call'[r].route = call[r].route /\ call'[r].at \in {"token", "answered"}
             /\ call'[r].at # "answered" => call'[r].left = call[r].left
  <2>1. CASE StartCall(r)
    <3>1. call'[r] = [call[r] EXCEPT !.at = "token"]
      BY <1>1, <2>1 DEF StartCall
    <3> QED
      BY <1>1, <3>1 DEF Handlers
  <2>2. ASSUME NEW status, Refuse(r, status)
        PROVE  call'[r].route = call[r].route /\ call'[r].at = "answered"
    BY <1>1, <2>2 DEF Refuse, Answer, Handlers
  <2> QED
    BY <1>2, <2>1, <2>2
<1>3. CASE call'[r] = call[r]
  BY <1>2, <1>3 DEF Decide
<1>4. ASSUME LateCopy(r)
      PROVE  /\ call'[r].route = call[r].route /\ call'[r].at = "gate"
             /\ call'[r].left = call[r].left
  BY <1>1, <1>4 DEF LateCopy, Handlers
<1>5. ASSUME DropCall(r) PROVE call'[r].route = call[r].route /\ call'[r].at = "answered"
  BY <1>1, <1>5 DEF DropCall, Handlers
<1>6. call[r] # NoCall
  BY <1>1
<1>7. CASE CallStep(r)
  <2>1. \/ StartCall(r) \/ \E status \in {400, 403} : Refuse(r, status)
        \/ LateCopy(r) \/ DropCall(r)
    BY <1>6, <1>7 DEF CallStep, BeginCall, SendAttempt, NexusRuns, RetryAttempt, FinishCall, EndCall
  <2>2. ASSUME Decide(r) PROVE call'[r].at \in {"token", "answered"}
    BY <1>2, <2>2 DEF Decide
  <2> QED
    BY <1>2, <1>4, <1>5, <2>1, <2>2
<1> QED
  BY <1>3, <1>7, OnlyItsSteps

\* An attempt goes on until it is over: then it was the last, or a retry less is left.
LEMMA AttemptMoves ==
  ASSUME CallIInv, [CallNext]_portalVars, NEW r \in Requests, Attempting(r)
  PROVE  /\ call[r].left \in Nat
         /\ call'[r].route = call[r].route
         /\ \/ call'[r].at = "answered"
            \/ Attempting(r)' /\ call'[r].left \in {call[r].left, call[r].left - 1}
         /\ Attempting(r)' => call'[r].left \in Nat
         /\ TimeOut(r) => \/ call'[r].at = "answered"
                          \/ Attempting(r)' /\ call'[r].left < call[r].left
<1> DEFINE h == call[r]
<1>1. /\ call \in [Requests -> {NoCall} \cup Handlers] /\ NoCall.at = "idle" /\ h \in Handlers
      /\ h.at \in {"token", "sent", "run"} /\ h.left \in Nat /\ h.late \in Nat
  BY HandlersSound DEF NoCall, Attempting, Handlers
<1>2. ASSUME SendAttempt(r) \/ NexusRuns(r) \/ LateCopy(r)
      PROVE  call'[r].route = h.route /\ Attempting(r)' /\ call'[r].left = h.left
  BY <1>1, <1>2 DEF SendAttempt, NexusRuns, LateCopy, Attempting, Handlers
<1>3. ASSUME NEW result, RetryAttempt(r, result)
      PROVE  /\ call'[r].route = h.route /\ Attempting(r)'
             /\ call'[r].left = h.left - 1 /\ h.left > 0
  BY <1>1, <1>3 DEF RetryAttempt, Attempting, Handlers
<1>4. ASSUME NEW result, NEW status, FinishCall(r, result, status)
      PROVE  call'[r].route = h.route /\ call'[r].at = "answered"
  BY <1>1, <1>4 DEF FinishCall, Handlers
<1>5. ASSUME DropCall(r) PROVE call'[r].route = h.route /\ call'[r].at = "answered"
  BY <1>1, <1>5 DEF DropCall, Handlers
<1>6. TimeOut(r) => \/ call'[r].at = "answered"
                    \/ Attempting(r)' /\ call'[r].left < h.left
  BY <1>1, <1>3, <1>4 DEF TimeOut
<1>7. ASSUME CallStep(r)
      PROVE  /\ call'[r].route = h.route
             /\ \/ call'[r].at = "answered"
                \/ Attempting(r)' /\ call'[r].left = h.left
                \/ Attempting(r)' /\ call'[r].left = h.left - 1 /\ h.left > 0
  <2>1. \/ SendAttempt(r) \/ NexusRuns(r) \/ LateCopy(r) \/ DropCall(r)
        \/ \E result \in {"timeout", "request", "5xx", "bad", "ok"} :
             RetryAttempt(r, result) \/ \E status \in {200, 502} : FinishCall(r, result, status)
    BY <1>1, <1>7 DEF CallStep, BeginCall, Refuse, StartCall, EndCall
  <2> QED
    BY <1>2, <1>3, <1>4, <1>5, <2>1
<1>8. ASSUME call'[r] = call[r] PROVE call'[r].route = h.route /\ Attempting(r)' /\ call'[r].left = h.left
  BY <1>8 DEF Attempting
<1>9. Attempting(r)' => call'[r].at # "answered"
  BY DEF Attempting
<1> QED
  BY <1>1, <1>6, <1>7, <1>8, <1>9, OnlyItsSteps

\* Where the timers fire, no attempt is waited for without end, whatever Nexus
\* does, and each that fails leaves a retry less.
THEOREM EveryAttemptEnds ==
  CallSpec /\ (\A r \in Requests : Polled(r)) => AttemptsEnd
<1>1. ASSUME NEW r \in Requests, NEW n \in Nat
      PROVE  CallSpec /\ Polled(r) =>
               (Attempting(r) /\ call[r].left = n
                  ~> call[r].at = "answered" \/ (Attempting(r) /\ call[r].left < n))
  <2> DEFINE A == Attempting(r) /\ call[r].left = n
             B == call[r].at = "answered" \/ (Attempting(r) /\ call[r].left < n)
  <2>1. CallIInv /\ [CallNext]_portalVars => (A => A' \/ B')
    BY AttemptMoves
  <2>2. CallIInv /\ <<TimeOut(r)>>_portalVars /\ [CallNext]_portalVars => (A => B')
    BY AttemptMoves
  <2>3. A => Attempting(r)
    OBVIOUS
  <2> HIDE DEF A, B
  <2>4. CallSpec /\ Polled(r) => (A ~> B)
    BY <2>1, <2>2, <2>3, CallInvariance, PTL DEF CallSpec, Polled
  <2> QED
    BY <2>4 DEF A, B
<1> QED
  BY <1>1 DEF AttemptsEnd

\* No command is left without an answer, under the same fairness.
THEOREM EveryCommandAnswered ==
  CallSpec /\ (\A r \in Requests : Polled(r)) => CommandsAnswered
<1>1. ASSUME NEW r \in Requests
      PROVE  CallSpec /\ Polled(r) => (IsCommand(r) ~> call[r].at = "answered")
  <2> DEFINE G == call[r].at = "gate" /\ IsCommand(r)
             A == Attempting(r) /\ IsCommand(r)
             Z == call[r].at = "answered"
  <2>0. CallIInv /\ IsCommand(r) => G \/ A \/ Z
    BY HandlersSound DEF NoCall, Handlers, HandlerStates, IsCommand, Attempting
  <2>1. CallIInv /\ [CallNext]_portalVars => (G => G' \/ A' \/ Z')
    BY GateMoves DEF IsCommand, Attempting
  <2>2. CallIInv /\ <<Decide(r)>>_portalVars /\ [CallNext]_portalVars => (G => A' \/ Z')
    BY GateMoves DEF IsCommand, Attempting
  <2>3. CallIInv /\ [CallNext]_portalVars => (A => A' \/ Z')
    BY AttemptMoves DEF IsCommand, Attempting
  <2>4. ASSUME CallIInv, A PROVE call[r].left = 0
    <3>1. call[r] \in Handlers /\ HandlerSound(call[r], Permitted(r))
      BY <2>4, HandlersSound DEF NoCall, Attempting
    <3>2. call[r].route.retries = 0
      BY <2>4, <3>1, RoutesWellWired DEF IsCommand, Handlers, WellWired
    <3> QED
      BY <2>4, <3>1, <3>2 DEF HandlerSound, CopiesOf, Handlers, Attempting
  <2>5. CallIInv /\ <<TimeOut(r)>>_portalVars /\ [CallNext]_portalVars => (A => Z')
    BY <2>4, AttemptMoves
  <2>6. (G => ~(call[r].at # "gate")) /\ (A => Attempting(r))
    OBVIOUS
  <2> HIDE DEF G, A, Z
  <2>7. CallSpec /\ Polled(r) => (IsCommand(r) ~> Z)
    BY <2>0, <2>1, <2>2, <2>3, <2>5, <2>6, CallInvariance, PTL DEF CallSpec, Polled
  <2> QED
    BY <2>7 DEF Z
<1> QED
  BY <1>1 DEF CommandsAnswered

\* The constants of retry.rs (3 and 5) keep every stack at five retries or fewer.
FewRetries == DEFAULT_MAX_RETRIES <= 5 /\ AGGRESSIVE_MAX_RETRIES <= 5

LEMMA RoutesRetryFew == FewRetries => \A route \in Routes : route.retries <= 5
<1> SUFFICES ASSUME FewRetries PROVE \A route \in Routes : route.retries <= 5
  OBVIOUS
<1> USE DEF FewRetries, Route, Query, Command, CommandAck, Retrying, TimeoutOnly
<1>1. \A route \in SalesRoutes : route.retries <= 5
  BY DEF SalesRoutes, SalesQueryTransport, SalesCommandTransport
<1>2. \A route \in CommitRoutes \cup EduRoutes : route.retries <= 5
  BY DEF CommitRoutes, CommitQueryTransport, CommitCommandTransport, EduRoutes, EduTransport
<1>3. \A route \in CapacityRoutes \cup CustomerRoutes : route.retries <= 5
  BY DEF CapacityRoutes, CapacityQueryTransport, CapacityCommandTransport, CustomerRoutes,
         CustomerTransport
<1>4. \A route \in ExecutionRoutes \cup ProductsRoutes : route.retries <= 5
  BY DEF ExecutionRoutes, ExecutionQueryTransport, ExecutionCommandTransport, ProductsRoutes,
         ProductsTransport
<1>5. \A route \in LandscapeRoutes \cup LegalRoutes : route.retries <= 5
  BY DEF LandscapeRoutes, LandscapeQueryTransport, LandscapeCommandTransport, LegalRoutes,
         LegalTransport
<1> QED
  BY <1>1, <1>2, <1>3, <1>4, <1>5 DEF Routes

\* With as few retries as the code has, no request that is let in goes without
\* an answer: six attempts at most stand between its gate and the last timeout.
THEOREM EveryRequestAnswered ==
  FewRetries => (CallSpec /\ (\A r \in Requests : Polled(r)) => EveryCallAnswered)
<1>1. ASSUME FewRetries, NEW r \in Requests
      PROVE  CallSpec /\ Polled(r) => (call[r].at = "gate" ~> call[r].at = "answered")
  <2> DEFINE Tries(n) == Attempting(r) /\ call[r].left <= n
             G == call[r].at = "gate"
             Z == call[r].at = "answered"
             T0 == Tries(0)  T1 == Tries(1)  T2 == Tries(2)
             T3 == Tries(3)  T4 == Tries(4)  T5 == Tries(5)
  <2>1. ASSUME CallIInv, [CallNext]_portalVars, NEW n \in 0 .. 5, Tries(n)
        PROVE  /\ Tries(n)' \/ Z'
               /\ TimeOut(r) => (n > 0 /\ Tries(n - 1)') \/ Z'
    <3>1. call[r].left \in Nat /\ (Attempting(r)' => call'[r].left \in Nat)
      BY <2>1, AttemptMoves
    <3> QED
      BY <2>1, <3>1, AttemptMoves
  <2>2. CallIInv /\ [CallNext]_portalVars =>
          /\ T5 => T5' \/ Z'
          /\ T4 => T4' \/ Z'
          /\ T3 => T3' \/ Z'
          /\ T2 => T2' \/ Z'
          /\ T1 => T1' \/ Z'
          /\ T0 => T0' \/ Z'
    BY <2>1
  <2>3. CallIInv /\ [CallNext]_portalVars /\ <<TimeOut(r)>>_portalVars =>
          /\ T5 => T4' \/ Z'
          /\ T4 => T3' \/ Z'
          /\ T3 => T2' \/ Z'
          /\ T2 => T1' \/ Z'
          /\ T1 => T0' \/ Z'
          /\ T0 => Z'
    BY <2>1
  <2>4. ASSUME CallIInv, [CallNext]_portalVars, G
        PROVE  /\ G' \/ T5' \/ Z'
               /\ Decide(r) => T5' \/ Z'
    <3>1. call[r] \in Handlers /\ call[r].left = call[r].route.retries
      BY <2>4, HandlersSound DEF NoCall, HandlerSound
    <3>2. call[r].left <= 5
      BY <1>1, <3>1, RoutesRetryFew DEF Handlers
    <3> QED
      BY <2>4, <3>2, GateMoves DEF Attempting
  <2>5. CallIInv /\ [CallNext]_portalVars => (G => G' \/ T5' \/ Z')
    BY <2>4
  <2>6. CallIInv /\ [CallNext]_portalVars /\ <<Decide(r)>>_portalVars => (G => T5' \/ Z')
    BY <2>4
  <2>7. /\ G => ~(call[r].at # "gate")
        /\ T0 \/ T1 \/ T2 \/ T3 \/ T4 \/ T5 => Attempting(r)
    OBVIOUS
  <2> HIDE DEF G, Z, T0, T1, T2, T3, T4, T5
  <2>8. CallSpec /\ Polled(r) => (T5 ~> Z)
    BY <2>2, <2>3, <2>7, CallInvariance, PTL DEF CallSpec, Polled
  <2>9. CallSpec /\ Polled(r) => (G ~> T5 \/ Z)
    BY <2>5, <2>6, <2>7, CallInvariance, PTL DEF CallSpec, Polled
  <2>10. CallSpec /\ Polled(r) => (G ~> Z)
    BY <2>8, <2>9, PTL
  <2> QED
    BY <2>10 DEF G, Z
<1> QED
  BY <1>1 DEF EveryCallAnswered

=============================================================================
