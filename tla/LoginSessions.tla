--------------------------- MODULE LoginSessions ---------------------------
(***************************************************************************)
(* Who is let in: the Firebase login route, the cache of Google's signing  *)
(* keys behind it, the allowlist, the session store, the session-lookup    *)
(* middleware and logout.                                                  *)
(*                                                                         *)
(* Everything a login reads (the cached keys, Google's answer, the         *)
(* allowlist row) is read before an await and used after it: keys are      *)
(* rotated, addresses are struck off the list, and other logins replace    *)
(* the cache in between.                                                   *)
(***************************************************************************)
EXTENDS Integers

CONSTANTS
    Emails,      \* addresses a verified token can carry; also consultant ids
    Staff,       \* those ending in @cognitum.one
    Kids,        \* ids of Google's signing keys
    Attempts,    \* POST /api/login/firebase requests in flight
    Sessions,    \* session ids Uuid::new_v4 can return
    Requests,    \* session-gated requests in flight
    CertsTTL,    \* CERTS_CACHE_TTL
    SessionTTL,  \* SESSION_TTL_DAYS
    MaxFetch,    \* longest time Google's answer takes to arrive
    MaxTime      \* bound of the model clock

ASSUME LoginAssumption ==
    /\ Staff \subseteq Emails
    /\ CertsTTL \in Nat \ {0} /\ SessionTTL \in Nat \ {0}
    /\ MaxFetch \in Nat /\ MaxTime \in Nat

VARIABLES
    now,        \* the clock
    published,  \* the keys Google's endpoint serves now
    withdrawn,  \* history: when a key was last served; -1 if never withdrawn
    approved,   \* the approved_consultants rows
    struck,     \* history: when an address last lost its row; -1 if never
    certs,      \* certs_cache; None is a cache without keys
    login,      \* the local state of each login handler
    session,    \* the sessions rows, and history of the ids used
    request     \* the Session attached to each gated request

loginVars == <<now, published, withdrawn, approved, struck, certs, login,
               session, request>>

-----------------------------------------------------------------------------
NoLogin == [at |-> "idle"]
NoRow == [status |-> "unused"]
NoRequest == [at |-> "idle"]

LoginInit ==
    /\ now = 0
    /\ published \in SUBSET Kids
    /\ withdrawn = [k \in Kids |-> -1]
    /\ approved \in SUBSET (Emails \ Staff)
    /\ struck = [e \in Emails |-> -1]
    /\ certs = [keys |-> {}, at |-> 0]
    /\ login = [a \in Attempts |-> NoLogin]
    /\ session = [s \in Sessions |-> NoRow]
    /\ request = [r \in Requests |-> NoRequest]

-----------------------------------------------------------------------------
(* The world outside the process.                                           *)

\* Time passes; an answer of Google's is never under way longer than MaxFetch.
Tick ==
    /\ now < MaxTime
    /\ \A a \in Attempts : login[a].at = "answered" => now < login[a].asOf + MaxFetch
    /\ now' = now + 1
    /\ UNCHANGED <<published, withdrawn, approved, struck, certs, login, session, request>>

\* Google rotates: a new key is served, an old one no longer is, for good.
PublishKey(k) ==
    /\ k \notin published /\ withdrawn[k] = -1
    /\ published' = published \union {k}
    /\ UNCHANGED <<now, withdrawn, approved, struck, certs, login, session, request>>

WithdrawKey(k) ==
    /\ k \in published
    /\ published' = published \ {k}
    /\ withdrawn' = [withdrawn EXCEPT ![k] = now]
    /\ UNCHANGED <<now, approved, struck, certs, login, session, request>>

\* An administrator adds or removes an address.
AddConsultant(e) ==
    /\ e \notin Staff \union approved
    /\ approved' = approved \union {e}
    /\ UNCHANGED <<now, published, withdrawn, struck, certs, login, session, request>>

RemoveConsultant(e) ==
    /\ e \in approved
    /\ approved' = approved \ {e}
    /\ struck' = [struck EXCEPT ![e] = now]
    /\ UNCHANGED <<now, published, withdrawn, certs, login, session, request>>

-----------------------------------------------------------------------------
(* login_with_id_token                                                      *)

Verified(e, k) == [at |-> "verified", email |-> e, kid |-> k, when |-> now]

AnyAge == certs.at <= now
Fresh == now - certs.at < CertsTTL

\* A token Google has signed: its key is, or once was, served.
Signed(k) == k \in published \/ withdrawn[k] # -1

Cached(k) == Fresh /\ k \in certs.keys

\* The first half of cert_for_kid: the cache answers if it is fresh and has
\* the key ...
CertFromCache(a, e, k) ==
    /\ login[a] = NoLogin /\ Signed(k) /\ Cached(k)
    /\ login' = [login EXCEPT ![a] = Verified(e, k)]
    /\ UNCHANGED <<now, published, withdrawn, approved, struck, certs, session, request>>

\* ... else Google is asked, with no lock held. `known` is history: whether
\* the key was served when the login came in.
AskGoogle(a, e, k) ==
    /\ login[a] = NoLogin /\ Signed(k) /\ ~Cached(k)
    /\ login' = [login EXCEPT ![a] =
                    [at |-> "asking", email |-> e, kid |-> k, known |-> k \in published]]
    /\ UNCHANGED <<now, published, withdrawn, approved, struck, certs, session, request>>

Answered(a, keys) ==
    [at |-> "answered", email |-> login[a].email, kid |-> login[a].kid,
     known |-> login[a].known, keys |-> keys, asOf |-> now]

\* A defect: a cache another login has filled meanwhile is taken for the answer.
GoogleOrCache(a) ==
    /\ login[a].at = "asking"
    /\ login' = [login EXCEPT ![a] = Answered(a, IF Fresh THEN certs.keys ELSE published)]
    /\ UNCHANGED <<now, published, withdrawn, approved, struck, certs, session, request>>

\* Google's endpoint answers with the keys it serves at that moment.
GoogleAnswers(a) ==
    /\ login[a].at = "asking"
    /\ login' = [login EXCEPT ![a] = Answered(a, published)]
    /\ UNCHANGED <<now, published, withdrawn, approved, struck, certs, session, request>>

\* The second half of cert_for_kid: the answer replaces the cache, whatever
\* the cache holds by now, and is dated by its arrival.
StoreCerts(a) ==
    /\ login[a].at = "answered"
    /\ login[a].kid \in login[a].keys
    /\ certs' = [keys |-> login[a].keys, at |-> now]
    /\ login' = [login EXCEPT ![a] = Verified(login[a].email, login[a].kid)]
    /\ UNCHANGED <<now, published, withdrawn, approved, struck, session, request>>

\* UnknownKey: the cache is left as it was.
RefuseUnknownKey(a) ==
    /\ login[a].at = "answered"
    /\ login[a].kid \notin login[a].keys
    /\ login' = [login EXCEPT ![a] = NoLogin]
    /\ UNCHANGED <<now, published, withdrawn, approved, struck, certs, session, request>>

\* The allowlist is consulted, for every address but staff's.
ApprovedOnce(e) == e \in Staff \union approved \/ struck[e] # -1
Approved(e) == e \in Staff \union approved

CheckAllowlist(a) ==
    /\ login[a].at = "verified"
    /\ Approved(login[a].email)
    /\ login' = [login EXCEPT ![a] = [@ EXCEPT !.at = "allowed"]]
    /\ UNCHANGED <<now, published, withdrawn, approved, struck, certs, session, request>>

\* INSERT INTO sessions.
IssueSession(a, s) ==
    /\ login[a].at = "allowed"
    /\ session[s].status = "unused"
    /\ session' = [session EXCEPT ![s] =
                      [status |-> "live", consultant |-> login[a].email,
                       expires |-> now + SessionTTL]]
    /\ login' = [login EXCEPT ![a] = NoLogin]
    /\ UNCHANGED <<now, published, withdrawn, approved, struck, certs, request>>

\* The login is answered with an error: the fetch failed or could not be
\* parsed, the address is not approved, or a query failed.
EndLogin(a) ==
    /\ login[a].at \in {"asking", "verified", "allowed"}
    /\ login' = [login EXCEPT ![a] = NoLogin]
    /\ UNCHANGED <<now, published, withdrawn, approved, struck, certs, session, request>>

-----------------------------------------------------------------------------
(* require_session and logout                                               *)

\* get_session: the row is there and has not expired.
GetSessionRow(s) == session[s].status = "live"
GetSession(s) == session[s].status = "live" /\ session[s].expires > now

\* The Session is attached to the request, which holds it until answered,
\* whatever becomes of the row. A missing row, an expired one and a failed
\* lookup are all answered 401: nothing changes.
RequireSession(r, s) ==
    /\ request[r] = NoRequest
    /\ GetSession(s)
    /\ request' = [request EXCEPT ![r] =
                      [at |-> "inside", session |-> s, consultant |-> session[s].consultant,
                       since |-> now]]
    /\ UNCHANGED <<now, published, withdrawn, approved, struck, certs, login, session>>

EndRequest(r) ==
    /\ request[r].at = "inside"
    /\ request' = [request EXCEPT ![r] = NoRequest]
    /\ UNCHANGED <<now, published, withdrawn, approved, struck, certs, login, session>>

\* DELETE FROM sessions. Where it fails nothing changes, and the answer is 200
\* all the same.
DeleteSession(s) == session' = [session EXCEPT ![s].status = "deleted"]

Logout(s) ==
    /\ session[s].status = "live"
    /\ DeleteSession(s)
    /\ UNCHANGED <<now, published, withdrawn, approved, struck, certs, login, request>>

-----------------------------------------------------------------------------
World ==
    \/ Tick
    \/ \E k \in Kids : PublishKey(k) \/ WithdrawKey(k)
    \/ \E e \in Emails : AddConsultant(e) \/ RemoveConsultant(e)

LoginStep(a) ==
    \/ \E e \in Emails, k \in Kids : CertFromCache(a, e, k) \/ AskGoogle(a, e, k)
    \/ GoogleAnswers(a) \/ StoreCerts(a) \/ RefuseUnknownKey(a)
    \/ CheckAllowlist(a) \/ EndLogin(a)
    \/ \E s \in Sessions : IssueSession(a, s)

LoginNext ==
    \/ World
    \/ \E a \in Attempts : LoginStep(a)
    \/ \E s \in Sessions : Logout(s)
    \/ \E r \in Requests : EndRequest(r) \/ \E s \in Sessions : RequireSession(r, s)

LoginSpec == LoginInit /\ [][LoginNext]_loginVars

-----------------------------------------------------------------------------
(* Properties.                                                              *)

\* Key k was being served at some moment no earlier than t.
ServedSince(k, t) == k \in published \/ (withdrawn[k] # -1 /\ withdrawn[k] >= t)

\* Address e was entitled to a session at some moment no earlier than t.
EntitledSince(e, t) == e \in Staff \union approved \/ (struck[e] # -1 /\ struck[e] >= t)

\* How long after its withdrawal a key can still let a login in.
KeyGrace == CertsTTL + MaxFetch

\* A login about to be given a session, and so every session, is vouched for:
\* its key was served less than CERTS_CACHE_TTL and one slow fetch before the
\* token was verified, and its address was staff's or on the allowlist at some
\* moment after. Logins that replace each other's cached keys, rotation and
\* removals in between stretch neither bound.
SessionsVouched ==
    [][\A s \in Sessions : session[s] = NoRow /\ session'[s] # NoRow =>
          \E a \in Attempts :
              /\ login[a].at = "allowed" /\ login'[a] = NoLogin
              /\ session'[s].consultant = login[a].email
              /\ EntitledSince(login[a].email, login[a].when)
              /\ ServedSince(login[a].kid, login[a].when - KeyGrace + 1)]_loginVars

\* A request that is inside belongs to the consultant its session was issued
\* to, came in before that session expired and no earlier than it was issued.
RequestsVouched ==
    \A r \in Requests : request[r].at = "inside" =>
        LET row == session[request[r].session] IN
        /\ row # NoRow
        /\ row.consultant = request[r].consultant
        /\ request[r].since < row.expires
        /\ request[r].since >= row.expires - SessionTTL

\* Rotation refuses nobody: a login refused for an unknown key was not signed
\* with a key Google served from the moment it came in until now, however the
\* cache was filled meanwhile ("handles Google rotating keys between our cache
\* TTL windows").
RotationRefusesNobody ==
    [][\A a \in Attempts : RefuseUnknownKey(a) =>
          ~(login[a].known /\ login[a].kid \in published)]_loginVars

-----------------------------------------------------------------------------
(* The inductive invariant, by parts.                                       *)

Logins ==
    {NoLogin}
    \union [at : {"asking"}, email : Emails, kid : Kids, known : BOOLEAN]
    \union [at : {"answered"}, email : Emails, kid : Kids, known : BOOLEAN,
            keys : SUBSET Kids, asOf : Int]
    \union [at : {"verified", "allowed"}, email : Emails, kid : Kids, when : Int]

Rows ==
    {NoRow} \union [status : {"live", "deleted"}, consultant : Emails, expires : Int]

LoginTypeOK ==
    /\ now \in Nat
    /\ published \in SUBSET Kids
    /\ withdrawn \in [Kids -> Int]
    /\ approved \in SUBSET (Emails \ Staff)
    /\ struck \in [Emails -> Int]
    /\ certs \in [keys : SUBSET Kids, at : Int]
    /\ login \in [Attempts -> Logins]
    /\ session \in [Sessions -> Rows]
    /\ request \in [Requests -> {NoRequest} \union
           [at : {"inside"}, session : Sessions, consultant : Emails, since : Int]]

\* The histories do not run ahead of the clock, and a withdrawn key is gone.
HistorySound ==
    /\ \A k \in Kids : withdrawn[k] >= -1 /\ withdrawn[k] <= now
    /\ \A k \in published : withdrawn[k] = -1
    /\ \A e \in Emails : struck[e] >= -1 /\ struck[e] <= now
    /\ certs.at <= now

\* Every cached key was served no longer than MaxFetch before it was stored.
CertsSound == \A k \in certs.keys : ServedSince(k, certs.at - MaxFetch)

\* What a login carries across its awaits.
LoginSound(l) ==
    /\ l.at \in {"asking", "answered"} =>
           (l.known => l.kid \in published \/ withdrawn[l.kid] # -1)
    /\ l.at = "answered" =>
           /\ l.asOf <= now /\ now <= l.asOf + MaxFetch
           /\ \A k \in l.keys : ServedSince(k, l.asOf)
           /\ l.known /\ l.kid \in published => l.kid \in l.keys
    /\ l.at \in {"verified", "allowed"} =>
           /\ l.when <= now
           /\ ServedSince(l.kid, l.when - KeyGrace + 1)
    /\ l.at = "allowed" => EntitledSince(l.email, l.when)

LoginsSound == \A a \in Attempts : LoginSound(login[a])

\* No row outlives its issue by more than the session's life.
SessionsSound ==
    \A s \in Sessions : session[s] # NoRow => session[s].expires <= now + SessionTTL

LoginIInv ==
    /\ LoginTypeOK /\ HistorySound /\ CertsSound /\ LoginsSound
    /\ SessionsSound /\ RequestsVouched

=============================================================================
