---------------------------- MODULE PermissionCache ----------------------------
(***************************************************************************)
(* The cache of one consultant's permission assertions, in front of Armor, *)
(* as overlapping requests use it.                                         *)
(*                                                                         *)
(* A request reads the cache under the lock; on a miss it asks Armor with  *)
(* no lock held and inserts what it is told when the answer arrives.  So   *)
(* several requests may be asking at once, answers may come back in        *)
(* another order than they were given, and grants change, assertions       *)
(* expire and the entry is invalidated while an answer is on its way.      *)
(*                                                                         *)
(* Consultants do not share entries; the module is about one.  An          *)
(* assertion is its capability and expires_at: scope is not looked at.     *)
(*                                                                         *)
(* Source: crates/bff-api/src/permissions.rs.                              *)
(***************************************************************************)
EXTENDS Integers

CONSTANTS
    Modules,                \* capability families the handlers ask for
    Capabilities,           \* what Armor grants, "{family}.{action}"
    FamilyOf,               \* [Capabilities -> Modules]
    LifetimeOf,             \* [Capabilities -> Nat \ {0}], of an assertion
    EMPTY_ASSERTIONS_TTL,
    Requests,               \* places for requests under way
    MaxTime,                \* bound on the clock
    MaxChanges              \* bound on Armor's changes and invalidations

VARIABLES
    now,
    granted,        \* the capabilities the consultant has, according to Armor
    cache,          \* entries.get(consultant_id): an entry, or none
    req,            \* what each request is doing
    lastGranted,    \* when Armor last granted a capability, -1 for never
    changes         \* changes of grants and invalidations so far

vars == <<now, granted, cache, req, lastGranted, changes>>

ASSUME CacheAssumption ==
    /\ FamilyOf \in [Capabilities -> Modules]
    /\ LifetimeOf \in [Capabilities -> Nat \ {0}]
    /\ EMPTY_ASSERTIONS_TTL \in Nat
    /\ MaxTime \in Nat
    /\ MaxChanges \in Nat

Time       == 0..MaxTime
Assertions == [capability : Capabilities, expires_at : Nat]
Idle       == [at |-> "idle"]
NoEntry    == [at |-> "none"]

\* A request: when it looked the cache up, and the assertions Armor has told
\* it ("told") or those its handler is given ("decided").
IsRequest(q) ==
    \/ q = Idle
    \/ q.at = "asking" /\ q.since \in Time
    \/ q.at \in {"told", "decided"} /\ q.since \in Time /\ q.assertions \subseteq Assertions

\* An entry: the assertions, and until when they may be served.
IsEntry(entry) ==
    \/ entry = NoEntry
    \/ /\ entry.at = "entry"
       /\ entry.assertions \subseteq Assertions
       /\ entry.expires_at \in Nat

TypeOK ==
    /\ now \in Time
    /\ granted \subseteq Capabilities
    /\ IsEntry(cache)
    /\ DOMAIN req = Requests /\ \A r \in Requests : IsRequest(req[r])
    /\ lastGranted \in [Capabilities -> Time \cup {-1}]
    /\ changes \in 0..MaxChanges

Init ==
    /\ now = 0
    /\ granted \in SUBSET Capabilities
    /\ cache = NoEntry
    /\ req = [r \in Requests |-> Idle]
    /\ lastGranted = [c \in Capabilities |-> IF c \in granted THEN 0 ELSE -1]
    /\ changes = 0

-----------------------------------------------------------------------------
\* capability_grants_module, for some assertion of the set.
Permits(assertions, m) == \E a \in assertions : FamilyOf[a.capability] = m

Expiries(assertions) ==
    {a.expires_at : a \in assertions} \cup {now + EMPTY_ASSERTIONS_TTL}

\* Until when a set may be served: the first expiry of its assertions.
IsLastExpiry(e, assertions) ==
    IF assertions = {} THEN e = now + EMPTY_ASSERTIONS_TTL
    ELSE /\ \E a \in assertions : a.expires_at = e
         /\ \A a \in assertions : a.expires_at <= e
IsFirstExpiry(e, assertions) ==
    IF assertions = {} THEN e = now + EMPTY_ASSERTIONS_TTL
    ELSE /\ \E a \in assertions : a.expires_at = e
         /\ \A a \in assertions : e <= a.expires_at

\* cached_if_fresh.
Fresh == cache # NoEntry /\ cache.expires_at > now

\* get_or_refresh: answered from the cache where that is fresh; otherwise the
\* request goes on to ask Armor.
LookUp(r) ==
    /\ req[r] = Idle
    /\ req' = [req EXCEPT ![r] =
                IF Fresh
                THEN [at |-> "decided", since |-> now, assertions |-> cache.assertions]
                ELSE [at |-> "asking", since |-> now]]
    /\ UNCHANGED <<now, granted, cache, lastGranted, changes>>

\* Armor answers fetch_assertions; its answer is on its way.
Answer(r) ==
    /\ req[r].at = "asking"
    /\ req' = [req EXCEPT ![r] =
                [at |-> "told", since |-> req[r].since,
                 assertions |-> {[capability |-> c, expires_at |-> now + LifetimeOf[c]] : c \in granted}]]
    /\ UNCHANGED <<now, granted, cache, lastGranted, changes>>

\* refresh: what Armor told is inserted over whatever is there, and decides.
Refresh(r) ==
    LET q == req[r] IN
    /\ q.at = "told"
    /\ \E e \in Expiries(q.assertions) :
           /\ IsFirstExpiry(e, q.assertions)
           /\ cache' = [at |-> "entry", assertions |-> q.assertions, expires_at |-> e]
    /\ req' = [req EXCEPT ![r] =
                [at |-> "decided", since |-> q.since, assertions |-> q.assertions]]
    /\ UNCHANGED <<now, granted, lastGranted, changes>>

\* Armor or nexus fails: is_permitted answers no to whatever module,
\* assertions_for an empty list, and the entry stays.
ServeStale == IF cache = NoEntry THEN {} ELSE cache.assertions
Deny == {}

FetchFails(r) ==
    /\ req[r].at \in {"asking", "told"}
    /\ req' = [req EXCEPT ![r] =
                [at |-> "decided", since |-> req[r].since, assertions |-> Deny]]
    /\ UNCHANGED <<now, granted, cache, lastGranted, changes>>

\* The handler has its answer, or its future is dropped.
Leave(r) ==
    /\ req[r] # Idle
    /\ req' = [req EXCEPT ![r] = Idle]
    /\ UNCHANGED <<now, granted, cache, lastGranted, changes>>

Change ==
    /\ changes < MaxChanges
    /\ changes' = changes + 1

\* invalidate.
Invalidate ==
    /\ Change
    /\ cache' = NoEntry
    /\ UNCHANGED <<now, granted, req, lastGranted>>

\* Armor grants a capability or takes it back.
Regrant(c) ==
    /\ Change
    /\ granted' = IF c \in granted THEN granted \ {c} ELSE granted \cup {c}
    /\ lastGranted' = [lastGranted EXCEPT ![c] = now]
    /\ UNCHANGED <<now, cache, req>>

Tick ==
    /\ now < MaxTime
    /\ now' = now + 1
    /\ lastGranted' = [c \in Capabilities |-> IF c \in granted THEN now' ELSE lastGranted[c]]
    /\ UNCHANGED <<granted, cache, req, changes>>

Next ==
    \/ \E r \in Requests : LookUp(r) \/ Answer(r) \/ Refresh(r) \/ FetchFails(r) \/ Leave(r)
    \/ Invalidate
    \/ \E c \in Capabilities : Regrant(c)
    \/ Tick

Spec == Init /\ [][Next]_vars

-----------------------------------------------------------------------------
(* Properties.                                                             *)

\* "staleness is never unbounded": whoever is permitted a module had been
\* granted it by Armor within the lifetime of an assertion before the request
\* was made.  However answers are delayed, reordered and overwritten by older
\* ones, a grant taken back is gone when its assertions have expired.
RevocationBounded ==
    \A r \in Requests, m \in Modules : req[r].at = "decided" /\ Permits(req[r].assertions, m) =>
        \E c \in Capabilities :
            /\ FamilyOf[c] = m
            /\ lastGranted[c] >= 0
            /\ lastGranted[c] + LifetimeOf[c] > req[r].since

-----------------------------------------------------------------------------
(* The inductive invariant behind it.                                      *)

GrantedNow ==
    /\ \A c \in granted : lastGranted[c] = now
    /\ \A c \in Capabilities : lastGranted[c] <= now

\* An assertion that is still about was issued by Armor, its lifetime before
\* its expiry at the earliest.
Issued(a) ==
    /\ lastGranted[a.capability] >= 0
    /\ a.expires_at <= lastGranted[a.capability] + LifetimeOf[a.capability]

\* An entry is served for no longer than any of its assertions.
CacheSound ==
    cache # NoEntry =>
        \A a \in cache.assertions : Issued(a) /\ cache.expires_at <= a.expires_at

\* What Armor told a request it held after the request was made.
ToldSound ==
    \A r \in Requests :
        /\ req[r] # Idle => req[r].since <= now
        /\ req[r].at = "told" =>
               \A a \in req[r].assertions :
                   Issued(a) /\ lastGranted[a.capability] >= req[r].since

\* What a request is given is no older than an assertion may get.
ServedSound ==
    \A r \in Requests : req[r].at = "decided" =>
        \A a \in req[r].assertions :
            Issued(a) /\ lastGranted[a.capability] + LifetimeOf[a.capability] > req[r].since

IInv ==
    /\ TypeOK
    /\ GrantedNow
    /\ CacheSound
    /\ ToldSound
    /\ ServedSound

=============================================================================
