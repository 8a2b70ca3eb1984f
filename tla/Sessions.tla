------------------------------- MODULE Sessions -------------------------------
(***************************************************************************)
(* Browser sessions: ServerSessionMiddleware (session.py) and the pages    *)
(* that renew or clear a session (auth.py, deps.py, routers/profile.py).   *)
(*                                                                         *)
(* A session is kept in Redis, or, when a call to Redis fails, in the      *)
(* memory of the worker that serves the request; there are several         *)
(* workers.  A request loads the session, works, and saves it when its     *)
(* response starts; two tabs of a browser do so at once.  One account and  *)
(* one browser; of a session it is kept whether somebody is signed in.     *)
(* What is on record of an identifier is dropped when nothing knows it any *)
(* more, so the identifiers are never used up.                             *)
(***************************************************************************)
EXTENDS Naturals, FiniteSets

CONSTANTS
    Workers,
    Slots,        \* requests the browser may have under way
    Sids,         \* session identifiers
    HasRedis,     \* whether REDIS_URL is set
    MaxTroubles,  \* bound on outages of Redis and restarts of workers
    None          \* no session, no worker

ASSUME SessionsAssumption ==
    /\ HasRedis \in BOOLEAN
    /\ MaxTroubles \in Nat
    /\ None \notin Sids \cup Workers \cup {"anon", "user"}

VARIABLES
    redis,      \* what Redis holds
    memory,     \* what each worker holds
    up,         \* whether Redis can be reached
    linked,     \* the workers that found Redis when they started
    outages,
    restarts,
    born,       \* what each identifier was given out for
    cookie,     \* the identifier the browser holds
    ended,      \* those ended while Redis was there and no other request used them
    at,         \* the worker that serves each request
    sid,        \* the identifier it came with
    data        \* request.session, as it was loaded

storeVars == <<redis, memory, up, linked, outages, restarts>>
requestVars == <<at, sid, data>>
historyVars == <<born, ended>>
sessionVars == <<storeVars, cookie, historyVars, requestVars>>

\* Nothing, a visitor's page with its CSRF token, or somebody signed in.
Payload == {None, "anon", "user"}

Store == [Sids -> Payload]
NoSessions == [s \in Sids |-> None]

SessionInit ==
    /\ redis = NoSessions
    /\ memory = [w \in Workers |-> NoSessions]
    /\ up = HasRedis
    /\ linked = IF HasRedis THEN Workers ELSE {}
    /\ outages = 0 /\ restarts = 0
    /\ born = NoSessions
    /\ cookie = None
    /\ ended = {}
    /\ at = [r \in Slots |-> None]
    /\ sid = [r \in Slots |-> None]
    /\ data = [r \in Slots |-> None]

\* init_rate_limiter: a worker that did not reach Redis when it started never
\* asks it; the others ask it every time and fall back when it fails.
Answers(w) == up /\ w \in linked

-----------------------------------------------------------------------------
(* Sessions                                                                *)

\* _load: what Redis has goes before what the worker remembers.
Loaded(w, s) ==
    IF Answers(w) /\ redis[s] # None THEN redis[s] ELSE memory[w][s]

Begin(r) ==
    /\ at[r] = None
    /\ \E w \in Workers :
        LET found == IF cookie = None THEN None ELSE Loaded(w, cookie)
        IN  /\ at' = [at EXCEPT ![r] = w]
            /\ sid' = [sid EXCEPT ![r] = IF found = None THEN None ELSE cookie]
            /\ data' = [data EXCEPT ![r] = found]
    /\ UNCHANGED <<storeVars, cookie, historyVars>>

\* A table of sessions with the value d under s and without the key gone.
Put(table, s, d, gone) ==
    [x \in Sids |-> IF x = s THEN d ELSE IF x = gone THEN None ELSE table[x]]

Forget(r) ==
    /\ at' = [at EXCEPT ![r] = None]
    /\ sid' = [sid EXCEPT ![r] = None]
    /\ data' = [data EXCEPT ![r] = None]

\* Mutant: what is renewed or cleared stays in Redis.
GoneFromRedisNever(s) == None

\* _delete takes the session out of both places.
GoneFromRedis(s) == s

\* The session s gets the data d, and the session old goes.  It is saved in
\* one place: Redis, and then the worker forgets it, or the worker's memory.
Saved(w, s, d, old) ==
    IF Answers(w)
    THEN /\ redis' = Put(redis, s, d, GoneFromRedis(old))
         /\ memory' = [memory EXCEPT ![w] = Put(@, s, None, old)]
    ELSE /\ memory' = [memory EXCEPT ![w] = Put(@, s, d, old)]
         /\ UNCHANGED redis

\* Identifiers are random: none is given out that is known anywhere.
Copies(s) == {redis[s]} \cup {memory[w][s] : w \in Workers}
Unknown == {s \in Sids : Copies(s) = {None} /\ s # cookie /\ \A r \in Slots : sid[r] # s}

\* send_wrapper: the response to r starts, with the session d.  The old
\* identifier goes when the session is renewed or was cleared; a session that
\* has none, or is renewed, gets a new one.  The browser may have gone and not
\* see its cookie.
Respond(r, d, changed, renew) ==
    LET isNew == d # None /\ (sid[r] = None \/ renew)
        writes == d # None /\ (isNew \/ changed)
        old == IF renew \/ d = None THEN sid[r] ELSE None
    IN  \E s \in IF isNew THEN Unknown ELSE IF writes THEN {sid[r]} ELSE {None} :
          /\ Saved(at[r], s, d, old)
          /\ Forget(r)
          /\ cookie' \in {cookie, IF writes THEN s ELSE IF old # None THEN None ELSE cookie}
          /\ LET fresh == IF isNew THEN {s} ELSE {}
             IN  /\ born' = [x \in Sids |-> IF x \in Unknown' THEN None
                                           ELSE IF x \in fresh THEN d ELSE born[x]]
                 /\ ended' = {x \in (ended \cup {old}) \ ({None} \cup fresh \cup Unknown') :
                                x \in ended \/ (outages = 0 /\ \A q \in Slots \ {r} : sid[q] # x)}
          /\ UNCHANGED <<up, linked, outages, restarts>>

-----------------------------------------------------------------------------
(* Pages                                                                   *)

\* A page: it may give the session its CSRF token, put a message into it or
\* drop one; get_current_user signs out an account that is suspended or gone.
Page(r) ==
    /\ at[r] # None
    /\ \/ Respond(r, data[r], FALSE, FALSE)
       \/ Respond(r, IF data[r] = None THEN "anon" ELSE data[r], TRUE, FALSE)
       \/ data[r] = "user" /\ \E d \in {None, "anon"} : Respond(r, d, TRUE, FALSE)

\* check_csrf: a form is accepted from a session that has its token.
Posts(r) == at[r] # None /\ data[r] # None

Logout(r) == Posts(r) /\ Respond(r, "anon", TRUE, TRUE)

\* profile_change_password
ChangePassword(r) == Posts(r) /\ data[r] = "user" /\ Respond(r, "user", TRUE, TRUE)

\* Mutant: the session keeps the identifier it came with.
RenewedNot == FALSE

\* Somebody signs in under a new identifier.
Renewed == TRUE

\* login: the password was wrong, the account is locked, a code is missing;
\* or somebody is let in.
Login(r) ==
    /\ Posts(r)
    /\ \/ Respond(r, data[r], TRUE, FALSE)
       \/ Respond(r, "user", TRUE, Renewed)

-----------------------------------------------------------------------------
(* Time, Redis and the workers                                             *)

\* A session runs out.
Expire(s) ==
    /\ \/ redis[s] # None /\ redis' = [redis EXCEPT ![s] = None] /\ UNCHANGED memory
       \/ \E w \in Workers :
            /\ memory[w][s] # None
            /\ memory' = [memory EXCEPT ![w][s] = None]
            /\ UNCHANGED redis
    /\ UNCHANGED <<up, linked, outages, restarts, cookie, historyVars,
                   requestVars>>

\* The cookie runs out too.
DropCookie ==
    /\ cookie # None
    /\ cookie' = None
    /\ UNCHANGED <<storeVars, historyVars, requestVars>>

\* Redis cannot be reached; it keeps what it has.  Of what was ended nothing
\* is promised any more, and it is no longer kept.
Outage ==
    /\ up /\ outages + restarts < MaxTroubles
    /\ up' = FALSE /\ outages' = outages + 1 /\ ended' = {}
    /\ UNCHANGED <<redis, memory, linked, restarts, cookie, born, requestVars>>

Recover ==
    /\ HasRedis /\ ~up
    /\ up' = TRUE
    /\ UNCHANGED <<redis, memory, linked, outages, restarts, cookie, historyVars,
                   requestVars>>

\* A worker starts anew: its memory and its requests are gone.
Restart(w) ==
    /\ outages + restarts < MaxTroubles
    /\ restarts' = restarts + 1
    /\ memory' = [memory EXCEPT ![w] = NoSessions]
    /\ linked' = IF up THEN linked \cup {w} ELSE linked \ {w}
    /\ LET on(r) == at[r] = w
       IN  /\ at' = [r \in Slots |-> IF on(r) THEN None ELSE at[r]]
           /\ sid' = [r \in Slots |-> IF on(r) THEN None ELSE sid[r]]
           /\ data' = [r \in Slots |-> IF on(r) THEN None ELSE data[r]]
    /\ UNCHANGED <<redis, up, outages, cookie, historyVars>>

ServeTab(r) ==
    \/ Begin(r) \/ Page(r) \/ Login(r) \/ Logout(r) \/ ChangePassword(r)

SessionNext ==
    \/ \E r \in Slots : ServeTab(r)
    \/ DropCookie \/ \E s \in Sids : Expire(s)
    \/ Outage \/ Recover \/ \E w \in Workers : Restart(w)

SessionSpec == SessionInit /\ [][SessionNext]_sessionVars

-----------------------------------------------------------------------------
(* Properties                                                              *)

\* Every variable has its type.
SessionsTypeOK ==
    /\ redis \in Store /\ memory \in [Workers -> Store]
    /\ up \in BOOLEAN /\ linked \subseteq Workers
    /\ outages \in 0..MaxTroubles /\ restarts \in 0..MaxTroubles
    /\ born \in [Sids -> Payload]
    /\ cookie \in Sids \cup {None}
    /\ ended \subseteq Sids
    /\ at \in [Slots -> Workers \cup {None}]
    /\ sid \in [Slots -> Sids \cup {None}]
    /\ data \in [Slots -> Payload]

\* An identifier given to a visitor never belongs to somebody signed in,
\* whichever tabs are under way and wherever sessions are kept.
SignedInIdIsNew == \A s \in Sids : "user" \in Copies(s) => born[s] = "user"

\* Every call so far has found its data where the others left it.
Reliable ==
    IF HasRedis THEN outages = 0 ELSE restarts = 0 /\ Cardinality(Workers) = 1

\* A session that signing in, signing out or a new password has ended while no
\* other request of the browser was using it is never served again.  One that
\* was in use is left out: the response of that request saves it once more
\* (send_wrapper), and the comment in profile_change_password that the old
\* cookie is dead does not hold for it.
EndedStaysEnded == Reliable => \A s \in ended : Copies(s) = {None}

=============================================================================
