-------------------------------- MODULE SignIn --------------------------------
(***************************************************************************)
(* Signing in to one account: the lock after repeated mistakes and the     *)
(* codes that work once (security.py), the stages of login (auth.py) and   *)
(* the second factor (routers/profile.py, services/totp.py).               *)
(*                                                                         *)
(* Both are kept in Redis, or, when a call to Redis fails, in the memory   *)
(* of the worker that serves the request; there are several workers.  Each *)
(* call of security.py is one step, and attempts interleave between them.  *)
(* The sessions are in Sessions.                                           *)
(***************************************************************************)
EXTENDS Naturals, FiniteSets

CONSTANTS
    Workers,
    Slots,        \* attempts under way
    Codes,        \* codes the second factor shows
    Limit,        \* mistakes before a lock
    HasRedis,     \* whether REDIS_URL is set
    MaxTroubles,  \* bound on outages of Redis and restarts of workers
    None          \* no worker

VARIABLES
    redis,      \* what Redis holds
    memory,     \* what each worker holds
    up,         \* whether Redis can be reached
    linked,     \* the workers that found Redis when they started
    outages,
    restarts,
    secret,     \* whether the account has a second factor
    tries,      \* mistakes made since the account was last unlocked
    admitted,   \* how often each code has let somebody in
    pc,         \* the stage of each attempt
    at          \* the worker that serves it

storeVars == <<redis, memory, up, linked, outages, restarts>>
vars == <<storeVars, secret, tries, admitted, pc, at>>

Store == [fails : 0..Limit, lock : BOOLEAN, used : SUBSET Codes]
Fresh == [fails |-> 0, lock |-> FALSE, used |-> {}]

Init ==
    /\ redis = Fresh
    /\ memory = [w \in Workers |-> Fresh]
    /\ up = HasRedis
    /\ linked = IF HasRedis THEN Workers ELSE {}
    /\ outages = 0 /\ restarts = 0
    /\ secret \in BOOLEAN
    /\ tries = 0
    /\ admitted = [c \in Codes |-> 0]
    /\ pc = [r \in Slots |-> "idle"]
    /\ at = [r \in Slots |-> None]

\* init_rate_limiter: a worker that did not reach Redis when it started never
\* asks it; the others ask it every time and fall back when it fails.
Answers(w) == up /\ w \in linked

Goes(r, stage) == pc' = [pc EXCEPT ![r] = stage] /\ UNCHANGED at
Ends(r) == pc' = [pc EXCEPT ![r] = "idle"] /\ at' = [at EXCEPT ![r] = None]

\* check_login_lock
Locked(w) == IF Answers(w) THEN redis.lock ELSE memory[w].lock

\* A locked account is turned away, and a form without a password.
Login(r) ==
    /\ pc[r] = "idle"
    /\ \E w \in Workers :
        /\ ~Locked(w)
        /\ pc' = [pc EXCEPT ![r] = "verify"]
        /\ at' = [at EXCEPT ![r] = w]
    /\ UNCHANGED <<storeVars, secret, tries, admitted>>

\* consume_once: SET NX in Redis, or the dictionary of the worker.
Consume(w, c) ==
    IF Answers(w)
    THEN /\ c \notin redis.used
         /\ redis' = [redis EXCEPT !.used = @ \cup {c}]
         /\ UNCHANGED memory
    ELSE /\ c \notin memory[w].used
         /\ memory' = [memory EXCEPT ![w].used = @ \cup {c}]
         /\ UNCHANGED redis

\* Bound: mistakes are counted up to one more than TriesAreBounded allows.
MaxTries == Limit + Cardinality(Slots) * (1 + MaxTroubles)

\* A wrong password; a wrong or a used code.
Mistaken(r) ==
    /\ pc[r] = "verify"
    /\ tries' = IF tries = MaxTries THEN tries ELSE tries + 1
    /\ Goes(r, "failed")
    /\ UNCHANGED <<storeVars, secret, admitted>>

\* The right password, but the code has not been typed yet: it is asked for,
\* and that is no mistake.
AskForCode(r) ==
    /\ pc[r] = "verify" /\ secret
    /\ Ends(r)
    /\ UNCHANGED <<storeVars, secret, tries, admitted>>

Known(r) ==
    /\ pc[r] = "verify"
    /\ \/ ~secret /\ UNCHANGED <<redis, memory, admitted>>
       \/ secret /\ \E c \in Codes :
            /\ Consume(at[r], c)
            /\ admitted' = [admitted EXCEPT ![c] = @ + 1]
    /\ Goes(r, "welcome")
    /\ UNCHANGED <<up, linked, outages, restarts, secret, tries>>

\* record_login_failure: the count of Redis or that of the worker; the lock
\* is set in both.
RecordFailure(r) ==
    /\ pc[r] = "failed"
    /\ LET w == at[r]
           before == IF Answers(w) THEN redis.fails ELSE memory[w].fails
           n == IF before = Limit THEN Limit ELSE before + 1
           locks == n = Limit
       IN  /\ redis' = IF Answers(w) THEN [redis EXCEPT !.fails = n, !.lock = @ \/ locks]
                       ELSE redis
           /\ memory' = [memory EXCEPT ![w].fails = IF Answers(w) THEN @ ELSE n,
                                       ![w].lock = @ \/ locks]
    /\ Ends(r)
    /\ UNCHANGED <<up, linked, outages, restarts, secret, tries, admitted>>

\* reset_login_failures
Welcome(r) ==
    /\ pc[r] = "welcome"
    /\ redis' = IF Answers(at[r]) THEN [redis EXCEPT !.fails = 0, !.lock = FALSE] ELSE redis
    /\ memory' = [memory EXCEPT ![at[r]].fails = 0, ![at[r]].lock = FALSE]
    /\ tries' = 0
    /\ Ends(r)
    /\ UNCHANGED <<up, linked, outages, restarts, secret, admitted>>

\* totp_confirm, with the secret totp_start has put into the session, and
\* totp_disable.
SetSecret ==
    /\ secret' = ~secret
    /\ UNCHANGED <<storeVars, tries, admitted, pc, at>>

-----------------------------------------------------------------------------
(* Time, Redis and the workers                                             *)

\* A lock runs out; the mistakes stay counted.
Unlock ==
    /\ \/ /\ redis.lock
          /\ redis' = [redis EXCEPT !.lock = FALSE]
          /\ tries' = 0
          /\ UNCHANGED memory
       \/ \E w \in Workers :
            /\ memory[w].lock
            /\ memory' = [memory EXCEPT ![w].lock = FALSE]
            /\ tries' = IF HasRedis THEN tries ELSE 0
            /\ UNCHANGED redis
    /\ UNCHANGED <<up, linked, outages, restarts, secret, admitted, pc, at>>

\* Redis cannot be reached; it keeps what it has.
Outage ==
    /\ up /\ outages + restarts < MaxTroubles
    /\ up' = FALSE /\ outages' = outages + 1
    /\ UNCHANGED <<redis, memory, linked, restarts, secret, tries, admitted, pc, at>>

Recover ==
    /\ HasRedis /\ ~up
    /\ up' = TRUE
    /\ UNCHANGED <<redis, memory, linked, outages, restarts, secret, tries, admitted, pc, at>>

\* A worker starts anew: its memory and its requests are gone.
Restart(w) ==
    /\ outages + restarts < MaxTroubles
    /\ restarts' = restarts + 1
    /\ memory' = [memory EXCEPT ![w] = Fresh]
    /\ linked' = IF up THEN linked \cup {w} ELSE linked \ {w}
    /\ pc' = [r \in Slots |-> IF at[r] = w THEN "idle" ELSE pc[r]]
    /\ at' = [r \in Slots |-> IF at[r] = w THEN None ELSE at[r]]
    /\ UNCHANGED <<redis, up, outages, secret, tries, admitted>>

Attempt(r) ==
    \/ Login(r) \/ Mistaken(r) \/ AskForCode(r) \/ Known(r) \/ RecordFailure(r) \/ Welcome(r)

Next ==
    \/ \E r \in Slots : Attempt(r)
    \/ SetSecret \/ Unlock
    \/ Outage \/ Recover \/ \E w \in Workers : Restart(w)

Spec == Init /\ [][Next]_vars

-----------------------------------------------------------------------------
(* Properties                                                              *)

\* Every variable has its type.
SignInTypeOK ==
    /\ redis \in Store /\ memory \in [Workers -> Store]
    /\ up \in BOOLEAN /\ linked \subseteq Workers
    /\ outages \in 0..MaxTroubles /\ restarts \in 0..MaxTroubles
    /\ secret \in BOOLEAN
    /\ tries \in Nat /\ admitted \in [Codes -> Nat]
    /\ pc \in [Slots -> {"idle", "verify", "failed", "welcome"}]
    /\ at \in [Slots -> Workers \cup {None}]

\* Every call so far has found its data where the others left it.
Reliable ==
    IF HasRedis THEN outages = 0 ELSE restarts = 0 /\ Cardinality(Workers) = 1

\* A code lets one request in, whichever workers it is sent to.
CodeWorksOnce == Reliable => \A c \in Codes : admitted[c] <= 1

\* The account is locked after the mistakes that are allowed, those that were
\* under way, and those a worker died of, on all workers together.
TriesAreBounded == Reliable => tries < Limit + Cardinality(Slots) * (1 + restarts)
=============================================================================
