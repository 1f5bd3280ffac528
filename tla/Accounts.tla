------------------------------ MODULE Accounts ------------------------------
(***************************************************************************)
(* One account: login with its lockout, password reset, sessions (JWT) and *)
(* their revocation through Redis.  Handlers touch no other account, so    *)
(* one is enough.                                                          *)
(*                                                                         *)
(* Login and reset load the user row, then spend long on argon2, then      *)
(* write the columns they changed; clock ticks fall in between.  The clock *)
(* is in seconds, the unit of a token's iat and of the comparison with     *)
(* password_changed_at.                                                    *)
(***************************************************************************)
EXTENDS RequestThreads, Integers, Sequences, FiniteSets

CONSTANTS
    MaxAttempts,    \* MAX_LOGIN_ATTEMPTS
    LockTime,       \* LOCKOUT_DURATION_MINUTES, in ticks
    ResetTime,      \* RESET_TOKEN_EXPIRY_MINUTES, in ticks
    TokenTime,      \* TOKEN_EXPIRY_MINUTES, in ticks
    MaxNow, MaxResets, MaxSessions, MaxGuesses      \* bounds of the model

ASSUME AccountAssumption ==
    /\ MaxAttempts \in Nat \ {0}
    /\ {LockTime, ResetTime, TokenTime} \subseteq Nat \ {0}
    /\ {MaxNow, MaxResets, MaxSessions, MaxGuesses} \subseteq Nat

VARIABLES
    now,            \* the clock
    account,        \* the user's row; a password is its generation
    usable,         \* it has an active membership in an active organization
    resets,         \* password_reset_tokens
    sessions,       \* the tokens issued
    denied,         \* Redis: the revoked tokens (jti), each with the tick its key
                    \* ends in
    redisUp,        \* whether Redis answers
    client,         \* _redis_client and _redis_unavailable of the process
    guesses,        \* history: when wrong passwords were taken, since the
                    \* counter was last cleared
    left,           \* history: tokens whose logout was answered
    outage          \* history: Redis has failed to answer at some time

accountVars == <<now, account, usable, resets, sessions, denied, redisUp, client,
                 req, guesses, left, outage>>

revocation == <<denied, redisUp, client, left, outage>>

----------------------------------------------------------------------------
(* Data.                                                                   *)

NotLocked == 0      \* locked_until is NULL; a real lock ends after tick 0

Rows == [password : Nat, changedAt : Nat, misses : Nat, lockedUntil : Nat]

Resets == [expires : Nat, used : BOOLEAN]

Sessions == [iat : Nat, exp : Nat, password : Nat]

AccountRequests ==
    [op : {"login", "miss", "reset", "unlock"}, seen : Rows, at : Nat, id : Nat]

ASSUME IdleAssumption == Idle \notin AccountRequests

\* The type invariant: counters never go below 0, and only tokens that were
\* issued are revoked.
AccountTypeOK ==
    /\ now \in 0..MaxNow
    /\ account \in Rows
    /\ usable \in BOOLEAN
    /\ resets \in Seq(Resets)
    /\ sessions \in Seq(Sessions)
    /\ DOMAIN denied \subseteq DOMAIN sessions
    /\ \A t \in DOMAIN denied : denied[t] \in Nat
    /\ redisUp \in BOOLEAN
    /\ client \in {"none", "ready", "off"}
    /\ req \in [Workers -> AccountRequests \cup {Idle}]
    /\ guesses \in Seq(Nat)
    /\ left \subseteq DOMAIN sessions
    /\ outage \in BOOLEAN

AccountInit ==
    /\ now = 0
    /\ account = [password |-> 0, changedAt |-> 0, misses |-> 0,
                  lockedUntil |-> NotLocked]
    /\ usable = TRUE
    /\ resets = <<>>
    /\ sessions = <<>>
    /\ denied = <<>>
    /\ redisUp = TRUE
    /\ client = "none"
    /\ req = [w \in Workers |-> Idle]
    /\ guesses = <<>>
    /\ left = {}
    /\ outage = FALSE

LoadAccount(w, op, id) ==
    /\ req[w] = Idle
    /\ req' = [req EXCEPT ![w] =
                  [op |-> op, seen |-> account, at |-> now, id |-> id]]
    /\ UNCHANGED <<now, account, usable, resets, sessions, revocation, guesses>>

\* Fault: a success takes one failure back instead of all.
ClearedByOne(current, seen) ==
    [current EXCEPT !.misses = seen.misses - 1, !.lockedUntil = NotLocked]

\* The row with the failure counter and the lock cleared, as login, reset
\* and unlock write it over the row they had loaded.
Cleared(current, seen) ==
    [current EXCEPT !.misses = Column(@, seen.misses, 0),
                    !.lockedUntil = Column(@, seen.lockedUntil, NotLocked)]

----------------------------------------------------------------------------
(* Login.                                                                  *)

\* A locked account is answered 401 before the password is looked at.  The
\* lock ends by itself; the counter stays where it was.
Locked == account.lockedUntil > now

BeginLogin(w) == ~Locked /\ LoadAccount(w, "login", 0)

BeginMiss(w) ==
    /\ ~Locked
    /\ Len(guesses) < MaxGuesses
    /\ LoadAccount(w, "miss", 0)

\* Fault: the lock needs one more failure than the limit.
ReachedOneLate(misses) == misses > MaxAttempts

Reached(misses) == misses >= MaxAttempts

\* A wrong password: count it on the loaded counter, lock at the limit.
CommitMiss(w) ==
    /\ Serving(w, {"miss"})
    /\ LET misses == req[w].seen.misses + 1
       IN  account' = [account EXCEPT !.misses = misses,
               !.lockedUntil = IF Reached(misses) THEN req[w].at + LockTime ELSE @]
    /\ guesses' = Append(guesses, req[w].at)
    /\ Answer(w)
    /\ UNCHANGED <<now, usable, resets, sessions, revocation>>

\* Without an active membership in an active organization the right password
\* is answered 401 too, and clears nothing.  iat is taken after the commit.
CommitLogin(w) ==
    /\ Serving(w, {"login"})
    /\ IF usable
       THEN /\ account' = Cleared(account, req[w].seen)
            /\ sessions' = Append(sessions,
                   [iat |-> now, exp |-> now + TokenTime,
                    password |-> req[w].seen.password])
            /\ guesses' = <<>>
       ELSE UNCHANGED <<account, sessions, guesses>>
    /\ Answer(w)
    /\ UNCHANGED <<now, usable, resets, revocation>>

\* unlock_user, by an administrator of the user's organization.
BeginUnlock(w) == LoadAccount(w, "unlock", 0)

CommitUnlock(w) ==
    /\ Serving(w, {"unlock"})
    /\ account' = Cleared(account, req[w].seen)
    /\ guesses' = <<>>
    /\ Answer(w)
    /\ UNCHANGED <<now, usable, resets, sessions, revocation>>

----------------------------------------------------------------------------
(* Password reset.  Several tokens may be outstanding.                     *)

ForgotPassword ==
    /\ Len(resets) < MaxResets
    /\ resets' = Append(resets, [expires |-> now + ResetTime, used |-> FALSE])
    /\ UNCHANGED <<now, account, usable, sessions, revocation, req, guesses>>

\* Fault: only the expiry is tested.
UsableUntilExpiry(i) == resets[i].expires >= now

UsableReset(i) == ~resets[i].used /\ resets[i].expires >= now

BeginReset(w, i) == UsableReset(i) /\ LoadAccount(w, "reset", i)

\* Fault: password_changed_at stays behind.
ResetKeepsSessions(current, r) ==
    [Cleared(current, r.seen) EXCEPT !.password = @ + 1]

\* The row reset_password writes: a new password, dated when the request
\* began.
ResetRow(current, r) ==
    [Cleared(current, r.seen) EXCEPT !.password = @ + 1, !.changedAt = r.at]

CommitReset(w) ==
    /\ Serving(w, {"reset"})
    /\ account' = ResetRow(account, req[w])
    /\ resets' = [resets EXCEPT ![req[w].id].used = TRUE]
    /\ guesses' = <<>>
    /\ Answer(w)
    /\ UNCHANGED <<now, usable, sessions, revocation>>

----------------------------------------------------------------------------
(* Sessions.                                                               *)

\* _get_redis: the first call connects; if that fails the process never
\* tries again.
Connected ==
    CASE client = "none" -> IF redisUp THEN "ready" ELSE "off"
      [] OTHER           -> client

Reachable == Connected = "ready" /\ redisUp

\* is_jti_revoked, open when Redis cannot be asked: the key has not ended.
Revoked(t) == Reachable /\ t \in DOMAIN denied /\ now <= denied[t]

\* Not issued in a second before that of the last password change.
Fresh(t) == sessions[t].iat >= account.changedAt

\* get_current_principal lets the token in: jose accepts it through the whole
\* second exp.
Valid(t) == ~Revoked(t) /\ Fresh(t) /\ now <= sessions[t].exp

\* Any authenticated request asks Redis.
UseSession(t) ==
    /\ Valid(t)
    /\ client' = Connected
    /\ UNCHANGED <<now, account, usable, resets, sessions, denied, redisUp, req,
                   guesses, left, outage>>

\* The key logout sets lives for exp less the whole seconds of now, at least
\* 1, counted from within the present second: it ends within second exp.
KeyEnds(t) == IF sessions[t].exp > now THEN sessions[t].exp ELSE now + 1

WithKey(t) ==
    [k \in DOMAIN denied \cup {t} |-> IF k = t THEN KeyEnds(t) ELSE denied[k]]

\* Fault: a client that is not connected yet is taken for a failed one.
DenyIfReady(t) == IF client = "ready" /\ redisUp THEN WithKey(t) ELSE denied

\* revoke_jti: SETEX, given up silently when Redis does not answer.
Deny(t) == IF Reachable THEN WithKey(t) ELSE denied

Logout(t) ==
    /\ Valid(t)
    /\ denied' = Deny(t)
    /\ client' = Connected
    /\ left' = left \cup {t}
    /\ UNCHANGED <<now, account, usable, resets, sessions, redisUp, req, guesses,
                   outage>>

----------------------------------------------------------------------------
(* The environment.                                                        *)

Tick ==
    /\ now < MaxNow
    /\ now' = now + 1
    /\ UNCHANGED <<account, usable, resets, sessions, revocation, req, guesses>>

ChangeMemberships ==
    /\ usable' = ~usable
    /\ UNCHANGED <<now, account, resets, sessions, revocation, req, guesses>>

RedisFails ==
    /\ redisUp' = FALSE
    /\ outage' = TRUE
    /\ UNCHANGED <<now, account, usable, resets, sessions, denied, client, req,
                   guesses, left>>

RedisRecovers ==
    /\ redisUp' = TRUE
    /\ UNCHANGED <<now, account, usable, resets, sessions, denied, client, req,
                   guesses, left, outage>>

\* Redis drops a key, early or late in the second it ends in.
KeyExpires ==
    /\ \E t \in DOMAIN denied :
           /\ denied[t] <= now
           /\ denied' = [k \in DOMAIN denied \ {t} |-> denied[k]]
    /\ UNCHANGED <<now, account, usable, resets, sessions, redisUp, client, req,
                   guesses, left, outage>>

\* The process restarts: its requests and its Redis client are gone.
Restart ==
    /\ req' = [w \in Workers |-> Idle]
    /\ client' = "none"
    /\ UNCHANGED <<now, account, usable, resets, sessions, denied, redisUp,
                   guesses, left, outage>>

AccountNext ==
    \/ \E w \in Workers :
           \/ Len(sessions) < MaxSessions /\ BeginLogin(w)
           \/ BeginMiss(w) \/ CommitMiss(w) \/ CommitLogin(w)
           \/ BeginUnlock(w) \/ CommitUnlock(w)
           \/ \E i \in DOMAIN resets : BeginReset(w, i)
           \/ CommitReset(w)
    \/ ForgotPassword
    \/ \E t \in DOMAIN sessions : UseSession(t) \/ Logout(t)
    \/ Tick \/ ChangeMemberships \/ RedisFails \/ RedisRecovers \/ KeyExpires
    \/ Restart

AccountSpec == AccountInit /\ [][AccountNext]_accountVars

----------------------------------------------------------------------------
(* Properties.                                                             *)

\* FR-009 and research R5: between two clearings of the counter no span of
\* LockTime takes more than MaxAttempts wrong passwords, although the counter
\* survives the end of the lock.
GuessesAreSpaced ==
    \A i \in DOMAIN guesses :
        Cardinality({j \in DOMAIN guesses :
            guesses[j] \in guesses[i]..(guesses[i] + LockTime - 1)}) <= MaxAttempts

\* FR-014: a session opened with a former password is over, unless it was
\* opened in the very second of the change (iat is compared in seconds).
SessionsEndWithPassword ==
    \A t \in DOMAIN sessions : Valid(t) =>
        \/ sessions[t].password = account.password
        \/ sessions[t].iat = account.changedAt

\* FR-013: every password change has consumed a reset token of its own.
ResetsAreSingleUse ==
    account.password = Cardinality({i \in DOMAIN resets : resets[i].used})

\* The denylist: a token whose logout was answered opens nothing before its
\* last second, as long as Redis has never failed (revocation is fail-open by
\* design).  In its last second it may open again: its key can end first.
LogoutIsFinal == ~outage => \A t \in left : Valid(t) => now = sessions[t].exp

\* What opens the account, one request at a time and with clock, Redis and
\* restarts running: neither a former password, a reset that was used, nor,
\* before its last second, a session that was ended.
AccessIsCurrent ==
    /\ AccountTypeOK
    /\ SessionsEndWithPassword
    /\ LogoutIsFinal
    /\ ResetsAreSingleUse

=============================================================================
