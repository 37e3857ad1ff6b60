------------------------------ MODULE LoginLimit ------------------------------
(***************************************************************************)
(* The login handler and the limiter of failed logins                      *)
(* (internal/api/auth.go and handleLogin in internal/api/server.go).       *)
(*                                                                         *)
(* A login asks the limiter, reads its body and verifies the password,     *)
(* which is slow, and then tells the limiter; in between other logins of   *)
(* the same address do the same.  Times are ages in ticks: lock is what is *)
(* left of lockedUntil, age what has passed since lastSeen.  A count of    *)
(* rlMaxAttempts stands for any higher one, which acts alike, an age of    *)
(* rlEvictAfter + 1 for any higher one.                                    *)
(***************************************************************************)
EXTENDS Integers, FiniteSets

CONSTANTS Ips,             \* client addresses
          Requests,        \* requests at work at the same time
          NoIp,            \* in place of an address
          rlMaxAttempts, rlLockDuration, rlEvictAfter

(* The three constants of auth.go: 5, 15 minutes and an hour. *)
ASSUME LimitAssumption ==
    /\ rlMaxAttempts \in Nat \ {0} /\ rlLockDuration \in Nat \ {0}
    /\ rlEvictAfter \in Nat /\ rlLockDuration <= rlEvictAfter
    /\ NoIp \notin Ips /\ IsFiniteSet(Requests)

VARIABLES
    count,             \* failures of each address, 0 without an entry
    lock, age,
    login,             \* the address of each login past the limiter's check
    late               \* history: failures recorded since an address is locked,
                       \* counted as far as the number of requests

limitVars == <<count, lock, age, login, late>>

LoginTypeOK ==
    /\ count \in [Ips -> 0..rlMaxAttempts]
    /\ lock \in [Ips -> 0..rlLockDuration]
    /\ age \in [Ips -> 0..rlEvictAfter + 1]
    /\ login \in [Requests -> Ips \cup {NoIp}]
    /\ late \in [Ips -> 0..Cardinality(Requests)]

LoginInit ==
    /\ count = [ip \in Ips |-> 0]
    /\ lock = [ip \in Ips |-> 0]
    /\ age = [ip \in Ips |-> 0]
    /\ login = [r \in Requests |-> NoIp]
    /\ late = [ip \in Ips |-> 0]

-------------------------------------------------------------------------------
(* Mutation: the lock is not asked. *)
allowedAlways(ip) == TRUE

allowed(ip) == lock[ip] = 0

(* handleLogin.  A login that is refused leaves nothing behind. *)
Admit(r, ip) ==
    /\ login[r] = NoIp
    /\ allowed(ip)
    /\ login' = [login EXCEPT ![r] = ip]
    /\ UNCHANGED <<count, lock, age, late>>

(* The body is no JSON. *)
BadRequest(r) ==
    /\ login[r] # NoIp
    /\ login' = [login EXCEPT ![r] = NoIp]
    /\ UNCHANGED <<count, lock, age, late>>

(* The lock after one more failure: set again by every one from the last   *)
(* allowed on, for the count stays when a lock runs out.                   *)
LockLeft(ip) ==
    IF count[ip] + 1 >= rlMaxAttempts THEN rlLockDuration ELSE lock[ip]

(* verify says no: record(ip, false). *)
RecordFailure(r) ==
    LET ip == login[r] IN
    /\ ip # NoIp
    /\ login' = [login EXCEPT ![r] = NoIp]
    /\ age' = [age EXCEPT ![ip] = 0]
    /\ count' = [count EXCEPT ![ip] = IF @ < rlMaxAttempts THEN @ + 1 ELSE @]
    /\ lock' = [lock EXCEPT ![ip] = LockLeft(ip)]
    /\ late' = [late EXCEPT ![ip] =
            IF lock[ip] = 0 THEN 0 ELSE IF @ < Cardinality(Requests) THEN @ + 1 ELSE @]

(* record(ip, true) deletes the entry, whatever others have recorded.      *)
RecordSuccess(r) ==
    LET ip == login[r] IN
    /\ ip # NoIp
    /\ login' = [login EXCEPT ![r] = NoIp]
    /\ count' = [count EXCEPT ![ip] = 0]
    /\ lock' = [lock EXCEPT ![ip] = 0]
    /\ age' = [age EXCEPT ![ip] = 0]
    /\ late' = [late EXCEPT ![ip] = 0]

(* Mutation: an entry is evicted after less than a lock. *)
EvictableEarly == {ip \in Ips : count[ip] > 0 /\ age[ip] >= rlLockDuration - 1}

(* Mutation: the comparison is the wrong way round. *)
EvictableNever == {ip \in Ips : age[ip] < 0}

Evictable == {ip \in Ips : age[ip] > rlEvictAfter}

(* evictLoop. *)
Evict ==
    /\ Evictable # {}
    /\ count' = [ip \in Ips |-> IF ip \in Evictable THEN 0 ELSE count[ip]]
    /\ lock' = [ip \in Ips |-> IF ip \in Evictable THEN 0 ELSE lock[ip]]
    /\ age' = [ip \in Ips |-> IF ip \in Evictable THEN 0 ELSE age[ip]]
    /\ UNCHANGED <<login, late>>

(* Time passes; an entry that does not exist has no age. *)
Tick ==
    /\ lock' = [ip \in Ips |-> IF lock[ip] > 0 THEN lock[ip] - 1 ELSE 0]
    /\ age' = [ip \in Ips |->
            IF count[ip] = 0 THEN 0
            ELSE IF age[ip] <= rlEvictAfter THEN age[ip] + 1 ELSE age[ip]]
    /\ UNCHANGED <<count, login, late>>

LoginNext ==
    \/ Evict \/ Tick
    \/ \E r \in Requests :
        \/ BadRequest(r) \/ RecordFailure(r) \/ RecordSuccess(r)
        \/ \E ip \in Ips : Admit(r, ip)

LoginSpec == LoginInit /\ [][LoginNext]_limitVars

-------------------------------------------------------------------------------
(* Safety. *)

AtWork(ip) == {r \in Requests : login[r] = ip}

(* However many logins have passed the check before the one that locks     *)
(* their address, none passes while it is locked: a lock is set and        *)
(* prolonged by at most as many failures as requests may be at work at the *)
(* same time (auth.go:122-149, server.go:163-182).                         *)
FewFailures ==
    \A ip \in Ips : lock[ip] > 0 =>
        late[ip] + Cardinality(AtWork(ip)) < Cardinality(Requests)

(* A lock ends early only by a success of a login that had passed the      *)
(* check before: the eviction, which looks at lastSeen and not at          *)
(* lockedUntil, never takes the entry of a locked address (auth.go:151-162).*)
LocksHold ==
    [][\A ip \in Ips : lock'[ip] < lock[ip] =>
        \/ lock'[ip] = lock[ip] - 1 /\ count'[ip] = count[ip]
        \/ \E r \in Requests : login[r] = ip /\ login'[r] = NoIp]_limitVars
===============================================================================
