------------------------------- MODULE ServeProofs ------------------------------
(***************************************************************************)
(* Proofs about the modules LoginLimit, Serve and Startup.                 *)
(*                                                                         *)
(* The limiter, for any addresses, any finite set of requests and any      *)
(* limits with rlLockDuration <= rlEvictAfter: its inductive invariant     *)
(* adds to the type and to FewFailures that a locked address has an entry  *)
(* too young to be evicted.                                                *)
(*                                                                         *)
(* The program, for any layers of configuration, too: its inductive        *)
(* invariant says what is deferred and open at each place of runServe,     *)
(* that nothing runs before all of it is, and that the context is          *)
(* cancelled as soon as the first deferred call has run.  What the program *)
(* does to the database file meanwhile is in the last section.             *)
(***************************************************************************)
EXTENDS Serve, Startup, FiniteSetTheorems, SequenceTheorems, TLAPS

LockedIsYoung ==
    \A ip \in Ips : lock[ip] > 0 => count[ip] > 0 /\ age[ip] + lock[ip] <= rlLockDuration

LoginInv == LoginTypeOK /\ LockedIsYoung /\ FewFailures

-------------------------------------------------------------------------------
(* The logins at work are finitely many, and no more than the requests. *)
LEMMA AtWorkIsFinite ==
  ASSUME NEW ip
  PROVE  /\ IsFiniteSet(AtWork(ip)) /\ Cardinality(AtWork(ip)) \in Nat
         /\ Cardinality(Requests) \in Nat
         /\ Cardinality(AtWork(ip)) <= Cardinality(Requests)
  <1>1. AtWork(ip) \in SUBSET Requests
    BY DEF AtWork
  <1>2. IsFiniteSet(AtWork(ip)) /\ Cardinality(AtWork(ip)) <= Cardinality(Requests)
    BY <1>1, FS_Subset, LimitAssumption
  <1> QED  BY <1>2, FS_CardinalityType, LimitAssumption

(* A login that ends is at work for its address no longer. *)
LEMMA EndedLoginLeaves ==
  ASSUME LoginTypeOK, NEW r \in Requests, login[r] # NoIp,
         login' = [login EXCEPT ![r] = NoIp], NEW ip \in Ips
  PROVE  /\ AtWork(ip)' = AtWork(ip) \ {r}
         /\ Cardinality(AtWork(ip)') =
                IF login[r] = ip THEN Cardinality(AtWork(ip)) - 1 ELSE Cardinality(AtWork(ip))
  <1>1. AtWork(ip)' = AtWork(ip) \ {r}
    BY LimitAssumption DEF AtWork, LoginTypeOK
  <1>2. r \in AtWork(ip) <=> login[r] = ip
    BY DEF AtWork
  <1> QED  BY <1>1, <1>2, AtWorkIsFinite, FS_RemoveElement

(* The invariant holds before the first login. *)
THEOREM LoginInitial == LoginInit => LoginInv
  <1> SUFFICES ASSUME LoginInit PROVE LoginInv
    OBVIOUS
  <1>1. Cardinality(Requests) \in Nat
    BY FS_CardinalityType, LimitAssumption
  <1>2. LoginTypeOK
    BY <1>1, LimitAssumption DEF LoginInit, LoginTypeOK
  <1>3. LockedIsYoung /\ FewFailures
    BY DEF LoginInit, LockedIsYoung, FewFailures
  <1> QED  BY <1>2, <1>3 DEF LoginInv

-------------------------------------------------------------------------------
(* A login is admitted only where there is no lock, so the logins at work  *)
(* for a locked address do not become more.                                *)
LEMMA AdmitKeepsInv ==
  ASSUME LoginInv, NEW r \in Requests, NEW ip \in Ips, Admit(r, ip)
  PROVE  LoginInv'
  <1>1. LoginTypeOK'
    BY DEF LoginInv, LoginTypeOK, Admit
  <1>2. LockedIsYoung'
    BY DEF LoginInv, LockedIsYoung, Admit
  <1>3. FewFailures'
    <2> SUFFICES ASSUME NEW i \in Ips, lock[i] > 0
                 PROVE  late[i] + Cardinality(AtWork(i)') < Cardinality(Requests)
      BY DEF Admit, FewFailures
    <2>1. i # ip
      BY DEF Admit, allowed
    <2>2. AtWork(i)' = AtWork(i)
      BY <2>1, LimitAssumption DEF AtWork, Admit, LoginInv, LoginTypeOK
    <2> QED  BY <2>2 DEF LoginInv, FewFailures
  <1> QED  BY <1>1, <1>2, <1>3 DEF LoginInv

(* A login whose body is no JSON makes the logins at work fewer. *)
LEMMA BadRequestKeepsInv ==
  ASSUME LoginInv, NEW r \in Requests, BadRequest(r)
  PROVE  LoginInv'
  <1>1. LoginTypeOK'
    BY DEF LoginInv, LoginTypeOK, BadRequest
  <1>2. LockedIsYoung'
    BY DEF LoginInv, LockedIsYoung, BadRequest
  <1>3. FewFailures'
    <2> SUFFICES ASSUME NEW i \in Ips, lock[i] > 0
                 PROVE  late[i] + Cardinality(AtWork(i)') < Cardinality(Requests)
      BY DEF BadRequest, FewFailures
    <2>1. late[i] \in Nat /\ Cardinality(Requests) \in Nat
      BY AtWorkIsFinite DEF LoginInv, LoginTypeOK
    <2>2. /\ Cardinality(AtWork(i)) \in Nat
          /\ Cardinality(AtWork(i)') =
                IF login[r] = i THEN Cardinality(AtWork(i)) - 1 ELSE Cardinality(AtWork(i))
      BY EndedLoginLeaves, AtWorkIsFinite DEF LoginInv, BadRequest
    <2> QED  BY <2>1, <2>2 DEF LoginInv, FewFailures
  <1> QED  BY <1>1, <1>2, <1>3 DEF LoginInv

(* A failure sets the lock anew, or counts for the lock that there is. *)
LEMMA FailureKeepsInv ==
  ASSUME LoginInv, NEW r \in Requests, RecordFailure(r)
  PROVE  LoginInv'
  <1> DEFINE ip == login[r]
  <1>1. ip \in Ips
    BY DEF LoginInv, LoginTypeOK, RecordFailure
  <1>2. Cardinality(Requests) \in Nat
    BY AtWorkIsFinite
  <1>3. LoginTypeOK'
    BY <1>1, <1>2, LimitAssumption DEF LoginInv, LoginTypeOK, RecordFailure, LockLeft
  <1>4. LockedIsYoung'
    <2> SUFFICES ASSUME NEW i \in Ips, lock'[i] > 0
                 PROVE  count'[i] > 0 /\ age'[i] + lock'[i] <= rlLockDuration
      BY DEF LockedIsYoung
    <2>1. CASE i # ip
      BY <2>1, <1>1 DEF LoginInv, LoginTypeOK, LockedIsYoung, RecordFailure
    <2>2. CASE i = ip
      <3>1. age'[i] = 0 /\ lock'[i] \in 0..rlLockDuration
        BY <2>2, <1>1, <1>3 DEF LoginInv, LoginTypeOK, RecordFailure
      <3>2. count'[i] > 0
        BY <2>2, <1>1, LimitAssumption DEF LoginInv, LoginTypeOK, RecordFailure
      <3> QED  BY <3>1, <3>2, LimitAssumption
    <2> QED  BY <2>1, <2>2
  <1>5. FewFailures'
    <2> SUFFICES ASSUME NEW i \in Ips, lock'[i] > 0
                 PROVE  late'[i] + Cardinality(AtWork(i)') < Cardinality(Requests)
      BY DEF FewFailures
    <2>1. /\ Cardinality(AtWork(i)) \in Nat /\ Cardinality(AtWork(i)) <= Cardinality(Requests)
          /\ Cardinality(AtWork(i)') =
                IF ip = i THEN Cardinality(AtWork(i)) - 1 ELSE Cardinality(AtWork(i))
      BY EndedLoginLeaves, AtWorkIsFinite DEF LoginInv, RecordFailure
    <2>2. CASE i # ip
      <3>1. late'[i] = late[i] /\ lock'[i] = lock[i]
        BY <2>2, <1>1 DEF LoginInv, LoginTypeOK, RecordFailure
      <3> QED  BY <3>1, <2>1, <2>2 DEF LoginInv, FewFailures
    <2>3. CASE i = ip /\ lock[i] = 0
      <3>1. late'[i] = 0
        BY <2>3, <1>1 DEF LoginInv, LoginTypeOK, RecordFailure
      <3> QED  BY <3>1, <2>1, <2>3, <1>2
    <2>4. CASE i = ip /\ lock[i] > 0
      <3>1. late[i] \in Nat /\ late'[i] \in Nat /\ late'[i] <= late[i] + 1
        BY <2>4, <1>1, <1>2 DEF LoginInv, LoginTypeOK, RecordFailure
      <3>2. late[i] + Cardinality(AtWork(i)) < Cardinality(Requests)
        BY <2>4 DEF LoginInv, FewFailures
      <3> QED  BY <3>1, <3>2, <2>1, <2>4, <1>2
    <2> QED  BY <2>2, <2>3, <2>4 DEF LoginInv, LoginTypeOK
  <1> QED  BY <1>3, <1>4, <1>5 DEF LoginInv

(* A success leaves no entry. *)
LEMMA SuccessKeepsInv ==
  ASSUME LoginInv, NEW r \in Requests, RecordSuccess(r)
  PROVE  LoginInv'
  <1> DEFINE ip == login[r]
  <1>1. ip \in Ips
    BY DEF LoginInv, LoginTypeOK, RecordSuccess
  <1>2. Cardinality(Requests) \in Nat
    BY AtWorkIsFinite
  <1>3. LoginTypeOK'
    BY <1>1, <1>2, LimitAssumption DEF LoginInv, LoginTypeOK, RecordSuccess
  <1>4. \A i \in Ips : lock'[i] > 0 =>
            i # ip /\ lock'[i] = lock[i] /\ age'[i] = age[i] /\ count'[i] = count[i]
            /\ late'[i] = late[i]
    BY <1>1 DEF LoginInv, LoginTypeOK, RecordSuccess
  <1>5. LockedIsYoung'
    BY <1>4 DEF LoginInv, LockedIsYoung
  <1>6. FewFailures'
    <2> SUFFICES ASSUME NEW i \in Ips, lock'[i] > 0
                 PROVE  late'[i] + Cardinality(AtWork(i)') < Cardinality(Requests)
      BY DEF FewFailures
    <2>1. Cardinality(AtWork(i)') = Cardinality(AtWork(i))
      BY <1>4, EndedLoginLeaves DEF LoginInv, RecordSuccess
    <2> QED  BY <2>1, <1>4 DEF LoginInv, FewFailures
  <1> QED  BY <1>3, <1>5, <1>6 DEF LoginInv

(* The eviction and the clock leave the logins at work alone and lock      *)
(* nothing.                                                                *)
LEMMA LimiterKeepsInv ==
  ASSUME LoginInv, Evict \/ Tick
  PROVE  LoginInv'
  <1>1. LoginTypeOK'
    BY LimitAssumption DEF LoginInv, LoginTypeOK, Evict, Tick
  <1>2. LockedIsYoung'
    <2>1. CASE Evict
      BY <2>1, LimitAssumption DEF LoginInv, LoginTypeOK, LockedIsYoung, Evict
    <2>2. CASE Tick
      <3> SUFFICES ASSUME NEW i \in Ips, lock'[i] > 0
                   PROVE  count'[i] > 0 /\ age'[i] + lock'[i] <= rlLockDuration
        BY DEF LockedIsYoung
      <3>1. lock[i] > 0 /\ lock'[i] = lock[i] - 1 /\ count'[i] = count[i] /\ count[i] \in Nat
        BY <2>2 DEF LoginInv, LoginTypeOK, Tick
      <3>2. age[i] \in Nat /\ lock[i] \in Nat /\ age'[i] \in Nat /\ age'[i] <= age[i] + 1
        BY <2>2, LimitAssumption DEF LoginInv, LoginTypeOK, Tick
      <3>3. count[i] > 0 /\ age[i] + lock[i] <= rlLockDuration
        BY <3>1 DEF LoginInv, LockedIsYoung
      <3> QED  BY <3>1, <3>2, <3>3, LimitAssumption
    <2> QED  BY <2>1, <2>2
  <1>3. FewFailures'
    <2>1. login' = login /\ late' = late /\ \A i \in Ips : lock'[i] > 0 => lock[i] > 0
      BY DEF LoginInv, LoginTypeOK, Evict, Tick
    <2>2. \A i : AtWork(i)' = AtWork(i)
      BY <2>1 DEF AtWork
    <2> QED  BY <2>1, <2>2 DEF LoginInv, FewFailures
  <1> QED  BY <1>1, <1>2, <1>3 DEF LoginInv

(* Every step of the handler and the limiter preserves the invariant. *)
THEOREM LoginStep == LoginInv /\ [LoginNext]_limitVars => LoginInv'
  <1> SUFFICES ASSUME LoginInv, [LoginNext]_limitVars PROVE LoginInv'
    OBVIOUS
  <1>1. CASE Evict \/ Tick
    BY <1>1, LimiterKeepsInv
  <1>2. ASSUME NEW r \in Requests, NEW ip \in Ips, Admit(r, ip) PROVE LoginInv'
    BY <1>2, AdmitKeepsInv
  <1>3. ASSUME NEW r \in Requests, BadRequest(r) PROVE LoginInv'
    BY <1>3, BadRequestKeepsInv
  <1>4. ASSUME NEW r \in Requests, RecordFailure(r) PROVE LoginInv'
    BY <1>4, FailureKeepsInv
  <1>5. ASSUME NEW r \in Requests, RecordSuccess(r) PROVE LoginInv'
    BY <1>5, SuccessKeepsInv
  <1>6. CASE UNCHANGED limitVars
    BY <1>6 DEF LoginInv, LoginTypeOK, LockedIsYoung, FewFailures, AtWork, limitVars
  <1> QED  BY <1>1, <1>2, <1>3, <1>4, <1>5, <1>6 DEF LoginNext

-------------------------------------------------------------------------------
(* A step that shortens a lock is the clock's, or a success's: an entry    *)
(* old enough to be evicted is not locked.                                 *)
THEOREM LockStep ==
  ASSUME LoginInv, [LoginNext]_limitVars, NEW ip \in Ips, lock'[ip] < lock[ip]
  PROVE  \/ lock'[ip] = lock[ip] - 1 /\ count'[ip] = count[ip]
         \/ \E r \in Requests : login[r] = ip /\ login'[r] = NoIp
  <1> USE DEF LoginInv, LoginTypeOK
  <1>1. CASE Tick
    BY <1>1 DEF Tick
  <1>2. CASE Evict
    <2>1. lock[ip] > 0 /\ ip \in Evictable
      BY <1>2 DEF Evict
    <2>2. age[ip] > rlEvictAfter /\ age[ip] + lock[ip] <= rlLockDuration
      BY <2>1 DEF Evictable, LockedIsYoung
    <2> QED  BY <2>1, <2>2, LimitAssumption
  <1>3. ASSUME NEW r \in Requests, RecordFailure(r) \/ RecordSuccess(r)
        PROVE  \E q \in Requests : login[q] = ip /\ login'[q] = NoIp
    <2>1. login[r] = ip
      BY <1>3 DEF RecordFailure, RecordSuccess
    <2>2. login'[r] = NoIp
      BY <1>3 DEF RecordFailure, RecordSuccess
    <2> QED  BY <2>1, <2>2
  <1>4. ASSUME NEW r \in Requests, BadRequest(r) \/ \E i \in Ips : Admit(r, i) PROVE FALSE
    BY <1>4 DEF BadRequest, Admit
  <1> QED  BY <1>1, <1>2, <1>3, <1>4 DEF LoginNext, limitVars

(* In every state of the handler and the limiter the invariant holds. *)
THEOREM LoginInvariant == LoginSpec => []LoginInv
  BY LoginInitial, LoginStep, PTL DEF LoginSpec

(* However logins overlap, a lock is set and prolonged by at most as many  *)
(* failures as requests may be at work (auth.go:122-149).                  *)
THEOREM FailuresAreFew == LoginSpec => []FewFailures
  <1>1. LoginInv => FewFailures
    BY DEF LoginInv
  <1> QED  BY <1>1, LoginInvariant, PTL

(* No eviction ends a lock, and nothing but the clock and a success does   *)
(* (auth.go:137-162).                                                      *)
THEOREM NoLockIsLost == LoginSpec => LocksHold
  <1>1. LoginInv /\ [LoginNext]_limitVars =>
            [\A ip \in Ips : lock'[ip] < lock[ip] =>
                \/ lock'[ip] = lock[ip] - 1 /\ count'[ip] = count[ip]
                \/ \E r \in Requests : login[r] = ip /\ login'[r] = NoIp]_limitVars
    BY LockStep
  <1> QED  BY <1>1, LoginInvariant, PTL DEF LoginSpec, LocksHold

-------------------------------------------------------------------------------
(* The program. *)

(* All deferred calls, and what is open when the first k are. *)
Full == <<"writer", "reader", "docker", "stop">>
Held(k) == {Full[i] : i \in 1..k} \ {"stop"}

(* How many calls are deferred where; any number while unwinding. *)
Depths(place) == CASE place \in {"load", "open"} -> {0}
                   [] place = "docker" -> {2}
                   [] place \in {"secret", "wire"} -> {3}
                   [] place \in {"select", "shutdown"} -> {4}
                   [] OTHER -> 0..4

IsStack(d, k) ==
    /\ d \in Seq(Resources \cup {"stop"}) /\ Len(d) = k
    /\ \A i \in 1..k : d[i] = Full[i]

StackInv == \E k \in Depths(main) :
    /\ IsStack(deferred, k) /\ open = Held(k)
    /\ loop # "off" => k = 4 \/ ctxDone

Permitted(c) == c.bind = "loopback" \/ (c.user /\ c.password)

RunningInv ==
    /\ main \in {"load", "open", "docker", "secret", "wire"} => loop = "off" /\ server = "off"
    /\ main = "select" => loop # "off"
    /\ main \in {"open", "docker", "secret", "wire"} \/ loop # "off" => Permitted(cfg)
    /\ server # "off" => loop # "off"
    /\ loop = "stopped" => ctxDone

CrashInv ==
    /\ \A name \in Names :
        /\ cfg[name].from = "default" => cfg[name].sec = DefaultSec
        /\ cfg[name].from = "env" => cfg[name].sec > 0
    /\ OnlyBadIntervalsCrash

ServeInv == ServeTypeOK /\ StackInv /\ RunningInv /\ CrashInv

-------------------------------------------------------------------------------
(* What is open at each depth. *)
LEMMA HeldIsKnown ==
    /\ Held(0) = {} /\ Held(2) = {"writer", "reader"}
    /\ Held(3) = Resources /\ Held(4) = Resources
    /\ \A k \in 0..4 : Held(k) \subseteq Resources
    /\ \A k \in 1..4 : Held(k - 1) = Held(k) \ {Full[k]}
  <1>1. Full[1] = "writer" /\ Full[2] = "reader" /\ Full[3] = "docker" /\ Full[4] = "stop"
    BY DEF Full
  <1>2. 1..0 = {} /\ 1..1 = {1} /\ 1..2 = {1, 2} /\ 1..3 = {1, 2, 3} /\ 1..4 = {1, 2, 3, 4}
    OBVIOUS
  <1>3. Held(0) = {} /\ Held(1) = {"writer"} /\ Held(2) = {"writer", "reader"}
        /\ Held(3) = Resources /\ Held(4) = Resources
    BY <1>1, <1>2 DEF Held, Resources
  <1>4. 0..4 = {0, 1, 2, 3, 4} /\ 1..4 = {1, 2, 3, 4}
    OBVIOUS
  <1>5. \A k \in 0..4 : Held(k) \subseteq Resources
    BY <1>3, <1>4 DEF Resources
  <1>6. /\ Held(0) = Held(1) \ {Full[1]} /\ Held(1) = Held(2) \ {Full[2]}
        /\ Held(2) = Held(3) \ {Full[3]} /\ Held(3) = Held(4) \ {Full[4]}
    BY <1>1, <1>3 DEF Resources
  <1>7. \A k \in 1..4 : Held(k - 1) = Held(k) \ {Full[k]}
    <2> SUFFICES ASSUME NEW k \in 1..4 PROVE Held(k - 1) = Held(k) \ {Full[k]}
      OBVIOUS
    <2>1. CASE k = 1
      BY <2>1, <1>6
    <2>2. CASE k = 2
      BY <2>2, <1>6
    <2>3. CASE k = 3
      BY <2>3, <1>6
    <2>4. CASE k = 4
      BY <2>4, <1>6
    <2> QED  BY <2>1, <2>2, <2>3, <2>4
  <1> QED  BY <1>3, <1>5, <1>7

(* Deferring the database's handles, the Docker client, and stop. *)
LEMMA PushesStack ==
  ASSUME NEW d
  PROVE  /\ IsStack(<<>>, 0)
         /\ IsStack(d, 0) => IsStack(d \o <<"writer", "reader">>, 2)
         /\ IsStack(d, 2) => IsStack(d \o <<"docker">>, 3)
         /\ IsStack(d, 3) => IsStack(d \o <<>>, 3) /\ IsStack(d \o <<"stop">>, 4)
  <1> DEFINE S == Resources \cup {"stop"}
  <1>1. Full[1] = "writer" /\ Full[2] = "reader" /\ Full[3] = "docker" /\ Full[4] = "stop"
    BY DEF Full
  <1>2. <<>> \in Seq(S) /\ <<"writer", "reader">> \in Seq(S) /\ <<"docker">> \in Seq(S)
        /\ <<"stop">> \in Seq(S)
    BY DEF Resources
  <1>3. IsStack(<<>>, 0)
    BY <1>2 DEF IsStack
  <1>4. ASSUME IsStack(d, 0) PROVE IsStack(d \o <<"writer", "reader">>, 2)
    BY <1>1, <1>2, <1>4, ConcatProperties DEF IsStack
  <1>5. ASSUME IsStack(d, 2) PROVE IsStack(d \o <<"docker">>, 3)
    <2>1. Len(d) = 2 /\ d \in Seq(S) /\ d[1] = "writer" /\ d[2] = "reader"
      BY <1>1, <1>5 DEF IsStack
    <2>2. /\ d \o <<"docker">> \in Seq(S) /\ Len(d \o <<"docker">>) = 3
          /\ \A i \in 1..3 : (d \o <<"docker">>)[i] = IF i <= 2 THEN d[i] ELSE <<"docker">>[i - 2]
      BY <2>1, <1>2, ConcatProperties
    <2>3. \A i \in 1..3 : (d \o <<"docker">>)[i] = Full[i]
      BY <2>1, <2>2, <1>1
    <2> QED  BY <2>2, <2>3 DEF IsStack
  <1>6. ASSUME IsStack(d, 3) PROVE IsStack(d \o <<>>, 3) /\ IsStack(d \o <<"stop">>, 4)
    <2>1. /\ Len(d) = 3 /\ d \in Seq(S)
          /\ d[1] = "writer" /\ d[2] = "reader" /\ d[3] = "docker"
      BY <1>1, <1>6 DEF IsStack
    <2>2. d \o <<>> = d
      BY <2>1, ConcatEmptySeq
    <2> DEFINE t == <<"stop">>
    <2>5. t \in Seq(S) /\ Len(t) = 1
      BY <1>2
    <2>6. /\ d \o t \in Seq(S) /\ Len(d \o t) = Len(d) + Len(t)
          /\ \A i \in 1..Len(d) + Len(t) :
                (d \o t)[i] = IF i <= Len(d) THEN d[i] ELSE t[i - Len(d)]
      <3> HIDE DEF t
      <3> QED  BY <2>1, <2>5, ConcatProperties
    <2>3. /\ d \o <<"stop">> \in Seq(S) /\ Len(d \o <<"stop">>) = 4
          /\ \A i \in 1..4 : (d \o <<"stop">>)[i] = IF i <= 3 THEN d[i] ELSE <<"stop">>[i - 3]
      BY <2>1, <2>5, <2>6
    <2>4. \A i \in 1..4 : (d \o <<"stop">>)[i] = Full[i]
      BY <2>1, <2>3, <1>1
    <2> QED  BY <2>2, <2>3, <2>4, <1>6 DEF IsStack
  <1> QED  BY <1>3, <1>4, <1>5, <1>6

(* The last deferred call runs, and the others stay. *)
LEMMA PopsStack ==
  ASSUME NEW k \in 1..4, NEW d, IsStack(d, k)
  PROVE  IsStack(Front(d), k - 1) /\ Last(d) = Full[k]
  <1>1. /\ Front(d) \in Seq(Resources \cup {"stop"}) /\ Len(Front(d)) = k - 1
        /\ \A i \in 1..k - 1 : Front(d)[i] = d[i]
    BY SubSeqProperties DEF Front, IsStack
  <1> QED  BY <1>1 DEF IsStack, Last

-------------------------------------------------------------------------------
(* The invariant holds of a process that has not begun. *)
THEOREM ServeInitial == ServeInit => ServeInv
  <1> SUFFICES ASSUME ServeInit PROVE ServeInv
    OBVIOUS
  <1>1. deferred \in Seq(Resources \cup {"stop"})
    BY PushesStack DEF ServeInit, IsStack
  <1>2. cfg \in [bind : Binds, user : BOOLEAN, password : BOOLEAN, sample : Intervals,
                live : Intervals]
    BY LayersAssumption DEF ServeInit, Defaults, DefaultInterval, Intervals, Int64, Binds
  <1>5. ServeTypeOK
    BY <1>1, <1>2 DEF ServeInit, ServeTypeOK, Names
  <1>6. 0 \in Depths(main)
    BY DEF ServeInit, Depths
  <1>3. StackInv
    BY <1>6, PushesStack, HeldIsKnown DEF ServeInit, StackInv
  <1>4. RunningInv /\ CrashInv
    BY DEF ServeInit, RunningInv, CrashInv, OnlyBadIntervalsCrash, Defaults, DefaultInterval, Names
  <1> QED  BY <1>5, <1>3, <1>4 DEF ServeInv

(* What the environment sets is positive, and what nobody sets the default. *)
LEMMA LayeredIsSound ==
  ASSUME NEW file \in Files, NEW env \in Environments, NEW flags \in Flags
  PROVE  /\ Layered(file, env, flags) \in
                [bind : Binds, user : BOOLEAN, password : BOOLEAN, sample : Intervals,
                 live : Intervals]
         /\ \A name \in Names :
                LET interval == Layered(file, env, flags)[name]
                IN  /\ interval.from = "default" => interval.sec = DefaultSec
                    /\ interval.from = "env" => interval.sec > 0
  <1> DEFINE Sound(interval) ==
                /\ interval \in Intervals
                /\ interval.from = "default" => interval.sec = DefaultSec
                /\ interval.from = "env" => interval.sec > 0
  <1>1. Over(flags.bind, Over(env.bind, Over(file.bind, Defaults.bind))) \in Binds
    BY LayersAssumption DEF Over, Defaults, Binds
  <1>2. \A v \in Int64 \cup {Unset} : Sound(FileInterval(v))
    BY LayersAssumption DEF FileInterval, DefaultInterval, Intervals, Int64
  <1>3. \A v \in Int64 \cup {Unset} : \A below : Sound(below) => Sound(EnvInterval(v, below))
    BY LayersAssumption DEF EnvInterval, Intervals, Int64
  <1>4. /\ Sound(EnvInterval(env.sample, FileInterval(file.sample)))
        /\ Sound(EnvInterval(env.live, FileInterval(file.live)))
    <2>1. /\ file.sample \in Int64 \cup {Unset} /\ file.live \in Int64 \cup {Unset}
          /\ env.sample \in Int64 \cup {Unset} /\ env.live \in Int64 \cup {Unset}
      BY LayersAssumption
    <2> HIDE DEF Sound
    <2> QED  BY <1>2, <1>3, <2>1
  <1>5. env.user \in BOOLEAN /\ env.password \in BOOLEAN
    BY LayersAssumption
  <1> QED  BY <1>1, <1>4, <1>5 DEF Layered, Names

(* A duration that does not overflow is what it should be. *)
LEMMA DurationIsExact ==
  ASSUME NEW sec \in Int64, sec > 0, sec * Second <= MaxInt
  PROVE  Duration(sec) > 0
  <1> DEFINE d == sec * Second
             m == 2 * MaxInt + 2
  <1>1. MaxInt \in Nat /\ Second \in Nat /\ Second > 0 /\ sec \in Int
    BY LayersAssumption DEF Int64
  <1>2. d \in Int /\ d > 0
    BY <1>1
  <1>3. d + MaxInt + 1 \in 0..m - 1 /\ m \in Nat \ {0}
    <2> HIDE DEF d
    <2> QED  BY <1>1, <1>2 DEF d
  <1>4. (d + MaxInt + 1) % m = d + MaxInt + 1
    <2> DEFINE x == d + MaxInt + 1
    <2>1. x \in 0..m - 1 /\ m \in Nat \ {0}
      BY <1>3
    <2> HIDE DEF x, m
    <2>2. x % m = x
      BY <2>1
    <2> QED  BY <2>2 DEF x
  <1>5. Duration(sec) = d
    <2> HIDE DEF d
    <2>1. Duration(sec) = ((d + MaxInt + 1) % m) - MaxInt - 1
      BY DEF Duration, d
    <2> QED  BY <2>1, <1>4, <1>1, <1>2
  <1> QED  BY <1>5, <1>2

(* The configuration is checked before anything is opened. *)
LEMMA LoadConfigKeepsInv ==
  ASSUME ServeInv, LoadConfig
  PROVE  ServeInv'
  <1> PICK file \in Files, env \in Environments, flags \in Flags :
        /\ cfg' = Layered(file, env, flags)
        /\ main' = IF HasCredentials(cfg') \/ cfg'.bind = "loopback" THEN "open" ELSE "ended"
    BY DEF LoadConfig
  <1>1. ServeTypeOK'
    BY LayeredIsSound DEF ServeInv, ServeTypeOK, LoadConfig, serveVars
  <1>2. StackInv'
    <2>1. IsStack(deferred, 0) /\ open = Held(0)
      BY DEF ServeInv, StackInv, LoadConfig, Depths
    <2>2. 0 \in Depths(main')
      BY DEF Depths
    <2> QED  BY <2>1, <2>2 DEF ServeInv, StackInv, RunningInv, LoadConfig, serveVars
  <1>3. RunningInv'
    BY DEF ServeInv, RunningInv, LoadConfig, serveVars, Permitted, HasCredentials
  <1>4. CrashInv'
    BY LayeredIsSound DEF CrashInv, OnlyBadIntervalsCrash, Names
  <1> QED  BY <1>1, <1>2, <1>3, <1>4 DEF ServeInv

(* A start-up step keeps everything but what it opens. *)
LEMMA StartupKeepsInv ==
  ASSUME ServeInv, OpenDatabase \/ OpenDocker \/ PrepareAuth
  PROVE  ServeInv'
  <1>1. RunningInv' /\ CrashInv'
    BY DEF ServeInv, RunningInv, CrashInv, OnlyBadIntervalsCrash, Permitted, OpenDatabase, OpenDocker,
           PrepareAuth, Opened, serveVars
  <1>2. StackInv' /\ open' \subseteq Resources
    <2>1. CASE OpenDatabase
      <3>1. IsStack(deferred, 0) /\ open = Held(0) /\ 2 \in Depths(main')
        BY <2>1 DEF ServeInv, StackInv, OpenDatabase, Opened, Depths
      <3>2. IsStack(deferred', 2)
        BY <3>1, <2>1, PushesStack DEF OpenDatabase, Opened
      <3>3. ToSet(<<"writer", "reader">>) = {"writer", "reader"}
        BY DEF ToSet
      <3>4. open' = Held(2)
        BY <3>1, <3>3, <2>1, HeldIsKnown DEF OpenDatabase, Opened
      <3> QED  BY <3>1, <3>2, <3>4, <1>1, <2>1, HeldIsKnown
               DEF StackInv, RunningInv, OpenDatabase, Opened
    <2>2. CASE OpenDocker
      <3>1. IsStack(deferred, 2) /\ open = Held(2) /\ 3 \in Depths(main')
        BY <2>2 DEF ServeInv, StackInv, OpenDocker, Opened, Depths
      <3>2. IsStack(deferred', 3)
        BY <3>1, <2>2, PushesStack DEF OpenDocker, Opened
      <3>3. ToSet(<<"docker">>) = {"docker"}
        BY DEF ToSet
      <3>4. open' = Held(3)
        BY <3>1, <3>3, <2>2, HeldIsKnown DEF OpenDocker, Opened, Resources
      <3> QED  BY <3>1, <3>2, <3>4, <1>1, <2>2, HeldIsKnown
               DEF StackInv, RunningInv, OpenDocker, Opened
    <2>3. CASE PrepareAuth
      <3>1. IsStack(deferred, 3) /\ open = Held(3) /\ 3 \in Depths(main')
        BY <2>3 DEF ServeInv, StackInv, PrepareAuth, Opened, Depths
      <3>2. IsStack(deferred', 3)
        BY <3>1, <2>3, PushesStack DEF PrepareAuth, Opened
      <3>3. ToSet(<<>>) = {}
        BY DEF ToSet
      <3>4. open' = Held(3)
        BY <3>1, <3>3, <2>3, HeldIsKnown DEF PrepareAuth, Opened
      <3> QED  BY <3>1, <3>2, <3>4, <1>1, <2>3, HeldIsKnown
               DEF StackInv, RunningInv, PrepareAuth, Opened
    <2> QED  BY <2>1, <2>2, <2>3
  <1>3. deferred' \in Seq(Resources \cup {"stop"})
    BY <1>2 DEF StackInv, IsStack
  <1>4. ServeTypeOK'
    BY <1>2, <1>3 DEF ServeInv, ServeTypeOK, OpenDatabase, OpenDocker, PrepareAuth, Opened, serveVars
  <1> QED  BY <1>1, <1>2, <1>4 DEF ServeInv

(* Whoever leaves the deferred calls alone goes on where they may be as    *)
(* many, starts nothing and revokes no cancellation, keeps the stack.      *)
LEMMA StackStays ==
  ASSUME StackInv, UNCHANGED <<deferred, open>>, Depths(main) \subseteq Depths(main'),
         loop' # "off" => loop # "off", ctxDone => ctxDone'
  PROVE  StackInv'
  BY DEF StackInv

LEMMA DepthsAre ==
    /\ \A place : Depths(place) \subseteq 0..4
    /\ \A place \in {"unwind", "ended", "crashed"} : Depths(place) = 0..4
    /\ \A place \in {"select", "shutdown"} : Depths(place) = {4}
    /\ Depths("wire") = {3}
  BY DEF Depths

(* Everything is open when the watcher and the server start. *)
LEMMA StartServingKeepsInv ==
  ASSUME ServeInv, StartServing
  PROVE  ServeInv'
  <1>1. IsStack(deferred, 3) /\ open = Held(3) /\ 4 \in Depths(main')
    BY DepthsAre DEF ServeInv, StackInv, StartServing
  <1>2. IsStack(deferred', 4) /\ open' = Held(4)
    BY <1>1, PushesStack, HeldIsKnown DEF StartServing
  <1>3. StackInv'
    BY <1>1, <1>2 DEF StackInv
  <1>4. ServeTypeOK'
    BY <1>2 DEF ServeInv, ServeTypeOK, StartServing, IsStack
  <1>5. RunningInv' /\ CrashInv'
    BY DEF ServeInv, RunningInv, CrashInv, OnlyBadIntervalsCrash, Permitted, StartServing
  <1> QED  BY <1>3, <1>4, <1>5 DEF ServeInv

(* The steps of runServe that only go on to another place. *)
LEMMA PlaceKeepsInv ==
  ASSUME ServeInv, StartupFails \/ BeginShutdown \/ ReturnError \/ EndShutdown \/ Exit
  PROVE  ServeInv'
  <1>1. ServeTypeOK'
    BY DEF ServeInv, ServeTypeOK, StartupFails, BeginShutdown, ReturnError, EndShutdown, Exit,
           serveVars
  <1>2. Depths(main) \subseteq Depths(main')
    BY DepthsAre DEF StartupFails, BeginShutdown, ReturnError, EndShutdown, Exit
  <1>3. StackInv'
    BY <1>2, StackStays
    DEF ServeInv, StartupFails, BeginShutdown, ReturnError, EndShutdown, Exit, serveVars
  <1>4. RunningInv' /\ CrashInv'
    BY DEF ServeInv, RunningInv, CrashInv, OnlyBadIntervalsCrash, Permitted, StartupFails,
           BeginShutdown, ReturnError, EndShutdown, Exit, serveVars
  <1> QED  BY <1>1, <1>3, <1>4 DEF ServeInv

(* The first deferred call to run cancels the context. *)
LEMMA UnwindKeepsInv ==
  ASSUME ServeInv, Unwind
  PROVE  ServeInv'
  <1>1. PICK k \in 1..4 : IsStack(deferred, k) /\ open = Held(k) /\ (loop # "off" => k = 4 \/ ctxDone)
    <2>1. PICK k \in 0..4 :
            IsStack(deferred, k) /\ open = Held(k) /\ (loop # "off" => k = 4 \/ ctxDone)
      BY DepthsAre DEF ServeInv, StackInv
    <2>2. k # 0
      BY <2>1 DEF Unwind, IsStack
    <2> QED  BY <2>1, <2>2
  <1>2. IsStack(deferred', k - 1) /\ open' = Held(k - 1)
    BY <1>1, PopsStack, HeldIsKnown DEF Unwind
  <1>3. k = 4 => ctxDone'
    <2>1. Full[4] = "stop"
      BY DEF Full
    <2> QED  BY <1>1, <2>1, PopsStack DEF Unwind
  <1>4. k - 1 \in Depths(main')
    BY DepthsAre DEF Unwind
  <1>5. StackInv'
    BY <1>1, <1>2, <1>3, <1>4 DEF StackInv, Unwind, serveVars
  <1>6. ServeTypeOK'
    BY <1>2, HeldIsKnown DEF ServeInv, ServeTypeOK, Unwind, serveVars, IsStack
  <1>7. RunningInv' /\ CrashInv'
    BY DEF ServeInv, RunningInv, CrashInv, OnlyBadIntervalsCrash, Permitted, Unwind, serveVars,
           ServeTypeOK
  <1> QED  BY <1>5, <1>6, <1>7 DEF ServeInv

(* The loop panics on a duration that is not positive: one that overflows, *)
(* or one that the file alone can set.                                     *)
LEMMA LoopKeepsInv ==
  ASSUME ServeInv, StartLoop \/ TakeInterval
  PROVE  ServeInv'
  <1>1. ServeTypeOK'
    BY DEF ServeInv, ServeTypeOK, StartLoop, TakeInterval, Runs
  <1>2. Depths(main) \subseteq Depths(main')
    BY DepthsAre DEF StartLoop, TakeInterval, Runs
  <1>3. StackInv'
    BY <1>2, StackStays DEF ServeInv, StartLoop, TakeInterval, Runs
  <1>4. RunningInv'
    BY DEF ServeInv, RunningInv, Permitted, StartLoop, TakeInterval, Runs
  <1>5. CrashInv'
    <2>1. cfg' = cfg /\ CrashInv /\ ServeTypeOK
      BY DEF ServeInv, StartLoop, TakeInterval
    <2>2. ASSUME main' = "crashed" PROVE OnlyBadIntervalsCrash'
      <3>1. CASE main = "crashed"
        BY <3>1, <2>1, <2>2 DEF CrashInv, OnlyBadIntervalsCrash
      <3>2. CASE main # "crashed"
        <4>1. PICK name \in Names : ~(Duration(cfg[name].sec) > 0)
          BY <3>2, <2>1, <2>2, LayersAssumption
          DEF StartLoop, TakeInterval, Runs, Names, ServeTypeOK
        <4>2. cfg[name] \in Intervals
          BY <2>1 DEF ServeTypeOK, Names
        <4>3. /\ cfg[name].from \in {"default", "file", "env"} /\ cfg[name].sec \in Int64
              /\ cfg[name].sec * Second <= MaxInt \/ cfg[name].sec * Second > MaxInt
          BY <4>2, LayersAssumption DEF Intervals, Int64
        <4>4. cfg[name].sec * Second <= MaxInt => cfg[name].sec <= 0
          BY <4>1, <4>3, DurationIsExact DEF Int64
        <4>5. cfg[name].from # "file" => cfg[name].sec > 0
          BY <4>3, <2>1, LayersAssumption DEF CrashInv
        <4>6. cfg[name].sec * Second > MaxInt
                \/ (cfg[name].from = "file" /\ cfg[name].sec <= 0)
          <5>1. cfg[name].sec \in Int
            BY <4>3, LayersAssumption DEF Int64
          <5> QED  BY <4>3, <4>4, <4>5, <5>1
        <4> QED  BY <4>6, <2>1 DEF OnlyBadIntervalsCrash
      <3> QED  BY <3>1, <3>2
    <2> QED  BY <2>1, <2>2 DEF CrashInv, OnlyBadIntervalsCrash
  <1> QED  BY <1>1, <1>3, <1>4, <1>5 DEF ServeInv

(* Requests touch nothing but themselves, the channel and the limiter. *)
LEMMA RequestKeepsInv ==
  ASSUME ServeInv, NEW r \in Requests,
         Accept(r) \/ ReceiveBody(r) \/ Handle(r) \/ ExpireRefresh(r)
  PROVE  ServeInv'
  <1>1. UNCHANGED <<mainVars, loop, server>>
    BY DEF Accept, ReceiveBody, Handle, ExpireRefresh
  <1>2. ServeTypeOK'
    <2>1. \E state \in {"none", "refresh", "live body", "login body", "verify"} \cup Names :
            req' = [req EXCEPT ![r] = state]
      BY DEF Accept, ReceiveBody, Handle, ExpireRefresh, Becomes
    <2>2. intervalCh' \in Names \cup {Unset}
      BY DEF ServeInv, ServeTypeOK, Accept, ReceiveBody, Handle, ExpireRefresh
    <2> QED  BY <1>1, <2>1, <2>2 DEF ServeInv, ServeTypeOK, mainVars
  <1>3. StackInv'
    BY <1>1, StackStays DEF ServeInv, mainVars
  <1> QED  BY <1>1, <1>2, <1>3
           DEF ServeInv, mainVars, RunningInv, CrashInv, OnlyBadIntervalsCrash, Permitted

(* The server comes up or fails, the loop stops, the signal comes, and the *)
(* limiter does its work.                                                  *)
LEMMA OthersKeepInv ==
  ASSUME ServeInv, Listen \/ ServerFails \/ StopLoop \/ Signal \/ Limiter
  PROVE  ServeInv'
  <1>1. ServeTypeOK'
    BY DEF ServeInv, ServeTypeOK, Listen, ServerFails, StopLoop, Signal, Limiter, mainVars, serveVars
  <1>2. StackInv'
    BY StackStays DEF ServeInv, Listen, ServerFails, StopLoop, Signal, Limiter, mainVars, serveVars
  <1>3. RunningInv' /\ CrashInv'
    BY DEF ServeInv, RunningInv, CrashInv, OnlyBadIntervalsCrash, Permitted, Listen, ServerFails,
           StopLoop, Signal, Limiter, mainVars, serveVars
  <1> QED  BY <1>1, <1>2, <1>3 DEF ServeInv

(* Every step preserves the invariant. *)
THEOREM ServeStep == ServeInv /\ [Next]_vars => ServeInv'
  <1> SUFFICES ASSUME ServeInv, [Next]_vars PROVE ServeInv'
    OBVIOUS
  <1>1. CASE Main
    BY <1>1, LoadConfigKeepsInv, StartupKeepsInv, StartServingKeepsInv, PlaceKeepsInv,
       UnwindKeepsInv DEF Main
  <1>2. CASE StartupFails
    BY <1>2, PlaceKeepsInv
  <1>3. CASE Loop
    BY <1>3, LoopKeepsInv, OthersKeepInv DEF Loop
  <1>4. CASE Listen \/ ServerFails \/ Limiter \/ Signal
    BY <1>4, OthersKeepInv
  <1>5. ASSUME NEW r \in Requests, Accept(r) \/ ReceiveBody(r) \/ Handle(r) \/ ExpireRefresh(r)
        PROVE  ServeInv'
    BY <1>5, RequestKeepsInv
  <1>6. CASE UNCHANGED vars
    <2>1. /\ main' = main /\ cfg' = cfg /\ open' = open /\ deferred' = deferred
          /\ ctxDone' = ctxDone /\ loop' = loop /\ intervalCh' = intervalCh
          /\ server' = server /\ req' = req
      BY <1>6 DEF vars, mainVars, serveVars
    <2>2. ServeTypeOK'
      <3>0. ServeTypeOK
        BY DEF ServeInv
      <3>1. (cfg \in [bind : Binds, user : BOOLEAN, password : BOOLEAN, sample : Intervals,
                     live : Intervals])'
        BY <2>1, <3>0, Zenon DEF ServeTypeOK
      <3>2. (deferred \in Seq(Resources \cup {"stop"}) /\ open \subseteq Resources)'
        BY <2>1, <3>0, Zenon DEF ServeTypeOK
      <3>3. (req \in [Requests -> {"none", "refresh", "live body", "login body", "verify"}
                                 \cup Names])'
        BY <2>1, <3>0, Zenon DEF ServeTypeOK
      <3> QED  BY <2>1, <3>0, <3>1, <3>2, <3>3, Zenon DEF ServeTypeOK
    <2>3. StackInv' /\ RunningInv'
      BY <2>1 DEF ServeInv, StackInv, RunningInv
    <2>4. CrashInv' /\ OnlyBadIntervalsCrash'
      BY <2>1 DEF ServeInv, CrashInv, OnlyBadIntervalsCrash
    <2> QED  BY <2>2, <2>3, <2>4 DEF ServeInv
  <1> QED  BY <1>1, <1>2, <1>3, <1>4, <1>5, <1>6 DEF Next

-------------------------------------------------------------------------------
(* The limiter of a serving program is that of LoginLimit. *)
LEMMA LimiterSteps == [Next]_vars => [LoginNext]_limitVars
  <1> SUFFICES ASSUME [Next]_vars PROVE [LoginNext]_limitVars
    OBVIOUS
  <1>1. CASE Main \/ StartupFails \/ Listen \/ ServerFails \/ Loop \/ Signal
    BY <1>1 DEF Main, LoadConfig, OpenDatabase, OpenDocker, PrepareAuth, Opened, StartServing,
            BeginShutdown, ReturnError, EndShutdown, Unwind, Exit, StartupFails, Listen, ServerFails,
            Loop, StartLoop, TakeInterval, StopLoop, Signal
  <1>2. CASE Limiter
    BY <1>2 DEF Limiter, LoginNext
  <1>3. ASSUME NEW r \in Requests, Accept(r) \/ ReceiveBody(r) \/ Handle(r) \/ ExpireRefresh(r)
        PROVE  [LoginNext]_limitVars
    BY <1>3 DEF Accept, ReceiveBody, Handle, ExpireRefresh, LoginNext
  <1>4. CASE UNCHANGED vars
    BY <1>4 DEF vars
  <1> QED  BY <1>1, <1>2, <1>3, <1>4 DEF Next

(* In every state of the program the invariant holds. *)
THEOREM ServeInvariant == Spec => []ServeInv
  <1>1. Init => ServeInv
    BY ServeInitial DEF Init
  <1> QED  BY <1>1, ServeStep, PTL DEF Spec

(* Every state is of the type ServeTypeOK. *)
THEOREM ServeIsTyped == Spec => []ServeTypeOK
  <1>1. ServeInv => ServeTypeOK
    BY DEF ServeInv
  <1> QED  BY <1>1, ServeInvariant, PTL

(* The program serves a public address only with a user and a password,    *)
(* whichever layers set them (main.go:162-175).                            *)
THEOREM ServesFailClosed == Spec => []FailClosed
  <1>1. ServeInv => FailClosed
    BY DEF ServeInv, RunningInv, Permitted, FailClosed
  <1> QED  BY <1>1, ServeInvariant, PTL

(* Nothing is closed under a goroutine whose context is alive              *)
(* (main.go:186-199, 237-241).                                             *)
THEOREM NothingClosedUnderTheLiving == Spec => []CancelledBeforeClosed
  <1>1. ServeInv => CancelledBeforeClosed
    BY HeldIsKnown DEF ServeInv, StackInv, CancelledBeforeClosed
  <1> QED  BY <1>1, ServeInvariant, PTL

(* No default and no value of the environment brings the process down that *)
(* a time.Duration can hold, and none of the file that is positive, too    *)
(* (config.go:96-107, main.go:202, server.go:118, watcher.go:128, 169).    *)
THEOREM OnlyBadOnesCrash == Spec => []OnlyBadIntervalsCrash
  <1>1. ServeInv => OnlyBadIntervalsCrash
    BY DEF ServeInv, CrashInv
  <1> QED  BY <1>1, ServeInvariant, PTL

(* The program implements the limiter's specification, whose theorems thus *)
(* hold of it.                                                             *)
THEOREM ServeImplementsLimiter == Spec => LoginSpec
  <1>1. Init => LoginInit
    BY DEF Init
  <1> QED  BY <1>1, LimiterSteps, PTL DEF Spec, LoginSpec

(* In a serving program, too, a lock is prolonged only by the few failures *)
(* of logins that had passed the check (auth.go:122-149).                  *)
THEOREM ServeFailuresAreFew == Spec => []LoginTypeOK /\ []FewFailures /\ LocksHold
  <1>1. LoginInv => LoginTypeOK /\ FewFailures
    BY DEF LoginInv
  <1> QED  BY <1>1, ServeImplementsLimiter, LoginInvariant, NoLockIsLost, PTL

-------------------------------------------------------------------------------
(* Start-up (module Startup), for any processes, secrets and failures: how *)
(* far a process that applies a migration has come, and that sessions are  *)
(* signed with the stored secret only, which every running server holds.   *)

(* What the processes have applied is in the file. *)
ProgressInv ==
    \A p \in Processes :
        /\ pc[p] = "applying" =>
            \A k \in DOMAIN migrations[version[p]] :
                k < statement[p] => migrations[version[p]][k] \in tables
        /\ pc[p] = "recording" =>
            \A k \in DOMAIN migrations[version[p]] : migrations[version[p]][k] \in tables

SecretInv ==
    /\ issued \subseteq {stored} \ {NoSecret}
    /\ \A p \in Processes : pc[p] = "storing" => held[p] \in Secrets
    /\ \A p \in Servers : pc[p] = "running" => held[p] = stored /\ stored \in Secrets

StartupInv == TypeOK /\ RecordedIsApplied /\ ProgressInv /\ SecretInv

-------------------------------------------------------------------------------
(* The two migrations, spelled out. *)
LEMMA TheMigrations ==
    /\ Len(migrations) = 2 /\ DOMAIN migrations = 1..2
    /\ migrations[1] = schema /\ migrations[2] = schemaV2
    /\ Len(schema) = 4 /\ DOMAIN schema = 1..4
    /\ Len(schemaV2) = 1 /\ DOMAIN schemaV2 = 1..1
  BY DEF migrations, schema, schemaV2

(* Every statement of a migration creates one of the tables. *)
LEMMA StatementsCreateTables ==
    \A v \in 1..2 : \A k \in DOMAIN migrations[v] : migrations[v][k] \in Tables
  BY TheMigrations DEF Tables

-------------------------------------------------------------------------------
(* The invariant holds of an empty database with no process running. *)
THEOREM StartupInitial == StartupInit => StartupInv
  <1> SUFFICES ASSUME StartupInit PROVE StartupInv
    OBVIOUS
  <1>1. TypeOK
    BY StartupAssumption, TheMigrations DEF StartupInit, TypeOK, Places
  <1>2. RecordedIsApplied /\ ProgressInv /\ SecretInv
    BY DEF StartupInit, RecordedIsApplied, ProgressInv, SecretInv, Processes
  <1> QED  BY <1>1, <1>2 DEF StartupInv

(* A process that exits holds nothing. *)
LEMMA ExitKeepsInv ==
  ASSUME StartupInv, NEW p \in Processes, Leave(p), faults' \in 0..MaxFaults,
         UNCHANGED <<fileVars, issued>>
  PROVE  StartupInv'
  <1>1. TypeOK'
    BY TheMigrations DEF StartupInv, TypeOK, Leave, Goto, fileVars, Places
  <1>2. RecordedIsApplied'
    BY DEF StartupInv, RecordedIsApplied, fileVars
  <1>3. ProgressInv'
    BY DEF StartupInv, TypeOK, ProgressInv, Leave, Goto, fileVars
  <1>4. SecretInv'
    BY DEF StartupInv, TypeOK, SecretInv, Leave, Goto, fileVars, Processes
  <1> QED  BY <1>1, <1>2, <1>3, <1>4 DEF StartupInv

(* Every step of a process keeps it. *)
THEOREM StartupStep == StartupInv /\ [StartupNext]_startupVars => StartupInv'
  <1> SUFFICES ASSUME StartupInv, [StartupNext]_startupVars PROVE StartupInv'
    OBVIOUS
  <1> USE DEF StartupInv
  <1>1. ASSUME NEW p \in Processes, Start(p) PROVE StartupInv'
    <2>1. TypeOK'
      BY <1>1 DEF TypeOK, Start, Goto, fileVars, Places
    <2>2. RecordedIsApplied' /\ ProgressInv' /\ SecretInv'
      BY <1>1 DEF TypeOK, RecordedIsApplied, ProgressInv, SecretInv, Start, Goto, fileVars, Processes
    <2> QED  BY <2>1, <2>2
  <1>2. ASSUME NEW p \in Processes, CreateMigrationsTable(p) PROVE StartupInv'
    <2>1. TypeOK'
      <3>1. "schema_migrations" \in Tables
        <4>1. migrations[1][2] = "schema_migrations"
          BY DEF migrations, schema
        <4> QED  BY <4>1, StatementsCreateTables, TheMigrations
      <3> QED  BY <1>2, <3>1 DEF TypeOK, CreateMigrationsTable, Goto, Places
    <2>2. RecordedIsApplied' /\ ProgressInv' /\ SecretInv'
      BY <1>2 DEF TypeOK, RecordedIsApplied, ProgressInv, SecretInv, CreateMigrationsTable, Goto, Processes
    <2> QED  BY <2>1, <2>2
  <1>3. ASSUME NEW p \in Processes, CheckMigration(p) PROVE StartupInv'
    <2>1. TypeOK'
      <3>1. CASE version[p] > Len(migrations) /\ Goto(p, AfterOpen(p))
                 /\ UNCHANGED <<version, statement>>
        BY <1>3, <3>1, TheMigrations DEF TypeOK, CheckMigration, AfterOpen, Goto, fileVars, Places
      <3>2. CASE version[p] \in versions /\ version' = [version EXCEPT ![p] = @ + 1]
                 /\ UNCHANGED <<pc, statement>>
        BY <1>3, <3>2, TheMigrations DEF TypeOK, CheckMigration, fileVars, Places
      <3>3. CASE version[p] \in DOMAIN migrations \ versions /\ Goto(p, "applying")
                 /\ statement' = [statement EXCEPT ![p] = 1] /\ UNCHANGED version
        <4>1. version[p] = 1 \/ version[p] = 2
          BY <3>3, TheMigrations
        <4>2. 1 <= Len(migrations[1]) /\ 1 <= Len(migrations[2])
          BY TheMigrations
        <4>3. 1 <= Len(migrations[version[p]])
          BY <4>1, <4>2
        <4>4. UNCHANGED <<fileVars, held, issued, faults>> /\ pc' = [pc EXCEPT ![p] = "applying"]
          BY <1>3, <3>3 DEF CheckMigration, Goto
        <4> HIDE DEF StartupInv
        <4> QED
          BY <3>3, <4>3, <4>4, TheMigrations DEF StartupInv, TypeOK, fileVars, Places
      <3> QED  BY <1>3, <3>1, <3>2, <3>3 DEF CheckMigration
    <2>2. RecordedIsApplied' /\ ProgressInv'
      BY <1>3, TheMigrations
      DEF TypeOK, RecordedIsApplied, ProgressInv, CheckMigration, AfterOpen, Goto, fileVars
    <2>3. SecretInv'
      BY <1>3, StartupAssumption
      DEF TypeOK, SecretInv, CheckMigration, AfterOpen, Goto, fileVars, Processes
    <2> QED  BY <2>1, <2>2, <2>3
  <1>4. ASSUME NEW p \in Processes, ApplyStatement(p) PROVE StartupInv'
    <2> DEFINE v == version[p]
    <2>1. v \in 1..2 /\ statement[p] \in DOMAIN migrations[v]
      BY <1>4, TheMigrations DEF TypeOK, ApplyStatement
    <2>2. migrations[v][statement[p]] \in Tables
      BY <2>1, StatementsCreateTables
    <2>3. TypeOK'
      BY <1>4, <2>1, <2>2, TheMigrations DEF TypeOK, ApplyStatement, Goto, Places
    <2>4. RecordedIsApplied'
      BY <1>4 DEF RecordedIsApplied, ApplyStatement
    <2>5. ProgressInv'
      BY <1>4, <2>1, TheMigrations DEF TypeOK, ProgressInv, ApplyStatement, Goto
    <2>6. SecretInv'
      BY <1>4 DEF TypeOK, SecretInv, ApplyStatement, Goto, Processes
    <2> QED  BY <2>3, <2>4, <2>5, <2>6
  <1>5. ASSUME NEW p \in Processes, RecordMigration(p) PROVE StartupInv'
    <2>1. CASE version[p] \in versions
      <3>1. Leave(p) /\ UNCHANGED <<fileVars, issued>> /\ faults' \in 0..MaxFaults
        BY <1>5, <2>1 DEF TypeOK, RecordMigration, fileVars
      <3> QED  BY <3>1, ExitKeepsInv
    <2>2. CASE version[p] \notin versions
      <3>1. TypeOK'
        BY <1>5, <2>2, TheMigrations DEF TypeOK, RecordMigration, Goto, Places
      <3>2. RecordedIsApplied'
        <4>1. \A k \in DOMAIN migrations[version[p]] : migrations[version[p]][k] \in tables
          BY <1>5 DEF ProgressInv, RecordMigration
        <4> QED  BY <1>5, <2>2, <4>1 DEF RecordedIsApplied, RecordMigration
      <3>3. ProgressInv'
        BY <1>5, <2>2 DEF TypeOK, ProgressInv, RecordMigration, Goto
      <3>4. SecretInv'
        BY <1>5, <2>2 DEF TypeOK, SecretInv, RecordMigration, Goto, Processes
      <3> QED  BY <3>1, <3>2, <3>3, <3>4
    <2> QED  BY <2>1, <2>2
  <1>6. ASSUME NEW p \in Processes, ReadSecret(p) PROVE StartupInv'
    <2>1. CASE "app_settings" \notin tables
      <3>1. Leave(p) /\ UNCHANGED <<fileVars, issued>> /\ faults' \in 0..MaxFaults
        BY <1>6, <2>1 DEF TypeOK, ReadSecret, fileVars
      <3> QED  BY <3>1, ExitKeepsInv
    <2>2. CASE "app_settings" \in tables
      <3>1. TypeOK'
        BY <1>6, <2>2 DEF TypeOK, ReadSecret, Fresh, Goto, fileVars, Places
      <3>2. RecordedIsApplied' /\ ProgressInv'
        BY <1>6, <2>2 DEF TypeOK, RecordedIsApplied, ProgressInv, ReadSecret, Goto, fileVars
      <3>3. SecretInv'
        BY <1>6, <2>2, StartupAssumption
        DEF TypeOK, SecretInv, ReadSecret, Fresh, Goto, fileVars, Processes
      <3> QED  BY <3>1, <3>2, <3>3
    <2> QED  BY <2>1, <2>2
  <1>7. ASSUME NEW p \in Processes, StoreSecret(p) PROVE StartupInv'
    <2>1. CASE stored # NoSecret
      <3>1. Leave(p) /\ UNCHANGED <<fileVars, issued>> /\ faults' \in 0..MaxFaults
        BY <1>7, <2>1 DEF TypeOK, StoreSecret, fileVars
      <3> QED  BY <3>1, ExitKeepsInv
    <2>2. CASE stored = NoSecret
      <3>1. held[p] \in Secrets
        BY <1>7 DEF SecretInv, StoreSecret
      <3>2. TypeOK'
        BY <1>7, <2>2, <3>1 DEF TypeOK, StoreSecret, Goto, Places
      <3>3. RecordedIsApplied' /\ ProgressInv'
        BY <1>7, <2>2 DEF TypeOK, RecordedIsApplied, ProgressInv, StoreSecret, Goto
      <3>4. SecretInv'
        BY <1>7, <2>2, <3>1, StartupAssumption
        DEF TypeOK, SecretInv, StoreSecret, Goto, Processes
      <3> QED  BY <3>2, <3>3, <3>4
    <2> QED  BY <2>1, <2>2
  <1>8. ASSUME NEW p \in Processes, CreateSession(p) PROVE StartupInv'
    <2>1. held[p] = stored /\ stored \in Secrets /\ NoSecret \notin Secrets
      BY <1>8, StartupAssumption DEF SecretInv, CreateSession
    <2>2. TypeOK'
      BY <1>8, <2>1 DEF TypeOK, CreateSession, fileVars
    <2>3. RecordedIsApplied' /\ ProgressInv' /\ SecretInv'
      BY <1>8, <2>1 DEF RecordedIsApplied, ProgressInv, SecretInv, CreateSession, fileVars
    <2> QED  BY <2>2, <2>3
  <1>9. ASSUME NEW p \in Processes, Stop(p) PROVE StartupInv'
    BY <1>9, ExitKeepsInv DEF TypeOK, Stop, fileVars
  <1>10. ASSUME NEW p \in Processes, Fail(p) PROVE StartupInv'
    BY <1>10, ExitKeepsInv, StartupAssumption DEF TypeOK, Fail, fileVars
  <1>11. CASE UNCHANGED startupVars
    BY <1>11 DEF startupVars, TypeOK, RecordedIsApplied, ProgressInv, SecretInv
  <1> QED
    BY <1>1, <1>2, <1>3, <1>4, <1>5, <1>6, <1>7, <1>8, <1>9, <1>10, <1>11 DEF StartupNext, Step

(* The inductive invariant holds in every behaviour of start-ups. *)
THEOREM StartupSafe == StartupSpec => []StartupInv
  <1> QED  BY StartupInitial, StartupStep, PTL DEF StartupSpec

(* Type correctness of the start-up. *)
THEOREM StartupTypeOK == StartupSpec => []TypeOK
  <1>1. StartupInv => TypeOK
    BY DEF StartupInv
  <1> QED  BY <1>1, StartupSafe, PTL

(* A migration that is recorded is complete (migrate.go:93-112). *)
THEOREM MigrationsAreComplete == StartupSpec => []RecordedIsApplied
  <1>1. StartupInv => RecordedIsApplied
    BY DEF StartupInv
  <1> QED  BY <1>1, StartupSafe, PTL

(* Every running server accepts every session ever signed                  *)
(* (main.go:216-224).                                                      *)
THEOREM SessionsSurvive == StartupSpec => []SessionsStayValid
  <1>1. StartupInv => SessionsStayValid
    BY DEF StartupInv, SecretInv, SessionsStayValid
  <1> QED  BY <1>1, StartupSafe, PTL
===============================================================================
