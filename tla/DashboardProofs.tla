----------------------------- MODULE DashboardProofs ----------------------------
(***************************************************************************)
(* Proofs about module Dashboard: for any number of requests in flight,    *)
(* errors and clicks, and for answers in any order, the safety properties  *)
(* hold.  What a step does to the requests in flight is one of three       *)
(* things: it sends one, answers one or receives one; the lemmas say what  *)
(* each does to the loads, the probe and the live requests.                *)
(***************************************************************************)
EXTENDS Dashboard, SequenceTheorems, TLAPS

Loads(s, t) == {i \in DOMAIN s : s[i].kind = "load" /\ s[i].tab = t}

(* FlagsMatchLoads, of any requests and flags. *)
FlagsMatch(s, ref) ==
    \A t \in Tabs :
        /\ ref[t] => \E i \in Loads(s, t) : \A j \in Loads(s, t) : j = i
        /\ ~ ref[t] => Loads(s, t) = {}

HasProbe(s) == \E i \in DOMAIN s : s[i].kind = "probe"

LiveKinds == {Live(TRUE), Live(FALSE)}

(* There is at most one live request; it carries the mode of the switch    *)
(* and has set the interval when its answer is on the way; the interval is *)
(* the one of the switch when there is none.                               *)
SwitchMatches(s, mode, interval) ==
    /\ \A i, j \in DOMAIN s : s[i].kind \in LiveKinds /\ s[j].kind \in LiveKinds => i = j
    /\ \A i \in DOMAIN s : s[i].kind \in LiveKinds =>
        /\ s[i].answer = Waiting => s[i].kind = Live(mode)
        /\ s[i].answer.status = "ok" => interval = mode
    /\ (\A i \in DOMAIN s : s[i].kind \notin LiveKinds) => interval = mode

SwitchInv == "live" \in doubt \/ SwitchMatches(inFlight, liveMode, liveInterval)

AloneInv ==
    authed \/ needLogin \/ "probe" \in doubt \/ "form" \in doubt \/ HasProbe(inFlight)

DashboardInv ==
    /\ TypeOK
    /\ FlagsMatch(inFlight, reqRef)
    /\ AloneInv
    /\ SwitchInv

-------------------------------------------------------------------------------
(* Sending a request. *)

LEMMA AskIsRequest ==
  ASSUME NEW k \in Kinds, NEW t \in Tabs
  PROVE  Ask(k, t) \in Request
  BY DEF Ask, Request, Waiting

LEMMA Appended ==
  ASSUME NEW s \in Seq(Request), NEW e \in Request
  PROVE  /\ Append(s, e) \in Seq(Request)
         /\ DOMAIN Append(s, e) = DOMAIN s \cup {Len(s) + 1}
         /\ Len(s) + 1 \notin DOMAIN s
         /\ Append(s, e)[Len(s) + 1] = e
         /\ \A i \in DOMAIN s : Append(s, e)[i] = s[i]
  <1>1. Len(s) \in Nat /\ DOMAIN s = 1..Len(s)
    OBVIOUS
  <1>2. /\ Append(s, e) \in Seq(Request) /\ Len(Append(s, e)) = Len(s) + 1
        /\ Append(s, e)[Len(s) + 1] = e
        /\ \A i \in 1..Len(s) : Append(s, e)[i] = s[i]
    OBVIOUS
  <1>3. DOMAIN Append(s, e) = 1..Len(s) + 1
    BY <1>2
  <1> QED  BY <1>1, <1>2, <1>3

(* Requests that are no loads leave the flags right, and a load that is    *)
(* sent with the flag set on a tab that had none. *)
LEMMA SendingKeepsFlags ==
  ASSUME NEW s \in Seq(Request), NEW e \in Request, NEW ref \in [Tabs -> BOOLEAN],
         FlagsMatch(s, ref)
  PROVE  /\ e.kind # "load" => FlagsMatch(Append(s, e), ref)
         /\ e.kind = "load" /\ ~ ref[e.tab] => FlagsMatch(Append(s, e), [ref EXCEPT ![e.tab] = TRUE])
  <1> DEFINE r == Append(s, e)  n == Len(s) + 1
  <1>1. /\ DOMAIN r = DOMAIN s \cup {n} /\ n \notin DOMAIN s /\ r[n] = e
        /\ \A i \in DOMAIN s : r[i] = s[i]
    BY Appended
  <1> HIDE DEF r, n
  <1>2. e.tab \in Tabs
    BY DEF Request
  <1>3. ASSUME NEW t \in Tabs, ~ (e.kind = "load" /\ e.tab = t) PROVE Loads(r, t) = Loads(s, t)
    BY <1>1, <1>3 DEF Loads
  <1>4. CASE e.kind # "load"
    BY <1>3, <1>4 DEF FlagsMatch, r
  <1>5. CASE e.kind = "load" /\ ~ ref[e.tab]
    <2> DEFINE new == [ref EXCEPT ![e.tab] = TRUE]
    <2> SUFFICES ASSUME NEW t \in Tabs
                 PROVE  /\ new[t] => \E i \in Loads(r, t) : \A j \in Loads(r, t) : j = i
                        /\ ~ new[t] => Loads(r, t) = {}
      BY <1>5 DEF FlagsMatch, r
    <2>1. CASE t = e.tab
      <3>1. Loads(s, t) = {}
        BY <1>5, <2>1 DEF FlagsMatch
      <3>2. Loads(r, t) = {n}
        BY <1>1, <1>5, <2>1, <3>1 DEF Loads
      <3> QED  BY <1>2, <2>1, <3>2
    <2>2. CASE t # e.tab
      <3>1. Loads(r, t) = Loads(s, t) /\ new[t] = ref[t]
        BY <1>3, <2>2
      <3> QED  BY <3>1 DEF FlagsMatch
    <2> QED  BY <2>1, <2>2
  <1> QED  BY <1>4, <1>5 DEF r

LEMMA SendingKeepsProbe ==
  ASSUME NEW s \in Seq(Request), NEW e \in Request, HasProbe(s)
  PROVE  HasProbe(Append(s, e))
  BY Appended DEF HasProbe

LEMMA SendingKeepsSwitch ==
  ASSUME NEW s \in Seq(Request), NEW e \in Request, NEW mode, NEW interval,
         e.kind \notin LiveKinds, SwitchMatches(s, mode, interval)
  PROVE  SwitchMatches(Append(s, e), mode, interval)
  BY Appended DEF SwitchMatches

(* A live request sent while there is no other. *)
LEMMA SendingSwitches ==
  ASSUME NEW s \in Seq(Request), NEW t \in Tabs, NEW mode \in BOOLEAN, NEW interval,
         \A i \in DOMAIN s : s[i].kind \notin LiveKinds
  PROVE  SwitchMatches(Append(s, Ask(Live(mode), t)), mode, interval)
  <1> DEFINE e == Ask(Live(mode), t)  r == Append(s, e)  n == Len(s) + 1
  <1>1. e \in Request /\ e.kind = Live(mode) /\ e.answer = Waiting /\ Live(mode) \in LiveKinds
    BY AskIsRequest DEF Ask, Live, Kinds, LiveKinds
  <1> HIDE DEF e
  <1>2. /\ DOMAIN r = DOMAIN s \cup {n} /\ n \notin DOMAIN s /\ r[n] = e
        /\ \A i \in DOMAIN s : r[i] = s[i]
    BY <1>1, Appended
  <1> HIDE DEF r, n
  <1>3. \A i \in DOMAIN r : r[i].kind \in LiveKinds <=> i = n
    BY <1>1, <1>2
  <1>4. Waiting.status # "ok"
    BY DEF Waiting
  <1> QED  BY <1>1, <1>2, <1>3, <1>4 DEF SwitchMatches, e, r

-------------------------------------------------------------------------------
(* Receiving an answer: the request leaves the sequence, and those behind  *)
(* it move up.                                                             *)

From(i, j) == IF j < i THEN j ELSE j + 1

LEMMA Removed ==
  ASSUME NEW s \in Seq(Request), NEW i \in DOMAIN s
  PROVE  LET r == RemoveAt(s, i) IN
         /\ r \in Seq(Request)
         /\ \A j \in DOMAIN r : From(i, j) \in DOMAIN s \ {i} /\ r[j] = s[From(i, j)]
         /\ \A j, k \in DOMAIN r : From(i, j) = From(i, k) => j = k
         /\ \A k \in DOMAIN s \ {i} : \E j \in DOMAIN r : From(i, j) = k
  <1> DEFINE a == SubSeq(s, 1, i - 1)  b == SubSeq(s, i + 1, Len(s))
  <1>1. i \in Nat /\ 1 <= i /\ i <= Len(s) /\ Len(s) \in Nat /\ DOMAIN s = 1..Len(s)
    OBVIOUS
  <1>2. /\ a \in Seq(Request) /\ Len(a) = i - 1
        /\ \A j \in 1..i - 1 : a[j] = s[j]
    BY <1>1, SubSeqProperties
  <1>3. /\ b \in Seq(Request) /\ Len(b) = Len(s) - i
        /\ \A j \in 1..Len(s) - i : b[j] = s[i + j]
    BY <1>1, SubSeqProperties
  <1> HIDE DEF a, b
  <1> DEFINE r == a \o b
  <1>4. /\ r \in Seq(Request) /\ Len(r) = Len(s) - 1
        /\ \A j \in 1..Len(s) - 1 : r[j] = IF j <= i - 1 THEN a[j] ELSE b[j - (i - 1)]
    <2>1. /\ r \in Seq(Request) /\ Len(r) = Len(a) + Len(b)
          /\ \A j \in 1..Len(a) + Len(b) : r[j] = IF j <= Len(a) THEN a[j] ELSE b[j - Len(a)]
      BY <1>2, <1>3, ConcatProperties
    <2>2. Len(a) + Len(b) = Len(s) - 1
      BY <1>1, <1>2, <1>3
    <2> QED  BY <1>2, <2>1, <2>2
  <1>5. RemoveAt(s, i) = r
    BY DEF RemoveAt, a, b
  <1> HIDE DEF r
  <1>6. DOMAIN r = 1..Len(s) - 1
    BY <1>4
  <1>7. ASSUME NEW j \in DOMAIN r
        PROVE  From(i, j) \in DOMAIN s \ {i} /\ r[j] = s[From(i, j)]
    <2>1. CASE j < i
      BY <1>1, <1>2, <1>4, <1>6, <2>1 DEF From
    <2>2. CASE ~ (j < i)
      <3>1. j - (i - 1) \in 1..Len(s) - i /\ j \in 1..Len(s) - 1
        BY <1>1, <1>6, <2>2
      <3>2. r[j] = b[j - (i - 1)]
        <4>1. r[j] = IF j <= i - 1 THEN a[j] ELSE b[j - (i - 1)]
          BY <1>4, <3>1
        <4>2. ~ (j <= i - 1)
          BY <1>1, <2>2, <3>1
        <4> QED  BY <4>1, <4>2
      <3>3. b[j - (i - 1)] = s[i + (j - (i - 1))]
        BY <1>3, <3>1
      <3>4. i + (j - (i - 1)) = j + 1
        BY <1>1, <3>1
      <3> QED  BY <1>1, <1>6, <2>2, <3>2, <3>3, <3>4 DEF From
    <2> QED  BY <2>1, <2>2
  <1>8. \A j, k \in DOMAIN r : From(i, j) = From(i, k) => j = k
    BY <1>1, <1>6 DEF From
  <1>9. ASSUME NEW k \in DOMAIN s \ {i} PROVE \E j \in DOMAIN r : From(i, j) = k
    <2>1. CASE k < i
      BY <1>1, <1>6, <2>1 DEF From
    <2>2. CASE k > i
      <3>1. k - 1 \in DOMAIN r /\ From(i, k - 1) = k
        BY <1>1, <1>6, <2>2 DEF From
      <3> QED  BY <3>1
    <2> QED  BY <1>1, <2>1, <2>2
  <1> QED  BY <1>4, <1>5, <1>7, <1>8, <1>9

LEMMA ReceivingKeepsFlags ==
  ASSUME NEW s \in Seq(Request), NEW i \in DOMAIN s, NEW ref \in [Tabs -> BOOLEAN],
         FlagsMatch(s, ref)
  PROVE  /\ s[i].kind # "load" => FlagsMatch(RemoveAt(s, i), ref)
         /\ s[i].kind = "load" => FlagsMatch(RemoveAt(s, i), [ref EXCEPT ![s[i].tab] = FALSE])
  <1> DEFINE r == RemoveAt(s, i)
  <1>1. /\ \A j \in DOMAIN r : From(i, j) \in DOMAIN s \ {i} /\ r[j] = s[From(i, j)]
        /\ \A j, k \in DOMAIN r : From(i, j) = From(i, k) => j = k
        /\ \A k \in DOMAIN s \ {i} : \E j \in DOMAIN r : From(i, j) = k
    BY Removed
  <1> HIDE DEF r
  <1>2. s[i] \in Request /\ s[i].tab \in Tabs
    <2>1. s[i] \in Request
      OBVIOUS
    <2> QED  BY <2>1 DEF Request
  <1>3. ASSUME NEW t \in Tabs, ~ (s[i].kind = "load" /\ s[i].tab = t),
               ref[t] => \E x \in Loads(s, t) : \A y \in Loads(s, t) : y = x,
               ~ ref[t] => Loads(s, t) = {}
        PROVE  /\ ref[t] => \E x \in Loads(r, t) : \A y \in Loads(r, t) : y = x
               /\ ~ ref[t] => Loads(r, t) = {}
    <2>1. \A j \in DOMAIN r : j \in Loads(r, t) <=> From(i, j) \in Loads(s, t)
      BY <1>1 DEF Loads
    <2>2. CASE ref[t]
      <3>1. PICK x \in Loads(s, t) : \A y \in Loads(s, t) : y = x
        BY <1>3, <2>2
      <3>2. x \in DOMAIN s \ {i}
        BY <1>3 DEF Loads
      <3>3. PICK j \in DOMAIN r : From(i, j) = x
        BY <1>1, <3>2
      <3>4. j \in Loads(r, t)
        BY <2>1, <3>1, <3>3
      <3>5. ASSUME NEW y \in Loads(r, t) PROVE y = j
        <4>1. y \in DOMAIN r
          BY DEF Loads
        <4> QED  BY <1>1, <2>1, <3>1, <3>3, <4>1
      <3> QED  BY <2>2, <3>4, <3>5
    <2>3. CASE ~ ref[t]
      <3>1. Loads(s, t) = {}
        BY <1>3, <2>3
      <3>2. Loads(r, t) \subseteq DOMAIN r
        BY DEF Loads
      <3> QED  BY <2>1, <2>3, <3>1, <3>2
    <2> QED  BY <2>2, <2>3
  <1>4. CASE s[i].kind # "load"
    BY <1>3, <1>4 DEF FlagsMatch, r
  <1>5. CASE s[i].kind = "load"
    <2> DEFINE new == [ref EXCEPT ![s[i].tab] = FALSE]
    <2> SUFFICES ASSUME NEW t \in Tabs
                 PROVE  /\ new[t] => \E x \in Loads(r, t) : \A y \in Loads(r, t) : y = x
                        /\ ~ new[t] => Loads(r, t) = {}
      BY <1>5 DEF FlagsMatch, r
    <2>1. CASE t = s[i].tab
      <3>1. new[t] = FALSE
        BY <1>2, <2>1
      <3>2. i \in Loads(s, t)
        BY <1>5, <2>1 DEF Loads
      <3>3. \A x \in Loads(s, t) : x = i
        BY <3>2 DEF FlagsMatch
      <3>4. Loads(r, t) = {}
        BY <1>1, <3>3 DEF Loads
      <3> QED  BY <3>1, <3>4
    <2>2. CASE t # s[i].tab
      <3>1. new[t] = ref[t]
        BY <2>2
      <3> QED  BY <1>3, <2>2, <3>1 DEF FlagsMatch
    <2> QED  BY <2>1, <2>2
  <1> QED  BY <1>4, <1>5 DEF r

LEMMA ReceivingKeepsProbe ==
  ASSUME NEW s \in Seq(Request), NEW i \in DOMAIN s, HasProbe(s), s[i].kind # "probe"
  PROVE  HasProbe(RemoveAt(s, i))
  <1> DEFINE r == RemoveAt(s, i)
  <1>1. /\ \A j \in DOMAIN r : From(i, j) \in DOMAIN s \ {i} /\ r[j] = s[From(i, j)]
        /\ \A k \in DOMAIN s \ {i} : \E j \in DOMAIN r : From(i, j) = k
    BY Removed
  <1> HIDE DEF r
  <1>2. PICK k \in DOMAIN s \ {i} : s[k].kind = "probe"
    BY DEF HasProbe
  <1>3. PICK j \in DOMAIN r : From(i, j) = k
    BY <1>1
  <1>4. r[j].kind = "probe"
    BY <1>1, <1>2, <1>3
  <1> QED  BY <1>4 DEF HasProbe, r

(* A live request that is received has succeeded; any other changes        *)
(* nothing.                                                                *)
LEMMA ReceivingKeepsSwitch ==
  ASSUME NEW s \in Seq(Request), NEW i \in DOMAIN s, NEW mode, NEW interval,
         SwitchMatches(s, mode, interval),
         s[i].kind \in LiveKinds => s[i].answer.status = "ok"
  PROVE  SwitchMatches(RemoveAt(s, i), mode, interval)
  <1> DEFINE r == RemoveAt(s, i)
  <1>1. /\ \A j \in DOMAIN r : From(i, j) \in DOMAIN s \ {i} /\ r[j] = s[From(i, j)]
        /\ \A j, k \in DOMAIN r : From(i, j) = From(i, k) => j = k
        /\ \A k \in DOMAIN s \ {i} : \E j \in DOMAIN r : From(i, j) = k
    BY Removed
  <1> HIDE DEF r
  <1>2. \A j, k \in DOMAIN r : r[j].kind \in LiveKinds /\ r[k].kind \in LiveKinds => j = k
    BY <1>1 DEF SwitchMatches
  <1>3. \A j \in DOMAIN r : r[j].kind \in LiveKinds =>
            /\ r[j].answer = Waiting => r[j].kind = Live(mode)
            /\ r[j].answer.status = "ok" => interval = mode
    BY <1>1 DEF SwitchMatches
  <1>4. (\A j \in DOMAIN r : r[j].kind \notin LiveKinds) => interval = mode
    BY <1>1 DEF SwitchMatches
  <1> QED  BY <1>2, <1>3, <1>4 DEF SwitchMatches, r

-------------------------------------------------------------------------------
(* Answering a request. *)

LEMMA Replaced ==
  ASSUME NEW s \in Seq(Request), NEW i \in DOMAIN s,
         NEW a \in [status : {"waiting", "ok", "unauthorized", "error"}, version : Data \cup {None}]
  PROVE  LET r == [s EXCEPT ![i].answer = a] IN
         /\ r \in Seq(Request) /\ DOMAIN r = DOMAIN s
         /\ \A j \in DOMAIN s : r[j].kind = s[j].kind /\ r[j].tab = s[j].tab
         /\ \A j \in DOMAIN s : j # i => r[j] = s[j]
         /\ r[i].answer = a
  <1> DEFINE r == [s EXCEPT ![i].answer = a]
  <1>1. s[i] \in Request /\ DOMAIN r = DOMAIN s
    OBVIOUS
  <1>2. r[i] = [s[i] EXCEPT !.answer = a] /\ \A j \in DOMAIN s : j # i => r[j] = s[j]
    OBVIOUS
  <1>3. r[i].kind = s[i].kind /\ r[i].tab = s[i].tab /\ r[i].answer = a /\ r[i] \in Request
    BY <1>1, <1>2 DEF Request
  <1>4. r \in Seq(Request)
    <2>1. Len(s) \in Nat /\ DOMAIN s = 1..Len(s)
      OBVIOUS
    <2>2. r \in [1..Len(s) -> Request]
      BY <1>1, <1>2, <1>3, <2>1
    <2> QED  BY <2>1, <2>2, SeqDef
  <1> HIDE DEF r
  <1>5. \A j \in DOMAIN s : r[j].kind = s[j].kind /\ r[j].tab = s[j].tab
    BY <1>2, <1>3
  <1> QED  BY <1>1, <1>2, <1>3, <1>4, <1>5 DEF r

LEMMA ReplyKeepsLoadsAndProbe ==
  ASSUME NEW s \in Seq(Request), NEW i \in DOMAIN s, NEW ref,
         NEW a \in [status : {"waiting", "ok", "unauthorized", "error"}, version : Data \cup {None}]
  PROVE  LET r == [s EXCEPT ![i].answer = a] IN
         /\ FlagsMatch(s, ref) => FlagsMatch(r, ref)
         /\ HasProbe(s) => HasProbe(r)
  <1> DEFINE r == [s EXCEPT ![i].answer = a]
  <1>1. /\ DOMAIN r = DOMAIN s
        /\ \A j \in DOMAIN s : r[j].kind = s[j].kind /\ r[j].tab = s[j].tab
    BY Replaced
  <1> HIDE DEF r
  <1>2. \A t : Loads(r, t) = Loads(s, t)
    BY <1>1 DEF Loads
  <1> QED  BY <1>1, <1>2 DEF FlagsMatch, HasProbe, r

(* A live request that is answered has set the interval or has failed. *)
LEMMA ReplyKeepsSwitch ==
  ASSUME NEW s \in Seq(Request), NEW i \in DOMAIN s, NEW mode \in BOOLEAN,
         NEW interval, NEW new,
         NEW a \in [status : {"ok", "unauthorized", "error"}, version : Data \cup {None}],
         SwitchMatches(s, mode, interval), s[i].answer = Waiting,
         s[i].kind \notin LiveKinds => new = interval,
         s[i].kind \in LiveKinds /\ a.status = "ok" => new = (s[i].kind = Live(TRUE))
  PROVE  SwitchMatches([s EXCEPT ![i].answer = a], mode, new)
  <1> DEFINE r == [s EXCEPT ![i].answer = a]
  <1>1. a \in [status : {"waiting", "ok", "unauthorized", "error"}, version : Data \cup {None}]
    OBVIOUS
  <1>2. /\ DOMAIN r = DOMAIN s
        /\ \A j \in DOMAIN s : r[j].kind = s[j].kind
        /\ \A j \in DOMAIN s : j # i => r[j] = s[j]
        /\ r[i].answer = a
    BY <1>1, Replaced
  <1>3. a # Waiting
    BY DEF Waiting
  <1> HIDE DEF r
  <1>4. CASE s[i].kind \notin LiveKinds
    <2>1. \A j \in DOMAIN r : r[j].kind \in LiveKinds => r[j] = s[j]
      BY <1>2, <1>4
    <2> QED  BY <1>2, <1>4, <2>1 DEF SwitchMatches, r
  <1>5. CASE s[i].kind \in LiveKinds
    <2>1. \A j \in DOMAIN r : r[j].kind \in LiveKinds <=> j = i
      BY <1>2, <1>5 DEF SwitchMatches
    <2>2. s[i].kind = Live(mode)
      BY <1>5 DEF SwitchMatches
    <2>3. a.status = "ok" => new = mode
      BY <1>5, <2>2 DEF Live
    <2>4. /\ \A j, k \in DOMAIN r : r[j].kind \in LiveKinds /\ r[k].kind \in LiveKinds => j = k
          /\ \A j \in DOMAIN r : r[j].kind \in LiveKinds =>
                /\ r[j].answer # Waiting
                /\ r[j].answer.status = "ok" => new = mode
      BY <1>2, <1>3, <2>1, <2>3
    <2>5. ~ (\A j \in DOMAIN r : r[j].kind \notin LiveKinds)
      BY <1>2, <2>1
    <2> QED  BY <2>4, <2>5 DEF SwitchMatches, r
  <1> QED  BY <1>4, <1>5

-------------------------------------------------------------------------------
(* The steps. *)

LEMMA InitDashboardInv == Init => DashboardInv
  <1> SUFFICES ASSUME Init PROVE DashboardInv
    OBVIOUS
  <1> DEFINE e == Ask("probe", "zombies")
  <1>1. e \in Request /\ e.kind = "probe" /\ e.tab = "zombies" /\ inFlight = <<e>>
    BY DEF Init, Ask, Request, Kinds, Tabs, Waiting
  <1> HIDE DEF e
  <1>2. inFlight \in Seq(Request) /\ DOMAIN inFlight = {1} /\ inFlight[1] = e
    BY <1>1
  <1>3. TypeOK
    <2>1. {authed, needLogin, loading, liveMode, reloading, session, liveInterval} \subseteq BOOLEAN
      BY DEF Init
    <2>2. doubt \subseteq Doubts /\ tab \in Tabs /\ reqRef \in [Tabs -> BOOLEAN]
          /\ effects \in [authed : BOOLEAN, tab : Tabs, liveMode : BOOLEAN]
      BY DEF Init, Doubts, Tabs
    <2>3. /\ shown \in [Tabs -> Data \cup {None}] /\ snapshots \in Data \cup {None}
          /\ data \in Data
          /\ errors \in 0..MaxErrors /\ expiries \in 0..MaxExpiries /\ clicks \in 0..MaxClicks
      BY DashboardAssumption DEF Init, Data
    <2> QED  BY <1>2, <2>1, <2>2, <2>3 DEF TypeOK
  <1>4. FlagsMatch(inFlight, reqRef)
    BY <1>1, <1>2 DEF Init, FlagsMatch, Loads
  <1>5. HasProbe(inFlight)
    BY <1>1, <1>2 DEF HasProbe
  <1>6. e.kind \notin LiveKinds
    BY <1>1 DEF LiveKinds, Live
  <1>7. SwitchInv
    <2>1. CASE liveInterval
      BY <2>1 DEF Init, SwitchInv
    <2>2. CASE ~ liveInterval
      <3>1. liveInterval = liveMode
        BY <2>2 DEF Init
      <3>2. \A i \in DOMAIN inFlight : inFlight[i].kind \notin LiveKinds
        BY <1>2, <1>6
      <3> QED  BY <3>1, <3>2 DEF SwitchInv, SwitchMatches
    <2> QED  BY <2>1, <2>2
  <1> QED  BY <1>3, <1>4, <1>5, <1>7 DEF DashboardInv, AloneInv

(* Steps that touch no request. *)
LEMMA QuietStep ==
  ASSUME DashboardInv, TypeOK',
         UNCHANGED <<inFlight, reqRef, authed, needLogin, doubt, liveMode, liveInterval>>
  PROVE  DashboardInv'
  BY DEF DashboardInv, FlagsMatch, Loads, AloneInv, HasProbe, SwitchInv, SwitchMatches

LEMMA NewDataStep ==
  ASSUME DashboardInv, NewData
  PROVE  DashboardInv'
  <1>1. TypeOK'
    <2>1. data' \in Data /\ UNCHANGED <<uiVars, inFlight, liveInterval, session, errors, expiries, clicks, doubt>>
      BY DashboardAssumption DEF DashboardInv, TypeOK, NewData, Data
    <2> QED  BY <2>1 DEF DashboardInv, TypeOK, uiVars, Data
  <1> QED  BY <1>1, QuietStep DEF NewData, uiVars

LEMMA ExpireStep ==
  ASSUME DashboardInv, ExpireSession
  PROVE  DashboardInv'
  <1>1. TypeOK'
    <2>1. expiries' \in 0..MaxExpiries
      <3>1. expiries \in 0..MaxExpiries /\ expiries < MaxExpiries /\ expiries' = expiries + 1
        BY DEF DashboardInv, TypeOK, ExpireSession
      <3> QED  BY <3>1, DashboardAssumption
    <2>2. session' = FALSE
      BY DEF ExpireSession
    <2> QED  BY <2>1, <2>2 DEF DashboardInv, TypeOK, ExpireSession, uiVars, Data
  <1> QED  BY <1>1, QuietStep DEF ExpireSession, uiVars

LEMMA ClickCounts ==
  ASSUME TypeOK, Click
  PROVE  clicks' \in 0..MaxClicks
  BY DashboardAssumption DEF TypeOK, Click

LEMMA SwitchTabStep ==
  ASSUME DashboardInv, NEW t \in Tabs, SwitchTab(t)
  PROVE  DashboardInv'
  <1>1. TypeOK'
    <2>1. clicks' \in 0..MaxClicks /\ tab' \in Tabs /\ loading' \in BOOLEAN
      BY ClickCounts DEF DashboardInv, SwitchTab
    <2> QED  BY <2>1 DEF DashboardInv, TypeOK, SwitchTab, serverVars, Data
  <1> QED  BY <1>1, QuietStep DEF SwitchTab, serverVars

LEMMA ReplyStep ==
  ASSUME DashboardInv, NEW i \in DOMAIN inFlight, Reply(i)
  PROVE  DashboardInv'
  <1>1. /\ inFlight[i].answer = Waiting
        /\ UNCHANGED <<uiVars, data, expiries, clicks, doubt>>
    BY DEF Reply
  <1>2. inFlight \in Seq(Request) /\ liveMode \in BOOLEAN /\ data \in Data /\ liveInterval \in BOOLEAN
    BY DEF DashboardInv, TypeOK
  <1>3. PICK a \in [status : {"ok", "unauthorized", "error"}, version : Data \cup {None}] :
          /\ inFlight' = [inFlight EXCEPT ![i].answer = a]
          /\ Applied(i) \/ (a.status # "ok" /\ liveInterval' = liveInterval)
          /\ session' \in BOOLEAN /\ errors' \in 0..MaxErrors
    <2>1. CASE Replied(i, "ok", data) /\ Applied(i) /\ session' = TRUE /\ UNCHANGED errors
      BY <1>2, <2>1 DEF Replied, DashboardInv, TypeOK
    <2>2. CASE Replied(i, "unauthorized", None) /\ UNCHANGED <<liveInterval, session, errors>>
      BY <1>2, <2>2 DEF Replied, DashboardInv, TypeOK
    <2>3. CASE /\ errors < MaxErrors /\ errors' = errors + 1
               /\ Replied(i, "error", None)
               /\ (session /\ Applied(i)) \/ UNCHANGED liveInterval
               /\ UNCHANGED session
      <3>1. errors' \in 0..MaxErrors
        BY <2>3, DashboardAssumption DEF DashboardInv, TypeOK
      <3> QED  BY <1>2, <2>3, <3>1 DEF Replied, DashboardInv, TypeOK
    <2> QED  BY <2>1, <2>2, <2>3 DEF Reply
  <1>4. a \in [status : {"waiting", "ok", "unauthorized", "error"}, version : Data \cup {None}]
    OBVIOUS
  <1>5. inFlight' \in Seq(Request)
    BY <1>2, <1>3, <1>4, Replaced
  <1>6. liveInterval' \in BOOLEAN
    BY <1>2, <1>3 DEF Applied
  <1>7. TypeOK'
    BY <1>1, <1>3, <1>5, <1>6 DEF DashboardInv, TypeOK, uiVars, Data
  <1>8. FlagsMatch(inFlight', reqRef')
    BY <1>1, <1>2, <1>3, <1>4, ReplyKeepsLoadsAndProbe DEF DashboardInv, uiVars
  <1>9. HasProbe(inFlight) => HasProbe(inFlight')
    BY <1>2, <1>3, <1>4, ReplyKeepsLoadsAndProbe
  <1>10. AloneInv'
    BY <1>1, <1>9 DEF DashboardInv, AloneInv, uiVars, HasProbe
  <1>11. SwitchMatches(inFlight, liveMode, liveInterval) =>
            SwitchMatches(inFlight', liveMode, liveInterval')
    <2> SUFFICES ASSUME SwitchMatches(inFlight, liveMode, liveInterval)
                 PROVE  SwitchMatches(inFlight', liveMode, liveInterval')
      OBVIOUS
    <2>1. inFlight[i].kind \notin LiveKinds => liveInterval' = liveInterval
      BY <1>3 DEF Applied, LiveKinds
    <2>2. inFlight[i].kind \in LiveKinds /\ a.status = "ok" =>
              liveInterval' = (inFlight[i].kind = Live(TRUE))
      BY <1>3 DEF Applied, LiveKinds
    <2>3. SwitchMatches([inFlight EXCEPT ![i].answer = a], liveMode, liveInterval')
      BY <1>1, <1>2, <2>1, <2>2, ReplyKeepsSwitch
    <2> QED  BY <1>3, <2>3
  <1>12. SwitchInv'
    BY <1>1, <1>11 DEF DashboardInv, SwitchInv, uiVars, SwitchMatches
  <1> QED  BY <1>7, <1>8, <1>10, <1>12 DEF DashboardInv, FlagsMatch, Loads

(* Requests that are no loads and do not switch. *)
LEMMA SendStep ==
  ASSUME DashboardInv, NEW k \in Kinds, NEW t \in Tabs, k # "load", k \notin LiveKinds,
         inFlight' = Append(inFlight, Ask(k, t)), TypeOK',
         UNCHANGED <<reqRef, authed, needLogin, doubt, liveMode, liveInterval>>
  PROVE  DashboardInv'
  <1> DEFINE e == Ask(k, t)
  <1>1. e \in Request /\ e.kind = k /\ inFlight \in Seq(Request) /\ reqRef \in [Tabs -> BOOLEAN]
    BY AskIsRequest DEF Ask, DashboardInv, TypeOK
  <1> HIDE DEF e
  <1>2. inFlight' = Append(inFlight, e)
    BY DEF e
  <1>3. FlagsMatch(inFlight', reqRef')
    BY <1>1, <1>2, SendingKeepsFlags DEF DashboardInv
  <1>4. HasProbe(inFlight) => HasProbe(inFlight')
    BY <1>1, <1>2, SendingKeepsProbe
  <1>5. SwitchMatches(inFlight, liveMode, liveInterval) =>
            SwitchMatches(inFlight', liveMode', liveInterval')
    BY <1>1, <1>2, SendingKeepsSwitch
  <1> QED  BY <1>3, <1>4, <1>5 DEF DashboardInv, FlagsMatch, Loads, AloneInv, HasProbe, SwitchInv, SwitchMatches

(* A load, on a tab that has none. *)
LEMMA LoadStep ==
  ASSUME NEW s \in Seq(Request), NEW ref \in [Tabs -> BOOLEAN], NEW t \in Tabs,
         NEW mode, NEW interval, FlagsMatch(s, ref)
  PROVE  LET r == s \o (IF ref[t] THEN <<>> ELSE <<Ask("load", t)>>)
         IN  /\ r \in Seq(Request)
             /\ FlagsMatch(r, [ref EXCEPT ![t] = TRUE])
             /\ HasProbe(s) => HasProbe(r)
             /\ SwitchMatches(s, mode, interval) => SwitchMatches(r, mode, interval)
  <1> DEFINE e == Ask("load", t)
  <1>1. e \in Request /\ e.kind = "load" /\ e.tab = t /\ e.kind \notin LiveKinds
    BY AskIsRequest DEF Ask, Kinds, LiveKinds, Live
  <1> HIDE DEF e
  <1>2. CASE ref[t]
    <2>1. s \o (IF ref[t] THEN <<>> ELSE <<e>>) = s /\ [ref EXCEPT ![t] = TRUE] = ref
      BY <1>2
    <2> QED  BY <2>1 DEF e
  <1>3. CASE ~ ref[t]
    <2>1. s \o (IF ref[t] THEN <<>> ELSE <<e>>) = Append(s, e)
      BY <1>1, <1>3
    <2>2. Append(s, e) \in Seq(Request)
      BY <1>1
    <2>3. FlagsMatch(Append(s, e), [ref EXCEPT ![t] = TRUE])
      BY <1>1, <1>3, SendingKeepsFlags
    <2>4. HasProbe(s) => HasProbe(Append(s, e))
      BY <1>1, SendingKeepsProbe
    <2>5. SwitchMatches(s, mode, interval) => SwitchMatches(Append(s, e), mode, interval)
      BY <1>1, SendingKeepsSwitch
    <2> QED  BY <2>1, <2>2, <2>3, <2>4, <2>5 DEF e
  <1> QED  BY <1>2, <1>3

LEMMA LoadTickStep ==
  ASSUME DashboardInv, LoadTick
  PROVE  DashboardInv'
  <1> DEFINE t == effects.tab
  <1>1. /\ t \in Tabs /\ inFlight \in Seq(Request) /\ reqRef \in [Tabs -> BOOLEAN]
        /\ FlagsMatch(inFlight, reqRef)
    BY DEF DashboardInv, TypeOK
  <1>2. /\ inFlight' = inFlight \o (IF reqRef[t] THEN <<>> ELSE <<Ask("load", t)>>)
        /\ reqRef' = [reqRef EXCEPT ![t] = TRUE]
        /\ UNCHANGED <<authed, needLogin, tab, loading, liveMode, reloading, shown, snapshots, effects,
                       serverVars, clicks, doubt>>
    BY DEF LoadTick, Load
  <1> HIDE DEF t
  <1>3. /\ inFlight' \in Seq(Request) /\ FlagsMatch(inFlight', reqRef')
        /\ HasProbe(inFlight) => HasProbe(inFlight')
        /\ SwitchMatches(inFlight, liveMode, liveInterval) =>
                SwitchMatches(inFlight', liveMode, liveInterval)
    BY <1>1, <1>2, LoadStep
  <1>4. TypeOK'
    BY <1>1, <1>2, <1>3 DEF DashboardInv, TypeOK, serverVars, Data
  <1> QED  BY <1>2, <1>3, <1>4 DEF DashboardInv, FlagsMatch, Loads, AloneInv, HasProbe, SwitchInv, SwitchMatches, serverVars

LEMMA RunEffectsStep ==
  ASSUME DashboardInv, RunEffects
  PROVE  DashboardInv'
  <1>1. /\ tab \in Tabs /\ inFlight \in Seq(Request) /\ reqRef \in [Tabs -> BOOLEAN]
        /\ FlagsMatch(inFlight, reqRef) /\ authed \in BOOLEAN /\ liveMode \in BOOLEAN
    BY DEF DashboardInv, TypeOK
  <1>2. /\ effects' = [authed |-> authed, tab |-> tab, liveMode |-> liveMode]
        /\ UNCHANGED <<authed, needLogin, tab, loading, liveMode, reloading, shown, snapshots,
                       serverVars, clicks, doubt>>
    BY DEF RunEffects
  <1>3. effects' \in [authed : BOOLEAN, tab : Tabs, liveMode : BOOLEAN]
    BY <1>1, <1>2
  <1>4. CASE ~ authed
    <2>1. UNCHANGED <<inFlight, reqRef>>
      BY <1>4 DEF RunEffects
    <2>2. TypeOK'
      BY <1>2, <1>3, <2>1 DEF DashboardInv, TypeOK, serverVars, Data
    <2> QED  BY <1>2, <2>1, <2>2, QuietStep DEF serverVars
  <1>5. CASE authed
    <2> DEFINE s == inFlight \o (IF reqRef[tab] THEN <<>> ELSE <<Ask("load", tab)>>)
               e == Ask("snapshot", tab)
    <2>1. /\ s \in Seq(Request) /\ FlagsMatch(s, [reqRef EXCEPT ![tab] = TRUE])
          /\ HasProbe(inFlight) => HasProbe(s)
          /\ SwitchMatches(inFlight, liveMode, liveInterval) => SwitchMatches(s, liveMode, liveInterval)
      BY <1>1, LoadStep
    <2>2. reqRef' = [reqRef EXCEPT ![tab] = TRUE] /\ reqRef' \in [Tabs -> BOOLEAN]
      BY <1>1, <1>5 DEF RunEffects
    <2>3. inFlight' = s \o (IF tab = "zombies" THEN <<e>> ELSE <<>>)
      BY <1>5 DEF RunEffects, Load
    <2>4. e \in Request /\ e.kind # "load" /\ e.kind \notin LiveKinds
      BY <1>1, AskIsRequest DEF Ask, Kinds, LiveKinds, Live
    <2> HIDE DEF s, e
    <2>5. inFlight' = s \/ inFlight' = Append(s, e)
      BY <2>1, <2>3, <2>4
    <2>6. /\ inFlight' \in Seq(Request) /\ FlagsMatch(inFlight', reqRef')
          /\ HasProbe(inFlight) => HasProbe(inFlight')
          /\ SwitchMatches(inFlight, liveMode, liveInterval) =>
                SwitchMatches(inFlight', liveMode, liveInterval)
      <3>1. CASE inFlight' = s
        BY <2>1, <2>2, <3>1
      <3>2. CASE inFlight' = Append(s, e)
        BY <2>1, <2>2, <2>4, <3>2, Appended, SendingKeepsFlags, SendingKeepsProbe, SendingKeepsSwitch
      <3> QED  BY <2>5, <3>1, <3>2
    <2>7. TypeOK'
      BY <1>2, <1>3, <2>2, <2>6 DEF DashboardInv, TypeOK, serverVars, Data
    <2> QED  BY <1>2, <2>6, <2>7 DEF DashboardInv, FlagsMatch, Loads, AloneInv, HasProbe, SwitchInv, SwitchMatches, serverVars
  <1> QED  BY <1>4, <1>5

LEMMA SnapshotTickStep ==
  ASSUME DashboardInv, SnapshotTick
  PROVE  DashboardInv'
  <1>1. "snapshot" \in Kinds /\ "zombies" \in Tabs /\ "snapshot" \notin LiveKinds
    BY DEF Kinds, Tabs, LiveKinds, Live
  <1>2. inFlight' = Append(inFlight, Ask("snapshot", "zombies"))
        /\ UNCHANGED <<uiVars, serverVars, clicks, doubt>>
    BY DEF SnapshotTick
  <1>3. inFlight' \in Seq(Request)
    BY <1>1, <1>2, AskIsRequest DEF DashboardInv, TypeOK
  <1>4. TypeOK'
    BY <1>2, <1>3 DEF DashboardInv, TypeOK, uiVars, serverVars, Data
  <1> QED  BY <1>1, <1>2, <1>4, SendStep DEF uiVars, serverVars

LEMMA HandleReloadStep ==
  ASSUME DashboardInv, HandleReload
  PROVE  DashboardInv'
  <1>1. "refresh" \in Kinds /\ tab \in Tabs /\ "refresh" \notin LiveKinds
    BY DEF Kinds, LiveKinds, Live, DashboardInv, TypeOK
  <1>2. /\ inFlight' = Append(inFlight, Ask("refresh", tab)) /\ reloading' = TRUE
        /\ UNCHANGED <<authed, needLogin, tab, loading, liveMode, shown, snapshots, reqRef, effects,
                       serverVars, doubt>>
    BY DEF HandleReload
  <1>3. inFlight' \in Seq(Request) /\ clicks' \in 0..MaxClicks
    BY <1>1, <1>2, AskIsRequest, ClickCounts DEF DashboardInv, TypeOK, HandleReload
  <1>4. TypeOK'
    BY <1>2, <1>3 DEF DashboardInv, TypeOK, serverVars, Data
  <1> QED  BY <1>1, <1>2, <1>4, SendStep DEF serverVars

LEMMA LoginStep ==
  ASSUME DashboardInv, Login
  PROVE  DashboardInv'
  <1>1. "login" \in Kinds /\ tab \in Tabs /\ "login" \notin LiveKinds
    BY DEF Kinds, LiveKinds, Live, DashboardInv, TypeOK
  <1>2. inFlight' = Append(inFlight, Ask("login", tab))
        /\ UNCHANGED <<uiVars, serverVars, clicks, doubt>>
    BY DEF Login
  <1>3. inFlight' \in Seq(Request)
    BY <1>1, <1>2, AskIsRequest DEF DashboardInv, TypeOK
  <1>4. TypeOK'
    BY <1>2, <1>3 DEF DashboardInv, TypeOK, uiVars, serverVars, Data
  <1> QED  BY <1>1, <1>2, <1>4, SendStep DEF uiVars, serverVars

(* Two clicks whose requests are in flight together leave the switch in    *)
(* doubt; otherwise the new request is the only one.                       *)
LEMMA ToggleLiveStep ==
  ASSUME DashboardInv, ToggleLive
  PROVE  DashboardInv'
  <1> DEFINE e == Ask(Live(~liveMode), tab)
  <1>1. /\ tab \in Tabs /\ inFlight \in Seq(Request) /\ reqRef \in [Tabs -> BOOLEAN]
        /\ liveMode \in BOOLEAN /\ FlagsMatch(inFlight, reqRef)
    BY DEF DashboardInv, TypeOK
  <1>2. e \in Request /\ e.kind \in LiveKinds /\ e.kind # "load"
    <2>1. Live(~liveMode) \in Kinds /\ Live(~liveMode) \in LiveKinds /\ Live(~liveMode) # "load"
      BY <1>1 DEF Kinds, LiveKinds, Live
    <2> QED  BY <1>1, <2>1, AskIsRequest DEF Ask
  <1>3. /\ inFlight' = Append(inFlight, e) /\ liveMode' = ~liveMode
        /\ UNCHANGED <<authed, needLogin, tab, loading, reloading, shown, snapshots, reqRef, effects,
                       serverVars>>
        /\ doubt' = IF \E i \in DOMAIN inFlight : IsLive(i) THEN doubt \cup {"live"}
                                                           ELSE doubt \ {"live"}
    BY DEF ToggleLive
  <1> HIDE DEF e
  <1>4. inFlight' \in Seq(Request) /\ clicks' \in 0..MaxClicks
    BY <1>1, <1>2, <1>3, ClickCounts DEF DashboardInv, ToggleLive
  <1>5. TypeOK'
    <2>1. doubt' \subseteq Doubts /\ liveMode' \in BOOLEAN
      BY <1>1, <1>3 DEF DashboardInv, TypeOK, Doubts
    <2> QED  BY <1>3, <1>4, <2>1 DEF DashboardInv, TypeOK, serverVars, Data
  <1>6. FlagsMatch(inFlight', reqRef') /\ (HasProbe(inFlight) => HasProbe(inFlight'))
    BY <1>1, <1>2, <1>3, SendingKeepsFlags, SendingKeepsProbe
  <1>7. SwitchInv'
    <2>1. CASE \E i \in DOMAIN inFlight : IsLive(i)
      BY <1>3, <2>1 DEF SwitchInv
    <2>2. CASE ~ \E i \in DOMAIN inFlight : IsLive(i)
      <3>1. \A i \in DOMAIN inFlight : inFlight[i].kind \notin LiveKinds
        BY <2>2 DEF IsLive, LiveKinds
      <3>2. (~liveMode) \in BOOLEAN
        BY <1>1
      <3>3. SwitchMatches(Append(inFlight, Ask(Live(~liveMode), tab)), ~liveMode, liveInterval)
        BY <1>1, <3>1, <3>2, SendingSwitches
      <3> QED  BY <1>3, <3>3 DEF SwitchInv, e, serverVars, SwitchMatches
    <2> QED  BY <2>1, <2>2
  <1>8. AloneInv'
    <2>1. "probe" \in doubt => "probe" \in doubt'
      BY <1>3
    <2>2. "form" \in doubt => "form" \in doubt'
      BY <1>3
    <2> QED  BY <1>3, <1>6, <2>1, <2>2 DEF DashboardInv, AloneInv, HasProbe
  <1> QED  BY <1>5, <1>6, <1>7, <1>8 DEF DashboardInv, FlagsMatch, Loads

-------------------------------------------------------------------------------
(* The steps that receive an answer. *)

(* Of any request that is neither a load nor live, nor an unhandled probe. *)
LEMMA ReceiveStep ==
  ASSUME DashboardInv, NEW i \in DOMAIN inFlight, inFlight[i].kind # "load",
         inFlight[i].kind \notin LiveKinds, Received(i), TypeOK',
         UNCHANGED <<reqRef, liveMode, liveInterval>>,
         "live" \in doubt => "live" \in doubt',
         HasProbe(inFlight)' \/ authed' \/ needLogin' \/ "probe" \in doubt' \/ "form" \in doubt'
  PROVE  DashboardInv'
  <1>1. /\ inFlight \in Seq(Request) /\ reqRef \in [Tabs -> BOOLEAN]
        /\ inFlight' = RemoveAt(inFlight, i) /\ FlagsMatch(inFlight, reqRef)
    BY DEF DashboardInv, TypeOK, Received
  <1>2. FlagsMatch(inFlight', reqRef')
    BY <1>1, ReceivingKeepsFlags
  <1>3. SwitchMatches(inFlight, liveMode, liveInterval) =>
            SwitchMatches(inFlight', liveMode', liveInterval')
    BY <1>1, ReceivingKeepsSwitch
  <1> QED  BY <1>2, <1>3 DEF DashboardInv, FlagsMatch, Loads, AloneInv, HasProbe, SwitchInv, SwitchMatches

(* The type of what an answer carries, and of the requests that stay. *)
LEMMA AnswerTypes ==
  ASSUME TypeOK, NEW i \in DOMAIN inFlight
  PROVE  /\ inFlight[i] \in Request /\ inFlight[i].tab \in Tabs /\ inFlight[i].kind \in Kinds
         /\ inFlight[i].answer.version \in Data \cup {None}
         /\ RemoveAt(inFlight, i) \in Seq(Request)
  <1>1. inFlight \in Seq(Request)
    BY DEF TypeOK
  <1>2. inFlight[i] \in Request
    BY <1>1
  <1>3. RemoveAt(inFlight, i) \in Seq(Request)
    BY <1>1, Removed
  <1> QED  BY <1>2, <1>3 DEF Request

(* The kinds of requests differ. *)
LEMMA KindsDiffer ==
  /\ "probe" \notin LiveKinds /\ "load" \notin LiveKinds /\ "snapshot" \notin LiveKinds
  /\ "refresh" \notin LiveKinds /\ "reload" \notin LiveKinds /\ "login" \notin LiveKinds
  BY DEF LiveKinds, Live

LEMMA ProbedStep ==
  ASSUME DashboardInv, NEW i \in DOMAIN inFlight, Probed(i)
  PROVE  DashboardInv'
  <1>1. inFlight[i].kind = "probe" /\ Received(i)
        /\ UNCHANGED <<tab, liveMode, reloading, shown, snapshots, reqRef, effects, serverVars, clicks>>
    BY DEF Probed, Answered
  <1>2. \/ authed' = TRUE /\ UNCHANGED <<needLogin, loading, doubt>>
        \/ needLogin' = TRUE /\ loading' = FALSE /\ UNCHANGED <<authed, doubt>>
        \/ doubt' = doubt \cup {"probe"} /\ UNCHANGED <<authed, needLogin, loading>>
    BY DEF Probed
  <1>3. TypeOK'
    <2>1. {authed', needLogin', loading'} \subseteq BOOLEAN /\ doubt' \subseteq Doubts
      BY <1>2 DEF DashboardInv, TypeOK, Doubts
    <2>2. inFlight' \in Seq(Request)
      BY <1>1, AnswerTypes DEF DashboardInv, Received
    <2> QED  BY <1>1, <2>1, <2>2 DEF DashboardInv, TypeOK, serverVars, Data
  <1>4. "live" \in doubt => "live" \in doubt'
    BY <1>2
  <1>5. authed' \/ needLogin' \/ "probe" \in doubt'
    BY <1>2
  <1> QED  BY <1>1, <1>3, <1>4, <1>5, KindsDiffer, ReceiveStep DEF serverVars

LEMMA LoadedStep ==
  ASSUME DashboardInv, NEW i \in DOMAIN inFlight, Loaded(i)
  PROVE  DashboardInv'
  <1>1. /\ inFlight[i].kind = "load" /\ Received(i) /\ Freed(i) /\ loading' = FALSE
        /\ UNCHANGED <<tab, liveMode, reloading, snapshots, effects, serverVars, clicks>>
    BY DEF Loaded, Answered
  <1>2. \/ /\ shown' = [shown EXCEPT ![inFlight[i].tab] = inFlight[i].answer.version]
           /\ needLogin' = FALSE
           /\ doubt' = IF needLogin THEN doubt \cup {"form"} ELSE doubt
           /\ UNCHANGED authed
        \/ needLogin' = TRUE /\ authed' = FALSE /\ UNCHANGED <<shown, doubt>>
        \/ UNCHANGED <<authed, needLogin, shown, doubt>>
    BY DEF Loaded, LoadRefused, AskForLogin
  <1>3. /\ inFlight \in Seq(Request) /\ reqRef \in [Tabs -> BOOLEAN]
        /\ inFlight' = RemoveAt(inFlight, i) /\ FlagsMatch(inFlight, reqRef)
        /\ reqRef' = [reqRef EXCEPT ![inFlight[i].tab] = FALSE]
    BY <1>1 DEF DashboardInv, TypeOK, Received, Freed
  <1>4. TypeOK'
    <2>1. inFlight' \in Seq(Request) /\ reqRef' \in [Tabs -> BOOLEAN]
      BY <1>3, AnswerTypes DEF DashboardInv
    <2>2. shown' \in [Tabs -> Data \cup {None}]
      BY <1>2, AnswerTypes DEF DashboardInv, TypeOK
    <2>3. {authed', needLogin', loading'} \subseteq BOOLEAN /\ doubt' \subseteq Doubts
      BY <1>1, <1>2 DEF DashboardInv, TypeOK, Doubts
    <2> QED  BY <1>1, <2>1, <2>2, <2>3 DEF DashboardInv, TypeOK, serverVars, Data
  <1>5. FlagsMatch(inFlight', reqRef')
    BY <1>1, <1>3, ReceivingKeepsFlags
  <1>6. HasProbe(inFlight) => HasProbe(inFlight')
    BY <1>1, <1>3, ReceivingKeepsProbe
  <1>7. SwitchMatches(inFlight, liveMode, liveInterval) =>
            SwitchMatches(inFlight', liveMode', liveInterval')
    <2>1. SwitchMatches(inFlight, liveMode, liveInterval) =>
            SwitchMatches(inFlight', liveMode, liveInterval)
      BY <1>1, <1>3, KindsDiffer, ReceivingKeepsSwitch
    <2> QED  BY <1>1, <2>1 DEF serverVars, SwitchMatches
  <1>8. SwitchInv'
    <2>1. "live" \in doubt => "live" \in doubt'
      BY <1>2
    <2> QED  BY <1>7, <2>1 DEF DashboardInv, SwitchInv, SwitchMatches
  <1>9. AloneInv'
    BY <1>2, <1>6 DEF DashboardInv, AloneInv, HasProbe
  <1> QED  BY <1>4, <1>5, <1>8, <1>9 DEF DashboardInv, FlagsMatch, Loads

(* An answer that leaves the login form and polling as they were, or asks  *)
(* for a login. *)
LEMMA PlainReceiveStep ==
  ASSUME DashboardInv, NEW i \in DOMAIN inFlight,
         inFlight[i].kind \in {"snapshot", "refresh", "reload", "login"}, Received(i), TypeOK',
         UNCHANGED <<reqRef, liveMode, liveInterval>>,
         \/ UNCHANGED <<authed, needLogin, doubt>>
         \/ (needLogin' \/ authed') /\ ("live" \in doubt => "live" \in doubt')
  PROVE  DashboardInv'
  <1>1. /\ inFlight[i].kind # "load" /\ inFlight[i].kind \notin LiveKinds
        /\ inFlight[i].kind # "probe"
    BY KindsDiffer
  <1>2. inFlight \in Seq(Request) /\ inFlight' = RemoveAt(inFlight, i)
    BY DEF DashboardInv, TypeOK, Received
  <1>3. HasProbe(inFlight) => HasProbe(inFlight')
    BY <1>1, <1>2, ReceivingKeepsProbe
  <1>4. HasProbe(inFlight)' \/ authed' \/ needLogin' \/ "probe" \in doubt' \/ "form" \in doubt'
    BY <1>3 DEF DashboardInv, AloneInv, HasProbe
  <1> QED  BY <1>1, <1>4, ReceiveStep

LEMMA SnapshotLoadedStep ==
  ASSUME DashboardInv, NEW i \in DOMAIN inFlight, SnapshotLoaded(i)
  PROVE  DashboardInv'
  <1>1. /\ inFlight[i].kind = "snapshot" /\ Received(i)
        /\ snapshots' \in {snapshots, inFlight[i].answer.version}
        /\ UNCHANGED <<authed, needLogin, tab, loading, liveMode, reloading, shown, reqRef, effects,
                       serverVars, clicks, doubt>>
    BY DEF SnapshotLoaded, Answered
  <1>2. TypeOK'
    <2>1. inFlight' \in Seq(Request) /\ snapshots' \in Data \cup {None}
      BY <1>1, AnswerTypes DEF DashboardInv, TypeOK, Received
    <2> QED  BY <1>1, <2>1 DEF DashboardInv, TypeOK, serverVars, Data
  <1> QED  BY <1>1, <1>2, PlainReceiveStep DEF serverVars

LEMMA ReloadFailedStep ==
  ASSUME DashboardInv, NEW i \in DOMAIN inFlight, ReloadFailed(i)
  PROVE  DashboardInv'
  <1>1. /\ inFlight[i].kind \in {"refresh", "reload"} /\ Received(i) /\ reloading' = FALSE
        /\ UNCHANGED <<tab, loading, liveMode, shown, snapshots, reqRef, effects, serverVars, clicks, doubt>>
        /\ \/ needLogin' = TRUE /\ authed' = FALSE
           \/ UNCHANGED <<authed, needLogin>>
    BY DEF ReloadFailed, Answered, ReloadRefused, AskForLogin
  <1>2. TypeOK'
    <2>1. inFlight' \in Seq(Request) /\ {authed', needLogin', reloading'} \subseteq BOOLEAN
      BY <1>1, AnswerTypes DEF DashboardInv, TypeOK, Received
    <2> QED  BY <1>1, <2>1 DEF DashboardInv, TypeOK, serverVars, Data
  <1>3. inFlight[i].kind \in {"snapshot", "refresh", "reload", "login"}
    BY <1>1
  <1>4. UNCHANGED <<reqRef, liveMode, liveInterval, doubt>>
    BY <1>1 DEF serverVars
  <1>5. \/ UNCHANGED <<authed, needLogin, doubt>>
        \/ (needLogin' \/ authed') /\ ("live" \in doubt => "live" \in doubt')
    BY <1>1
  <1> QED  BY <1>1, <1>2, <1>3, <1>4, <1>5, PlainReceiveStep

LEMMA ReloadedStep ==
  ASSUME DashboardInv, NEW i \in DOMAIN inFlight, Reloaded(i)
  PROVE  DashboardInv'
  <1>1. /\ inFlight[i].kind = "reload" /\ Received(i) /\ reloading' = FALSE
        /\ shown' = [shown EXCEPT ![inFlight[i].tab] = inFlight[i].answer.version]
        /\ snapshots' \in {snapshots, inFlight[i].answer.version}
        /\ UNCHANGED <<authed, needLogin, tab, loading, liveMode, reqRef, effects, serverVars, clicks, doubt>>
    BY DEF Reloaded, Answered
  <1>2. TypeOK'
    <2>1. inFlight' \in Seq(Request) /\ snapshots' \in Data \cup {None}
      BY <1>1, AnswerTypes DEF DashboardInv, TypeOK, Received
    <2>2. shown' \in [Tabs -> Data \cup {None}]
      BY <1>1, AnswerTypes DEF DashboardInv, TypeOK
    <2> QED  BY <1>1, <2>1, <2>2 DEF DashboardInv, TypeOK, serverVars, Data
  <1> QED  BY <1>1, <1>2, PlainReceiveStep DEF serverVars

LEMMA LoggedInStep ==
  ASSUME DashboardInv, NEW i \in DOMAIN inFlight, LoggedIn(i)
  PROVE  DashboardInv'
  <1>1. /\ inFlight[i].kind = "login" /\ Received(i)
        /\ UNCHANGED <<tab, loading, liveMode, reloading, shown, snapshots, reqRef, effects, serverVars, clicks>>
        /\ \/ needLogin' = FALSE /\ authed' = TRUE /\ doubt' = doubt \ {"probe", "form"}
           \/ UNCHANGED <<needLogin, authed, doubt>>
    BY DEF LoggedIn, Answered
  <1>2. TypeOK'
    <2>1. /\ inFlight' \in Seq(Request) /\ {authed', needLogin'} \subseteq BOOLEAN
          /\ doubt' \subseteq Doubts
      BY <1>1, AnswerTypes DEF DashboardInv, TypeOK, Received
    <2> QED  BY <1>1, <2>1 DEF DashboardInv, TypeOK, serverVars, Data
  <1>3. UNCHANGED <<reqRef, liveMode, liveInterval>>
    BY <1>1 DEF serverVars
  <1>4. \/ UNCHANGED <<authed, needLogin, doubt>>
        \/ (needLogin' \/ authed') /\ ("live" \in doubt => "live" \in doubt')
    BY <1>1
  <1> QED  BY <1>1, <1>2, <1>3, <1>4, PlainReceiveStep

(* The reload follows the refresh. *)
LEMMA RefreshedStep ==
  ASSUME DashboardInv, NEW i \in DOMAIN inFlight, Refreshed(i)
  PROVE  DashboardInv'
  <1> DEFINE s == RemoveAt(inFlight, i)  e == Ask("reload", inFlight[i].tab)
  <1>1. /\ inFlight[i].kind = "refresh" /\ inFlight' = Append(s, e)
        /\ UNCHANGED <<uiVars, serverVars, clicks, doubt>>
    BY DEF Refreshed, Answered
  <1>2. /\ inFlight \in Seq(Request) /\ s \in Seq(Request) /\ inFlight[i].tab \in Tabs
        /\ reqRef \in [Tabs -> BOOLEAN] /\ FlagsMatch(inFlight, reqRef)
    BY AnswerTypes DEF DashboardInv, TypeOK
  <1>3. e \in Request /\ e.kind # "load" /\ e.kind \notin LiveKinds
    BY <1>2, AskIsRequest, KindsDiffer DEF Ask, Kinds
  <1>4. FlagsMatch(s, reqRef)
    BY <1>1, <1>2, ReceivingKeepsFlags
  <1>5. HasProbe(inFlight) => HasProbe(s)
    BY <1>1, <1>2, ReceivingKeepsProbe
  <1>6. SwitchMatches(inFlight, liveMode, liveInterval) => SwitchMatches(s, liveMode, liveInterval)
    BY <1>1, <1>2, KindsDiffer, ReceivingKeepsSwitch
  <1> HIDE DEF s, e
  <1>7. inFlight' \in Seq(Request) /\ FlagsMatch(inFlight', reqRef)
    BY <1>1, <1>2, <1>3, <1>4, Appended, SendingKeepsFlags
  <1>8. HasProbe(inFlight) => HasProbe(inFlight')
    BY <1>1, <1>2, <1>3, <1>5, SendingKeepsProbe
  <1>9. SwitchMatches(inFlight, liveMode, liveInterval) => SwitchMatches(inFlight', liveMode, liveInterval)
    BY <1>1, <1>2, <1>3, <1>6, SendingKeepsSwitch
  <1>10. TypeOK'
    BY <1>1, <1>7 DEF DashboardInv, TypeOK, uiVars, serverVars, Data
  <1>11. UNCHANGED <<reqRef, authed, needLogin, doubt, liveMode, liveInterval>>
    BY <1>1 DEF uiVars, serverVars
  <1> QED  BY <1>7, <1>8, <1>9, <1>10, <1>11
           DEF DashboardInv, FlagsMatch, Loads, AloneInv, HasProbe, SwitchInv, SwitchMatches

LEMMA LiveAnsweredStep ==
  ASSUME DashboardInv, NEW i \in DOMAIN inFlight, LiveAnswered(i)
  PROVE  DashboardInv'
  <1>1. /\ inFlight[i].kind \in LiveKinds /\ inFlight' = RemoveAt(inFlight, i)
        /\ doubt' = IF inFlight[i].answer.status = "ok" THEN doubt ELSE doubt \cup {"live"}
        /\ UNCHANGED <<uiVars, serverVars, clicks>>
    BY DEF LiveAnswered, IsLive, Received, LiveKinds
  <1>2. /\ inFlight \in Seq(Request) /\ inFlight' \in Seq(Request)
        /\ reqRef \in [Tabs -> BOOLEAN] /\ FlagsMatch(inFlight, reqRef)
    BY <1>1, AnswerTypes DEF DashboardInv, TypeOK
  <1>3. inFlight[i].kind # "load" /\ inFlight[i].kind # "probe"
    BY <1>1 DEF LiveKinds, Live
  <1>4. TypeOK'
    <2>1. doubt' \subseteq Doubts
      BY <1>1 DEF DashboardInv, TypeOK, Doubts
    <2> QED  BY <1>1, <1>2, <2>1 DEF DashboardInv, TypeOK, uiVars, serverVars, Data
  <1>5. FlagsMatch(inFlight', reqRef)
    BY <1>1, <1>2, <1>3, ReceivingKeepsFlags
  <1>6. HasProbe(inFlight) => HasProbe(inFlight')
    BY <1>1, <1>2, <1>3, ReceivingKeepsProbe
  <1>7. UNCHANGED <<reqRef, authed, needLogin, liveMode, liveInterval>>
    BY <1>1 DEF uiVars, serverVars
  <1>8. "live" \in doubt' \/ SwitchMatches(inFlight', liveMode, liveInterval)
    <2>1. CASE "live" \in doubt \/ inFlight[i].answer.status # "ok"
      BY <1>1, <2>1
    <2>2. CASE "live" \notin doubt /\ inFlight[i].answer.status = "ok"
      <3>1. SwitchMatches(inFlight, liveMode, liveInterval)
        BY <2>2 DEF DashboardInv, SwitchInv
      <3> QED  BY <1>1, <1>2, <2>2, <3>1, ReceivingKeepsSwitch
    <2> QED  BY <2>1, <2>2
  <1>9. ("probe" \in doubt => "probe" \in doubt') /\ ("form" \in doubt => "form" \in doubt')
    BY <1>1
  <1>10. AloneInv'
    BY <1>6, <1>7, <1>9 DEF DashboardInv, AloneInv, HasProbe
  <1> QED  BY <1>4, <1>5, <1>7, <1>8, <1>10 DEF DashboardInv, FlagsMatch, Loads, SwitchInv, SwitchMatches

LEMMA NextDashboardInv == DashboardInv /\ [Next]_vars => DashboardInv'
  <1> SUFFICES ASSUME DashboardInv, [Next]_vars PROVE DashboardInv'
    OBVIOUS
  <1>1. ASSUME NEW i \in DOMAIN inFlight, Deliver(i) PROVE DashboardInv'
    BY <1>1, ProbedStep, LoadedStep, SnapshotLoadedStep, ReloadFailedStep, RefreshedStep,
       ReloadedStep, LoggedInStep, LiveAnsweredStep DEF Deliver
  <1>2. ASSUME NEW i \in DOMAIN inFlight, Reply(i) PROVE DashboardInv'
    BY <1>2, ReplyStep
  <1>3. ASSUME NEW t \in Tabs, SwitchTab(t) PROVE DashboardInv'
    BY <1>3, SwitchTabStep
  <1>4. CASE UNCHANGED vars
    <2>1. TypeOK'
      BY <1>4 DEF DashboardInv, TypeOK, vars, uiVars, serverVars, Data
    <2> QED  BY <1>4, <2>1, QuietStep DEF vars, uiVars, serverVars
  <1> QED  BY <1>1, <1>2, <1>3, <1>4, NewDataStep, ExpireStep, RunEffectsStep, LoadTickStep,
              SnapshotTickStep, ToggleLiveStep, HandleReloadStep, LoginStep DEF Next, Timers

-------------------------------------------------------------------------------
(* The theorems. *)

(* In every state of the tab the invariant holds. *)
THEOREM DashboardInvariant == Spec => []DashboardInv
  BY InitDashboardInv, NextDashboardInv, PTL DEF Spec

(* For any bounds, the variables keep their types. *)
THEOREM DashboardTypes == Spec => []TypeOK
  <1>1. DashboardInv => TypeOK
    BY DEF DashboardInv
  <1> QED  BY <1>1, DashboardInvariant, PTL

(* A tab has exactly one load in flight when its flag is set and none when *)
(* it is not, so that no tab stops polling for good (app.jsx:81-111).      *)
THEOREM FlagsAreRight == Spec => []FlagsMatchLoads
  <1>1. DashboardInv => FlagsMatchLoads
    <2> SUFFICES ASSUME DashboardInv, NEW t \in Tabs
                 PROVE  IF reqRef[t] THEN \E i \in Loads(inFlight, t) : Loads(inFlight, t) = {i}
                                     ELSE Loads(inFlight, t) = {}
      BY DEF FlagsMatchLoads, Loads
    <2> QED  BY DEF DashboardInv, FlagsMatch
  <1> QED  BY <1>1, DashboardInvariant, PTL

(* Whatever requests fail and in whatever order answers come, the page     *)
(* polls or asks for a login, but for the two ways the module names        *)
(* (app.jsx:35-50,81-111,135-137).                                         *)
THEOREM SomebodyIsThere == Spec => []NobodyLeftAlone
  <1>1. DashboardInv => NobodyLeftAlone
    BY DEF DashboardInv, AloneInv, NobodyLeftAlone, HasProbe
  <1> QED  BY <1>1, DashboardInvariant, PTL

(* A live request that was alone and succeeded has set the interval the    *)
(* switch shows (app.jsx:169-175, server.go:106-126).                      *)
THEOREM SwitchIsTrue == Spec => []SwitchTellsTruth
  <1>1. DashboardInv => SwitchTellsTruth
    BY DEF DashboardInv, SwitchInv, SwitchMatches, SwitchTellsTruth, IsLive, LiveKinds
  <1> QED  BY <1>1, DashboardInvariant, PTL
===============================================================================
