------------------------- MODULE PollSchedulerProofs --------------------------
(***************************************************************************)
(* Proofs about PollScheduler, for any number of calls and of goroutine    *)
(* slots: the safety invariants, each from an inductive invariant that     *)
(* adds what the history of the polls and of the intervals must satisfy.   *)
(***************************************************************************)
EXTENDS PollScheduler, TLAPS

(* While the request of a poll goroutine still waits, its poll counts it   *)
(* among those that see the whole poll.                                    *)
OwnPollSeen ==
    \A g \in Pollers : done[g] # None /\ req[done[g]] = "waiting" =>
        /\ poller[g] = "polling" => done[g] \in seenBy[g]
        /\ poller[g] = "closing" => done[g] \in covered

(* ForcePoll returns nil only after the close. *)
OkIsClosed == \A r \in Requests : req[r] = "ok" => r \in closed

PollInv ==
    /\ TypeOK
    /\ AtMostOnePoll
    /\ DoneHeldOnce
    /\ WaiterNotForgotten
    /\ OwnPollSeen
    /\ OkIsClosed
    /\ OwnPollIsComplete

(* An earlier setter has returned, and its duration has left the channel.  *)
ChannelIsLatest ==
    /\ \A s, t \in Setters : s \in earlier[t] => setter[s] = "returned"
    /\ \A t \in Setters : intervalCh # None => intervalCh \notin earlier[t]
    /\ intervalCh # None => setter[intervalCh] = "returned"

(* Something newer is on its way to the loop. *)
Pending == intervalCh # None \/ \E s \in Setters : setter[s] = "sending"

PeriodIsLatest ==
    /\ \A t \in Setters :
        setter[t] = "returned" /\ period \in earlier[t] => Pending
    /\ (\E t \in Setters : setter[t] = "returned") => period # None \/ Pending
    /\ loop = "starting" => period = None
    /\ loop # "interval" => interval = period

SetInv == TypeOK /\ ChannelIsLatest /\ PeriodIsLatest

-------------------------------------------------------------------------------
(* Polls and done channels. *)

LEMMA PollInit == Init => PollInv
<1>. SUFFICES ASSUME Init PROVE PollInv
  OBVIOUS
<1>1. TypeOK
  BY NoneAssumption DEF Init, TypeOK
<1>2. AtMostOnePoll
  BY DEF Init, AtMostOnePoll
<1>3. DoneHeldOnce
  BY NoneAssumption DEF Init, DoneHeldOnce
<1>4. WaiterNotForgotten /\ OwnPollSeen /\ OkIsClosed /\ OwnPollIsComplete
  BY DEF Init, WaiterNotForgotten, OwnPollSeen, OkIsClosed, OwnPollIsComplete
<1>. QED
  BY <1>1, <1>2, <1>3, <1>4 DEF PollInv

(* Type correctness, one step per action. *)
LEMMA TypeNext == TypeOK /\ [Next]_vars => TypeOK'
<1>. SUFFICES ASSUME TypeOK, [Next]_vars PROVE TypeOK'
  OBVIOUS
<1>. USE DEF TypeOK, loopVars, pollVars, callVars, history
<1>1. CASE StartLoop
  BY <1>1 DEF StartLoop
<1>2. CASE TakeTrigger
  <2>1. CASE AnswerWhenBusy(triggerCh)
    BY <1>2, <2>1 DEF TakeTrigger, AnswerWhenBusy
  <2>2. ASSUME NEW g \in Pollers, SpawnPoll(g, triggerCh) PROVE TypeOK'
    BY <1>2, <2>2 DEF TakeTrigger, SpawnPoll
  <2>. QED
    BY <1>2, <2>1, <2>2 DEF TakeTrigger
<1>3. CASE SkipTick
  BY <1>3 DEF SkipTick
<1>4. CASE TakeTick
  <2>1. PICK g \in Pollers : SpawnPoll(g, None)
    BY <1>4 DEF TakeTick
  <2>2. /\ tick' = FALSE
        /\ UNCHANGED <<loop, intervalCh, triggerCh, period, interval, callVars, ctxDone>>
    BY <1>4 DEF TakeTick
  <2>3. seenBy' \in [Pollers -> SUBSET Requests] /\ UNCHANGED <<closed, covered, joined, earlier>>
    BY <2>1 DEF SpawnPoll
  <2>4. /\ pollRunning' \in BOOLEAN /\ staleRunning' \in BOOLEAN
        /\ poller' \in [Pollers -> {"idle", "polling", "closing"}]
        /\ done' \in [Pollers -> Requests \cup {None}]
    BY <2>1 DEF SpawnPoll
  <2>. QED
    BY <2>2, <2>3, <2>4
<1>5. CASE TakeInterval
  BY <1>5 DEF TakeInterval
<1>6. CASE StoreInterval
  BY <1>6 DEF StoreInterval
<1>7. CASE StopLoop
  BY <1>7 DEF StopLoop
<1>8. CASE Tick
  BY <1>8 DEF Tick
<1>9. CASE Shutdown
  BY <1>9 DEF Shutdown
<1>10. ASSUME NEW r \in Requests, CallForcePoll(r) PROVE TypeOK'
  BY <1>10 DEF CallForcePoll
<1>11. ASSUME NEW r \in Requests, SendTrigger(r) PROVE TypeOK'
  BY <1>11 DEF SendTrigger
<1>12. ASSUME NEW r \in Requests, ReturnOk(r) PROVE TypeOK'
  BY <1>12 DEF ReturnOk
<1>13. ASSUME NEW r \in Requests, Expire(r) PROVE TypeOK'
  BY <1>13 DEF Expire
<1>14. ASSUME NEW s \in Setters, BeginSetInterval(s) PROVE TypeOK'
  BY <1>14 DEF BeginSetInterval
<1>15. ASSUME NEW s \in Setters, SendInterval(s) PROVE TypeOK'
  BY <1>15 DEF SendInterval
<1>16. ASSUME NEW g \in Pollers, EndPoll(g) PROVE TypeOK'
  BY <1>16 DEF EndPoll
<1>17. ASSUME NEW g \in Pollers, CloseDone(g) PROVE TypeOK'
  BY <1>17 DEF CloseDone
<1>18. CASE UNCHANGED vars
  BY <1>18 DEF vars
<1>. QED
  BY <1>1, <1>2, <1>3, <1>4, <1>5, <1>6, <1>7, <1>8, <1>9, <1>10, <1>11,
     <1>12, <1>13, <1>14, <1>15, <1>16, <1>17, <1>18 DEF Next, LoopStep

(* Starting a poll on a channel taken out of triggerCh, or on none. *)
LEMMA SpawnKeepsInv ==
    ASSUME PollInv, TypeOK', NEW g \in Pollers, NEW ch,
           SpawnPoll(g, ch),
           \/ ch = None /\ triggerCh' = triggerCh
           \/ ch = triggerCh /\ triggerCh # None /\ triggerCh' = None,
           UNCHANGED req
    PROVE  PollInv'
<1>1. /\ ~pollRunning /\ poller[g] = "idle" /\ done[g] = None
      /\ pollRunning' = TRUE
      /\ poller' = [poller EXCEPT ![g] = "polling"]
      /\ done' = [done EXCEPT ![g] = ch]
      /\ seenBy' = [seenBy EXCEPT ![g] = {r \in Requests : Active(r)}]
      /\ UNCHANGED <<closed, covered, joined>>
  BY DEF SpawnPoll, PollInv, TypeOK, DoneHeldOnce
<1>2. AtMostOnePoll'
  BY <1>1 DEF PollInv, TypeOK, AtMostOnePoll
<1>3. DoneHeldOnce'
  BY <1>1, NoneAssumption DEF PollInv, TypeOK, DoneHeldOnce
<1>4. WaiterNotForgotten'
  BY <1>1, NoneAssumption DEF PollInv, TypeOK, WaiterNotForgotten
<1>5. OwnPollSeen'
  <2>. SUFFICES ASSUME NEW h \in Pollers, done'[h] # None, req'[done'[h]] = "waiting"
                PROVE  /\ poller'[h] = "polling" => done'[h] \in seenBy'[h]
                       /\ poller'[h] = "closing" => done'[h] \in covered'
    BY DEF OwnPollSeen
  <2>1. CASE h = g
    BY <2>1, <1>1 DEF PollInv, TypeOK, Active
  <2>2. CASE h # g
    BY <2>2, <1>1 DEF PollInv, TypeOK, OwnPollSeen
  <2>. QED
    BY <2>1, <2>2
<1>6. OwnPollIsComplete'
  BY <1>1 DEF PollInv, OwnPollIsComplete
<1>7. OkIsClosed'
  BY <1>1 DEF PollInv, OkIsClosed
<1>. QED
  BY <1>2, <1>3, <1>4, <1>5, <1>6, <1>7 DEF PollInv

LEMMA AnswerKeepsInv ==
    ASSUME PollInv, TypeOK', triggerCh # None,
           AnswerWhenBusy(triggerCh), triggerCh' = None, UNCHANGED req
    PROVE  PollInv'
<1>1. /\ triggerCh \in Requests
      /\ closed' = closed \cup {triggerCh}
      /\ joined' = joined \cup {triggerCh}
      /\ UNCHANGED <<pollRunning, poller, done, seenBy, covered>>
  BY DEF AnswerWhenBusy, PollInv, TypeOK
<1>2. AtMostOnePoll'
  BY <1>1 DEF PollInv, AtMostOnePoll
<1>3. DoneHeldOnce'
  BY <1>1, NoneAssumption DEF PollInv, TypeOK, DoneHeldOnce
<1>4. WaiterNotForgotten'
  BY <1>1 DEF PollInv, WaiterNotForgotten
<1>5. OwnPollSeen'
  BY <1>1 DEF PollInv, OwnPollSeen
<1>6. OwnPollIsComplete'
  BY <1>1 DEF PollInv, OwnPollIsComplete
<1>7. OkIsClosed'
  BY <1>1 DEF PollInv, OkIsClosed
<1>. QED
  BY <1>2, <1>3, <1>4, <1>5, <1>6, <1>7 DEF PollInv

(* The end of a poll, and the close of its done channel. *)
LEMMA PollerKeepsInv ==
    ASSUME PollInv, TypeOK', NEW g \in Pollers, EndPoll(g) \/ CloseDone(g)
    PROVE  PollInv'
<1>1. CASE EndPoll(g)
  <2>1. /\ poller[g] = "polling"
        /\ pollRunning' = FALSE
        /\ poller' = [poller EXCEPT ![g] = "closing"]
        /\ covered' = covered \cup seenBy[g]
        /\ seenBy' = [seenBy EXCEPT ![g] = {}]
        /\ UNCHANGED <<triggerCh, done, closed, req, joined>>
    BY <1>1 DEF EndPoll, loopVars, callVars
  <2>2. AtMostOnePoll'
    BY <2>1 DEF PollInv, TypeOK, AtMostOnePoll
  <2>3. DoneHeldOnce'
    BY <2>1 DEF PollInv, TypeOK, DoneHeldOnce
  <2>4. WaiterNotForgotten'
    BY <2>1 DEF PollInv, WaiterNotForgotten
  <2>5. OwnPollSeen'
    BY <2>1 DEF PollInv, TypeOK, OwnPollSeen
  <2>6. OwnPollIsComplete'
    BY <2>1 DEF PollInv, OwnPollIsComplete
  <2>7. OkIsClosed'
    BY <2>1 DEF PollInv, OkIsClosed
  <2>. QED
    BY <2>2, <2>3, <2>4, <2>5, <2>6, <2>7 DEF PollInv
<1>2. CASE CloseDone(g)
  <2>1. /\ poller[g] = "closing"
        /\ closed' = closed \cup ({done[g]} \ {None})
        /\ poller' = [poller EXCEPT ![g] = "idle"]
        /\ done' = [done EXCEPT ![g] = None]
        /\ UNCHANGED <<pollRunning, triggerCh, req, seenBy, covered, joined>>
    BY <1>2 DEF CloseDone, loopVars, callVars, history
  <2>2. AtMostOnePoll'
    BY <2>1 DEF PollInv, TypeOK, AtMostOnePoll
  <2>3. DoneHeldOnce'
    BY <2>1, NoneAssumption DEF PollInv, TypeOK, DoneHeldOnce
  <2>4. WaiterNotForgotten'
    BY <2>1, NoneAssumption DEF PollInv, TypeOK, WaiterNotForgotten
  <2>5. OwnPollSeen'
    BY <2>1 DEF PollInv, TypeOK, OwnPollSeen
  <2>6. OwnPollIsComplete'
    BY <2>1, NoneAssumption DEF PollInv, TypeOK, DoneHeldOnce, OwnPollSeen,
       OkIsClosed, OwnPollIsComplete
  <2>7. OkIsClosed'
    BY <2>1 DEF PollInv, OkIsClosed
  <2>. QED
    BY <2>2, <2>3, <2>4, <2>5, <2>6, <2>7 DEF PollInv
<1>. QED
  BY <1>1, <1>2

(* The steps of a ForcePoll call. *)
LEMMA RequestKeepsInv ==
    ASSUME PollInv, TypeOK', NEW r \in Requests,
           CallForcePoll(r) \/ SendTrigger(r) \/ ReturnOk(r) \/ Expire(r)
    PROVE  PollInv'
<1>1. UNCHANGED pollVars /\ UNCHANGED <<seenBy, covered, joined>>
  BY DEF CallForcePoll, SendTrigger, ReturnOk, Expire, history
<1>. USE DEF PollInv, pollVars, loopVars
<1>2. AtMostOnePoll'
  BY <1>1 DEF AtMostOnePoll
<1>3. DoneHeldOnce'
  BY <1>1, NoneAssumption DEF CallForcePoll, SendTrigger, ReturnOk, Expire,
     Active, TypeOK, DoneHeldOnce
<1>4. WaiterNotForgotten'
  BY <1>1, NoneAssumption DEF CallForcePoll, SendTrigger, ReturnOk, Expire,
     Active, TypeOK, WaiterNotForgotten
<1>5. OwnPollSeen'
  BY <1>1 DEF CallForcePoll, SendTrigger, ReturnOk, Expire, Active, TypeOK,
     OwnPollSeen, DoneHeldOnce
<1>6. OwnPollIsComplete'
  BY <1>1 DEF CallForcePoll, SendTrigger, ReturnOk, Expire, Active, TypeOK,
     OwnPollIsComplete, DoneHeldOnce
<1>7. OkIsClosed'
  BY <1>1 DEF CallForcePoll, SendTrigger, ReturnOk, Expire, Active, TypeOK,
     OkIsClosed, DoneHeldOnce
<1>. QED
  BY <1>2, <1>3, <1>4, <1>5, <1>6, <1>7

LEMMA PollNext == PollInv /\ [Next]_vars => PollInv'
<1>. SUFFICES ASSUME PollInv, [Next]_vars PROVE PollInv'
  OBVIOUS
<1>1. TypeOK'
  BY TypeNext DEF PollInv
<1>2. ASSUME UNCHANGED <<triggerCh, pollRunning, poller, done, closed, req,
                         seenBy, covered, joined>>
      PROVE  PollInv'
  BY <1>1, <1>2 DEF PollInv, AtMostOnePoll, DoneHeldOnce, WaiterNotForgotten,
     OwnPollSeen, OkIsClosed, OwnPollIsComplete
<1>3. CASE StartLoop \/ SkipTick \/ TakeInterval \/ StoreInterval \/ StopLoop
           \/ Tick \/ Shutdown
  BY <1>2, <1>3 DEF StartLoop, SkipTick, TakeInterval, StoreInterval, StopLoop,
     Tick, Shutdown, loopVars, pollVars, callVars, history
<1>4. CASE TakeTrigger
  <2>1. CASE AnswerWhenBusy(triggerCh)
    BY <1>1, <1>4, <2>1, AnswerKeepsInv DEF TakeTrigger, callVars
  <2>2. ASSUME NEW g \in Pollers, SpawnPoll(g, triggerCh) PROVE PollInv'
    BY <1>1, <1>4, <2>2, SpawnKeepsInv DEF TakeTrigger, callVars
  <2>. QED
    BY <1>4, <2>1, <2>2 DEF TakeTrigger
<1>5. CASE TakeTick
  <2>1. PICK g \in Pollers : SpawnPoll(g, None)
    BY <1>5 DEF TakeTick
  <2>. QED
    BY <1>1, <1>5, <2>1, SpawnKeepsInv DEF TakeTick, callVars
<1>6. ASSUME NEW r \in Requests,
             CallForcePoll(r) \/ SendTrigger(r) \/ ReturnOk(r) \/ Expire(r)
      PROVE  PollInv'
  BY <1>1, <1>6, RequestKeepsInv
<1>7. ASSUME NEW s \in Setters, BeginSetInterval(s) \/ SendInterval(s)
      PROVE  PollInv'
  BY <1>2, <1>7 DEF BeginSetInterval, SendInterval, pollVars, history
<1>8. ASSUME NEW g \in Pollers, EndPoll(g) \/ CloseDone(g) PROVE PollInv'
  BY <1>1, <1>8, PollerKeepsInv
<1>9. CASE UNCHANGED vars
  BY <1>2, <1>9 DEF vars, loopVars, pollVars, callVars, history
<1>. QED
  BY <1>3, <1>4, <1>5, <1>6, <1>7, <1>8, <1>9 DEF Next, LoopStep

THEOREM PollSafe == Spec => []PollInv
  BY PollInit, PollNext, PTL DEF Spec

(* Type correctness of the loop, the polls and the calls. *)
THEOREM PollTypeOK == Spec => []TypeOK
  BY PollSafe, PTL DEF PollInv

(* Ticks and forced polls never run two polls at once. *)
THEOREM OnePollAtATime == Spec => []AtMostOnePoll
  BY PollSafe, PTL DEF PollInv

(* No done channel is closed twice, and none of a waiter is lost. *)
THEOREM NoDoneTwiceNorLost == Spec => []DonesClosedOnce
  BY PollSafe, PTL DEF PollInv, DonesClosedOnce

(* A forced poll that starts its own poll waits for the whole of it. *)
THEOREM ForcedPollIsWhole == Spec => []OwnPollIsComplete
  BY PollSafe, PTL DEF PollInv

-------------------------------------------------------------------------------
(* Intervals. *)

LEMMA SetInit == Init => SetInv
  BY NoneAssumption DEF Init, SetInv, TypeOK, ChannelIsLatest, PeriodIsLatest, Pending

LEMMA SetNext == SetInv /\ [Next]_vars => SetInv'
<1>. SUFFICES ASSUME SetInv, [Next]_vars PROVE SetInv'
  OBVIOUS
<1>1. TypeOK'
  BY TypeNext DEF SetInv
<1>2. ASSUME UNCHANGED <<loop, intervalCh, period, interval, setter, earlier>>
      PROVE  SetInv'
  BY <1>1, <1>2 DEF SetInv, ChannelIsLatest, PeriodIsLatest, Pending
<1>3. CASE TakeTrigger \/ SkipTick \/ TakeTick \/ Tick \/ Shutdown
  BY <1>2, <1>3 DEF TakeTrigger, SkipTick, TakeTick, Tick, Shutdown, SpawnPoll,
     AnswerWhenBusy, loopVars, callVars, history
<1>4. CASE StartLoop \/ StopLoop
  BY <1>1, <1>4 DEF StartLoop, StopLoop, callVars, history, SetInv,
     ChannelIsLatest, PeriodIsLatest, Pending
<1>5. CASE TakeInterval
  BY <1>1, <1>5, NoneAssumption DEF TakeInterval, callVars, history, SetInv,
     TypeOK, ChannelIsLatest, PeriodIsLatest, Pending
<1>6. CASE StoreInterval
  BY <1>1, <1>6 DEF StoreInterval, callVars, history, SetInv, ChannelIsLatest,
     PeriodIsLatest, Pending
<1>7. ASSUME NEW r \in Requests,
             CallForcePoll(r) \/ SendTrigger(r) \/ ReturnOk(r) \/ Expire(r)
      PROVE  SetInv'
  BY <1>2, <1>7 DEF CallForcePoll, SendTrigger, ReturnOk, Expire, loopVars, history
<1>8. ASSUME NEW s \in Setters, BeginSetInterval(s) PROVE SetInv'
  <2>1. /\ setter[s] = "idle"
        /\ setter' = [setter EXCEPT ![s] = "sending"]
        /\ intervalCh' = None
        /\ earlier' = [earlier EXCEPT ![s] = {t \in Setters : setter[t] = "returned"}]
        /\ UNCHANGED <<loop, period, interval>>
    BY <1>8 DEF BeginSetInterval
  <2>2. ChannelIsLatest'
    BY <2>1 DEF SetInv, TypeOK, ChannelIsLatest
  <2>3. PeriodIsLatest'
    BY <2>1 DEF SetInv, TypeOK, PeriodIsLatest, Pending
  <2>. QED
    BY <1>1, <2>2, <2>3 DEF SetInv
<1>9. ASSUME NEW s \in Setters, SendInterval(s) PROVE SetInv'
  <2>1. /\ setter[s] = "sending"
        /\ intervalCh' = s /\ s # None
        /\ setter' = [setter EXCEPT ![s] = "returned"]
        /\ UNCHANGED <<loop, period, interval, earlier>>
    BY <1>9, NoneAssumption DEF SendInterval, history
  <2>2. ChannelIsLatest'
    BY <2>1 DEF SetInv, TypeOK, ChannelIsLatest
  <2>3. PeriodIsLatest'
    BY <2>1 DEF SetInv, PeriodIsLatest, Pending
  <2>. QED
    BY <1>1, <2>2, <2>3 DEF SetInv
<1>10. ASSUME NEW g \in Pollers, EndPoll(g) \/ CloseDone(g) PROVE SetInv'
  BY <1>2, <1>10 DEF EndPoll, CloseDone, loopVars, callVars, history
<1>11. CASE UNCHANGED vars
  BY <1>2, <1>11 DEF vars, loopVars, callVars, history
<1>. QED
  BY <1>3, <1>4, <1>5, <1>6, <1>7, <1>8, <1>9, <1>10, <1>11 DEF Next, LoopStep

(* The last SetInterval wins. *)
THEOREM LastIntervalWins == Spec => []LastSetWins
<1>1. SetInv => LastSetWins
  BY DEF SetInv, TypeOK, PeriodIsLatest, Pending, LastSetWins
<1>. QED
  BY <1>1, SetInit, SetNext, PTL DEF Spec
===============================================================================
