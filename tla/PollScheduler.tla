---------------------------- MODULE PollScheduler -----------------------------
(***************************************************************************)
(* The polling loop of docker.Watcher (internal/docker/watcher.go): the    *)
(* select loop of Run, the poll goroutine that runPoll starts, ForcePoll   *)
(* (called by POST /api/refresh) and SetInterval (POST /api/live), which   *)
(* talk through two channels of capacity one, a ticker and a done channel  *)
(* per forced poll.                                                        *)
(*                                                                         *)
(* A request r stands for one ForcePoll call and for the done channel it   *)
(* makes; a setter s for one SetInterval call and for the duration it      *)
(* sends.  What a poll does is left to module Watcher.                     *)
(***************************************************************************)
EXTENDS Naturals, FiniteSets

CONSTANTS Requests,    \* ForcePoll calls (the bound on their number)
          Setters,     \* SetInterval calls (the bound on their number)
          Pollers,     \* slots for poll goroutines (the bound on how many
                       \* exist at once, those about to return included)
          None         \* no done channel, no duration, the initial interval

ASSUME NoneAssumption == None \notin Requests \cup Setters

VARIABLES
    loop,              \* where Run is
    intervalCh,        \* the content of the channel, None when empty
    triggerCh,         \* the content of the channel, None when empty
    tick,              \* a value waits in ticker.C
    period,            \* the period of the ticker
    interval,          \* w.interval
    pollRunning,       \* the flag, written under pollMu
    staleRunning,      \* what an unlocked read of the flag may still return
    poller,            \* where each poll goroutine is
    done,              \* the done channel each poll goroutine holds
    closed,            \* the closed done channels
    req,               \* where each ForcePoll call is
    setter,            \* where each SetInterval call is
    ctxDone            \* the context of Run, and of every HTTP request

(* History variables, read by properties only. *)
VARIABLES
    seenBy,            \* the requests active when each poll started
    covered,           \* requests during which a whole poll ran
    joined,            \* requests answered because a poll was running
    earlier            \* the setters that had returned when each one began

loopVars == <<loop, intervalCh, triggerCh, tick, period, interval>>
pollVars == <<pollRunning, staleRunning, poller, done, closed>>
callVars == <<req, setter>>
history  == <<seenBy, covered, joined, earlier>>
vars     == <<loopVars, pollVars, callVars, ctxDone, history>>

TypeOK ==
    /\ loop \in {"starting", "select", "interval", "stopped"}
    /\ intervalCh \in Setters \cup {None}
    /\ triggerCh \in Requests \cup {None}
    /\ tick \in BOOLEAN
    /\ period \in Setters \cup {None}
    /\ interval \in Setters \cup {None}
    /\ pollRunning \in BOOLEAN
    /\ staleRunning \in BOOLEAN
    /\ poller \in [Pollers -> {"idle", "polling", "closing"}]
    /\ done \in [Pollers -> Requests \cup {None}]
    /\ closed \subseteq Requests
    /\ req \in [Requests -> {"idle", "sending", "waiting", "ok", "expired"}]
    /\ setter \in [Setters -> {"idle", "sending", "returned"}]
    /\ ctxDone \in BOOLEAN
    /\ seenBy \in [Pollers -> SUBSET Requests]
    /\ covered \subseteq Requests
    /\ joined \subseteq Requests
    /\ earlier \in [Setters -> SUBSET Setters]

Init ==
    /\ loop = "starting"
    /\ intervalCh = None /\ triggerCh = None
    /\ tick = FALSE
    /\ period = None /\ interval = None
    /\ pollRunning = FALSE /\ staleRunning = FALSE
    /\ poller = [g \in Pollers |-> "idle"]
    /\ done = [g \in Pollers |-> None]
    /\ closed = {}
    /\ req = [r \in Requests |-> "idle"]
    /\ setter = [s \in Setters |-> "idle"]
    /\ ctxDone = FALSE
    /\ seenBy = [g \in Pollers |-> {}]
    /\ covered = {} /\ joined = {}
    /\ earlier = [s \in Setters |-> {}]

Active(r) == req[r] \in {"sending", "waiting"}

-------------------------------------------------------------------------------
(* ForcePoll, with the context of an HTTP request: a 15 s timeout on a     *)
(* context derived from that of Run.                                       *)

CallForcePoll(r) ==
    /\ req[r] = "idle"
    /\ req' = [req EXCEPT ![r] = "sending"]
    /\ UNCHANGED <<loopVars, pollVars, setter, ctxDone, history>>

SendTrigger(r) ==
    /\ req[r] = "sending"
    /\ triggerCh = None
    /\ triggerCh' = r
    /\ req' = [req EXCEPT ![r] = "waiting"]
    /\ UNCHANGED <<loop, intervalCh, tick, period, interval, pollVars, setter,
                   ctxDone, history>>

(* The done channel is closed: ForcePoll returns nil. *)
ReturnOk(r) ==
    /\ req[r] = "waiting"
    /\ r \in closed
    /\ req' = [req EXCEPT ![r] = "ok"]
    /\ UNCHANGED <<loopVars, pollVars, setter, ctxDone, history>>

(* The request times out, its client leaves, or the server shuts down; the *)
(* done channel stays where it is.                                         *)
Expire(r) ==
    /\ Active(r)
    /\ req' = [req EXCEPT ![r] = "expired"]
    /\ UNCHANGED <<loopVars, pollVars, setter, ctxDone, history>>

-------------------------------------------------------------------------------
(* SetInterval. *)

(* Mutation: the pending duration is not drained, a full channel drops the *)
(* new one.                                                                *)
BeginSetKeepsPending(s) ==
    /\ setter[s] = "idle"
    /\ setter' = [setter EXCEPT ![s] = IF intervalCh = None THEN "sending" ELSE "returned"]
    /\ earlier' = [earlier EXCEPT ![s] = {t \in Setters : setter[t] = "returned"}]
    /\ UNCHANGED <<loopVars, pollVars, req, ctxDone, seenBy, covered, joined>>

(* The non-blocking receive that makes room. *)
BeginSetInterval(s) ==
    /\ setter[s] = "idle"
    /\ setter' = [setter EXCEPT ![s] = "sending"]
    /\ intervalCh' = None
    /\ earlier' = [earlier EXCEPT ![s] = {t \in Setters : setter[t] = "returned"}]
    /\ UNCHANGED <<loop, triggerCh, tick, period, interval, pollVars, req,
                   ctxDone, seenBy, covered, joined>>

(* The blocking send: another setter may have filled the channel again. *)
SendInterval(s) ==
    /\ setter[s] = "sending"
    /\ intervalCh = None
    /\ intervalCh' = s
    /\ setter' = [setter EXCEPT ![s] = "returned"]
    /\ UNCHANGED <<loop, triggerCh, tick, period, interval, pollVars, req,
                   ctxDone, history>>

-------------------------------------------------------------------------------
(* The loop of Run. *)

(* cacheHostCPUs, the start-up list and its streams are behind; the ticker *)
(* starts with w.interval.                                                 *)
StartLoop ==
    /\ loop = "starting"
    /\ loop' = "select"
    /\ period' = interval
    /\ UNCHANGED <<intervalCh, triggerCh, tick, interval, pollVars, callVars,
                   ctxDone, history>>

(* runPoll while no poll is running: the flag is set and a goroutine       *)
(* started on the done channel, if any.                                    *)
SpawnPoll(g, ch) ==
    /\ ~pollRunning
    /\ poller[g] = "idle"
    /\ pollRunning' = TRUE /\ staleRunning' = TRUE
    /\ poller' = [poller EXCEPT ![g] = "polling"]
    /\ done' = [done EXCEPT ![g] = ch]
    /\ seenBy' = [seenBy EXCEPT ![g] = {r \in Requests : Active(r)}]
    /\ UNCHANGED <<closed, covered, joined, earlier>>

(* Mutation: runPoll drops the done channel when a poll is running. *)
DropWhenBusy(ch) ==
    /\ pollRunning
    /\ UNCHANGED <<pollVars, history>>

(* runPoll while a poll is running: the done channel is closed at once. *)
AnswerWhenBusy(ch) ==
    /\ pollRunning
    /\ closed' = closed \cup {ch}
    /\ joined' = joined \cup {ch}
    /\ UNCHANGED <<pollRunning, staleRunning, poller, done, seenBy, covered, earlier>>

(* Mutation: runPoll does not look at the flag. *)
TakeTriggerUnguarded ==
    /\ loop = "select"
    /\ triggerCh # None
    /\ \E g \in Pollers :
        /\ poller[g] = "idle"
        /\ pollRunning' = TRUE /\ staleRunning' = TRUE
        /\ poller' = [poller EXCEPT ![g] = "polling"]
        /\ done' = [done EXCEPT ![g] = triggerCh]
        /\ seenBy' = [seenBy EXCEPT ![g] = {r \in Requests : Active(r)}]
        /\ UNCHANGED <<closed, covered, joined, earlier>>
    /\ triggerCh' = None
    /\ UNCHANGED <<loop, intervalCh, tick, period, interval, callVars, ctxDone>>

TakeTrigger ==
    /\ loop = "select"
    /\ triggerCh # None
    /\ AnswerWhenBusy(triggerCh) \/ \E g \in Pollers : SpawnPoll(g, triggerCh)
    /\ triggerCh' = None
    /\ UNCHANGED <<loop, intervalCh, tick, period, interval, callVars, ctxDone>>

(* The flag is read without pollMu: after the poll goroutine has cleared   *)
(* it, the read may still return the value the loop itself wrote.  (One    *)
(* stale read per poll: the next tick is a period later.)                  *)
SkipTick ==
    /\ loop = "select" /\ tick
    /\ tick' = FALSE
    /\ pollRunning \/ staleRunning
    /\ staleRunning' = pollRunning
    /\ UNCHANGED <<loop, intervalCh, triggerCh, period, interval, pollRunning,
                   poller, done, closed, callVars, ctxDone, history>>

(* A false read cannot be stale, since only the loop sets the flag. *)
TakeTick ==
    /\ loop = "select" /\ tick
    /\ tick' = FALSE
    /\ \E g \in Pollers : SpawnPoll(g, None)
    /\ UNCHANGED <<loop, intervalCh, triggerCh, period, interval, callVars, ctxDone>>

(* ticker.Reset drops a tick that has not been received (Go 1.23 on). *)
TakeInterval ==
    /\ loop = "select"
    /\ intervalCh # None
    /\ period' = intervalCh
    /\ tick' = FALSE
    /\ intervalCh' = None
    /\ loop' = "interval"
    /\ UNCHANGED <<triggerCh, interval, pollVars, callVars, ctxDone, history>>

(* w.interval = d, under w.mu: d is the period just set. *)
StoreInterval ==
    /\ loop = "interval"
    /\ interval' = period
    /\ loop' = "select"
    /\ UNCHANGED <<intervalCh, triggerCh, tick, period, pollVars, callVars,
                   ctxDone, history>>

(* Mutation: a break that leaves the select, not the loop. *)
StopLoopBreaksSelect ==
    /\ loop = "select"
    /\ ctxDone
    /\ UNCHANGED vars

StopLoop ==
    /\ loop = "select"
    /\ ctxDone
    /\ loop' = "stopped"
    /\ UNCHANGED <<intervalCh, triggerCh, tick, period, interval, pollVars,
                   callVars, ctxDone, history>>

(* The runtime delivers a tick unless one is waiting; the loop stops its   *)
(* ticker when it returns.                                                 *)
Tick ==
    /\ loop \in {"select", "interval"}
    /\ ~tick
    /\ tick' = TRUE
    /\ UNCHANGED <<loop, intervalCh, triggerCh, period, interval, pollVars,
                   callVars, ctxDone, history>>

-------------------------------------------------------------------------------
(* The poll goroutine. *)

(* Mutation: the deferred function does not clear the flag. *)
EndPollKeepsFlag(g) ==
    /\ poller[g] = "polling"
    /\ poller' = [poller EXCEPT ![g] = "closing"]
    /\ covered' = covered \cup seenBy[g]
    /\ seenBy' = [seenBy EXCEPT ![g] = {}]
    /\ UNCHANGED <<pollRunning, staleRunning, done, closed, loopVars, callVars,
                   ctxDone, joined, earlier>>

(* poll returns (its context bounds it by nine tenths of the interval) and *)
(* the deferred function clears the flag under pollMu.                     *)
EndPoll(g) ==
    /\ poller[g] = "polling"
    /\ pollRunning' = FALSE
    /\ poller' = [poller EXCEPT ![g] = "closing"]
    /\ covered' = covered \cup seenBy[g]
    /\ seenBy' = [seenBy EXCEPT ![g] = {}]
    /\ UNCHANGED <<staleRunning, done, closed, loopVars, callVars, ctxDone,
                   joined, earlier>>

(* Mutation: the done channel is closed before the poll has ended. *)
CloseDoneEarly(g) ==
    /\ poller[g] \in {"polling", "closing"}
    /\ closed' = closed \cup ({done[g]} \ {None})
    /\ done' = [done EXCEPT ![g] = None]
    /\ poller' = [poller EXCEPT ![g] = IF @ = "closing" THEN "idle" ELSE @]
    /\ UNCHANGED <<pollRunning, staleRunning, loopVars, callVars, ctxDone, history>>

CloseDone(g) ==
    /\ poller[g] = "closing"
    /\ closed' = closed \cup ({done[g]} \ {None})
    /\ poller' = [poller EXCEPT ![g] = "idle"]
    /\ done' = [done EXCEPT ![g] = None]
    /\ UNCHANGED <<pollRunning, staleRunning, loopVars, callVars, ctxDone, history>>

(* The signal context is cancelled. *)
Shutdown ==
    /\ ctxDone' = TRUE
    /\ UNCHANGED <<loopVars, pollVars, callVars, history>>

LoopStep ==
    \/ StartLoop \/ TakeTrigger \/ SkipTick \/ TakeTick
    \/ TakeInterval \/ StoreInterval \/ StopLoop

Next ==
    \/ LoopStep \/ Tick \/ Shutdown
    \/ \E r \in Requests :
        CallForcePoll(r) \/ SendTrigger(r) \/ ReturnOk(r) \/ Expire(r)
    \/ \E s \in Setters : BeginSetInterval(s) \/ SendInterval(s)
    \/ \E g \in Pollers : EndPoll(g) \/ CloseDone(g)

Spec == Init /\ [][Next]_vars

(* select picks at random among its ready cases, so one that is ready      *)
(* again and again is taken: strong fairness for the cases that may spawn  *)
(* a poll, whose goroutine slots fill and empty; the others stay ready     *)
(* once they are, because each call is made once, and weak fairness is     *)
(* enough.  A poll ends, and the deferred function runs; a request gives   *)
(* up once the shutdown has cancelled its context.  Nothing is assumed of  *)
(* the 15 s timeout.                                                       *)
Fairness ==
    /\ WF_vars(StartLoop) /\ WF_vars(StoreInterval) /\ WF_vars(Tick)
    /\ SF_vars(TakeTrigger) /\ SF_vars(TakeTick)
    /\ WF_vars(TakeInterval) /\ WF_vars(StopLoop)
    /\ \A r \in Requests :
        /\ WF_vars(SendTrigger(r))
        /\ WF_vars(ReturnOk(r))
        /\ WF_vars(ctxDone /\ Expire(r))
    /\ \A s \in Setters : WF_vars(SendInterval(s))
    /\ \A g \in Pollers : WF_vars(EndPoll(g)) /\ WF_vars(CloseDone(g))

FairSpec == Spec /\ Fairness

-------------------------------------------------------------------------------
(* Safety. *)

(* At most one poll runs, and the flag says so: forced polls and ticks,    *)
(* with or without a stale read of the flag, never start a second one      *)
(* (watcher.go:134-149,176).  The poll path relies on it for warnedNoNet,  *)
(* warnedNoDisk and prevRead (watcher.go:67).                              *)
AtMostOnePoll ==
    /\ \A g, h \in Pollers :
        poller[g] = "polling" /\ poller[h] = "polling" => g = h
    /\ pollRunning <=> \E g \in Pollers : poller[g] = "polling"

(* A done channel is in one place only: the trigger channel, one poll      *)
(* goroutine, or closed.  close is therefore never called twice on it,     *)
(* which would panic, although its request may be gone (watcher.go:137-139,*)
(* 151-153).                                                               *)
DoneHeldOnce ==
    /\ triggerCh \notin closed
    /\ \A g \in Pollers : done[g] # None =>
        /\ poller[g] # "idle"
        /\ done[g] \notin closed
        /\ done[g] # triggerCh
        /\ \A h \in Pollers : done[h] = done[g] => h = g
    /\ \A r \in Requests : req[r] \in {"idle", "sending"} =>
        triggerCh # r /\ r \notin closed /\ \A g \in Pollers : done[g] # r

(* No request is forgotten: while ForcePoll waits, its done channel is     *)
(* closed or somebody will close it (watcher.go:96-101).                   *)
WaiterNotForgotten ==
    \A r \in Requests : req[r] = "waiting" =>
        r \in closed \/ triggerCh = r \/ \E g \in Pollers : done[g] = r

(* Whoever waits has its done channel closed once, not more and not less.  *)
DonesClosedOnce == DoneHeldOnce /\ WaiterNotForgotten

(* A forced poll that is not told off because another is running is        *)
(* complete when its done channel closes: while the request has not been   *)
(* given up, its poll started after the call and ended before the answer   *)
(* (watcher.go:146-161).                                                   *)
OwnPollIsComplete ==
    \A r \in closed : req[r] \in {"waiting", "ok"} => r \in covered \cup joined

(* The last SetInterval wins: when all calls have returned and the loop is *)
(* back in its select with nothing pending, the ticker and w.interval      *)
(* agree on a duration that no later call replaced (watcher.go:105-111,    *)
(* 168-172).                                                               *)
LastSetWins ==
    /\ loop = "select" /\ intervalCh = None
    /\ \A s \in Setters : setter[s] # "sending"
    /\ \E s \in Setters : setter[s] = "returned"
    => /\ interval = period
       /\ \E s \in Setters : interval = s
       /\ \A s \in Setters : setter[s] = "returned" => interval \notin earlier[s]

-------------------------------------------------------------------------------
(* Liveness. *)

(* ForcePoll always returns, without its timeout (watcher.go:89-102). *)
ForcePollReturns ==
    \A r \in Requests : Active(r) ~> req[r] \in {"ok", "expired"}

(* SetInterval returns unless the loop stops: it takes no context, so a    *)
(* call racing the shutdown may block for good (watcher.go:105-111).       *)
SetIntervalReturns ==
    \A s \in Setters : setter[s] = "sending" ~> setter[s] = "returned" \/ ctxDone

(* Polls keep coming until the shutdown, whatever forced polls, interval   *)
(* changes and stale reads do (watcher.go:164-182).                        *)
PollsKeepComing == []<>(ctxDone \/ \E g \in Pollers : poller[g] = "polling")

(* Run returns after the shutdown, and no poll goroutine survives it.      *)
RunReturns ==
    ctxDone ~> loop = "stopped" /\ \A g \in Pollers : poller[g] = "idle"

(* Whoever calls the watcher, or runs it, returns. *)
EverybodyReturns == ForcePollReturns /\ SetIntervalReturns /\ RunReturns
===============================================================================
