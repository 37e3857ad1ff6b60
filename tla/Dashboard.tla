-------------------------------- MODULE Dashboard -------------------------------
(***************************************************************************)
(* The dashboard in the browser (ui/src/app.jsx): which requests it sends, *)
(* how their answers, which come in any order, change what it shows, and   *)
(* when it asks for a login.  The server, which requires authentication    *)
(* here, answers with its newest data, refuses when the session has        *)
(* expired, or fails.                                                      *)
(*                                                                         *)
(* Left out: the request /api/config, the three seconds for which the      *)
(* reload button stays disabled, the modals and all rendering.             *)
(***************************************************************************)
EXTENDS Integers, SequencesExt

CONSTANTS MaxData,         \* bound on the versions of the server's data
          MaxInFlight,     \* bound on the requests in flight
          MaxErrors,       \* bound on failing requests
          MaxExpiries,     \* bound on sessions expiring
          MaxClicks        \* bound on the clicks of the user

ASSUME DashboardAssumption ==
    /\ MaxData \in Nat /\ MaxInFlight \in Nat \ {0, 1} /\ MaxErrors \in Nat
    /\ MaxExpiries \in Nat /\ MaxClicks \in Nat

VARIABLES
    authed, needLogin, tab, loading, liveMode, reloading,   \* useState
    shown,             \* the data shown in each tab, None before any
    snapshots,         \* the newest metrics shown
    reqRef,            \* zombieReqRef and containerReqRef
    effects            \* the dependencies the polling effects last ran with

VARIABLES
    inFlight,          \* requests, with their answer once there is one
    data,              \* the version of the server's data
    liveInterval,      \* the watcher polls at the live interval
    session,           \* the cookie is valid
    errors, expiries, clicks,
    doubt              \* history: what may have gone wrong for good, see Doubts

uiVars     == <<authed, needLogin, tab, loading, liveMode, reloading, shown, snapshots, reqRef,
                effects>>
serverVars == <<data, liveInterval, session, errors, expiries>>
vars       == <<uiVars, inFlight, serverVars, clicks, doubt>>

Tabs == {"zombies", "containers"}
None == -1
Data == 0..MaxData

Live(on) == IF on THEN "live on" ELSE "live off"
Kinds   == {"probe", "load", "snapshot", "refresh", "reload", "login"} \cup {Live(TRUE), Live(FALSE)}
Waiting == [status |-> "waiting", version |-> None]
Request == [kind : Kinds, tab : Tabs,
            answer : [status : {"waiting", "ok", "unauthorized", "error"}, version : Data \cup {None}]]

(* The probe has failed; the login form was taken down by an answer from   *)
(* before the session expired; a live request has failed or met another.   *)
Doubts == {"probe", "form", "live"}

TypeOK ==
    /\ {authed, needLogin, loading, liveMode, reloading, session, liveInterval} \subseteq BOOLEAN
    /\ doubt \subseteq Doubts
    /\ tab \in Tabs
    /\ shown \in [Tabs -> Data \cup {None}]
    /\ snapshots \in Data \cup {None}
    /\ reqRef \in [Tabs -> BOOLEAN]
    /\ effects \in [authed : BOOLEAN, tab : Tabs, liveMode : BOOLEAN]
    /\ inFlight \in Seq(Request)
    /\ data \in Data
    /\ errors \in 0..MaxErrors /\ expiries \in 0..MaxExpiries /\ clicks \in 0..MaxClicks

Ask(kind, t) == [kind |-> kind, tab |-> t, answer |-> Waiting]

(* The page is mounted, the configuration read, and the session probed.    *)
(* Another page may have left the server in live mode.                     *)
Init ==
    /\ authed = FALSE /\ needLogin = FALSE /\ tab = "zombies" /\ loading = TRUE
    /\ liveMode = FALSE /\ reloading = FALSE
    /\ shown = [t \in Tabs |-> None] /\ snapshots = None
    /\ reqRef = [t \in Tabs |-> FALSE]
    /\ effects = [authed |-> FALSE, tab |-> "zombies", liveMode |-> FALSE]
    /\ inFlight = <<Ask("probe", "zombies")>>
    /\ data = 0 /\ session \in BOOLEAN
    /\ liveInterval \in BOOLEAN /\ doubt = IF liveInterval THEN {"live"} ELSE {}
    /\ errors = 0 /\ expiries = 0 /\ clicks = 0

-------------------------------------------------------------------------------
(* The server. *)

NewData == data < MaxData /\ data' = data + 1 /\ UNCHANGED <<uiVars, inFlight, liveInterval, session, errors, expiries, clicks, doubt>>

ExpireSession ==
    /\ session /\ expiries < MaxExpiries
    /\ expiries' = expiries + 1
    /\ session' = FALSE
    /\ UNCHANGED <<uiVars, inFlight, data, liveInterval, errors, clicks, doubt>>

Replied(i, status, version) ==
    inFlight' = [inFlight EXCEPT ![i].answer = [status |-> status, version |-> version]]

(* A login needs no session and brings one; a wrong password is an error.  *)
(* handleLive sets the interval; a lost answer does not undo that.         *)
Applied(i) ==
    liveInterval' = IF inFlight[i].kind \in {Live(TRUE), Live(FALSE)}
                    THEN inFlight[i].kind = Live(TRUE) ELSE liveInterval

Reply(i) ==
    /\ inFlight[i].answer = Waiting
    /\ \/ /\ session \/ inFlight[i].kind = "login"
          /\ Replied(i, "ok", data)
          /\ Applied(i)
          /\ session' = TRUE
          /\ UNCHANGED errors
       \/ /\ ~session /\ inFlight[i].kind # "login"
          /\ Replied(i, "unauthorized", None)
          /\ UNCHANGED <<liveInterval, session, errors>>
       \/ /\ errors < MaxErrors
          /\ errors' = errors + 1
          /\ Replied(i, "error", None)
          /\ (session /\ Applied(i)) \/ UNCHANGED liveInterval
          /\ UNCHANGED session
    /\ UNCHANGED <<uiVars, data, expiries, clicks, doubt>>

-------------------------------------------------------------------------------
(* Sending requests.  Room keeps the requests in flight bounded.           *)

Room == Len(inFlight) < MaxInFlight

(* loadZombies, loadContainers: one request at a time. *)
Load(t) == IF reqRef[t] THEN <<>> ELSE <<Ask("load", t)>>

(* The polling effects run after a render that changed their dependencies, *)
(* replace the timers and load at once.                                    *)
RunEffects ==
    LET deps == [authed |-> authed, tab |-> tab, liveMode |-> liveMode]
    IN  /\ effects # deps
        /\ effects' = deps
        /\ IF authed
           THEN /\ Room
                /\ inFlight' = inFlight \o Load(tab) \o
                        (IF tab = "zombies" THEN <<Ask("snapshot", tab)>> ELSE <<>>)
                /\ reqRef' = [reqRef EXCEPT ![tab] = TRUE]
           ELSE UNCHANGED <<inFlight, reqRef>>
        /\ UNCHANGED <<authed, needLogin, tab, loading, liveMode, reloading, shown, snapshots,
                       serverVars, clicks, doubt>>

(* The timers of the effects that last ran. *)
LoadTick ==
    /\ effects.authed /\ Room
    /\ ~reqRef[effects.tab]
    /\ inFlight' = inFlight \o Load(effects.tab)
    /\ reqRef' = [reqRef EXCEPT ![effects.tab] = TRUE]
    /\ UNCHANGED <<authed, needLogin, tab, loading, liveMode, reloading, shown, snapshots, effects,
                   serverVars, clicks, doubt>>

SnapshotTick ==
    /\ effects.authed /\ effects.tab = "zombies" /\ Room
    /\ inFlight' = Append(inFlight, Ask("snapshot", "zombies"))
    /\ UNCHANGED <<uiVars, serverVars, clicks, doubt>>

IsLive(i) == inFlight[i].kind \in {Live(TRUE), Live(FALSE)}

(* The user. *)

Click == clicks < MaxClicks /\ clicks' = clicks + 1 /\ ~needLogin

SwitchTab(t) ==
    /\ Click /\ t # tab
    /\ tab' = t
    /\ loading' = (loading \/ shown[t] = None)
    /\ UNCHANGED <<authed, needLogin, liveMode, reloading, shown, snapshots, reqRef, effects,
                   inFlight, serverVars, doubt>>

(* Mutation: the request carries the mode before the click. *)
ToggleLiveStale ==
    /\ Click
    /\ liveMode' = ~liveMode
    /\ inFlight' = Append(inFlight, Ask(Live(liveMode), tab))
    /\ doubt' = IF \E i \in DOMAIN inFlight : IsLive(i) THEN doubt \cup {"live"}
                                                       ELSE doubt \ {"live"}
    /\ UNCHANGED <<authed, needLogin, tab, loading, reloading, shown, snapshots, reqRef, effects,
                   serverVars>>

(* The switch moves at once, and the server is told. *)
ToggleLive ==
    /\ Click
    /\ liveMode' = ~liveMode
    /\ inFlight' = Append(inFlight, Ask(Live(~liveMode), tab))
    /\ doubt' = IF \E i \in DOMAIN inFlight : IsLive(i) THEN doubt \cup {"live"}
                                                       ELSE doubt \ {"live"}
    /\ UNCHANGED <<authed, needLogin, tab, loading, reloading, shown, snapshots, reqRef, effects,
                   serverVars>>

HandleReload ==
    /\ Click /\ ~reloading /\ Room
    /\ reloading' = TRUE
    /\ inFlight' = Append(inFlight, Ask("refresh", tab))
    /\ UNCHANGED <<authed, needLogin, tab, loading, liveMode, shown, snapshots, reqRef, effects,
                   serverVars, doubt>>

Login ==
    /\ needLogin
    /\ \A i \in DOMAIN inFlight : inFlight[i].kind # "login"
    /\ inFlight' = Append(inFlight, Ask("login", tab))
    /\ UNCHANGED <<uiVars, serverVars, clicks, doubt>>

-------------------------------------------------------------------------------
(* Answers. *)

Answered(i, kind, status) == inFlight[i].kind = kind /\ inFlight[i].answer.status = status
Received(i) == inFlight' = RemoveAt(inFlight, i)

(* The catch clauses: a 401 leads to the login form, other errors do not.  *)
AskForLogin == needLogin' = TRUE /\ authed' = FALSE

Probed(i) ==
    /\ \/ /\ Answered(i, "probe", "ok")
          /\ authed' = TRUE
          /\ UNCHANGED <<needLogin, loading, doubt>>
       \/ /\ Answered(i, "probe", "unauthorized")
          /\ needLogin' = TRUE /\ loading' = FALSE
          /\ UNCHANGED <<authed, doubt>>
       \/ /\ Answered(i, "probe", "error")
          /\ doubt' = doubt \cup {"probe"}
          /\ UNCHANGED <<authed, needLogin, loading>>
    /\ Received(i)
    /\ UNCHANGED <<tab, liveMode, reloading, shown, snapshots, reqRef, effects, serverVars, clicks>>

(* Mutation: the flag is reset on success only, not in finally. *)
FreedOnSuccess(i) ==
    reqRef' = IF Answered(i, "load", "ok") THEN [reqRef EXCEPT ![inFlight[i].tab] = FALSE] ELSE reqRef

(* The finally clauses. *)
Freed(i) == reqRef' = [reqRef EXCEPT ![inFlight[i].tab] = FALSE]

(* Mutation: a refused load is an error like any other. *)
LoadRefusedUnaware == UNCHANGED <<needLogin, authed>>

LoadRefused == AskForLogin

(* A success takes the login form down, whenever the server gave it. *)
Loaded(i) ==
    /\ \/ /\ Answered(i, "load", "ok")
          /\ shown' = [shown EXCEPT ![inFlight[i].tab] = inFlight[i].answer.version]
          /\ needLogin' = FALSE
          /\ doubt' = IF needLogin THEN doubt \cup {"form"} ELSE doubt
          /\ UNCHANGED authed
       \/ /\ Answered(i, "load", "unauthorized")
          /\ LoadRefused
          /\ UNCHANGED <<shown, doubt>>
       \/ /\ Answered(i, "load", "error")
          /\ UNCHANGED <<authed, needLogin, shown, doubt>>
    /\ loading' = FALSE
    /\ Freed(i)
    /\ Received(i)
    /\ UNCHANGED <<tab, liveMode, reloading, snapshots, effects, serverVars, clicks>>

(* A snapshot that fails is forgotten. *)
SnapshotLoaded(i) ==
    /\ \/ /\ Answered(i, "snapshot", "ok")
          /\ snapshots' = inFlight[i].answer.version
       \/ /\ Answered(i, "snapshot", "unauthorized") \/ Answered(i, "snapshot", "error")
          /\ UNCHANGED snapshots
    /\ Received(i)
    /\ UNCHANGED <<authed, needLogin, tab, loading, liveMode, reloading, shown, reqRef, effects,
                   serverVars, clicks, doubt>>

(* Mutation: a refused reload stops polling and says nothing. *)
ReloadRefusedSilent == authed' = FALSE /\ UNCHANGED needLogin

ReloadRefused == AskForLogin

ReloadFailed(i) ==
    /\ \E kind \in {"refresh", "reload"} :
        \/ Answered(i, kind, "unauthorized") /\ ReloadRefused
        \/ Answered(i, kind, "error") /\ UNCHANGED <<authed, needLogin>>
    /\ reloading' = FALSE
    /\ Received(i)
    /\ UNCHANGED <<tab, loading, liveMode, shown, snapshots, reqRef, effects, serverVars, clicks, doubt>>

Refreshed(i) ==
    /\ Answered(i, "refresh", "ok")
    /\ inFlight' = Append(RemoveAt(inFlight, i), Ask("reload", inFlight[i].tab))
    /\ UNCHANGED <<uiVars, serverVars, clicks, doubt>>

(* Promise.all of the services and the snapshot, which the server is taken *)
(* to answer together, or the containers.                                  *)
Reloaded(i) ==
    /\ Answered(i, "reload", "ok")
    /\ shown' = [shown EXCEPT ![inFlight[i].tab] = inFlight[i].answer.version]
    /\ snapshots' = IF inFlight[i].tab = "zombies" THEN inFlight[i].answer.version ELSE snapshots
    /\ reloading' = FALSE
    /\ Received(i)
    /\ UNCHANGED <<authed, needLogin, tab, loading, liveMode, reqRef, effects, serverVars, clicks, doubt>>

(* Login.jsx calls onSuccess, or shows the error. *)
LoggedIn(i) ==
    /\ \/ /\ Answered(i, "login", "ok")
          /\ needLogin' = FALSE /\ authed' = TRUE
          /\ doubt' = doubt \ {"probe", "form"}
       \/ /\ Answered(i, "login", "error")
          /\ UNCHANGED <<needLogin, authed, doubt>>
    /\ Received(i)
    /\ UNCHANGED <<tab, loading, liveMode, reloading, shown, snapshots, reqRef, effects, serverVars, clicks>>

(* .catch(() => {}) *)
LiveAnswered(i) ==
    /\ IsLive(i) /\ inFlight[i].answer # Waiting
    /\ doubt' = IF inFlight[i].answer.status = "ok" THEN doubt ELSE doubt \cup {"live"}
    /\ Received(i)
    /\ UNCHANGED <<uiVars, serverVars, clicks>>

Deliver(i) ==
    \/ Probed(i) \/ Loaded(i) \/ SnapshotLoaded(i) \/ ReloadFailed(i) \/ Refreshed(i)
    \/ Reloaded(i) \/ LoggedIn(i) \/ LiveAnswered(i)

Timers == LoadTick \/ SnapshotTick

Next ==
    \/ NewData \/ ExpireSession \/ RunEffects \/ Timers \/ ToggleLive \/ HandleReload \/ Login
    \/ \E t \in Tabs : SwitchTab(t)
    \/ \E i \in DOMAIN inFlight : Reply(i) \/ Deliver(i)

Spec == Init /\ [][Next]_vars

(* Every request is answered and every answer handled (the oldest request  *)
(* is, in the end, so that none waits for ever); effects run and timers    *)
(* tick although requests come and go, which strong fairness says where    *)
(* Room would disable them.  Nobody need click or log in.                  *)
Fairness ==
    /\ WF_vars(inFlight # <<>> /\ (Reply(1) \/ Deliver(1)))
    /\ SF_vars(RunEffects)
    /\ SF_vars(LoadTick) /\ SF_vars(SnapshotTick)

FairSpec == Spec /\ Fairness

-------------------------------------------------------------------------------
(* Safety. *)

(* The flags of the loads in flight are right, whatever answers or fails   *)
(* when: a tab has at most one load in flight, and a flag left set without *)
(* one would end its polling for good (app.jsx:81-111).                    *)
FlagsMatchLoads ==
    \A t \in Tabs :
        LET loads == {i \in DOMAIN inFlight : inFlight[i].kind = "load" /\ inFlight[i].tab = t}
        IN  IF reqRef[t] THEN \E i \in loads : loads = {i} ELSE loads = {}

(* The page is left without polling and without a login form only by a     *)
(* probe that failed, or by an answer from before the session expired that *)
(* was delivered after the refusal (app.jsx:35-50, 81-111, 135-137).       *)
NobodyLeftAlone ==
    \/ authed \/ needLogin
    \/ doubt \cap {"probe", "form"} # {}
    \/ \E i \in DOMAIN inFlight : inFlight[i].kind = "probe"

(* The switch tells the truth: when the last live request was alone in     *)
(* flight and did not fail, the watcher's interval is the one it shows,    *)
(* whatever earlier requests have done (app.jsx:169-175, server.go:106-126).*)
SwitchTellsTruth ==
    \/ "live" \in doubt
    \/ liveInterval = liveMode
    \/ \E i \in DOMAIN inFlight : IsLive(i)

(* Liveness. *)

(* While the user may stay on a tab, it shows the newest data in the end,  *)
(* although requests fail, overtake each other and are suppressed while    *)
(* one is in flight (app.jsx:64-119).  The metrics of the services may go  *)
(* back to older ones for a while, when answers overtake each other.       *)
TabCatchesUp ==
    \A t \in Tabs :
        <>[](authed /\ tab = t) =>
            <>[](shown[t] = data /\ (t = "zombies" => snapshots = data))

(* A session that has expired brings the login form up, by itself          *)
(* (app.jsx:90, 106).                                                      *)
ExpiredAsksForLogin == (authed /\ ~session) ~> (session \/ needLogin)
===============================================================================
