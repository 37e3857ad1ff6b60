--------------------------------- MODULE Serve ---------------------------------
(***************************************************************************)
(* breaker serve from its configuration to its exit (cmd/breaker/main.go,  *)
(* internal/config/config.go, the router and the handlers that wait in     *)
(* internal/api/server.go): what it opens, starts and defers, the requests *)
(* at work while it shuts down, and what is closed under whom.             *)
(*                                                                         *)
(* Of the watcher there is only its loop and the channel of intervals      *)
(* (module PollScheduler has the rest), of the logins all of LoginLimit.   *)
(* A handler that only queries the database ends by itself and leaves      *)
(* nothing behind: refresh stands for it, too.                             *)
(***************************************************************************)
EXTENDS LoginLimit, SequencesExt

CONSTANTS Files, Environments, Flags,      \* what may be found in each layer
          Unset,                           \* nothing is
          DefaultSec,                      \* the default of both intervals
          Second,                          \* time.Second, in nanoseconds
          MaxInt                           \* the largest int64

VARIABLES
    main,              \* where runServe is
    cfg,               \* *config.Config
    open,              \* the database handles and the Docker client, open
    deferred,          \* the deferred calls
    ctxDone,           \* the signal context
    loop,              \* where the watcher's Run is
    intervalCh,        \* its channel: which interval waits, if any
    server,            \* where the http.Server is
    req                \* where each request is; "sample" and "live" are in
                       \* SetInterval, about to send that interval

mainVars  == <<main, cfg, open, deferred, ctxDone>>
serveVars == <<loop, intervalCh, server, req>>
vars      == <<mainVars, serveVars, limitVars>>

Binds == {"loopback", "public"}
Names == {"sample", "live"}                \* sample_interval_sec, live_interval_sec

Int64 == -MaxInt - 1..MaxInt

(* A number of seconds, and the layer that has set it. *)
Intervals == [from : {"default", "file", "env"}, sec : Int64]

ASSUME LayersAssumption ==
    /\ MaxInt \in Nat /\ Second \in Nat \ {0}
    /\ DefaultSec \in Nat \ {0} /\ DefaultSec <= MaxInt /\ DefaultSec * Second <= MaxInt
    /\ Unset \notin Binds /\ Unset \notin Names /\ Unset \notin Int64
    /\ Files \subseteq [bind   : Binds \cup {Unset}, sample : Int64 \cup {Unset},
                       live   : Int64 \cup {Unset}]
    /\ Environments \subseteq
            [bind   : Binds \cup {Unset}, sample : Int64 \cup {Unset},
             live   : Int64 \cup {Unset}, user : BOOLEAN, password : BOOLEAN]
    /\ Flags \subseteq [bind : Binds \cup {Unset}]

Resources == {"writer", "reader", "docker"}

ServeTypeOK ==
    /\ main \in {"load", "open", "docker", "secret", "wire", "select", "shutdown", "unwind",
                 "ended", "crashed"}
    /\ cfg \in [bind : Binds, user : BOOLEAN, password : BOOLEAN, sample : Intervals,
                live : Intervals]
    /\ open \subseteq Resources
    /\ deferred \in Seq(Resources \cup {"stop"})
    /\ ctxDone \in BOOLEAN
    /\ loop \in {"off", "starting", "select", "stopped"}
    /\ intervalCh \in Names \cup {Unset}
    /\ server \in {"off", "starting", "accepting", "failed", "draining"}
    /\ req \in [Requests -> {"none", "refresh", "live body", "login body", "verify"} \cup Names]

DefaultInterval == [from |-> "default", sec |-> DefaultSec]

Defaults == [bind |-> "public", user |-> FALSE, password |-> FALSE,
             sample |-> DefaultInterval, live |-> DefaultInterval]

ServeInit ==
    /\ main = "load" /\ cfg = Defaults
    /\ open = {} /\ deferred = <<>>
    /\ ctxDone = FALSE
    /\ loop = "off" /\ intervalCh = Unset
    /\ server = "off"
    /\ req = [r \in Requests |-> "none"]

Init == ServeInit /\ LoginInit

Alive == main \notin {"ended", "crashed"}

-------------------------------------------------------------------------------
(* The configuration: flags over environment over file over defaults.      *)

Over(value, below) == IF value = Unset THEN below ELSE value

(* The file sets any number. *)
FileInterval(value) ==
    IF value = Unset THEN DefaultInterval ELSE [from |-> "file", sec |-> value]

(* Mutation: the environment sets any number, too. *)
EnvIntervalAny(value, below) ==
    IF value = Unset THEN below ELSE [from |-> "env", sec |-> value]

(* The environment sets positive numbers only. *)
EnvInterval(value, below) ==
    IF value # Unset /\ value > 0 THEN [from |-> "env", sec |-> value] ELSE below

(* Load and loadConfig. *)
Layered(file, env, flags) ==
    [bind     |-> Over(flags.bind, Over(env.bind, Over(file.bind, Defaults.bind))),
     user     |-> env.user, password |-> env.password,
     sample   |-> EnvInterval(env.sample, FileInterval(file.sample)),
     live     |-> EnvInterval(env.live, FileInterval(file.live))]

HasCredentials(c) == c.user /\ c.password

(* A file that cannot be read, or fails Validate, which does not look at   *)
(* the intervals, ends the program too.                                    *)
LoadConfig ==
    /\ main = "load"
    /\ \E file \in Files, env \in Environments, flags \in Flags :
        /\ cfg' = Layered(file, env, flags)
        /\ main' = IF HasCredentials(cfg') \/ cfg'.bind = "loopback" THEN "open" ELSE "ended"
    /\ UNCHANGED <<open, deferred, ctxDone, serveVars, limitVars>>

-------------------------------------------------------------------------------
(* Start-up. *)

Opened(resources, next) ==
    /\ main' = next
    /\ open' = open \cup ToSet(resources)
    /\ deferred' = deferred \o resources
    /\ UNCHANGED <<cfg, ctxDone, serveVars, limitVars>>

OpenDatabase == main = "open" /\ Opened(<<"writer", "reader">>, "docker")

OpenDocker == main = "docker" /\ Opened(<<"docker">>, "secret")

(* GetOrCreateSecret and NewAuthState. *)
PrepareAuth == main = "secret" /\ Opened(<<>>, "wire")

(* An early return; nothing runs yet. *)
StartupFails ==
    /\ main \in {"load", "open", "docker", "secret"}
    /\ main' = "unwind"
    /\ UNCHANGED <<cfg, open, deferred, ctxDone, serveVars, limitVars>>

(* The context, its deferred stop, the watcher and the server. *)
StartServing ==
    /\ main = "wire"
    /\ main' = "select"
    /\ deferred' = deferred \o <<"stop">>
    /\ loop' = "starting" /\ server' = "starting"
    /\ UNCHANGED <<cfg, open, ctxDone, intervalCh, req, limitVars>>

Listen ==
    /\ server = "starting"
    /\ server' = "accepting"
    /\ UNCHANGED <<mainVars, loop, intervalCh, req, limitVars>>

(* The address is in use, or accepting fails later on. *)
ServerFails ==
    /\ server \in {"starting", "accepting"}
    /\ server' = "failed"
    /\ UNCHANGED <<mainVars, loop, intervalCh, req, limitVars>>

-------------------------------------------------------------------------------
(* The watcher's loop.  NewTicker and ticker.Reset panic on a duration     *)
(* that is not positive, and a panic in a goroutine ends the process.      *)

(* time.Duration(sec) * time.Second, in 64 bits: it may overflow. *)
Duration(sec) == ((sec * Second + MaxInt + 1) % (2 * MaxInt + 2)) - MaxInt - 1

Runs(interval, next) ==
    IF Duration(interval.sec) > 0
    THEN loop' = next /\ UNCHANGED main
    ELSE main' = "crashed" /\ UNCHANGED loop

StartLoop ==
    /\ loop = "starting"
    /\ Runs(cfg.sample, "select")
    /\ UNCHANGED <<cfg, open, deferred, ctxDone, intervalCh, server, req, limitVars>>

TakeInterval ==
    /\ loop = "select" /\ intervalCh # Unset
    /\ Runs(cfg[intervalCh], "select")
    /\ intervalCh' = Unset
    /\ UNCHANGED <<cfg, open, deferred, ctxDone, server, req, limitVars>>

StopLoop ==
    /\ loop = "select" /\ ctxDone
    /\ loop' = "stopped"
    /\ UNCHANGED <<mainVars, intervalCh, server, req, limitVars>>

-------------------------------------------------------------------------------
(* Requests.  One that is refused (no session, a locked address, no        *)
(* authentication to log in to) ends at once and is left out.              *)

Becomes(r, state) == req' = [req EXCEPT ![r] = state]

Accept(r) ==
    /\ server = "accepting" /\ req[r] = "none"
    /\ \/ \E state \in {"refresh", "live body"} : Becomes(r, state) /\ UNCHANGED limitVars
       \/ \E ip \in Ips :
            HasCredentials(cfg) /\ Admit(r, ip) /\ Becomes(r, "login body")
    /\ UNCHANGED <<mainVars, loop, intervalCh, server>>

(* The rest of a body arrives, valid or not, or its client leaves: nothing *)
(* ends the wait before, no context nor time-out (server.go:110, 174).     *)
ReceiveBody(r) ==
    /\ \/ /\ req[r] = "live body"
          /\ \/ Becomes(r, "none") /\ UNCHANGED intervalCh
             \/ \E d \in Names : Becomes(r, d) /\ intervalCh' = Unset
          /\ UNCHANGED limitVars
       \/ /\ req[r] = "login body"
          /\ \/ Becomes(r, "none") /\ BadRequest(r)
             \/ Becomes(r, "verify") /\ UNCHANGED limitVars
          /\ UNCHANGED intervalCh
    /\ UNCHANGED <<mainVars, loop, server>>

(* The poll ends (PollScheduler), or the context of the request does: it   *)
(* derives from the signal context.                                        *)
RefreshEnds == loop = "select" \/ ctxDone

(* What a handler needs to go on by itself. *)
Ready(r) ==
    \/ req[r] = "refresh" /\ RefreshEnds
    \/ req[r] \in Names /\ intervalCh = Unset
    \/ req[r] = "verify"

Handle(r) ==
    /\ Ready(r)
    /\ Becomes(r, "none")
    /\ intervalCh' = IF req[r] \in Names THEN req[r] ELSE intervalCh
    /\ IF req[r] = "verify" THEN RecordFailure(r) \/ RecordSuccess(r) ELSE UNCHANGED limitVars
    /\ UNCHANGED <<mainVars, loop, server>>

(* The 15 s of handleRefresh, or its client leaves. *)
ExpireRefresh(r) ==
    /\ req[r] = "refresh"
    /\ Becomes(r, "none")
    /\ UNCHANGED <<mainVars, loop, intervalCh, server, limitVars>>

(* The limiter's clock and its eviction loop, which nothing stops. *)
Limiter == (Tick \/ Evict) /\ UNCHANGED <<mainVars, serveVars>>

-------------------------------------------------------------------------------
(* Shutdown. *)

Signal ==
    /\ main \in {"select", "shutdown"} /\ ~ctxDone
    /\ ctxDone' = TRUE
    /\ UNCHANGED <<main, cfg, open, deferred, serveVars, limitVars>>

(* The select of runServe, with both cases ready at random. *)
BeginShutdown ==
    /\ main = "select" /\ ctxDone
    /\ main' = "shutdown" /\ server' = "draining"
    /\ UNCHANGED <<cfg, open, deferred, ctxDone, loop, intervalCh, req, limitVars>>

ReturnError ==
    /\ main = "select" /\ server = "failed"
    /\ main' = "unwind"
    /\ UNCHANGED <<cfg, open, deferred, ctxDone, serveVars, limitVars>>

(* Mutation: Shutdown has no time-out. *)
EndShutdownDrained ==
    /\ main = "shutdown" /\ \A r \in Requests : req[r] = "none"
    /\ main' = "unwind"
    /\ UNCHANGED <<cfg, open, deferred, ctxDone, serveVars, limitVars>>

(* Shutdown returns when no request is at work or after five seconds,      *)
(* whatever is at work then: it may return at any time.                    *)
EndShutdown ==
    /\ main = "shutdown"
    /\ main' = "unwind"
    /\ UNCHANGED <<cfg, open, deferred, ctxDone, serveVars, limitVars>>

(* Mutation: what was deferred first runs first. *)
UnwindFirst ==
    /\ main = "unwind" /\ deferred # <<>>
    /\ deferred' = Tail(deferred)
    /\ open' = open \ {Head(deferred)}
    /\ ctxDone' = (ctxDone \/ Head(deferred) = "stop")
    /\ UNCHANGED <<main, cfg, serveVars, limitVars>>

(* The deferred calls; whoever still runs finds the database closed. *)
Unwind ==
    /\ main = "unwind" /\ deferred # <<>>
    /\ deferred' = Front(deferred)
    /\ open' = open \ {Last(deferred)}
    /\ ctxDone' = (ctxDone \/ Last(deferred) = "stop")
    /\ UNCHANGED <<main, cfg, serveVars, limitVars>>

Exit ==
    /\ main = "unwind" /\ deferred = <<>>
    /\ main' = "ended"
    /\ UNCHANGED <<cfg, open, deferred, ctxDone, serveVars, limitVars>>

Main ==
    \/ LoadConfig \/ OpenDatabase \/ OpenDocker \/ PrepareAuth \/ StartServing
    \/ BeginShutdown \/ ReturnError \/ EndShutdown \/ Unwind \/ Exit

Loop == StartLoop \/ TakeInterval \/ StopLoop

Next ==
    /\ Alive
    /\ \/ Main \/ StartupFails \/ Listen \/ ServerFails \/ Loop \/ Limiter \/ Signal
       \/ \E r \in Requests : Accept(r) \/ ReceiveBody(r) \/ Handle(r) \/ ExpireRefresh(r)

Spec == Init /\ [][Next]_vars

(* main, the loop and the handlers go on when they can, and time passes;   *)
(* a select with a case that is always ready takes it in the end.  Nothing *)
(* is assumed of the clients, of the 15 s or of the signal.                *)
Fairness ==
    /\ WF_vars(Alive /\ Main)
    /\ WF_vars(Alive /\ StartLoop) /\ WF_vars(Alive /\ TakeInterval) /\ WF_vars(Alive /\ StopLoop)
    /\ WF_vars(Alive /\ Tick /\ UNCHANGED <<mainVars, serveVars>>)
    /\ WF_vars(Alive /\ Evict /\ UNCHANGED <<mainVars, serveVars>>)
    /\ \A r \in Requests : SF_vars(Alive /\ Handle(r))

FairSpec == Spec /\ Fairness

-------------------------------------------------------------------------------
(* Safety. *)

(* Whichever layer says so, the server listens on a public address only    *)
(* with a user and a password (main.go:162-175, config.go:66-120).         *)
FailClosed ==
    server = "accepting" => cfg.bind = "loopback" \/ (cfg.user /\ cfg.password)

(* The database and the Docker client are closed only when the context of  *)
(* whoever may still use them has been cancelled, whether the server is    *)
(* shut down or fails (main.go:186-199, 237-241, 287-292).                 *)
CancelledBeforeClosed == loop # "off" /\ open # Resources => ctxDone

(* What the environment sets, and the defaults, never bring the process    *)
(* down, unless it is so long that it overflows a time.Duration; a number  *)
(* in the file also does when it is not positive (config.go:96-107,        *)
(* 123-141, main.go:202, server.go:118, watcher.go:128, 169).              *)
OnlyBadIntervalsCrash ==
    main = "crashed" =>
        \E name \in Names :
            \/ cfg[name].sec * Second > MaxInt
            \/ cfg[name].from = "file" /\ cfg[name].sec <= 0

-------------------------------------------------------------------------------
(* Liveness. *)

(* After a signal, or when it cannot serve, the program exits, whatever    *)
(* its clients do and although handlers may be blocked for good            *)
(* (main.go:283-293).                                                      *)
ServeExits == (ctxDone \/ server = "failed") ~> ~Alive

(* A locked address is admitted again: the logins that had passed the      *)
(* check prolong the lock, but only so often (auth.go:122-149).            *)
LocksEnd == \A ip \in Ips : lock[ip] > 0 ~> (lock[ip] = 0 \/ ~Alive)

(* The limiter forgets an address that does not try again                  *)
(* (auth.go:151-163).                                                      *)
QuietIsForgotten ==
    \A ip \in Ips :
        <>[](\A r \in Requests : login[r] # ip) => <>[](count[ip] = 0 \/ ~Alive)

(* The limiter lets go of an address: of a locked one, and of a quiet one. *)
LimiterLetsGo == LocksEnd /\ QuietIsForgotten
===============================================================================
