----------------------------- MODULE RemoteCfg -----------------------------
(***************************************************************************)
(* The remote configuration service (service/remotecfg): the goroutine of  *)
(* Run polls a server, Update is called by the loader when the remotecfg   *)
(* block has changed, and both fetch a configuration, load it into the     *)
(* service's own controller and keep a copy on disk to fall back on.       *)
(*                                                                         *)
(* Nothing keeps the two fetches apart: each works on its manager in       *)
(* several steps and the other may take its own in between.  A step takes  *)
(* several of the manager's getters and setters at once, but never a check *)
(* and the writes that depend on it when a response is handled.            *)
(*                                                                         *)
(* A configuration stands for its own hash.  The server sends a hash with  *)
(* every configuration.  Writes of the cached file succeed unless the      *)
(* process crashes.  getConfig takes the service's read lock, and          *)
(* getContext, which takes it once more, at the same time.                 *)
(*                                                                         *)
(* The fields alone, statusAlone, loadAlone and late are history: no guard *)
(* and no other field depends on them, the properties do.                  *)
(***************************************************************************)
EXTENDS Integers, FiniteSets

CONSTANTS
  Good,          \* configurations that load
  Bad,           \* configurations that do not
  Empty,         \* the empty configuration
  Args,          \* arguments of the remotecfg block, with an URL, of one poll frequency
  Off,           \* no block, or no URL
  FirstServed,   \* what the server serves at the start
  FirstArgs,     \* the arguments of the block, if there is one at the start
  MaxChanges,    \* bound: changes of what the server serves
  MaxUpdates,    \* bound: changes of the block
  MaxFailures,   \* bound: calls that fail
  MaxDowns,      \* bound: times the process ends
  MaxEvents,     \* bound: all of these together
  None

ASSUME RemoteCfgAssumption ==
  /\ Good \cap Bad = {} /\ Empty \notin Good \cup Bad /\ None \notin Good \cup Bad \cup {Empty}
  /\ Off \notin Args /\ FirstArgs \in Args /\ FirstServed \in Good \cup Bad \cup {Empty}
  /\ MaxChanges \in Nat /\ MaxUpdates \in Nat /\ MaxFailures \in Nat /\ MaxDowns \in Nat
  /\ MaxEvents \in Nat

Contents == Good \cup Bad \cup {Empty}
Procs == {"run", "update"}
Managers == 1..(MaxUpdates + 1)

VARIABLES
  serve,    \* what the server serves
  known,    \* the status and the effective configuration the server knows; late: those of
            \* them it learned from a request that was in flight while another was answered
  cache,    \* the cached file of each argument hash, None if there is none
  running,  \* what was last loaded into the controller, maybe in part
  ready,    \* the controller has loaded a configuration
  args,     \* Service.args
  nodeArgs, \* ServiceNode.args
  cms,      \* configuration managers; Service.cm is cms[cm]
  cm,
  run,      \* the goroutine of Run; watch: the manager its select waits for
  upd,      \* the call of Update
  fetch,    \* the fetches of either
  used      \* how much of the bounds is used

vars == <<serve, known, cache, running, ready, args, nodeArgs, cms, cm, run, upd, fetch, used>>
server == <<serve, known>>
controller == <<running, ready>>

\* RemoteConfigStatus.  The message names what failed: a request, or a configuration.
Status(code, message) == [code |-> code, message |-> message]
APPLIED == Status("APPLIED", None)

\* newConfigManager.  on: pollFrequency is not disablePollingFrequency; token:
\* updateTickerChan is full; statusAlone: the status was last set by a fetch that ran
\* alone; loadAlone: so was the controller last loaded, and if that was to restore the
\* loaded configuration, the cached file had it.
NewManager ==
  [argsHash |-> None, on |-> FALSE, token |-> FALSE, ticker |-> "off", ctrl |-> FALSE,
   loaded |-> None, received |-> None, remote |-> None,
   status |-> Status("UNSET", None), sentStatus |-> None, eff |-> None, sentEff |-> None,
   statusAlone |-> TRUE, loadAlone |-> TRUE]

\* alone: no other fetch of the manager has been under way since this one began.
NoFetch ==
  [pc |-> "idle", cm |-> 1, fallback |-> FALSE, content |-> None, req |-> None, late |-> FALSE,
   alone |-> TRUE]
NoUpdate == [pc |-> "idle", args |-> None]

\* The read and the write lock of Service.mut; a waiting writer keeps new readers out.
WriterWaits == upd.pc = "lock"
InFlight(p) == fetch[p].pc \in {"sent", "notified"}
Readers == {p \in Procs : InFlight(p)}

Use(bound, max) ==
  /\ used[bound] < max
  /\ used.changes + used.updates + used.failures + used.downs < MaxEvents
  /\ used' = [used EXCEPT ![bound] = @ + 1]

(***************************************************************************)
(* Fetching                                                                *)
(***************************************************************************)
FetchUnchanged == UNCHANGED <<args, nodeArgs, cm, run, upd>>

\* The fetches of the manager of the moment.
Current(q) == fetch[q].pc # "idle" /\ fetch[q].cm = cm

\* fetchLoadConfig is called on the manager of the moment.
Fetching(p, fallback) ==
  [q \in Procs |->
     IF q = p THEN [NoFetch EXCEPT !.pc = "fetch", !.cm = cm, !.fallback = fallback,
                                   !.alone = \A r \in Procs : ~Current(r)]
     ELSE [fetch[q] EXCEPT !.alone = @ /\ ~Current(q)]]

Of(p) == cms[fetch[p].cm]
Goto(p, pc) == fetch' = [fetch EXCEPT ![p].pc = pc]

\* setRemoteConfigStatus.
WithStatus(p, c, status) == [c EXCEPT !.status = status, !.statusAlone = fetch[p].alone]
SetStatus(p, status) == [cms EXCEPT ![fetch[p].cm] = WithStatus(p, @, status)]

\* getRemoteConfigStatusForRequest, getEffectiveConfigForRequest: only what has changed
\* since it was last sent.
Request(c) ==
  [hash |-> c.remote,
   status |-> IF c.status # c.sentStatus THEN c.status ELSE None,
   eff |-> IF c.eff # c.sentEff THEN c.eff ELSE None]

hasPendingUpdates(c) == c.status # c.sentStatus \/ (c.eff # None /\ c.eff # c.sentEff)

\* getConfig sends a request: about Service.cm, whatever manager fetches.
GetConfig(p) ==
  /\ \/ fetch[p].pc = "fetch"
     \/ fetch[p].pc = "notify" /\ hasPendingUpdates(Of(p))
  /\ ~WriterWaits
  /\ fetch' = [fetch EXCEPT ![p].pc = IF @ = "fetch" THEN "sent" ELSE "notified",
                            ![p].req = Request(cms[cm])]
  /\ cms' = [cms EXCEPT ![cm].sentStatus = cms[cm].status, ![cm].sentEff = cms[cm].eff]
  /\ UNCHANGED <<server, cache, controller, used>>
  /\ FetchUnchanged

\* The server learns what a request says.
Reports(req) == {f \in {"status", "eff"} : req[f] # None}
Learn(p) ==
  LET req == fetch[p].req
  IN known' = [status |-> IF req.status = None THEN known.status ELSE req.status,
               eff |-> IF req.eff = None THEN known.eff ELSE req.eff,
               late |-> IF fetch[p].late THEN known.late \cup Reports(req) ELSE known.late \ Reports(req)]

\* The fetches once the request of p is answered: p becomes f.
Answered(p, f) ==
  [q \in Procs |-> IF q = p THEN [f EXCEPT !.req = None, !.late = FALSE]
                  ELSE [fetch[q] EXCEPT !.late = @ \/ InFlight(q)]]

\* Mutant: what was in a failed request counts as sent.
forgetSentNothing == cms

\* A request failed: what it reported must be sent again.
forgetSent == [cms EXCEPT ![cm].sentStatus = None, ![cm].sentEff = None]

\* The request or its response is lost.
GetConfigFails(p, arrives) ==
  /\ fetch[p].pc = "sent"
  /\ Use("failures", MaxFailures)
  /\ IF arrives THEN Learn(p) ELSE UNCHANGED known
  /\ cms' = [forgetSent EXCEPT ![fetch[p].cm] = WithStatus(p, @, Status("FAILED", "request"))]
  /\ fetch' = Answered(p, [fetch[p] EXCEPT !.pc = IF fetch[p].fallback THEN "local" ELSE "notify"])
  /\ UNCHANGED <<serve, cache, controller>>
  /\ FetchUnchanged

\* Mutant: whatever is not modified was applied.
stillAppliedAlways(c) == TRUE

\* The last received configuration is the loaded one.
stillApplied(c) == c.loaded # None /\ c.loaded = c.received

GetConfigNotModified(p) ==
  /\ fetch[p].pc = "sent" /\ fetch[p].req.hash = serve
  /\ Learn(p)
  /\ fetch' = Answered(p, [fetch[p] EXCEPT !.pc = IF stillApplied(Of(p)) THEN "still" ELSE "notify"])
  /\ UNCHANGED <<serve, cms, cache, controller, used>>
  /\ FetchUnchanged

SetStillApplied(p) ==
  /\ fetch[p].pc = "still"
  /\ cms' = SetStatus(p, APPLIED)
  /\ Goto(p, "notify")
  /\ UNCHANGED <<server, cache, controller, used>>
  /\ FetchUnchanged

\* A configuration that was received last is left alone.
GetConfigContent(p) ==
  /\ fetch[p].pc = "sent"
  /\ Learn(p)
  /\ cms' = [cms EXCEPT ![fetch[p].cm].remote = serve]
  /\ fetch' = Answered(p,
       IF Of(p).received = serve THEN [fetch[p] EXCEPT !.pc = "notify"]
       ELSE [fetch[p] EXCEPT !.content = serve, !.pc = IF Of(p).loaded = serve THEN "already" ELSE "new"])
  /\ UNCHANGED <<serve, cache, controller, used>>
  /\ FetchUnchanged

\* It is recorded, and loaded unless it was found to be the loaded one.
SetReceived(p) ==
  /\ fetch[p].pc \in {"new", "already"}
  /\ cms' = [SetStatus(p, IF fetch[p].pc = "already" THEN APPLIED ELSE Status("APPLYING", None))
               EXCEPT ![fetch[p].cm].received = fetch[p].content]
  /\ Goto(p, IF fetch[p].pc = "already" THEN "notify" ELSE "load")
  /\ UNCHANGED <<server, cache, controller, used>>
  /\ FetchUnchanged

\* parseAndLoad: nothing is loaded for an empty configuration.  A parse error leaves the
\* controller as it is, an evaluation error leaves part of the configuration.
Loads(p, b) == b = Empty \/ (Of(p).ctrl /\ b \in Good)
LoadSource(p, b) ==
  IF b = Empty \/ ~Of(p).ctrl THEN UNCHANGED controller
  ELSE /\ running' \in IF b \in Good THEN {b} ELSE {running, b}
       /\ ready' = (ready \/ b \in Good)

\* The managers after it: the effective configuration is what was loaded.
AfterLoad(p, b) ==
  [cms EXCEPT ![fetch[p].cm].eff = IF b # Empty /\ Loads(p, b) THEN b ELSE @,
              ![fetch[p].cm].loadAlone = IF b = Empty THEN @ ELSE fetch[p].alone]

GiveUp(p) == Goto(p, IF fetch[p].fallback THEN "local" ELSE "notify")

ParseAndLoad(p) ==
  LET b == fetch[p].content
  IN /\ fetch[p].pc = "load"
     /\ LoadSource(p, b)
     /\ IF Loads(p, b)
          THEN /\ cms' = AfterLoad(p, b)
               /\ Goto(p, "loaded")
          ELSE /\ cms' = [AfterLoad(p, b) EXCEPT ![fetch[p].cm] = WithStatus(p, @, Status("FAILED", b))]
               /\ IF Of(p).loaded # None THEN Goto(p, "restore") ELSE GiveUp(p)
     /\ UNCHANGED <<server, cache, used>>
     /\ FetchUnchanged

cached(p) == IF Of(p).argsHash = None THEN None ELSE cache[Of(p).argsHash]

\* Mutant: it is left to the next fetch.
RestoreCachedNever(p) ==
  /\ fetch[p].pc = "restore"
  /\ GiveUp(p)
  /\ UNCHANGED <<server, cache, cms, controller, used>>
  /\ FetchUnchanged

\* After a failure the cached configuration is loaded again.
RestoreCached(p) ==
  /\ fetch[p].pc = "restore"
  /\ IF cached(p) = None THEN UNCHANGED controller ELSE LoadSource(p, cached(p))
  /\ cms' = [IF cached(p) = None THEN cms ELSE AfterLoad(p, cached(p))
               EXCEPT ![fetch[p].cm].loadAlone = fetch[p].alone /\ cached(p) = Of(p).loaded]
  /\ IF cached(p) # None /\ Loads(p, cached(p)) THEN Goto(p, "notify") ELSE GiveUp(p)
  /\ UNCHANGED <<server, cache, used>>
  /\ FetchUnchanged

SetLoaded(p) ==
  /\ fetch[p].pc = "loaded"
  /\ cms' = [SetStatus(p, APPLIED) EXCEPT ![fetch[p].cm].loaded = fetch[p].content]
  /\ Goto(p, "cache")
  /\ UNCHANGED <<server, cache, controller, used>>
  /\ FetchUnchanged

SetCachedConfig(p) ==
  /\ fetch[p].pc = "cache"
  /\ cache' = IF Of(p).argsHash = None THEN cache ELSE [cache EXCEPT ![Of(p).argsHash] = fetch[p].content]
  /\ Goto(p, "notify")
  /\ UNCHANGED <<server, cms, controller, used>>
  /\ FetchUnchanged

\* The server has failed, or what it sent: the cached configuration is loaded.
FetchLoadLocalConfig(p) ==
  LET b == cached(p)
  IN /\ fetch[p].pc = "local"
     /\ IF b = None THEN UNCHANGED <<controller, cms>>
        ELSE /\ LoadSource(p, b)
             /\ cms' = [AfterLoad(p, b) EXCEPT ![fetch[p].cm].loaded = IF Loads(p, b) THEN b ELSE @]
     /\ Goto(p, "notify")
     /\ UNCHANGED <<server, cache, used>>
     /\ FetchUnchanged

\* notifyStatusUpdate: nothing is pending, or its request is answered (the answer is
\* ignored) or fails.
NotifyDone(p) ==
  /\ \/ /\ fetch[p].pc = "notify" /\ ~hasPendingUpdates(Of(p))
        /\ fetch' = [fetch EXCEPT ![p] = NoFetch]
        /\ UNCHANGED known
     \/ /\ fetch[p].pc = "notified"
        /\ fetch' = Answered(p, NoFetch)
        /\ Learn(p)
  /\ UNCHANGED <<serve, cms, cache, controller, used>>
  /\ FetchUnchanged

NotifyFails(p, arrives) ==
  /\ fetch[p].pc = "notified"
  /\ Use("failures", MaxFailures)
  /\ IF arrives THEN Learn(p) ELSE UNCHANGED known
  /\ cms' = forgetSent
  /\ fetch' = Answered(p, NoFetch)
  /\ UNCHANGED <<serve, cache, controller>>
  /\ FetchUnchanged

FetchStep(p) ==
  \/ GetConfig(p) \/ GetConfigNotModified(p) \/ SetStillApplied(p) \/ GetConfigContent(p)
  \/ SetReceived(p) \/ ParseAndLoad(p) \/ RestoreCached(p) \/ SetLoaded(p) \/ SetCachedConfig(p)
  \/ FetchLoadLocalConfig(p) \/ NotifyDone(p)
  \/ \E arrives \in BOOLEAN : GetConfigFails(p, arrives) \/ NotifyFails(p, arrives)

(***************************************************************************)
(* Run                                                                     *)
(***************************************************************************)
RunUnchanged == UNCHANGED <<server, cache, controller, args, nodeArgs, cm, upd>>

RunStart ==
  /\ run.pc = "start"
  /\ cms' = [cms EXCEPT ![cm].ctrl = TRUE]
  /\ fetch' = IF args = Off THEN fetch ELSE Fetching("run", TRUE)
  /\ run' = [run EXCEPT !.pc = "startup"]
  /\ UNCHANGED used
  /\ RunUnchanged

RunRegister ==
  /\ run.pc = "startup" /\ fetch["run"].pc = "idle" /\ ~WriterWaits
  /\ run' = [pc |-> "select", watch |-> cm]
  /\ UNCHANGED <<cms, fetch, used>>
  /\ RunUnchanged

\* Run returns the error and stops the ticker.
RunRegisterFails ==
  /\ run.pc = "startup" /\ fetch["run"].pc = "idle" /\ ~WriterWaits /\ args # Off
  /\ Use("failures", MaxFailures)
  /\ run' = [run EXCEPT !.pc = "exit"]
  /\ cms' = [cms EXCEPT ![cm].ticker = "stopped"]
  /\ UNCHANGED fetch
  /\ RunUnchanged

Poll ==
  /\ run.pc = "select" /\ cms[run.watch].ticker = "on"
  /\ fetch' = IF args = Off THEN fetch ELSE Fetching("run", FALSE)
  /\ run' = [run EXCEPT !.pc = "polling"]
  /\ UNCHANGED <<cms, used>>
  /\ RunUnchanged

\* The select is entered again: it waits for the channels of the manager of the moment.
RunLoop ==
  /\ run.pc = "polling" /\ fetch["run"].pc = "idle"
  /\ run' = [pc |-> "select", watch |-> cm]
  /\ UNCHANGED <<cms, fetch, used>>
  /\ RunUnchanged

ResetTicker ==
  /\ run.pc = "select" /\ cms[run.watch].token
  /\ cms' = LET c == [cms EXCEPT ![run.watch].token = FALSE]
            IN [c EXCEPT ![cm].ticker = IF c[cm].on THEN "on" ELSE "off"]
  /\ run' = [run EXCEPT !.watch = cm]
  /\ UNCHANGED <<fetch, used>>
  /\ RunUnchanged

RunStep == RunStart \/ RunRegister \/ RunRegisterFails \/ Poll \/ RunLoop \/ ResetTicker

(***************************************************************************)
(* Update                                                                  *)
(***************************************************************************)
UpdateUnchanged == UNCHANGED <<server, cache, controller, run>>

\* ServiceNode.Evaluate calls Update when the arguments have changed.
UpdateBegin(a) ==
  /\ upd.pc = "idle" /\ a # nodeArgs
  /\ Use("updates", MaxUpdates)
  /\ upd' = [pc |-> "lock", args |-> a]
  /\ UNCHANGED <<args, nodeArgs, cms, cm, fetch>>
  /\ UpdateUnchanged

\* The manager is replaced by one that has no controller.
UpdateHandleEmptyUrl ==
  /\ upd.pc = "lock" /\ upd.args = Off /\ Readers = {}
  /\ cm' = cm + 1
  /\ cms' = [cms EXCEPT ![cm].ticker = "stopped", ![cm + 1] = NewManager]
  /\ args' = Off /\ nodeArgs' = Off
  /\ upd' = NoUpdate
  /\ UNCHANGED <<fetch, used>>
  /\ UpdateUnchanged

\* setArgsHash, setPollFrequency.
WithArgs(c, a) == [c EXCEPT !.argsHash = a, !.on = TRUE, !.token = c.token \/ ~c.on]

UpdateHandleArgs ==
  /\ upd.pc = "lock" /\ upd.args # Off /\ Readers = {}
  /\ cms' = [cms EXCEPT ![cm] = WithArgs(cms[cm], upd.args)]
  /\ args' = upd.args
  /\ upd' = [upd EXCEPT !.pc = "register"]
  /\ UNCHANGED <<nodeArgs, cm, fetch, used>>
  /\ UpdateUnchanged

\* registerCollector; then, if Run has loaded a configuration, a fetch.
UpdateRegister ==
  /\ upd.pc = "register"
  /\ IF cms[cm].ctrl /\ ready
       THEN /\ fetch' = Fetching("update", TRUE)
            /\ upd' = [upd EXCEPT !.pc = "fetch"]
            /\ UNCHANGED nodeArgs
       ELSE /\ nodeArgs' = upd.args
            /\ upd' = NoUpdate
            /\ UNCHANGED fetch
  /\ UNCHANGED <<args, cms, cm, used>>
  /\ UpdateUnchanged

UpdateRegisterFails ==
  /\ upd.pc = "register"
  /\ Use("failures", MaxFailures)
  /\ upd' = NoUpdate
  /\ UNCHANGED <<args, nodeArgs, cms, cm, fetch>>
  /\ UpdateUnchanged

UpdateEnd ==
  /\ upd.pc = "fetch" /\ fetch["update"].pc = "idle"
  /\ nodeArgs' = upd.args
  /\ upd' = NoUpdate
  /\ UNCHANGED <<args, cms, cm, fetch, used>>
  /\ UpdateUnchanged

UpdateStep == UpdateHandleEmptyUrl \/ UpdateHandleArgs \/ UpdateRegister \/ UpdateRegisterFails \/ UpdateEnd

(***************************************************************************)
(* The server and the process                                              *)
(***************************************************************************)
ServerChanges(c) ==
  /\ c # serve
  /\ Use("changes", MaxChanges)
  /\ serve' = c
  /\ UNCHANGED <<known, cache, controller, args, nodeArgs, cms, cm, run, upd, fetch>>

\* A process starts: the block is evaluated before Run is called.
Fresh(a) == [g \in Managers |-> IF g = 1 /\ a # Off THEN WithArgs(NewManager, a) ELSE NewManager]

\* The process ends, by a cancelled context or by a crash, and starts again; a cached
\* file that is being written may be left empty.
Down ==
  /\ Use("downs", MaxDowns)
  /\ \E torn \in SUBSET {p \in Procs : fetch[p].pc = "cache"} :
       cache' = [a \in Args |-> IF \E p \in torn : Of(p).argsHash = a THEN Empty ELSE cache[a]]
  /\ running' = None /\ ready' = FALSE
  /\ args' = nodeArgs
  /\ cms' = Fresh(nodeArgs) /\ cm' = 1
  /\ run' = [pc |-> "start", watch |-> 1]
  /\ upd' = NoUpdate
  /\ fetch' = [p \in Procs |-> NoFetch]
  /\ UNCHANGED <<server, nodeArgs>>

Init ==
  /\ serve = FirstServed
  /\ known = [status |-> None, eff |-> None, late |-> {}]
  /\ cache = [a \in Args |-> None]
  /\ running = None /\ ready = FALSE
  /\ args \in {FirstArgs, Off} /\ nodeArgs = args
  /\ cms = Fresh(args) /\ cm = 1
  /\ run = [pc |-> "start", watch |-> 1]
  /\ upd = NoUpdate
  /\ fetch = [p \in Procs |-> NoFetch]
  /\ used = [b \in {"changes", "updates", "failures", "downs"} |-> 0]

Next ==
  \/ \E p \in Procs : FetchStep(p)
  \/ RunStep \/ UpdateStep
  \/ \E a \in Args \cup {Off} : UpdateBegin(a)
  \/ \E c \in Contents : ServerChanges(c)
  \/ Down

Spec == Init /\ [][Next]_vars

\* Goroutines go on, the ticker ticks, and requests are answered or fail.
FairSpec ==
  /\ Spec
  /\ \A p \in Procs : WF_vars(FetchStep(p))
  /\ WF_vars(RunStep) /\ WF_vars(UpdateStep)

-----------------------------------------------------------------------------
(***************************************************************************)
(* Properties                                                              *)
(***************************************************************************)
Enabled == args # Off /\ run.pc # "exit"

\* "This prevents flipping to APPLIED when the server continues to serve a bad config
\* that failed to load previously": while the status is APPLIED, the configuration that
\* was received last is the one that was loaded last, if the status was set by a fetch
\* that no other fetch of the manager overlapped, whatever overlapped before or after it.
AppliedIsLoaded ==
  \A g \in 1..cm : cms[g].status = APPLIED /\ cms[g].statusAlone
                     => cms[g].received # None /\ cms[g].loaded = cms[g].received

\* Through failed calls, bad configurations, restarts and changes of the block, the
\* configuration the server serves in the end is the one that runs, if it can be
\* loaded, or the status is FAILED, as long as the manager has its controller and what
\* runs and the status come from fetches that no other one overlapped.
ServedConfigRuns ==
  <>[](Enabled /\ cms[cm].ctrl /\ cms[cm].statusAlone /\ cms[cm].loadAlone /\ serve \in Good
         => running = serve \/ cms[cm].status.code = "FAILED")

\* "Reset lastSentConfigStatus and lastSentEffectiveConfig since the API request failed
\* and they weren't actually sent": a status and an effective configuration that do not
\* change any more are known to the server in the end, whatever requests were lost,
\* unless the last request to report them was in flight while another was answered.
StatusIsReported ==
  <>[](Enabled /\ cms[cm].ctrl =>
         /\ "status" \in known.late \/ known.status = cms[cm].status
         /\ "eff" \in known.late \/ cms[cm].eff \in {None, known.eff})

\* The remotecfg block "enables [Alloy] to fetch and load the configuration from a
\* remote endpoint": with the block in the configuration, what the server serves in the end
\* runs, also if the block was removed for a while.
EnabledConfigRuns == <>[](Enabled /\ serve \in Good => running = serve)
=============================================================================
