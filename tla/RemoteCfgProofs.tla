-------------------------- MODULE RemoteCfgProofs --------------------------
(***************************************************************************)
(* Proofs about RemoteCfg for any configurations, arguments and bounds.    *)
(* The fetches of Run and of Update may overlap in any way.                *)
(***************************************************************************)
EXTENDS RemoteCfg, TLAPS

Maybe(S) == S \cup {None}
Statuses == [code : {"UNSET", "FAILED", "APPLYING", "APPLIED"}, message : Maybe(Contents) \cup {"request"}]

Manager ==
  [argsHash : Maybe(Args), on : BOOLEAN, token : BOOLEAN, ticker : {"off", "on", "stopped"},
   ctrl : BOOLEAN, loaded : Maybe(Contents), received : Maybe(Contents), remote : Maybe(Contents),
   status : Statuses, sentStatus : Maybe(Statuses), eff : Maybe(Contents), sentEff : Maybe(Contents),
   statusAlone : BOOLEAN, loadAlone : BOOLEAN]

Req == [hash : Maybe(Contents), status : Maybe(Statuses), eff : Maybe(Contents)]

Fetch ==
  [pc : {"idle", "fetch", "sent", "still", "new", "already", "load", "restore", "loaded", "cache", "local",
         "notify", "notified"},
   cm : Managers, fallback : BOOLEAN, content : Maybe(Contents), req : Maybe(Req), late : BOOLEAN,
   alone : BOOLEAN]

(***************************************************************************)
(* The inductive invariant.  SetStillApplied, SetReceived and SetLoaded    *)
(* report APPLIED from what their fetch found before.  That it still       *)
(* holds is known only of a fetch that runs alone; what a fetch that is    *)
(* not alone does to its manager is marked as its doing.                   *)
(***************************************************************************)

TypeOK ==
  /\ serve \in Contents
  /\ cache \in [Args -> Maybe(Contents)]
  /\ args \in Args \cup {Off} /\ nodeArgs \in Args \cup {Off}
  /\ cms \in [Managers -> Manager]
  /\ cm \in Managers
  /\ fetch \in [Procs -> Fetch]
  /\ run \in [pc : {"start", "startup", "select", "polling", "exit"}, watch : 1..cm]
  /\ upd \in [pc : {"idle", "lock", "register", "fetch"}, args : Maybe(Args \cup {Off})]
  /\ upd.pc # "idle" => upd.args \in Args \cup {Off}
  /\ used \in [{"changes", "updates", "failures", "downs"} -> Nat]

\* There is a manager left for every change of the block that may still come.
ManagersSuffice ==
  /\ used["updates"] <= MaxUpdates
  /\ cm <= used["updates"] + 1
  /\ upd.pc = "lock" => cm <= used["updates"]

\* Two fetches of one manager are not alone; a fetch is of a manager that exists.
AloneIsAlone ==
  /\ \A p, q \in Procs :
       p # q /\ fetch[p].pc # "idle" /\ fetch[q].pc # "idle" /\ fetch[p].cm = fetch[q].cm
         => ~fetch[p].alone /\ ~fetch[q].alone
  /\ \A p \in Procs : fetch[p].cm \in 1..cm

\* The manager says that its configuration is applied, by a fetch that ran alone.
Vouched(c) == c.status = APPLIED /\ c.statusAlone

\* What a fetch that runs alone found about its content still holds of its manager; a
\* fetch that falls back on the cached file has reported the failure, and nobody who
\* ran alone has reported anything else since.
CarriesAgree(f, c) ==
  /\ f.pc \in {"new", "already", "load", "loaded"} => f.content # None
  /\ f.alone /\ f.pc = "still" => c.received # None /\ c.loaded = c.received
  /\ f.alone /\ f.pc = "already" => c.loaded = f.content
  /\ f.alone /\ f.pc \in {"load", "loaded"} => c.received = f.content
  /\ f.pc \in {"restore", "local"} => ~Vouched(c)

FetchAgrees == \A p \in Procs : CarriesAgree(fetch[p], cms[fetch[p].cm])

IInv ==
  /\ TypeOK
  /\ ManagersSuffice
  /\ AloneIsAlone
  /\ FetchAgrees
  /\ AppliedIsLoaded

-----------------------------------------------------------------------------
(***************************************************************************)
(* Steps of a fetch                                                        *)
(***************************************************************************)

\* What the status of a manager says about its configurations.
Agrees(c) == Vouched(c) => c.received # None /\ c.loaded = c.received

\* Two managers say the same of their configurations.
SayTheSame(c, d) ==
  /\ c.status = d.status /\ c.statusAlone = d.statusAlone
  /\ c.loaded = d.loaded /\ c.received = d.received

\* Two fetches are the same but for their requests.
GoTheSame(f, h) == f.pc = h.pc /\ f.cm = h.cm /\ f.content = h.content /\ f.alone = h.alone

\* The fetch of p goes on or ends.
FetchMoves(p) ==
  /\ fetch[p].pc # "idle"
  /\ fetch' \in [Procs -> Fetch]
  /\ \A q \in Procs : q # p => GoTheSame(fetch'[q], fetch[q])
  /\ fetch'[p].cm \in 1..cm
  /\ \/ fetch'[p].pc = "idle"
     \/ fetch'[p].cm = fetch[p].cm /\ fetch'[p].alone = fetch[p].alone
  /\ CarriesAgree(fetch'[p], cms'[fetch'[p].cm])

\* It changes what its own manager says of its configurations, vouching for it only if
\* it is alone, and leaves the other managers' words as they are.
ManagersAgree(p) ==
  /\ cms' \in [Managers -> Manager]
  /\ Agrees(cms'[fetch[p].cm])
  /\ Vouched(cms'[fetch[p].cm]) => fetch[p].alone \/ Vouched(cms[fetch[p].cm])
  /\ \A h \in Managers : h # fetch[p].cm => SayTheSame(cms'[h], cms[h])

\* The manager of a fetch, and the one of the moment.
LEMMA FetchTypes ==
  ASSUME IInv, NEW p \in Procs
  PROVE  /\ 1..cm \subseteq Managers
         /\ fetch[p] \in Fetch /\ fetch[p].cm \in Managers /\ fetch[p].cm \in 1..cm
         /\ Of(p) = cms[fetch[p].cm] /\ Of(p) \in Manager /\ Agrees(Of(p))
         /\ CarriesAgree(fetch[p], Of(p))
         /\ cm \in Managers /\ cms[cm] \in Manager
<1>1. MaxUpdates \in Nat
  BY RemoteCfgAssumption
<1>2. cm \in Managers /\ 1..cm \subseteq Managers
  BY <1>1 DEF IInv, TypeOK, Managers
<1>3. /\ fetch[p] \in Fetch /\ fetch[p].cm \in 1..cm
      /\ Of(p) = cms[fetch[p].cm] /\ CarriesAgree(fetch[p], Of(p))
  BY DEF IInv, TypeOK, AloneIsAlone, FetchAgrees, Of
<1>4. fetch[p].cm \in Managers /\ Of(p) \in Manager /\ cms[cm] \in Manager
  BY <1>2, <1>3 DEF IInv, TypeOK
<1>5. Agrees(Of(p))
  BY <1>3 DEF IInv, AppliedIsLoaded, Agrees, Vouched
<1> QED
  BY <1>2, <1>3, <1>4, <1>5

LEMMA FetchPreserves ==
  ASSUME IInv, NEW p \in Procs, FetchMoves(p), ManagersAgree(p),
         serve' = serve, FetchUnchanged, cache' \in [Args -> Maybe(Contents)],
         used' \in [{"changes", "updates", "failures", "downs"} -> Nat],
         used'["updates"] = used["updates"]
  PROVE  IInv'
<1>1. UNCHANGED <<args, nodeArgs, cm, run, upd>>
  BY DEF FetchUnchanged
<1>2. TypeOK' /\ ManagersSuffice'
  BY <1>1 DEF IInv, TypeOK, ManagersSuffice, FetchMoves, ManagersAgree
<1>3. \A q \in Procs : q # p => GoTheSame(fetch'[q], fetch[q])
  BY DEF FetchMoves
<1>4. AloneIsAlone'
  BY <1>1, <1>3 DEF IInv, AloneIsAlone, FetchMoves, GoTheSame
<1>5. FetchAgrees'
  <2> SUFFICES ASSUME NEW q \in Procs
               PROVE  CarriesAgree(fetch'[q], cms'[fetch'[q].cm])
    BY DEF FetchAgrees
  <2>1. CASE q = p
    BY <2>1 DEF FetchMoves
  <2>2. CASE q # p /\ fetch[q].cm = fetch[p].cm
    <3>1. fetch[q].pc # "idle" => ~fetch[p].alone /\ ~fetch[q].alone
      BY <2>2 DEF IInv, AloneIsAlone, FetchMoves
    <3>2. GoTheSame(fetch'[q], fetch[q]) /\ CarriesAgree(fetch[q], cms[fetch[p].cm])
      BY <1>3, <2>2 DEF IInv, FetchAgrees
    <3> QED BY <2>2, <3>1, <3>2 DEF CarriesAgree, GoTheSame, ManagersAgree
  <2>3. CASE q # p /\ fetch[q].cm # fetch[p].cm
    <3>1. fetch[q].cm \in Managers /\ CarriesAgree(fetch[q], cms[fetch[q].cm])
      BY FetchTypes DEF IInv, FetchAgrees
    <3>2. GoTheSame(fetch'[q], fetch[q]) /\ SayTheSame(cms'[fetch[q].cm], cms[fetch[q].cm])
      BY <1>3, <2>3, <3>1 DEF ManagersAgree
    <3> QED BY <3>1, <3>2 DEF CarriesAgree, GoTheSame, SayTheSame, Vouched
  <2> QED BY <2>1, <2>2, <2>3
<1>6. AppliedIsLoaded'
  <2>1. 1..cm \subseteq Managers /\ fetch[p].cm \in Managers
    BY FetchTypes
  <2> SUFFICES ASSUME NEW g \in 1..cm PROVE Agrees(cms'[g])
    BY <1>1 DEF AppliedIsLoaded, Agrees, Vouched
  <2>2. Agrees(cms[g])
    BY DEF IInv, AppliedIsLoaded, Agrees, Vouched
  <2> QED BY <2>1, <2>2 DEF ManagersAgree, Agrees, SayTheSame, Vouched
<1> QED
  BY <1>2, <1>4, <1>5, <1>6 DEF IInv

\* Putting another manager in place of one.
LEMMA ReplaceManager ==
  ASSUME IInv, NEW p \in Procs, NEW c \in Manager, Agrees(c),
         Vouched(c) => fetch[p].alone \/ Vouched(cms[fetch[p].cm]),
         cms' = [cms EXCEPT ![fetch[p].cm] = c]
  PROVE  ManagersAgree(p) /\ cms'[fetch[p].cm] = c
<1>1. fetch[p].cm \in Managers /\ cms \in [Managers -> Manager]
  BY FetchTypes DEF IInv, TypeOK
<1> QED
  BY <1>1 DEF ManagersAgree, SayTheSame

\* Putting in place of a manager one that says the same of its configurations.
LEMMA SameWords ==
  ASSUME IInv, NEW p \in Procs, NEW g \in Managers, NEW c \in Manager, cms' = [cms EXCEPT ![g] = c],
         SayTheSame(c, cms[g])
  PROVE  ManagersAgree(p) /\ SayTheSame(cms'[fetch[p].cm], cms[fetch[p].cm])
<1>1. fetch[p].cm \in Managers /\ cms \in [Managers -> Manager] /\ Agrees(cms[fetch[p].cm])
  BY FetchTypes DEF IInv, TypeOK
<1>2. cms' \in [Managers -> Manager] /\ \A h \in Managers : SayTheSame(cms'[h], cms[h])
  BY <1>1 DEF SayTheSame
<1> QED
  BY <1>1, <1>2 DEF ManagersAgree, Agrees, SayTheSame, Vouched

\* The managers as they are.
LEMMA ManagersStay ==
  ASSUME IInv, NEW p \in Procs, cms' = cms
  PROVE  ManagersAgree(p)
<1>1. fetch[p].cm \in Managers /\ cms \in [Managers -> Manager] /\ Agrees(cms[fetch[p].cm])
  BY FetchTypes DEF IInv, TypeOK
<1> QED
  BY <1>1 DEF ManagersAgree, SayTheSame

\* The step of a fetch that goes to pc, with its other fields as they are.
LEMMA GotoMoves ==
  ASSUME IInv, NEW p \in Procs, NEW pc, Goto(p, pc),
         fetch[p].pc # "idle",
         pc \in {"load", "restore", "loaded", "cache", "local", "notify"},
         pc \in {"load", "loaded"} =>
           fetch[p].content # None /\ (fetch[p].alone => cms'[fetch[p].cm].received = fetch[p].content),
         pc \in {"restore", "local"} => ~Vouched(cms'[fetch[p].cm])
  PROVE  FetchMoves(p)
<1>1. /\ fetch' \in [Procs -> Fetch]
      /\ \A q \in Procs : q # p => fetch'[q] = fetch[q]
      /\ fetch'[p].pc = pc /\ fetch'[p].cm = fetch[p].cm /\ fetch'[p].content = fetch[p].content
      /\ fetch'[p].alone = fetch[p].alone
  BY DEF Goto, IInv, TypeOK, Fetch
<1>2. fetch[p].cm \in 1..cm
  BY FetchTypes
<1> QED
  BY <1>1, <1>2 DEF FetchMoves, GoTheSame, CarriesAgree

\* The step of a fetch whose request is answered: it becomes f, with the manager it had.
LEMMA AnsweredMoves ==
  ASSUME IInv, NEW p \in Procs, NEW f \in Fetch, fetch' = Answered(p, f),
         fetch[p].pc # "idle", f.cm \in 1..cm,
         f.pc = "idle" \/ (f.cm = fetch[p].cm /\ f.alone = fetch[p].alone),
         CarriesAgree(f, cms'[f.cm])
  PROVE  FetchMoves(p)
<1>1. fetch \in [Procs -> Fetch]
  BY DEF IInv, TypeOK
<1>2. \A q \in Procs : InFlight(q) \in BOOLEAN
  BY DEF InFlight
<1> DEFINE e == [f EXCEPT !.req = None, !.late = FALSE]
           o(q) == [fetch[q] EXCEPT !.late = @ \/ InFlight(q)]
<1>3. e \in Fetch /\ GoTheSame(e, f)
  BY DEF Fetch, Maybe, GoTheSame
<1>4. ASSUME NEW q \in Procs
      PROVE  o(q) \in Fetch /\ GoTheSame(o(q), fetch[q])
  BY <1>1, <1>2, <1>4 DEF Fetch, GoTheSame
<1>5. fetch' = [q \in Procs |-> IF q = p THEN e ELSE o(q)]
  BY DEF Answered
<1> HIDE DEF e, o
<1>6. /\ fetch' \in [Procs -> Fetch] /\ fetch'[p] = e
      /\ \A q \in Procs : q # p => GoTheSame(fetch'[q], fetch[q])
  BY <1>3, <1>4, <1>5
<1> QED
  BY <1>3, <1>6 DEF FetchMoves, GoTheSame, CarriesAgree

LEMMA UseType ==
  ASSUME IInv, NEW b \in {"changes", "updates", "failures", "downs"}, NEW max, Use(b, max)
  PROVE  /\ used' \in [{"changes", "updates", "failures", "downs"} -> Nat]
         /\ b # "updates" => used'["updates"] = used["updates"]
         /\ b = "updates" => used'["updates"] = used["updates"] + 1 /\ used["updates"] < max
  BY DEF Use, IInv, TypeOK

\* Statuses, and what setting one does to a manager.
LEMMA StatusTypes ==
  /\ APPLIED \in Statuses
  /\ Status("APPLYING", None) \in Statuses /\ Status("APPLYING", None) # APPLIED
  /\ Status("UNSET", None) \in Statuses /\ Status("UNSET", None) # APPLIED
  /\ \A m \in Maybe(Contents) \cup {"request"} :
       Status("FAILED", m) \in Statuses /\ Status("FAILED", m) # APPLIED
<1>1. APPLIED.code = "APPLIED"
  BY DEF APPLIED, Status
<1>2. /\ Status("APPLYING", None).code = "APPLYING" /\ Status("UNSET", None).code = "UNSET"
      /\ \A m : Status("FAILED", m).code = "FAILED"
  BY DEF Status
<1>3. APPLIED \in Statuses /\ Status("APPLYING", None) \in Statuses /\ Status("UNSET", None) \in Statuses
  BY DEF APPLIED, Status, Statuses, Maybe
<1>4. \A m \in Maybe(Contents) \cup {"request"} : Status("FAILED", m) \in Statuses
  BY DEF Status, Statuses
<1> QED
  BY <1>1, <1>2, <1>3, <1>4

LEMMA WithStatusType ==
  ASSUME IInv, NEW p \in Procs, NEW c \in Manager, NEW s \in Statuses
  PROVE  /\ WithStatus(p, c, s) \in Manager
         /\ WithStatus(p, c, s).status = s /\ WithStatus(p, c, s).statusAlone = fetch[p].alone
         /\ WithStatus(p, c, s).loaded = c.loaded /\ WithStatus(p, c, s).received = c.received
<1>1. fetch[p].alone \in BOOLEAN
  BY FetchTypes DEF Fetch
<1> QED
  BY <1>1 DEF WithStatus, Manager

LEMMA GetConfigPreserves ==
  ASSUME IInv, NEW p \in Procs, GetConfig(p)
  PROVE  IInv'
<1> DEFINE c == [cms[cm] EXCEPT !.sentStatus = cms[cm].status, !.sentEff = cms[cm].eff]
<1>1. /\ fetch[p] \in Fetch /\ fetch[p].cm \in 1..cm
      /\ cm \in Managers /\ cms[cm] \in Manager /\ cms \in [Managers -> Manager]
  BY FetchTypes DEF IInv, TypeOK
<1>2. c \in Manager /\ SayTheSame(c, cms[cm])
  BY <1>1 DEF Manager, Maybe, SayTheSame
<1>3. cms' = [cms EXCEPT ![cm] = c]
  BY <1>1 DEF GetConfig
<1> HIDE DEF c
<1>4. ManagersAgree(p)
  BY <1>1, <1>2, <1>3, SameWords
<1>5. FetchMoves(p)
  <2>1. Request(cms[cm]) \in Req
    BY <1>1 DEF Request, Req, Manager, Maybe
  <2> DEFINE f == [fetch[p] EXCEPT !.pc = IF @ = "fetch" THEN "sent" ELSE "notified",
                                   !.req = Request(cms[cm])]
  <2>2. /\ f \in Fetch /\ f.pc \in {"sent", "notified"} /\ f.cm = fetch[p].cm
        /\ f.alone = fetch[p].alone
    BY <1>1, <2>1 DEF Fetch, Maybe
  <2>3. fetch' = [fetch EXCEPT ![p] = f]
    BY DEF GetConfig, IInv, TypeOK
  <2> HIDE DEF f
  <2>4. /\ fetch' \in [Procs -> Fetch]
        /\ \A q \in Procs : q # p => fetch'[q] = fetch[q]
        /\ fetch'[p] = f
    BY <2>2, <2>3 DEF IInv, TypeOK
  <2> QED BY <1>1, <2>2, <2>4 DEF FetchMoves, GetConfig, GoTheSame, CarriesAgree
<1> QED
  BY <1>4, <1>5, FetchPreserves DEF GetConfig, server, IInv, TypeOK

\* forgetSent leaves what a manager says of its configurations.
LEMMA ForgetSentType ==
  ASSUME IInv
  PROVE  /\ forgetSent \in [Managers -> Manager]
         /\ \A g \in Managers : SayTheSame(forgetSent[g], cms[g])
<1> DEFINE c == [cms[cm] EXCEPT !.sentStatus = None, !.sentEff = None]
<1>1. cm \in Managers /\ cms[cm] \in Manager /\ cms \in [Managers -> Manager]
  BY DEF IInv, TypeOK
<1>2. c \in Manager /\ SayTheSame(c, cms[cm])
  BY <1>1 DEF Manager, Maybe, SayTheSame
<1>3. forgetSent = [cms EXCEPT ![cm] = c]
  BY <1>1 DEF forgetSent
<1> HIDE DEF c
<1> QED
  BY <1>1, <1>2, <1>3 DEF SayTheSame

LEMMA GetConfigFailsPreserves ==
  ASSUME IInv, NEW p \in Procs, NEW arrives \in BOOLEAN, GetConfigFails(p, arrives)
  PROVE  IInv'
<1> DEFINE g == fetch[p].cm
           s == Status("FAILED", "request")
           c == WithStatus(p, forgetSent[g], s)
<1>1. g \in Managers /\ g \in 1..cm /\ fetch[p] \in Fetch
  BY FetchTypes
<1>2. s \in Statuses /\ s # APPLIED
  BY StatusTypes
<1> HIDE DEF s
<1>3. c \in Manager /\ ~Vouched(c)
  <2>1. forgetSent[g] \in Manager
    BY <1>1, ForgetSentType
  <2> QED BY <1>2, <2>1, WithStatusType DEF Vouched
<1>4. cms' = [forgetSent EXCEPT ![g] = c]
  BY <1>1, ForgetSentType DEF GetConfigFails, s
<1> HIDE DEF c
<1>5. ManagersAgree(p) /\ ~Vouched(cms'[g])
  BY <1>1, <1>3, <1>4, ForgetSentType DEF ManagersAgree, Agrees
<1>6. FetchMoves(p)
  <2>1. PICK pc \in {"local", "notify"} : fetch' = Answered(p, [fetch[p] EXCEPT !.pc = pc])
    BY DEF GetConfigFails
  <2> DEFINE f == [fetch[p] EXCEPT !.pc = pc]
  <2>2. /\ f \in Fetch /\ f.pc \in {"local", "notify"} /\ f.cm = g /\ f.alone = fetch[p].alone
    BY <1>1 DEF Fetch
  <2>3. fetch' = Answered(p, f) /\ fetch[p].pc # "idle"
    BY <2>1 DEF GetConfigFails
  <2> HIDE DEF f
  <2>4. CarriesAgree(f, cms'[f.cm])
    BY <1>5, <2>2 DEF CarriesAgree
  <2> QED BY <1>1, <2>2, <2>3, <2>4, AnsweredMoves
<1>7. /\ used' \in [{"changes", "updates", "failures", "downs"} -> Nat]
      /\ used'["updates"] = used["updates"]
  BY UseType DEF GetConfigFails
<1> QED
  BY <1>5, <1>6, <1>7, FetchPreserves DEF GetConfigFails, IInv, TypeOK

\* SetStatus as the replacement of a manager.
LEMMA SetStatusIs ==
  ASSUME IInv, NEW p \in Procs, NEW s
  PROVE  SetStatus(p, s) = [cms EXCEPT ![fetch[p].cm] = WithStatus(p, cms[fetch[p].cm], s)]
<1>1. fetch[p].cm \in Managers /\ cms \in [Managers -> Manager]
  BY FetchTypes DEF IInv, TypeOK
<1> QED
  BY <1>1 DEF SetStatus

LEMMA GetConfigNotModifiedPreserves ==
  ASSUME IInv, NEW p \in Procs, GetConfigNotModified(p)
  PROVE  IInv'
<1> DEFINE g == fetch[p].cm
<1>1. /\ g \in Managers /\ g \in 1..cm /\ fetch[p] \in Fetch
      /\ Of(p) = cms[g] /\ cms' = cms
  BY FetchTypes DEF GetConfigNotModified
<1>2. ManagersAgree(p)
  BY <1>1, ManagersStay
<1>3. FetchMoves(p)
  <2>1. PICK pc \in {"still", "notify"} :
          /\ fetch' = Answered(p, [fetch[p] EXCEPT !.pc = pc])
          /\ pc = "still" => stillApplied(cms[g])
    BY <1>1 DEF GetConfigNotModified
  <2> DEFINE f == [fetch[p] EXCEPT !.pc = pc]
  <2>2. f \in Fetch /\ f.pc = pc /\ f.cm = g /\ f.alone = fetch[p].alone
    BY <1>1 DEF Fetch
  <2>3. fetch' = Answered(p, f) /\ fetch[p].pc # "idle"
    BY <2>1 DEF GetConfigNotModified
  <2> HIDE DEF f
  <2>4. CarriesAgree(f, cms'[f.cm])
    BY <1>1, <2>1, <2>2 DEF CarriesAgree, stillApplied
  <2> QED BY <1>1, <2>2, <2>3, <2>4, AnsweredMoves
<1> QED
  BY <1>2, <1>3, FetchPreserves DEF GetConfigNotModified, server, IInv, TypeOK

LEMMA SetStillAppliedPreserves ==
  ASSUME IInv, NEW p \in Procs, SetStillApplied(p)
  PROVE  IInv'
<1> DEFINE g == fetch[p].cm
           c == WithStatus(p, cms[g], APPLIED)
<1>1. /\ cms[g] \in Manager /\ fetch[p].pc = "still"
      /\ CarriesAgree(fetch[p], cms[g])
  BY FetchTypes DEF SetStillApplied
<1>2. /\ c \in Manager /\ c.statusAlone = fetch[p].alone
      /\ c.loaded = cms[g].loaded /\ c.received = cms[g].received
  BY <1>1, StatusTypes, WithStatusType
<1>3. cms' = [cms EXCEPT ![g] = c]
  BY SetStatusIs DEF SetStillApplied
<1> HIDE DEF c
<1>4. Agrees(c) /\ (Vouched(c) => fetch[p].alone)
  BY <1>1, <1>2 DEF CarriesAgree, Agrees, Vouched
<1>5. ManagersAgree(p)
  BY <1>2, <1>3, <1>4, ReplaceManager
<1>6. FetchMoves(p)
  BY <1>1, GotoMoves DEF SetStillApplied
<1> QED
  BY <1>5, <1>6, FetchPreserves DEF SetStillApplied, server, IInv, TypeOK

\* The fetch carries the configuration, and whether it was the loaded one.
LEMMA GetConfigContentPreserves ==
  ASSUME IInv, NEW p \in Procs, GetConfigContent(p)
  PROVE  IInv'
<1> DEFINE g == fetch[p].cm
           c == [cms[g] EXCEPT !.remote = serve]
<1>1. /\ g \in Managers /\ g \in 1..cm /\ fetch[p] \in Fetch
      /\ Of(p) = cms[g] /\ cms[g] \in Manager /\ cms \in [Managers -> Manager]
  BY FetchTypes DEF IInv, TypeOK
<1>2. serve \in Contents /\ serve # None
  BY RemoteCfgAssumption DEF IInv, TypeOK, Contents
<1>3. c \in Manager /\ SayTheSame(c, cms[g])
  BY <1>1, <1>2 DEF Manager, Maybe, SayTheSame
<1>4. cms' = [cms EXCEPT ![g] = c]
  BY <1>1 DEF GetConfigContent
<1> HIDE DEF c
<1>5. ManagersAgree(p) /\ SayTheSame(cms'[g], cms[g])
  BY <1>1, <1>3, <1>4, SameWords
<1>6. FetchMoves(p)
  <2>1. PICK f : /\ fetch' = Answered(p, f)
                 /\ f = IF cms[g].received = serve THEN [fetch[p] EXCEPT !.pc = "notify"]
                        ELSE [fetch[p] EXCEPT !.content = serve,
                                              !.pc = IF cms[g].loaded = serve THEN "already" ELSE "new"]
    BY <1>1 DEF GetConfigContent
  <2>2. /\ f \in Fetch /\ f.cm = g /\ f.alone = fetch[p].alone
        /\ \/ f.pc = "notify"
           \/ f.pc = "already" /\ f.content = serve /\ cms[g].loaded = serve
           \/ f.pc = "new" /\ f.content = serve
    BY <1>1, <1>2, <2>1 DEF Fetch, Maybe
  <2>3. CarriesAgree(f, cms'[f.cm])
    BY <1>2, <1>5, <2>2 DEF CarriesAgree, SayTheSame
  <2>4. fetch[p].pc # "idle"
    BY DEF GetConfigContent
  <2> QED BY <1>1, <2>1, <2>2, <2>3, <2>4, AnsweredMoves
<1> QED
  BY <1>5, <1>6, FetchPreserves DEF GetConfigContent, IInv, TypeOK

\* The manager takes the configuration for the one received last.  If it was found to be
\* the loaded one it still is, when the fetch is alone.
LEMMA SetReceivedPreserves ==
  ASSUME IInv, NEW p \in Procs, SetReceived(p)
  PROVE  IInv'
<1> DEFINE g == fetch[p].cm
           b == fetch[p].content
           s == IF fetch[p].pc = "already" THEN APPLIED ELSE Status("APPLYING", None)
           d == WithStatus(p, cms[g], s)
           c == [d EXCEPT !.received = b]
<1>1. /\ g \in Managers /\ g \in 1..cm /\ fetch[p] \in Fetch /\ cms \in [Managers -> Manager]
      /\ cms[g] \in Manager /\ CarriesAgree(fetch[p], cms[g])
  BY FetchTypes DEF IInv, TypeOK
<1>2. fetch[p].pc \in {"new", "already"} /\ b # None /\ b \in Contents
  BY <1>1 DEF SetReceived, CarriesAgree, Fetch, Maybe
<1>3. s \in Statuses /\ (s = APPLIED => fetch[p].pc = "already")
  BY StatusTypes
<1>4. SetStatus(p, s) = [cms EXCEPT ![g] = d]
  BY SetStatusIs
<1>5. cms' = [SetStatus(p, s) EXCEPT ![g].received = b]
  BY DEF SetReceived
<1> HIDE DEF s
<1>6. d \in Manager /\ d.status = s /\ d.statusAlone = fetch[p].alone /\ d.loaded = cms[g].loaded
  BY <1>1, <1>3, WithStatusType
<1> HIDE DEF d
<1>7. cms' = [cms EXCEPT ![g] = c]
  BY <1>1, <1>4, <1>5, <1>6
<1>8. /\ c \in Manager /\ c.status = s /\ c.statusAlone = fetch[p].alone
      /\ c.loaded = cms[g].loaded /\ c.received = b
  BY <1>2, <1>6 DEF Manager, Maybe
<1> HIDE DEF c
<1>9. Agrees(c) /\ (Vouched(c) => fetch[p].alone)
  BY <1>1, <1>2, <1>3, <1>8 DEF Agrees, Vouched, CarriesAgree
<1>10. ManagersAgree(p) /\ cms'[g] = c
  BY <1>7, <1>8, <1>9, ReplaceManager
<1>11. FetchMoves(p)
  BY <1>2, <1>8, <1>10, GotoMoves DEF SetReceived
<1> QED
  BY <1>10, <1>11, FetchPreserves DEF SetReceived, server, IInv, TypeOK

\* What parseAndLoad does to the managers.
LEMMA AfterLoadIs ==
  ASSUME IInv, NEW p \in Procs, NEW b \in Contents
  PROVE  \E c \in Manager : /\ AfterLoad(p, b) = [cms EXCEPT ![fetch[p].cm] = c]
                            /\ SayTheSame(c, cms[fetch[p].cm])
<1> DEFINE g == fetch[p].cm
<1>1. /\ g \in Managers /\ cms[g] \in Manager /\ cms \in [Managers -> Manager]
      /\ fetch[p].alone \in BOOLEAN
  BY FetchTypes DEF IInv, TypeOK, Fetch
<1>2. PICK e \in Maybe(Contents) : e = IF b # Empty /\ Loads(p, b) THEN b ELSE cms[g].eff
  BY <1>1 DEF Manager, Maybe
<1>3. PICK l \in BOOLEAN : l = IF b = Empty THEN cms[g].loadAlone ELSE fetch[p].alone
  BY <1>1 DEF Manager
<1> DEFINE c == [cms[g] EXCEPT !.eff = e, !.loadAlone = l]
<1>4. c \in Manager /\ SayTheSame(c, cms[g])
  BY <1>1 DEF Manager, SayTheSame
<1>5. AfterLoad(p, b) = [cms EXCEPT ![g] = c]
  BY <1>1, <1>2, <1>3 DEF AfterLoad
<1> QED
  BY <1>4, <1>5

\* A fetch gives up only after it has reported the failure.
LEMMA GiveUpMoves ==
  ASSUME IInv, NEW p \in Procs, GiveUp(p), fetch[p].pc # "idle",
         ~Vouched(cms'[fetch[p].cm])
  PROVE  FetchMoves(p)
<1>1. PICK pc \in {"local", "notify"} : Goto(p, pc)
  BY DEF GiveUp
<1> QED
  BY <1>1, GotoMoves

LEMMA ParseAndLoadPreserves ==
  ASSUME IInv, NEW p \in Procs, ParseAndLoad(p)
  PROVE  IInv'
<1> DEFINE g == fetch[p].cm
           b == fetch[p].content
<1>1. /\ g \in Managers /\ g \in 1..cm /\ fetch[p] \in Fetch /\ cms \in [Managers -> Manager]
      /\ cms[g] \in Manager /\ CarriesAgree(fetch[p], cms[g])
  BY FetchTypes DEF IInv, TypeOK
<1>2. fetch[p].pc = "load" /\ b # None /\ (fetch[p].alone => cms[g].received = b)
  BY <1>1 DEF ParseAndLoad, CarriesAgree
<1>3. b \in Contents
  BY <1>1, <1>2 DEF Fetch, Maybe
<1>4. PICK c \in Manager : AfterLoad(p, b) = [cms EXCEPT ![g] = c] /\ SayTheSame(c, cms[g])
  BY <1>3, AfterLoadIs
<1>5. CASE Loads(p, b)
  <2>1. cms' = [cms EXCEPT ![g] = c] /\ Goto(p, "loaded")
    BY <1>4, <1>5 DEF ParseAndLoad
  <2>2. ManagersAgree(p) /\ SayTheSame(cms'[g], cms[g])
    BY <1>1, <1>4, <2>1, SameWords
  <2>3. FetchMoves(p)
    BY <1>2, <2>1, <2>2, GotoMoves DEF SayTheSame
  <2> QED BY <2>2, <2>3, FetchPreserves DEF ParseAndLoad, server, IInv, TypeOK
<1>6. CASE ~Loads(p, b)
  <2> DEFINE s == Status("FAILED", b)
             d == WithStatus(p, c, s)
  <2>1. s \in Statuses /\ s # APPLIED
    BY <1>3, StatusTypes DEF Maybe
  <2>2. /\ cms' = [AfterLoad(p, b) EXCEPT ![g] = WithStatus(p, @, s)]
        /\ Goto(p, "restore") \/ GiveUp(p)
    BY <1>6 DEF ParseAndLoad
  <2> HIDE DEF s
  <2>3. d \in Manager /\ ~Vouched(d)
    BY <2>1, WithStatusType DEF Vouched
  <2>4. cms' = [cms EXCEPT ![g] = d]
    BY <1>1, <1>4, <2>2
  <2> HIDE DEF d
  <2>5. ManagersAgree(p) /\ ~Vouched(cms'[g])
    BY <2>3, <2>4, ReplaceManager DEF Agrees
  <2>6. FetchMoves(p)
    BY <1>2, <2>2, <2>5, GotoMoves, GiveUpMoves
  <2> QED BY <2>5, <2>6, FetchPreserves DEF ParseAndLoad, server, IInv, TypeOK
<1> QED
  BY <1>5, <1>6

LEMMA CachedType ==
  ASSUME IInv, NEW p \in Procs
  PROVE  cached(p) \in Maybe(Contents)
<1>1. Of(p) \in Manager /\ cache \in [Args -> Maybe(Contents)]
  BY FetchTypes DEF IInv, TypeOK
<1> QED
  BY <1>1 DEF cached, Manager, Maybe

LEMMA RestoreCachedPreserves ==
  ASSUME IInv, NEW p \in Procs, RestoreCached(p)
  PROVE  IInv'
<1> DEFINE g == fetch[p].cm
           b == cached(p)
<1>1. /\ g \in Managers /\ g \in 1..cm /\ fetch[p] \in Fetch /\ cms \in [Managers -> Manager]
      /\ cms[g] \in Manager /\ CarriesAgree(fetch[p], cms[g])
  BY FetchTypes DEF IInv, TypeOK
<1>2. fetch[p].pc = "restore" /\ ~Vouched(cms[g])
  BY <1>1 DEF RestoreCached, CarriesAgree
<1>3. PICK d \in Manager : /\ (IF b = None THEN cms ELSE AfterLoad(p, b)) = [cms EXCEPT ![g] = d]
                           /\ SayTheSame(d, cms[g])
  <2>1. CASE b = None
    BY <1>1, <2>1 DEF SayTheSame
  <2>2. CASE b # None
    <3>1. b \in Contents
      BY <2>2, CachedType DEF Maybe
    <3> QED BY <2>2, <3>1, AfterLoadIs
  <2> QED BY <2>1, <2>2
<1>4. PICK l \in BOOLEAN : l = (fetch[p].alone /\ b = Of(p).loaded)
  BY <1>1 DEF Fetch
<1> DEFINE c == [d EXCEPT !.loadAlone = l]
<1>5. c \in Manager /\ SayTheSame(c, cms[g])
  BY <1>3 DEF Manager, SayTheSame
<1>6. cms' = [IF b = None THEN cms ELSE AfterLoad(p, b) EXCEPT ![g].loadAlone = l]
  BY <1>4 DEF RestoreCached
<1>7. cms' = [cms EXCEPT ![g] = c]
  BY <1>1, <1>3, <1>6
<1> HIDE DEF c
<1>8. ManagersAgree(p) /\ SayTheSame(cms'[g], cms[g])
  BY <1>1, <1>5, <1>7, SameWords
<1>9. ~Vouched(cms'[g])
  BY <1>2, <1>8 DEF Vouched, SayTheSame
<1>10. Goto(p, "notify") \/ GiveUp(p)
  BY DEF RestoreCached
<1>11. FetchMoves(p)
  BY <1>2, <1>9, <1>10, GotoMoves, GiveUpMoves
<1> QED
  BY <1>8, <1>11, FetchPreserves DEF RestoreCached, server, IInv, TypeOK

\* The content that was loaded is still the one received last, when the fetch is alone.
LEMMA SetLoadedPreserves ==
  ASSUME IInv, NEW p \in Procs, SetLoaded(p)
  PROVE  IInv'
<1> DEFINE g == fetch[p].cm
           b == fetch[p].content
           d == WithStatus(p, cms[g], APPLIED)
           c == [d EXCEPT !.loaded = b]
<1>1. /\ g \in Managers /\ g \in 1..cm /\ fetch[p] \in Fetch /\ cms \in [Managers -> Manager]
      /\ cms[g] \in Manager /\ CarriesAgree(fetch[p], cms[g])
  BY FetchTypes DEF IInv, TypeOK
<1>2. /\ fetch[p].pc = "loaded" /\ b # None /\ b \in Contents
      /\ fetch[p].alone => cms[g].received = b
  BY <1>1 DEF SetLoaded, CarriesAgree, Fetch, Maybe
<1>3. SetStatus(p, APPLIED) = [cms EXCEPT ![g] = d]
  BY SetStatusIs
<1>4. d \in Manager /\ d.statusAlone = fetch[p].alone /\ d.received = cms[g].received
  BY <1>1, StatusTypes, WithStatusType
<1> HIDE DEF d
<1>5. cms' = [cms EXCEPT ![g] = c]
  BY <1>1, <1>3, <1>4 DEF SetLoaded
<1>6. /\ c \in Manager /\ c.statusAlone = fetch[p].alone
      /\ c.loaded = b /\ c.received = cms[g].received
  BY <1>2, <1>4 DEF Manager, Maybe
<1> HIDE DEF c
<1>7. Agrees(c) /\ (Vouched(c) => fetch[p].alone)
  BY <1>2, <1>6 DEF Agrees, Vouched
<1>8. ManagersAgree(p)
  BY <1>5, <1>6, <1>7, ReplaceManager
<1>9. FetchMoves(p)
  BY <1>2, GotoMoves DEF SetLoaded
<1> QED
  BY <1>8, <1>9, FetchPreserves DEF SetLoaded, server, IInv, TypeOK

LEMMA SetCachedConfigPreserves ==
  ASSUME IInv, NEW p \in Procs, SetCachedConfig(p)
  PROVE  IInv'
<1>1. fetch[p] \in Fetch
  BY FetchTypes
<1>2. cache' \in [Args -> Maybe(Contents)]
  BY <1>1 DEF SetCachedConfig, IInv, TypeOK, Fetch
<1>3. ManagersAgree(p)
  BY ManagersStay DEF SetCachedConfig
<1>4. FetchMoves(p)
  BY GotoMoves DEF SetCachedConfig
<1> QED
  BY <1>2, <1>3, <1>4, FetchPreserves DEF SetCachedConfig, server, IInv, TypeOK

\* The cached configuration becomes the loaded one; nobody vouches for it.
LEMMA FetchLoadLocalConfigPreserves ==
  ASSUME IInv, NEW p \in Procs, FetchLoadLocalConfig(p)
  PROVE  IInv'
<1> DEFINE g == fetch[p].cm
           b == cached(p)
<1>1. /\ g \in Managers /\ g \in 1..cm /\ fetch[p] \in Fetch /\ cms \in [Managers -> Manager]
      /\ cms[g] \in Manager /\ CarriesAgree(fetch[p], cms[g])
  BY FetchTypes DEF IInv, TypeOK
<1>2. fetch[p].pc = "local" /\ ~Vouched(cms[g])
  BY <1>1 DEF FetchLoadLocalConfig, CarriesAgree
<1>3. ManagersAgree(p)
  <2>1. CASE b # None
    <3>1. b \in Contents
      BY <2>1, CachedType DEF Maybe
    <3>2. PICK d \in Manager : AfterLoad(p, b) = [cms EXCEPT ![g] = d] /\ SayTheSame(d, cms[g])
      BY <3>1, AfterLoadIs
    <3>3. PICK l \in Maybe(Contents) : l = IF Loads(p, b) THEN b ELSE d.loaded
      BY <3>1, <3>2 DEF Manager, Maybe
    <3> DEFINE c == [d EXCEPT !.loaded = l]
    <3>4. c \in Manager /\ c.status = d.status /\ c.statusAlone = d.statusAlone
      BY <3>2 DEF Manager
    <3>5. cms' = [AfterLoad(p, b) EXCEPT ![g].loaded = IF Loads(p, b) THEN b ELSE @]
      BY <2>1 DEF FetchLoadLocalConfig
    <3>6. cms' = [cms EXCEPT ![g] = c]
      BY <1>1, <3>2, <3>3, <3>5
    <3> HIDE DEF c
    <3>7. ~Vouched(c)
      BY <1>2, <3>2, <3>4 DEF Vouched, SayTheSame
    <3> QED BY <3>4, <3>6, <3>7, ReplaceManager DEF Agrees
  <2>2. CASE b = None
    BY <2>2, ManagersStay DEF FetchLoadLocalConfig
  <2> QED BY <2>1, <2>2
<1>4. FetchMoves(p)
  BY <1>2, GotoMoves DEF FetchLoadLocalConfig
<1> QED
  BY <1>3, <1>4, FetchPreserves DEF FetchLoadLocalConfig, server, IInv, TypeOK

LEMMA NoFetchType ==
  NoFetch \in Fetch /\ NoFetch.pc = "idle" /\ NoFetch.cm = 1 /\ 1 \in Managers
<1>1. 1 \in Managers
  BY RemoteCfgAssumption DEF Managers
<1> QED
  BY <1>1 DEF NoFetch, Fetch, Maybe

\* A fetch ends.
LEMMA NotifyPreserves ==
  ASSUME IInv, NEW p \in Procs,
         NotifyDone(p) \/ \E arrives \in BOOLEAN : NotifyFails(p, arrives)
  PROVE  IInv'
<1>1. ManagersAgree(p)
  <2>1. CASE cms' = cms
    BY <2>1, ManagersStay
  <2>2. CASE cms' = forgetSent
    <3>1. fetch[p].cm \in Managers /\ Agrees(cms[fetch[p].cm])
      BY FetchTypes
    <3> QED BY <2>2, <3>1, ForgetSentType DEF ManagersAgree, Agrees, SayTheSame, Vouched
  <2> QED BY <2>1, <2>2 DEF NotifyDone, NotifyFails
<1>2. FetchMoves(p)
  <2>1. fetch[p].pc # "idle" /\ 1 \in 1..cm
    BY DEF NotifyDone, NotifyFails, IInv, TypeOK, Managers
  <2>2. CarriesAgree(NoFetch, cms'[NoFetch.cm])
    BY NoFetchType DEF CarriesAgree
  <2>3. CASE fetch' = Answered(p, NoFetch)
    BY <2>1, <2>2, <2>3, NoFetchType, AnsweredMoves
  <2>4. CASE fetch' = [fetch EXCEPT ![p] = NoFetch]
    BY <2>1, <2>2, <2>4, NoFetchType DEF FetchMoves, GoTheSame, IInv, TypeOK
  <2> QED BY <2>3, <2>4 DEF NotifyDone, NotifyFails
<1>3. /\ used' \in [{"changes", "updates", "failures", "downs"} -> Nat]
      /\ used'["updates"] = used["updates"]
  BY UseType DEF NotifyDone, NotifyFails, IInv, TypeOK
<1> QED
  BY <1>1, <1>2, <1>3, FetchPreserves DEF NotifyDone, NotifyFails, IInv, TypeOK

LEMMA FetchStepPreserves ==
  ASSUME IInv, NEW p \in Procs, FetchStep(p)
  PROVE  IInv'
  BY GetConfigPreserves, GetConfigFailsPreserves, GetConfigNotModifiedPreserves,
     SetStillAppliedPreserves,
     GetConfigContentPreserves, SetReceivedPreserves, ParseAndLoadPreserves, RestoreCachedPreserves,
     SetLoadedPreserves, SetCachedConfigPreserves, FetchLoadLocalConfigPreserves, NotifyPreserves
     DEF FetchStep

-----------------------------------------------------------------------------
(***************************************************************************)
(* Steps of Run and Update                                                 *)
(***************************************************************************)

\* Managers keep saying what they said.
WordsKept ==
  /\ cms' \in [Managers -> Manager]
  /\ \A g \in Managers : SayTheSame(cms'[g], cms[g])

\* The fetches are as they were, or one begins, and no other of its manager is alone.
FetchesKept ==
  \/ fetch' = fetch
  \/ \E p \in Procs, fallback \in BOOLEAN : fetch' = Fetching(p, fallback)

LEMMA FetchingType ==
  ASSUME IInv, NEW p \in Procs, NEW fallback \in BOOLEAN, fetch' = Fetching(p, fallback)
  PROVE  /\ fetch' \in [Procs -> Fetch]
         /\ fetch'[p].pc = "fetch" /\ fetch'[p].cm = cm
         /\ fetch'[p].alone => \A r \in Procs : ~Current(r)
         /\ \A q \in Procs : q # p => /\ fetch'[q].pc = fetch[q].pc /\ fetch'[q].cm = fetch[q].cm
                                      /\ fetch'[q].content = fetch[q].content
                                      /\ fetch'[q].alone => fetch[q].alone /\ ~Current(q)
<1>1. fetch \in [Procs -> Fetch] /\ cm \in Managers
  BY DEF IInv, TypeOK
<1>2. PICK a \in BOOLEAN : a = \A r \in Procs : ~Current(r)
  OBVIOUS
<1> DEFINE f == [NoFetch EXCEPT !.pc = "fetch", !.cm = cm, !.fallback = fallback, !.alone = a]
           o(q) == [fetch[q] EXCEPT !.alone = @ /\ ~Current(q)]
<1>3. f \in Fetch /\ f.pc = "fetch" /\ f.cm = cm /\ f.alone = a
  BY <1>1, NoFetchType DEF Fetch
<1>4. ASSUME NEW q \in Procs
      PROVE  /\ o(q) \in Fetch
             /\ o(q).pc = fetch[q].pc /\ o(q).cm = fetch[q].cm /\ o(q).content = fetch[q].content
             /\ o(q).alone => fetch[q].alone /\ ~Current(q)
  <2>1. fetch[q] \in Fetch
    BY <1>1
  <2>2. PICK l \in BOOLEAN : l = (fetch[q].alone /\ ~Current(q))
    BY <2>1 DEF Fetch
  <2>3. o(q) = [fetch[q] EXCEPT !.alone = l]
    BY <2>1, <2>2
  <2> HIDE DEF o
  <2> QED BY <2>1, <2>2, <2>3 DEF Fetch
<1>5. fetch' = [q \in Procs |-> IF q = p THEN f ELSE o(q)]
  BY <1>2 DEF Fetching
<1> HIDE DEF f, o
<1> QED
  BY <1>2, <1>3, <1>4, <1>5

\* The words of managers that are kept still agree with everything.
LEMMA WordsAgree ==
  ASSUME IInv, cm' = cm, WordsKept
  PROVE  /\ AppliedIsLoaded'
         /\ \A p \in Procs : CarriesAgree(fetch[p], cms'[fetch[p].cm])
<1>1. 1..cm \subseteq Managers
  BY FetchTypes DEF Procs
<1>2. AppliedIsLoaded'
  BY <1>1 DEF IInv, AppliedIsLoaded, WordsKept, SayTheSame
<1>3. ASSUME NEW p \in Procs
      PROVE  CarriesAgree(fetch[p], cms'[fetch[p].cm])
  <2>1. fetch[p].cm \in Managers /\ CarriesAgree(fetch[p], cms[fetch[p].cm])
    BY FetchTypes DEF IInv, FetchAgrees
  <2> QED BY <2>1 DEF WordsKept, SayTheSame, CarriesAgree, Vouched
<1> QED
  BY <1>2, <1>3

LEMMA KeepsManagers ==
  ASSUME IInv, cm' = cm, WordsKept, FetchesKept,
         TypeOK /\ fetch' \in [Procs -> Fetch] => TypeOK', ManagersSuffice'
  PROVE  IInv'
<1>1. cm \in 1..cm /\ \A p \in Procs : fetch[p] \in Fetch
  <2>1. cm \in Managers /\ \A p \in Procs : fetch[p] \in Fetch
    BY FetchTypes DEF Procs
  <2> QED BY <2>1, RemoteCfgAssumption DEF Managers
<1>2. AppliedIsLoaded' /\ \A p \in Procs : CarriesAgree(fetch[p], cms'[fetch[p].cm])
  BY WordsAgree
<1>3. CASE fetch' = fetch
  <2>1. TypeOK' /\ AloneIsAlone'
    BY <1>3 DEF IInv, TypeOK, AloneIsAlone
  <2>2. FetchAgrees'
    BY <1>2, <1>3 DEF FetchAgrees
  <2> QED BY <1>2, <2>1, <2>2 DEF IInv
<1>4. ASSUME NEW p \in Procs, NEW fallback \in BOOLEAN, fetch' = Fetching(p, fallback)
      PROVE  IInv'
  <2>1. /\ fetch' \in [Procs -> Fetch]
        /\ fetch'[p].pc = "fetch" /\ fetch'[p].cm = cm
        /\ fetch'[p].alone => \A r \in Procs : ~Current(r)
        /\ \A q \in Procs : q # p => /\ fetch'[q].pc = fetch[q].pc /\ fetch'[q].cm = fetch[q].cm
                                     /\ fetch'[q].content = fetch[q].content
                                     /\ fetch'[q].alone => fetch[q].alone /\ ~Current(q)
    BY <1>4, FetchingType
  <2>2. AloneIsAlone'
    <3>1. \A q \in Procs : fetch'[q].cm \in 1..cm'
      BY <1>1, <2>1 DEF IInv, AloneIsAlone
    <3>2. ASSUME NEW q \in Procs, NEW r \in Procs, q # r, fetch'[q].pc # "idle", fetch'[r].pc # "idle",
                 fetch'[q].cm = fetch'[r].cm
          PROVE  ~fetch'[q].alone
      <4>1. CASE q = p
        BY <2>1, <3>2, <4>1 DEF Current
      <4>2. CASE r = p
        BY <2>1, <3>2, <4>2 DEF Current
      <4>3. CASE q # p /\ r # p
        BY <2>1, <3>2, <4>3 DEF IInv, AloneIsAlone
      <4> QED BY <4>1, <4>2, <4>3
    <3> QED BY <3>1, <3>2 DEF AloneIsAlone
  <2>3. FetchAgrees'
    <3> SUFFICES ASSUME NEW q \in Procs PROVE CarriesAgree(fetch'[q], cms'[fetch'[q].cm])
      BY DEF FetchAgrees
    <3>1. CASE q = p
      BY <2>1, <3>1 DEF CarriesAgree
    <3>2. CASE q # p
      BY <1>2, <2>1, <3>2 DEF CarriesAgree
    <3> QED BY <3>1, <3>2
  <2> QED BY <1>2, <2>1, <2>2, <2>3 DEF IInv
<1> QED
  BY <1>3, <1>4 DEF FetchesKept

\* Putting a manager that says the same in the place of one.
LEMMA WordsKeptBy ==
  ASSUME IInv, NEW g \in Managers, NEW c \in Manager, cms' = [cms EXCEPT ![g] = c],
         SayTheSame(c, cms[g])
  PROVE  WordsKept
  BY DEF IInv, TypeOK, WordsKept, SayTheSame

LEMMA RunStepPreserves ==
  ASSUME IInv, RunStep
  PROVE  IInv'
<1>1. /\ UNCHANGED <<serve, cache, args, nodeArgs, cm, upd>>
      /\ cm \in Managers /\ cms[cm] \in Manager /\ cms \in [Managers -> Manager] /\ cm \in 1..cm
      /\ 1..cm \subseteq Managers
      /\ run \in [pc : {"start", "startup", "select", "polling", "exit"}, watch : 1..cm]
      /\ used \in [{"changes", "updates", "failures", "downs"} -> Nat]
  <2>1. cm \in Managers /\ 1..cm \subseteq Managers /\ cms[cm] \in Manager
    BY FetchTypes DEF Procs
  <2>2. cm \in 1..cm
    BY <2>1, RemoteCfgAssumption DEF Managers
  <2> QED
    BY <2>1, <2>2 DEF RunStep, RunStart, RunRegister, RunRegisterFails, Poll, RunLoop, ResetTicker,
                      RunUnchanged, server, IInv, TypeOK
<1> DEFINE RunType == run' \in [pc : {"start", "startup", "select", "polling", "exit"}, watch : 1..cm]
           UsedType == /\ used' \in [{"changes", "updates", "failures", "downs"} -> Nat]
                       /\ used'["updates"] = used["updates"]
<1>2. ASSUME WordsKept, FetchesKept, RunType, UsedType
      PROVE  IInv'
  <2>1. TypeOK /\ fetch' \in [Procs -> Fetch] => TypeOK'
    BY <1>1, <1>2 DEF TypeOK, WordsKept
  <2>2. ManagersSuffice'
    BY <1>1, <1>2 DEF IInv, ManagersSuffice
  <2> QED BY <1>1, <1>2, <2>1, <2>2, KeepsManagers
<1>3. CASE RunStart
  <2> DEFINE c == [cms[cm] EXCEPT !.ctrl = TRUE]
  <2>1. c \in Manager /\ SayTheSame(c, cms[cm])
    BY <1>1 DEF Manager, SayTheSame
  <2>2. cms' = [cms EXCEPT ![cm] = c]
    BY <1>1, <1>3 DEF RunStart
  <2> HIDE DEF c
  <2>3. WordsKept
    BY <1>1, <2>1, <2>2, WordsKeptBy
  <2>4. FetchesKept
    BY <1>3 DEF RunStart, FetchesKept, Procs
  <2>5. RunType /\ UsedType
    BY <1>1, <1>3 DEF RunStart
  <2> QED BY <1>2, <2>3, <2>4, <2>5
<1>4. CASE RunRegister \/ RunLoop
  <2>1. cms' = cms /\ fetch' = fetch
    BY <1>4 DEF RunRegister, RunLoop
  <2>2. WordsKept /\ FetchesKept
    BY <1>1, <2>1 DEF WordsKept, FetchesKept, SayTheSame
  <2>3. RunType /\ UsedType
    BY <1>1, <1>4 DEF RunRegister, RunLoop
  <2> QED BY <1>2, <2>2, <2>3
<1>5. CASE RunRegisterFails
  <2> DEFINE c == [cms[cm] EXCEPT !.ticker = "stopped"]
  <2>1. c \in Manager /\ SayTheSame(c, cms[cm])
    BY <1>1 DEF Manager, SayTheSame
  <2>2. cms' = [cms EXCEPT ![cm] = c]
    BY <1>1, <1>5 DEF RunRegisterFails
  <2> HIDE DEF c
  <2>3. WordsKept
    BY <1>1, <2>1, <2>2, WordsKeptBy
  <2>4. FetchesKept
    BY <1>5 DEF RunRegisterFails, FetchesKept
  <2>5. RunType
    BY <1>1, <1>5 DEF RunRegisterFails
  <2>6. UsedType
    BY <1>5, UseType DEF RunRegisterFails
  <2> QED BY <1>2, <2>3, <2>4, <2>5, <2>6
<1>6. CASE Poll
  <2>1. WordsKept
    BY <1>1, <1>6 DEF Poll, WordsKept, SayTheSame
  <2>2. FetchesKept
    BY <1>6 DEF Poll, FetchesKept, Procs
  <2>3. RunType /\ UsedType
    BY <1>1, <1>6 DEF Poll
  <2> QED BY <1>2, <2>1, <2>2, <2>3
<1>7. CASE ResetTicker
  <2> DEFINE w == run.watch
             c == [cms[w] EXCEPT !.token = FALSE]
             cs == [cms EXCEPT ![w] = c]
             d == [cs[cm] EXCEPT !.ticker = IF cs[cm].on THEN "on" ELSE "off"]
  <2>1. w \in Managers /\ cms[w] \in Manager
    BY <1>1
  <2>2. c \in Manager /\ SayTheSame(c, cms[w])
    BY <2>1 DEF Manager, SayTheSame
  <2> HIDE DEF c
  <2>3. /\ cs \in [Managers -> Manager]
        /\ \A g \in Managers : SayTheSame(cs[g], cms[g])
    BY <1>1, <2>1, <2>2 DEF SayTheSame
  <2>4. cms' = [cs EXCEPT ![cm] = d]
    BY <1>1, <1>7 DEF ResetTicker, c
  <2> HIDE DEF cs
  <2>5. d \in Manager /\ SayTheSame(d, cs[cm])
    BY <1>1, <2>3 DEF Manager, SayTheSame
  <2> HIDE DEF d
  <2>6. WordsKept
    BY <1>1, <2>3, <2>4, <2>5 DEF WordsKept, SayTheSame
  <2>7. FetchesKept /\ RunType /\ UsedType
    BY <1>1, <1>7 DEF ResetTicker, FetchesKept
  <2> QED BY <1>2, <2>6, <2>7
<1> QED
  BY <1>3, <1>4, <1>5, <1>6, <1>7 DEF RunStep

LEMMA NewManagerType ==
  /\ NewManager \in Manager
  /\ ~Vouched(NewManager)
<1>1. Status("UNSET", None) \in Statuses /\ Status("UNSET", None) # APPLIED
  BY StatusTypes
<1> QED
  BY <1>1 DEF NewManager, Manager, Maybe, Vouched

LEMMA WithArgsType ==
  ASSUME NEW c \in Manager, NEW a \in Args
  PROVE  /\ WithArgs(c, a) \in Manager
         /\ SayTheSame(WithArgs(c, a), c)
<1>1. PICK t \in BOOLEAN : t = (c.token \/ ~c.on)
  BY DEF Manager
<1>2. WithArgs(c, a) = [c EXCEPT !.argsHash = a, !.on = TRUE, !.token = t]
  BY <1>1 DEF WithArgs
<1> QED
  BY <1>2 DEF Manager, Maybe, SayTheSame

\* A manager that is replaced keeps its words, and so does a fetch of it; the new
\* manager has received nothing yet.
LEMMA UpdateHandleEmptyUrlPreserves ==
  ASSUME IInv, UpdateHandleEmptyUrl
  PROVE  IInv'
<1> DEFINE c == [cms[cm] EXCEPT !.ticker = "stopped"]
<1>1. MaxUpdates \in Nat /\ cm \in Nat /\ cm >= 1 /\ used["updates"] \in Nat
  BY RemoteCfgAssumption DEF IInv, TypeOK, Managers
<1>2. /\ cm' = cm + 1 /\ args' = Off /\ nodeArgs' = Off /\ upd' = NoUpdate
      /\ UNCHANGED <<serve, cache, run, fetch, used>>
  BY DEF UpdateHandleEmptyUrl, UpdateUnchanged, server
<1>3. cm <= used["updates"] /\ used["updates"] <= MaxUpdates
  BY DEF UpdateHandleEmptyUrl, IInv, ManagersSuffice
<1>4. cm \in Managers /\ cm + 1 \in Managers /\ 1..cm \subseteq Managers /\ 1..(cm + 1) \subseteq Managers
  BY <1>1, <1>3 DEF Managers
<1>5. c \in Manager /\ SayTheSame(c, cms[cm])
  BY <1>4 DEF IInv, TypeOK, Manager, SayTheSame
<1>6. cms' = [cms EXCEPT ![cm] = c, ![cm + 1] = NewManager]
  BY <1>4 DEF UpdateHandleEmptyUrl, IInv, TypeOK
<1> HIDE DEF c
<1>7. /\ cms' \in [Managers -> Manager]
      /\ cms'[cm + 1] = NewManager
      /\ \A g \in 1..cm : SayTheSame(cms'[g], cms[g])
  <2>1. cm + 1 \notin 1..cm /\ cms \in [Managers -> Manager]
    BY <1>1 DEF IInv, TypeOK
  <2> QED BY <1>4, <1>5, <1>6, <2>1, NewManagerType DEF SayTheSame
<1>8. TypeOK'
  <2>1. run' \in [pc : {"start", "startup", "select", "polling", "exit"}, watch : 1..cm']
    <3>1. 1..cm \subseteq 1..(cm + 1)
      BY <1>1
    <3> QED BY <1>2, <3>1 DEF IInv, TypeOK
  <2>2. /\ upd' \in [pc : {"idle", "lock", "register", "fetch"}, args : Maybe(Args \cup {Off})]
        /\ upd'.pc = "idle"
    BY <1>2 DEF NoUpdate, Maybe
  <2> QED BY <1>2, <1>4, <1>7, <2>1, <2>2 DEF IInv, TypeOK
<1>9. ManagersSuffice'
  BY <1>1, <1>2, <1>3 DEF ManagersSuffice, NoUpdate
<1>10. AloneIsAlone'
  BY <1>1, <1>2 DEF IInv, AloneIsAlone
<1>11. FetchAgrees'
  <2> SUFFICES ASSUME NEW p \in Procs PROVE CarriesAgree(fetch[p], cms'[fetch[p].cm])
    BY <1>2 DEF FetchAgrees
  <2>1. fetch[p].cm \in 1..cm /\ CarriesAgree(fetch[p], cms[fetch[p].cm])
    BY DEF IInv, AloneIsAlone, FetchAgrees
  <2> QED BY <1>7, <2>1 DEF CarriesAgree, SayTheSame, Vouched
<1>12. AppliedIsLoaded'
  <2>1. \A g \in 1..(cm + 1) : g \in 1..cm \/ g = cm + 1
    BY <1>1
  <2> QED BY <1>2, <1>7, <2>1, NewManagerType DEF IInv, AppliedIsLoaded, SayTheSame, Vouched
<1> QED
  BY <1>8, <1>9, <1>10, <1>11, <1>12 DEF IInv

LEMMA UpdateStepPreserves ==
  ASSUME IInv,
         UpdateStep \/ \E a \in Args \cup {Off} : UpdateBegin(a)
  PROVE  IInv'
<1> DEFINE UpdType == upd' \in [pc : {"idle", "lock", "register", "fetch"}, args : Maybe(Args \cup {Off})]
                      /\ (upd'.pc # "idle" => upd'.args \in Args \cup {Off})
           UsedType == used' \in [{"changes", "updates", "failures", "downs"} -> Nat]
           ArgsType == args' \in Args \cup {Off} /\ nodeArgs' \in Args \cup {Off}
<1>1. /\ cm \in Managers /\ cms[cm] \in Manager /\ cms \in [Managers -> Manager]
      /\ upd \in [pc : {"idle", "lock", "register", "fetch"}, args : Maybe(Args \cup {Off})]
      /\ upd.pc # "idle" => upd.args \in Args \cup {Off}
      /\ args \in Args \cup {Off} /\ nodeArgs \in Args \cup {Off}
      /\ used \in [{"changes", "updates", "failures", "downs"} -> Nat]
      /\ used["updates"] \in Nat /\ cm \in Nat
  BY RemoteCfgAssumption DEF IInv, TypeOK, Managers
<1>2. ASSUME cm' = cm, UpdateUnchanged, WordsKept, FetchesKept, UpdType, UsedType, ArgsType,
             ManagersSuffice'
      PROVE  IInv'
  <2>1. TypeOK /\ fetch' \in [Procs -> Fetch] => TypeOK'
    BY <1>2 DEF TypeOK, WordsKept, UpdateUnchanged, server
  <2> QED BY <1>2, <2>1, KeepsManagers
<1>3. ASSUME cms' = cms
      PROVE  WordsKept
  BY <1>1, <1>3 DEF WordsKept, SayTheSame
<1>4. ASSUME NEW a \in Args \cup {Off}, UpdateBegin(a)
      PROVE  IInv'
  <2>1. cms' = cms /\ cm' = cm /\ fetch' = fetch /\ UpdateUnchanged /\ ArgsType
    BY <1>1, <1>4 DEF UpdateBegin
  <2>2. UpdType /\ upd'.pc = "lock"
    BY <1>4 DEF UpdateBegin, Maybe
  <2>3. UsedType /\ used'["updates"] = used["updates"] + 1 /\ used["updates"] < MaxUpdates
    BY <1>4, UseType DEF UpdateBegin
  <2>4. ManagersSuffice'
    BY <1>1, <2>1, <2>3, RemoteCfgAssumption DEF IInv, ManagersSuffice
  <2> QED BY <1>2, <1>3, <2>1, <2>2, <2>3, <2>4 DEF FetchesKept
<1>5. CASE UpdateHandleArgs
  <2>1. upd.args \in Args /\ args' = upd.args /\ nodeArgs' = nodeArgs
    BY <1>1, <1>5 DEF UpdateHandleArgs
  <2>2. /\ cms' = [cms EXCEPT ![cm] = WithArgs(cms[cm], upd.args)]
        /\ cm' = cm /\ fetch' = fetch /\ used' = used /\ UpdateUnchanged
    BY <1>5 DEF UpdateHandleArgs
  <2>3. WordsKept
    BY <1>1, <2>1, <2>2, WithArgsType, WordsKeptBy
  <2>4. UpdType /\ upd'.pc = "register"
    BY <1>1, <1>5 DEF UpdateHandleArgs
  <2>5. ManagersSuffice'
    BY <2>2, <2>4 DEF IInv, ManagersSuffice
  <2> QED BY <1>1, <1>2, <2>1, <2>2, <2>3, <2>4, <2>5 DEF FetchesKept
<1>6. NoUpdate \in [pc : {"idle", "lock", "register", "fetch"}, args : Maybe(Args \cup {Off})]
      /\ NoUpdate.pc = "idle"
  BY DEF NoUpdate, Maybe
<1>7. CASE UpdateRegister
  <2>1. cms' = cms /\ cm' = cm /\ used' = used /\ args' = args /\ UpdateUnchanged
    BY <1>7 DEF UpdateRegister
  <2>2. FetchesKept
    BY <1>7 DEF UpdateRegister, FetchesKept, Procs
  <2>3. UpdType /\ ArgsType /\ upd'.pc # "lock"
    BY <1>1, <1>6, <1>7 DEF UpdateRegister
  <2>4. ManagersSuffice'
    BY <2>1, <2>3 DEF IInv, ManagersSuffice
  <2> QED BY <1>1, <1>2, <1>3, <2>1, <2>2, <2>3, <2>4
<1>8. CASE UpdateRegisterFails \/ UpdateEnd
  <2>1. /\ cms' = cms /\ cm' = cm /\ fetch' = fetch /\ args' = args /\ upd' = NoUpdate
        /\ UpdateUnchanged
    BY <1>8 DEF UpdateRegisterFails, UpdateEnd
  <2>2. ArgsType
    BY <1>1, <1>8 DEF UpdateRegisterFails, UpdateEnd
  <2>3. UsedType /\ used'["updates"] = used["updates"]
    BY <1>1, <1>8, UseType DEF UpdateRegisterFails, UpdateEnd
  <2>4. UpdType /\ ManagersSuffice'
    BY <1>6, <2>1, <2>3 DEF IInv, ManagersSuffice
  <2> QED BY <1>2, <1>3, <2>1, <2>2, <2>3, <2>4 DEF FetchesKept
<1> QED
  BY <1>4, <1>5, <1>7, <1>8, UpdateHandleEmptyUrlPreserves DEF UpdateStep

-----------------------------------------------------------------------------
(***************************************************************************)
(* The server, the process, and the theorem                                *)
(***************************************************************************)

LEMMA ServerChangesPreserves ==
  ASSUME IInv, NEW c \in Contents, ServerChanges(c)
  PROVE  IInv'
<1>1. /\ used' \in [{"changes", "updates", "failures", "downs"} -> Nat]
      /\ used'["updates"] = used["updates"]
  BY UseType DEF ServerChanges
<1>2. TypeOK' /\ ManagersSuffice'
  BY <1>1 DEF ServerChanges, IInv, TypeOK, ManagersSuffice
<1> QED
  BY <1>2 DEF ServerChanges, IInv, AloneIsAlone, FetchAgrees, AppliedIsLoaded

\* A new process: one manager that has received nothing, no fetch.
FreshProcess ==
  /\ cms = Fresh(nodeArgs) /\ cm = 1
  /\ nodeArgs \in Args \cup {Off} /\ args = nodeArgs
  /\ run = [pc |-> "start", watch |-> 1]
  /\ upd = NoUpdate
  /\ fetch = [p \in Procs |-> NoFetch]
  /\ serve \in Contents
  /\ cache \in [Args -> Maybe(Contents)]
  /\ used \in [{"changes", "updates", "failures", "downs"} -> Nat]
  /\ used["updates"] <= MaxUpdates

LEMMA FreshEstablishes == FreshProcess => IInv
<1> SUFFICES ASSUME FreshProcess PROVE IInv
  OBVIOUS
<1>1. MaxUpdates \in Nat /\ 1 \in Managers
  BY RemoteCfgAssumption DEF Managers
<1>2. cms \in [Managers -> Manager] /\ \A g \in Managers : ~Vouched(cms[g])
  BY NewManagerType, WithArgsType DEF Fresh, FreshProcess, SayTheSame, Vouched
<1>3. NoFetch \in Fetch /\ NoFetch.pc = "idle" /\ NoFetch.cm = 1
  BY NoFetchType
<1>4. NoUpdate \in [pc : {"idle", "lock", "register", "fetch"}, args : Maybe(Args \cup {Off})]
      /\ NoUpdate.pc = "idle"
  BY DEF NoUpdate, Maybe
<1>5. TypeOK
  BY <1>1, <1>2, <1>3, <1>4 DEF TypeOK, FreshProcess
<1>6. ManagersSuffice
  BY <1>1, <1>4 DEF ManagersSuffice, FreshProcess
<1>7. AloneIsAlone /\ FetchAgrees
  BY <1>1, <1>3 DEF AloneIsAlone, FetchAgrees, CarriesAgree, FreshProcess
<1>8. AppliedIsLoaded
  BY <1>1, <1>2 DEF AppliedIsLoaded, FreshProcess, Vouched
<1> QED
  BY <1>5, <1>6, <1>7, <1>8 DEF IInv

LEMMA DownPreserves ==
  ASSUME IInv, Down
  PROVE  IInv'
<1>1. cache' \in [Args -> Maybe(Contents)]
  <2>1. PICK torn \in SUBSET {p \in Procs : fetch[p].pc = "cache"} :
          cache' = [a \in Args |-> IF \E p \in torn : Of(p).argsHash = a THEN Empty ELSE cache[a]]
    BY DEF Down
  <2> QED BY <2>1 DEF IInv, TypeOK, Maybe, Contents
<1>2. /\ used' \in [{"changes", "updates", "failures", "downs"} -> Nat]
      /\ used'["updates"] = used["updates"]
  BY UseType DEF Down
<1>3. FreshProcess'
  BY <1>1, <1>2 DEF Down, FreshProcess, Fresh, server, IInv, TypeOK, ManagersSuffice
<1> QED
  BY <1>3, FreshEstablishes, PTL

LEMMA InitEstablishes == Init => IInv
<1> SUFFICES ASSUME Init PROVE IInv
  OBVIOUS
<1>1. FreshProcess
  BY RemoteCfgAssumption DEF Init, FreshProcess, Maybe, Contents
<1> QED
  BY <1>1, FreshEstablishes

LEMMA NextPreserves == IInv /\ [Next]_vars => IInv'
<1> SUFFICES ASSUME IInv, [Next]_vars PROVE IInv'
  OBVIOUS
<1>1. CASE \E p \in Procs : FetchStep(p)
  BY <1>1, FetchStepPreserves
<1>2. CASE RunStep
  BY <1>2, RunStepPreserves
<1>3. CASE UpdateStep \/ \E a \in Args \cup {Off} : UpdateBegin(a)
  BY <1>3, UpdateStepPreserves
<1>4. CASE \E c \in Contents : ServerChanges(c)
  BY <1>4, ServerChangesPreserves
<1>5. CASE Down
  BY <1>5, DownPreserves
<1>6. CASE UNCHANGED vars
  BY <1>6 DEF vars, IInv, TypeOK, ManagersSuffice, AloneIsAlone, FetchAgrees, AppliedIsLoaded
<1> QED
  BY <1>1, <1>2, <1>3, <1>4, <1>5, <1>6 DEF Next

\* The status APPLIED that a fetch has set which no other fetch of its manager
\* overlapped is never wrong: what was received last is what was loaded last, through
\* failed requests, bad configurations, replaced managers, restarts, and whatever
\* overlapping fetches did to the manager before or do to it after.
THEOREM AppliedIsLoadedHolds == Spec => []AppliedIsLoaded
<1>1. IInv => AppliedIsLoaded
  BY DEF IInv
<1> QED
  BY <1>1, InitEstablishes, NextPreserves, PTL DEF Spec
=============================================================================
