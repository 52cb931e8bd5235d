---------------------------- MODULE AzureDispatch ----------------------------
(***************************************************************************)
(* One Azure scan: scanWithCredential and the goroutines it starts.        *)
(*                                                                         *)
(* The tenant phase (Entra, built-in definitions, management groups) runs  *)
(* beside the subscriptions.  A subscription takes a slot of a semaphore,  *)
(* probes its access, runs its services under a semaphore of its own, then *)
(* its API resolver, waits for the tenant phase and derives its edges.     *)
(* When everybody is back the top of the hierarchy is stitched.  Any call  *)
(* may fail or panic, and the context may be cancelled at any time.        *)
(*                                                                         *)
(* A report is kept as its scope, a subscription or the tenant.  Of a      *)
(* service's call the start, the slot it holds and the end are kept; of    *)
(* what it writes, the built-in definitions, which have two writers.       *)
(***************************************************************************)
EXTENDS Naturals, Sequences, FiniteSets

CONSTANTS
    Subs,           \* subscriptions
    Services,       \* names of the per-subscription services left by --services
    TenantOrder,    \* the tenant services it left, in order of registration
    Resolvers,
    GraphScoped,    \* tenant services that read over Microsoft Graph
    Builtin,        \* azure:microsoft.authorization, a name of both kinds
    SubSlots,       \* maxConcurrentSubscriptions
    SvcSlots        \* maxConcurrentServices

Tenant == "tenant"
TenantServices == {TenantOrder[i] : i \in DOMAIN TenantOrder}

ASSUME DispatchAssumption ==
    /\ TenantOrder \in Seq(TenantServices)
    /\ IsFiniteSet(Subs) /\ IsFiniteSet(Services)
    /\ GraphScoped \subseteq TenantServices
    /\ Builtin \in TenantServices \ GraphScoped
    /\ \A i, j \in DOMAIN TenantOrder : TenantOrder[i] = TenantOrder[j] => i = j
    /\ Tenant \notin Subs
    /\ SubSlots \in Nat \ {0} /\ SvcSlots \in Nat \ {0}

VARIABLES
    wif,            \* the federation contract: none, federated, or with a Graph tenant
    main,           \* where scanWithCredential is
    tenantKnown,    \* subs[i].tenantID # "" for all i
    cancelled,      \* ctx.Err() # nil
    tenantPhase,    \* the tenant goroutine; "closed": entraDone is closed
    tenantLeft,     \* positions in TenantOrder of the services it has still to run
    sub,            \* sub[s]: where the goroutine of s is
    todo,           \* todo[s]: services of s that wait for a slot
    running,        \* running[s]: services of s that hold one
    unresolved,     \* unresolved[s]: resolvers of s that have not run
    subFree,        \* free slots of the subscriptions' semaphore
    svcFree,        \* svcFree[s]: free slots of the services' semaphore
    errors,         \* scopes of ReportError
    warned          \* somebody called ReportWarning

\* History variables, read by properties only.
VARIABLES
    lost,           \* scopes of which something asked for was not scanned or resolved
    builtins,       \* accounts under which the built-in definitions are stored
    authorized,     \* subscriptions whose Builtin service ran to its end
    early           \* subscriptions that resolved before entraDone was closed

mainVars == <<wif, main, tenantKnown, cancelled>>
tenantVars == <<tenantPhase, tenantLeft>>
subVars == <<sub, todo, running, unresolved, subFree, svcFree>>
record == <<errors, warned>>
history == <<lost, builtins, authorized, early>>
vars == <<mainVars, tenantVars, subVars, record, history>>

Contracts == {"none", "federated", "named"}
Working == {"probing", "services", "gate", "resolving"}
Scopes == Subs \cup {Tenant}
Outcomes == {"ok", "warned", "disabled", "fault"}

\* An error, or a warning, of scope c; and one that goes with a loss.
Error(c) == errors' = errors \cup {c}
Lose(c) == lost' = lost \cup {c}

\* A call of scope c ends; a refused call is a warning, and no loss.
Report(c, how) ==
    /\ errors' = IF how = "fault" THEN errors \cup {c} ELSE errors
    /\ warned' = (warned \/ how = "warned")
    /\ lost' = IF how = "fault" THEN lost \cup {c} ELSE lost

-----------------------------------------------------------------------------
(* The main goroutine. *)

\* Mutant of ResolveTenant: the tenant id is stamped under federation too.
ResolveTenantAlways(known) ==
    /\ main = "start" /\ main' = "fanout"
    /\ tenantKnown' = known
    /\ warned' = (warned \/ ~known)
    /\ UNCHANGED <<wif, cancelled, tenantVars, subVars, errors, history>>

\* The tenant id is resolved and stamped on every subscription, unless the
\* credential is federated: then it may name another tenant than the one scanned.
ResolveTenant(known) ==
    /\ main = "start" /\ main' = "fanout"
    /\ tenantKnown' = (known /\ wif = "none")
    /\ warned' = (warned \/ (~known /\ wif = "none"))
    /\ UNCHANGED <<wif, cancelled, tenantVars, subVars, errors, history>>

\* wg.Wait.
Join ==
    /\ main = "fanout" /\ main' = "stitch"
    /\ tenantPhase = "closed"
    /\ \A s \in Subs : sub[s] \notin Working \cup {"waiting"}
    /\ UNCHANGED <<wif, tenantKnown, cancelled, tenantVars, subVars, record, history>>

\* stitchTopHierarchy: an error is reported, a refused Entities list is a warning.
Stitch(how) ==
    /\ main = "stitch" /\ main' = "over"
    /\ how = "warned" => wif = "none"
    /\ Report(Tenant, how)
    /\ UNCHANGED <<wif, tenantKnown, cancelled, tenantVars, subVars, builtins,
                   authorized, early>>

Cancel ==
    /\ ~cancelled /\ main # "over"
    /\ cancelled' = TRUE
    /\ UNCHANGED <<wif, main, tenantKnown, tenantVars, subVars, record, history>>

-----------------------------------------------------------------------------
(* The tenant goroutine. *)

\* tenantServiceRunnable.
Runnable(t) == wif = "none" \/ (t \in GraphScoped /\ wif = "named")

\* reportTenantScopeSkipped: one warning for the services left out; the built-in
\* definitions, which every subscription then stores itself, get a notice only.
Account ==
    /\ main # "start" /\ tenantPhase = "accounting"
    /\ tenantPhase' = "running"
    /\ tenantLeft' = {i \in DOMAIN TenantOrder : Runnable(TenantOrder[i])}
    /\ warned' = (warned \/ \E t \in TenantServices \ {Builtin} : ~Runnable(t))
    /\ UNCHANGED <<mainVars, subVars, errors, history>>

\* The loop has come to the tenant service at position i.
Turn(i) ==
    /\ tenantPhase = "running"
    /\ i \in tenantLeft /\ \A j \in tenantLeft : i <= j

\* It returns; what went wrong is reported under its name.
\* scanAuthorizationBuiltins does nothing without a tenant id.
TenantService(i, how) ==
    /\ Turn(i)
    /\ tenantLeft' = tenantLeft \ {i}
    /\ Report(Tenant, how)
    /\ builtins' = IF TenantOrder[i] = Builtin /\ tenantKnown /\ how = "ok"
                   THEN builtins \cup {Tenant} ELSE builtins
    /\ UNCHANGED <<mainVars, tenantPhase, subVars, authorized, early>>

\* Mutant of TenantPanics: the panic is recovered and not reported.
TenantPanicsSilently(i) ==
    /\ Turn(i)
    /\ tenantPhase' = "unwinding"
    /\ Lose(Tenant)
    /\ UNCHANGED <<mainVars, tenantLeft, subVars, record, builtins, authorized, early>>

\* It panics: the panic unwinds the loop, so the services left do not run, and is
\* reported as a failure of Entra, in the scope of the tenant.
TenantPanics(i) ==
    /\ Turn(i)
    /\ tenantPhase' = "unwinding"
    /\ Error(Tenant) /\ Lose(Tenant)
    /\ UNCHANGED <<mainVars, tenantLeft, subVars, warned, builtins, authorized, early>>

\* Mutant of CloseEntra: closed after the loop, not in a deferred call.
CloseEntraInLine ==
    /\ tenantPhase = "running" /\ tenantLeft = {}
    /\ tenantPhase' = "closed"
    /\ UNCHANGED <<mainVars, tenantLeft, subVars, record, history>>

\* close(entraDone), deferred.
CloseEntra ==
    /\ tenantPhase = "unwinding" \/ (tenantPhase = "running" /\ tenantLeft = {})
    /\ tenantPhase' = "closed"
    /\ UNCHANGED <<mainVars, tenantLeft, subVars, record, history>>

-----------------------------------------------------------------------------
(* A subscription. *)

Goto(s, p) == sub' = [sub EXCEPT ![s] = p]

\* The goroutine of s ends and gives its slot back.
Leave(s) == Goto(s, "over") /\ subFree' = subFree + 1

\* sem.Acquire; on a context that ended the goroutine returns without a word.
Acquire(s) ==
    /\ main = "fanout" /\ sub[s] = "waiting"
    /\ \/ /\ subFree > 0
          /\ Goto(s, "probing") /\ subFree' = subFree - 1
          /\ UNCHANGED lost
       \/ /\ cancelled
          /\ Goto(s, "over") /\ Lose(s)
          /\ UNCHANGED subFree
    /\ UNCHANGED <<mainVars, tenantVars, todo, running, unresolved, svcFree, record,
                   builtins, authorized, early>>

\* How the list of resource groups and the probe of the providers can end, each
\* in a goroutine of its own.  "cut", "partial": a page came, then an error or a
\* refusal.  A panic of the list is like "fault": listed is lost with it.
Lists == {"listed", "partial", "denied", "cut", "fault"}
Probes == {"answered", "unauthorized", "fault", "panicked"}
Listed(rg) == rg \in {"listed", "partial", "cut"}

\* subscriptionUnreachable: a 401 of the probe, and nothing listed.
Unreachable(rg, rp) == rp = "unauthorized" /\ ~Listed(rg)

\* preWG.Wait: refused, or the services start but those whose provider is off.
Probe(s, rg, rp, off) ==
    /\ sub[s] = "probing"
    /\ off # {} => rp = "answered"
    /\ IF Unreachable(rg, rp)
       THEN Leave(s) /\ UNCHANGED todo
       ELSE Goto(s, "services") /\ todo' = [todo EXCEPT ![s] = Services \ off] /\ UNCHANGED subFree
    /\ errors' = IF rg \in {"cut", "fault"} \/ rp = "panicked" \/ Unreachable(rg, rp)
                 THEN errors \cup {s} ELSE errors
    /\ warned' = (\/ warned \/ rg \in {"partial", "denied"} \/ rp = "fault"
                  \/ (rp = "unauthorized" /\ ~Unreachable(rg, rp)))
    /\ lost' = IF rg \in {"cut", "fault"} \/ Unreachable(rg, rp) THEN lost \cup {s} ELSE lost
    /\ UNCHANGED <<mainVars, tenantVars, running, unresolved, svcFree,
                   builtins, authorized, early>>

ServiceStarts(s, v) ==
    /\ v \in todo[s]
    /\ todo' = [todo EXCEPT ![s] = @ \ {v}]
    /\ \/ /\ svcFree[s] > 0
          /\ running' = [running EXCEPT ![s] = @ \cup {v}]
          /\ svcFree' = [svcFree EXCEPT ![s] = @ - 1]
          /\ UNCHANGED lost
       \/ /\ cancelled /\ Lose(s)
          /\ UNCHANGED <<running, svcFree>>
    /\ UNCHANGED <<mainVars, tenantVars, sub, unresolved, subFree, record,
                   builtins, authorized, early>>

\* The goroutine of the service ends and gives its slot back.
ServiceLeaves(s, v) ==
    /\ v \in running[s]
    /\ running' = [running EXCEPT ![s] = @ \ {v}]
    /\ svcFree' = [svcFree EXCEPT ![s] = @ + 1]

\* The service returns.  The per-subscription scan of the built-in definitions
\* leaves them to the tenant service when there is a tenant id.
ServiceEnds(s, v, how) ==
    /\ ServiceLeaves(s, v)
    /\ Report(s, how)
    /\ IF v = Builtin /\ how = "ok"
       THEN /\ authorized' = authorized \cup {s}
            /\ builtins' = IF tenantKnown THEN builtins ELSE builtins \cup {s}
       ELSE UNCHANGED <<authorized, builtins>>
    /\ UNCHANGED <<mainVars, tenantVars, sub, todo, unresolved, subFree, early>>

\* It panics: the deferred calls give the slot back, then report.
ServicePanics(s, v) ==
    /\ ServiceLeaves(s, v)
    /\ Error(s) /\ Lose(s)
    /\ UNCHANGED <<mainVars, tenantVars, sub, todo, unresolved, subFree, warned,
                   builtins, authorized, early>>

\* wg.Wait of the services, then the API resolver.  Its panic unwinds
\* scanSubscription: this subscription derives no edges.
ApiResolve(s, how) ==
    /\ sub[s] = "services"
    /\ todo[s] = {} /\ running[s] = {}
    /\ \/ how = "panicked" /\ Leave(s)
       \/ how # "panicked" /\ Goto(s, "gate") /\ UNCHANGED subFree
    /\ IF how = "ok" THEN UNCHANGED <<errors, lost>> ELSE Error(s) /\ Lose(s)
    /\ UNCHANGED <<mainVars, tenantVars, todo, running, unresolved, svcFree,
                   warned, builtins, authorized, early>>

\* Resolution of s starts; is the tenant phase over?
StartResolving(s) ==
    /\ sub[s] = "gate" /\ Goto(s, "resolving")
    /\ unresolved' = [unresolved EXCEPT ![s] = Resolvers]
    /\ early' = IF tenantPhase = "closed" THEN early ELSE early \cup {s}
    /\ UNCHANGED <<mainVars, tenantVars, todo, running, subFree, svcFree, record, lost,
                   builtins, authorized>>

\* waitForTenant: entraDone, or the end of the context.
WaitForTenant(s) == (tenantPhase = "closed" \/ cancelled) /\ StartResolving(s)

\* A resolver runs and flushes its edges; either may fail, and it may panic.
Resolve(s, r, how) ==
    /\ r \in unresolved[s]
    /\ unresolved' = [unresolved EXCEPT ![s] = @ \ {r}]
    /\ Report(s, how)
    /\ UNCHANGED <<mainVars, tenantVars, sub, todo, running, subFree, svcFree,
                   builtins, authorized, early>>

SubEnds(s) ==
    /\ sub[s] = "resolving" /\ unresolved[s] = {}
    /\ Leave(s)
    /\ UNCHANGED <<mainVars, tenantVars, todo, running, unresolved, svcFree, record, history>>

-----------------------------------------------------------------------------
Init ==
    /\ wif \in Contracts
    /\ main = "start" /\ tenantKnown = FALSE /\ cancelled = FALSE
    /\ tenantPhase = "accounting" /\ tenantLeft = {}
    /\ sub = [s \in Subs |-> "waiting"]
    /\ todo = [s \in Subs |-> {}] /\ running = [s \in Subs |-> {}]
    /\ unresolved = [s \in Subs |-> {}]
    /\ subFree = SubSlots /\ svcFree = [s \in Subs |-> SvcSlots]
    /\ errors = {} /\ warned = FALSE
    /\ lost = {}
    /\ builtins = {} /\ authorized = {} /\ early = {}

MainStep ==
    \/ \E known \in BOOLEAN : ResolveTenant(known)
    \/ Join
    \/ \E how \in {"ok", "warned", "fault"} : Stitch(how)

TenantStep ==
    \/ Account
    \/ \E i \in DOMAIN TenantOrder :
          \/ \E how \in {"ok", "warned", "fault"} : TenantService(i, how)
          \/ TenantPanics(i)
    \/ CloseEntra

SubStep(s) ==
    \/ Acquire(s)
    \/ \E rg \in Lists, rp \in Probes, off \in SUBSET Services : Probe(s, rg, rp, off)
    \/ \E how \in {"ok", "fault", "panicked"} : ApiResolve(s, how)
    \/ WaitForTenant(s)
    \/ \E r \in Resolvers, how \in {"ok", "fault"} : Resolve(s, r, how)
    \/ SubEnds(s)

ServiceStep(s, v) ==
    \/ ServiceStarts(s, v)
    \/ \E how \in Outcomes : ServiceEnds(s, v, how)
    \/ ServicePanics(s, v)

Next ==
    \/ MainStep \/ TenantStep \/ Cancel
    \/ \E s \in Subs : SubStep(s) \/ \E v \in Services : ServiceStep(s, v)

Spec == Init /\ [][Next]_vars

-----------------------------------------------------------------------------
(* Type invariant. *)

\* Every variable holds the values the code's types allow.
TypeOK ==
    /\ wif \in Contracts
    /\ main \in {"start", "fanout", "stitch", "over"}
    /\ tenantKnown \in BOOLEAN /\ cancelled \in BOOLEAN
    /\ tenantPhase \in {"accounting", "running", "unwinding", "closed"}
    /\ tenantLeft \subseteq DOMAIN TenantOrder
    /\ sub \in [Subs -> Working \cup {"waiting", "over"}]
    /\ todo \in [Subs -> SUBSET Services] /\ running \in [Subs -> SUBSET Services]
    /\ unresolved \in [Subs -> SUBSET Resolvers]
    /\ subFree \in Nat /\ svcFree \in [Subs -> Nat]
    /\ errors \subseteq Scopes /\ warned \in BOOLEAN
    /\ lost \subseteq Scopes
    /\ builtins \subseteq Scopes /\ authorized \subseteq Subs /\ early \subseteq Subs

(* Safety. *)

\* Slots are neither lost nor made up, whichever way a goroutine ends: refused,
\* broken off by a panic, cancelled or done.
SlotsBalance ==
    /\ subFree + Cardinality({s \in Subs : sub[s] \in Working}) = SubSlots
    /\ \A s \in Subs : svcFree[s] + Cardinality(running[s]) = SvcSlots

\* Everybody is back before the hierarchy is stitched: no service, resolver or
\* tenant service of the scan still runs, however the others ended.
NobodyLeftBehind ==
    main \in {"stitch", "over"} =>
        /\ tenantPhase = "closed"
        /\ \A s \in Subs : /\ sub[s] = "over"
                           /\ todo[s] \cup running[s] \cup unresolved[s] = {}

\* A scan that was not cancelled and reported nothing is complete: its edges were
\* derived after the principals were written, and it stored the built-in
\* definitions if any subscription could list them.
QuietMeansComplete ==
    main = "over" /\ ~cancelled /\ errors = {} /\ ~warned =>
        /\ early = {} /\ lost = {}
        /\ authorized # {} => builtins # {}

(* The inductive invariant. *)

\* Where the goroutines are, against the main one.
Phased ==
    /\ main = "start" => tenantPhase = "accounting" /\ \A s \in Subs : sub[s] = "waiting"
    /\ main \in {"stitch", "over"} => tenantPhase = "closed" /\ \A s \in Subs : sub[s] = "over"
    /\ \A s \in Subs : /\ sub[s] # "services" => todo[s] = {} /\ running[s] = {}
                       /\ sub[s] # "resolving" => unresolved[s] = {}
                       /\ todo[s] \cap running[s] = {}

\* Nothing is left out silently but by a cancelled scan.
Accounted == ~cancelled => lost \subseteq errors /\ early = {}

\* The tenant service and the subscriptions do not both leave the built-in
\* definitions to the other.
Entrusted ==
    /\ tenantKnown => wif = "none"
    /\ main = "start" => authorized = {}
    /\ authorized # {} /\ ~tenantKnown => builtins # {}
    /\ tenantPhase = "unwinding" => errors # {}
    /\ tenantPhase = "closed" /\ errors = {} => tenantLeft = {}
    /\ tenantPhase \in {"running", "closed"} /\ tenantKnown /\ errors = {} /\ ~warned =>
         \A i \in DOMAIN TenantOrder \ tenantLeft :
             TenantOrder[i] = Builtin => Tenant \in builtins

\* The inductive invariant of the proofs.
DispatchInv == TypeOK /\ Phased /\ SlotsBalance /\ Accounted /\ Entrusted
=============================================================================
