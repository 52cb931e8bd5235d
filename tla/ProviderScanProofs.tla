-------------------------- MODULE ProviderScanProofs --------------------------
(***************************************************************************)
(* Proofs about the dispatchers of AWS and GCP, the scan of one service    *)
(* and the credential of Azure, for every value of their constants.        *)
(***************************************************************************)
EXTENDS AwsDispatch, GcpDispatch, ServiceScan, TokenRetry, FiniteSetTheorems, TLAPS

-----------------------------------------------------------------------------
(* ScanCalls. *)

(* The ladder owns up to whatever an error may wrap, however many marks it has. *)
LEMMA LadderOwnsUp ==
  ASSUME NEW how \in Outcomes
  PROVE  Told(how)
<1>1. CASE how = OK
  <2>1. "store" \notin how
    BY <1>1 DEF OK
  <2> QED
    BY <1>1, <2>1 DEF Told
<1>2. CASE how # OK
  BY <1>2 DEF Told, Ladder
<1> QED
  BY <1>1, <1>2

-----------------------------------------------------------------------------
(* AwsDispatch. *)

AwsAllVars == <<cancelled, awsVars>>
AwsStep == AwsNext \/ (Cancel /\ UNCHANGED awsVars)

(***************************************************************************)
(* The inductive invariant: the types without the bounds of the counters,  *)
(* which the balance of the slots gives; what may be on its way in which   *)
(* stage; that nothing waits and runs at once; and which account a silent  *)
(* miss belongs to.                                                        *)
(***************************************************************************)
AwsShaped ==
    /\ account \in 1 .. Accounts
    /\ stage \in {"start", "probe", "catalog", "join", "resolve", "over"}
    /\ kept \subseteq Regions /\ listed \subseteq Regionals
    /\ waiting \subseteq Tasks /\ running \subseteq Tasks
    /\ queued \subseteq Regions /\ open \subseteq Regions
    /\ globalFree \in Nat /\ regionFree \in Nat /\ serviceFree \in [Regions -> Nat]
    /\ unresolved \subseteq Resolvers

InStage ==
    /\ stage \in {"start", "resolve", "over"} => waiting = {} /\ running = {}
    /\ stage # "join" => queued = {} /\ open = {}

Disjoint ==
    /\ waiting \intersect running = {}
    /\ queued \intersect open = {}
    /\ \A c \in waiting \union running : c[2] # Everywhere => c[2] \in open

Misses ==
    /\ \A m \in silent : m[1] \in 1 .. account
    /\ ~cancelled /\ stage \in {"start", "probe", "catalog"} => \A m \in silent : m[1] # account

AwsInv == AwsShaped /\ InStage /\ Disjoint /\ AwsSlotsBalance /\ Misses /\ AwsMissesAreNamed

(* The steps of Next, for the case distinctions below. *)
LEMMA AwsStepCases ==
  ASSUME NEW P,
         StartGlobals => P,
         \A enabled \in SUBSET Regions, how \in {OK, {}} : ProbeRegions(enabled, how) => P,
         \A got \in SUBSET Regionals : ReadCatalog(got) => P,
         Join => P,
         \A r \in Resolvers : Resolve(r) => P,
         NextAccount => P, LoadFails => P,
         \A r \in Regions : OpenRegion(r) => P,
         \A r \in Regions : DropRegion(r) => P,
         \A r \in Regions : CloseRegion(r) => P,
         \A c \in Tasks : ServiceStarts(c) => P,
         \A c \in Tasks : ServiceDropped(c) => P,
         \A c \in Tasks, how \in Outcomes : ServiceEnds(c, how) => P,
         Cancel /\ UNCHANGED awsVars => P,
         UNCHANGED AwsAllVars => P
  PROVE  [AwsStep]_AwsAllVars => P
BY DEF AwsStep, AwsNext, AccountStep, RegionStep, TaskStep

LEMMA ShapedInit == AwsInit => AwsShaped
BY AwsAssumption DEF AwsInit, AwsShaped

(* A slot is taken from a lane that has one, or given back. *)
LEMMA SlotShape ==
  ASSUME AwsShaped, NEW c \in Tasks, NEW by \in {-1, 1}, Slot(c, by), by = 1 \/ FreeFor(c)
  PROVE  globalFree' \in Nat /\ regionFree' \in Nat /\ serviceFree' \in [Regions -> Nat]
<1> USE AwsAssumption DEF AwsShaped
<1>1. CASE c[2] = Everywhere
  BY <1>1 DEF Slot, FreeFor
<1>2. CASE c[2] # Everywhere
  <2>1. c[2] \in Regions
    BY <1>2 DEF Tasks
  <2>2. serviceFree' = [serviceFree EXCEPT ![c[2]] = @ + by]
    BY <1>2 DEF Slot
  <2>3. serviceFree[c[2]] + by \in Nat
    BY <1>2, <2>1 DEF FreeFor
  <2> QED
    BY <1>2, <2>1, <2>2, <2>3 DEF Slot
<1> QED
  BY <1>1, <1>2

LEMMA AwsShapedStep == AwsShaped /\ [AwsStep]_AwsAllVars => AwsShaped'
<1> SUFFICES ASSUME AwsShaped PROVE [AwsStep]_AwsAllVars => AwsShaped'
  OBVIOUS
<1> USE AwsAssumption DEF slots, callVars, awsVars, AwsAllVars
<1>1. StartGlobals => AwsShaped'
  BY DEF StartGlobals, AwsShaped, Tasks
<1>2. \A enabled \in SUBSET Regions, how \in {OK, {}} : ProbeRegions(enabled, how) => AwsShaped'
  BY DEF ProbeRegions, AwsShaped
<1>3. \A got \in SUBSET Regionals : ReadCatalog(got) => AwsShaped'
  BY DEF ReadCatalog, AwsShaped
<1>4. Join => AwsShaped'
  BY DEF Join, AwsShaped
<1>5. \A r \in Resolvers : Resolve(r) => AwsShaped'
  BY DEF Resolve, AwsShaped
<1>6. NextAccount => AwsShaped'
  BY DEF NextAccount, AwsShaped
<1>7. LoadFails => AwsShaped'
  BY DEF LoadFails, AwsShaped
<1>8. \A r \in Regions : OpenRegion(r) => AwsShaped'
  BY DEF OpenRegion, AwsShaped, Tasks
<1>9. \A r \in Regions : DropRegion(r) => AwsShaped'
  BY DEF DropRegion, AwsShaped
<1>10. \A r \in Regions : CloseRegion(r) => AwsShaped'
  BY DEF CloseRegion, AwsShaped
<1>11. ASSUME NEW c \in Tasks, ServiceStarts(c) PROVE AwsShaped'
  <2>1. globalFree' \in Nat /\ regionFree' \in Nat /\ serviceFree' \in [Regions -> Nat]
    BY <1>11, SlotShape DEF ServiceStarts
  <2> QED
    BY <1>11, <2>1 DEF ServiceStarts, AwsShaped
<1>12. \A c \in Tasks : ServiceDropped(c) => AwsShaped'
  BY DEF ServiceDropped, AwsShaped
<1>13. ASSUME NEW c \in Tasks, NEW how \in Outcomes, ServiceEnds(c, how) PROVE AwsShaped'
  <2>1. globalFree' \in Nat /\ regionFree' \in Nat /\ serviceFree' \in [Regions -> Nat]
    BY <1>13, SlotShape DEF ServiceEnds
  <2> QED
    BY <1>13, <2>1 DEF ServiceEnds, AwsShaped
<1>14. (Cancel /\ UNCHANGED awsVars) \/ UNCHANGED AwsAllVars => AwsShaped'
  BY DEF AwsShaped
<1> QED
  BY <1>1, <1>2, <1>3, <1>4, <1>5, <1>6, <1>7, <1>8, <1>9, <1>10, <1>11, <1>12, <1>13, <1>14,
     AwsStepCases

(* Each step keeps to its stage. *)
LEMMA InStageStep == AwsShaped /\ InStage /\ [AwsStep]_AwsAllVars => InStage'
<1> SUFFICES ASSUME AwsShaped, InStage PROVE [AwsStep]_AwsAllVars => InStage'
  OBVIOUS
<1> USE DEF slots, callVars, awsVars, AwsAllVars, AwsShaped, InStage
<1>1. StartGlobals => InStage'
  BY DEF StartGlobals
<1>2. \A enabled \in SUBSET Regions, how \in {OK, {}} : ProbeRegions(enabled, how) => InStage'
  BY DEF ProbeRegions
<1>3. \A got \in SUBSET Regionals : ReadCatalog(got) => InStage'
  BY DEF ReadCatalog
<1>4. Join => InStage'
  BY DEF Join
<1>5. \A r \in Resolvers : Resolve(r) => InStage'
  BY DEF Resolve
<1>6. NextAccount => InStage'
  BY DEF NextAccount
<1>7. LoadFails => InStage'
  BY DEF LoadFails
<1>8. \A r \in Regions : OpenRegion(r) => InStage'
  BY DEF OpenRegion
<1>9. \A r \in Regions : DropRegion(r) => InStage'
  BY DEF DropRegion
<1>10. \A r \in Regions : CloseRegion(r) => InStage'
  BY DEF CloseRegion
<1>11. \A c \in Tasks : ServiceStarts(c) => InStage'
  BY DEF ServiceStarts
<1>12. \A c \in Tasks : ServiceDropped(c) => InStage'
  BY DEF ServiceDropped
<1>13. \A c \in Tasks, how \in Outcomes : ServiceEnds(c, how) => InStage'
  BY DEF ServiceEnds
<1>14. (Cancel /\ UNCHANGED awsVars) \/ UNCHANGED AwsAllVars => InStage'
  OBVIOUS
<1> QED
  BY <1>1, <1>2, <1>3, <1>4, <1>5, <1>6, <1>7, <1>8, <1>9, <1>10, <1>11, <1>12, <1>13, <1>14,
     AwsStepCases

(* A task waits or runs, and a regional one only while its region is open. *)
LEMMA DisjointStep == AwsShaped /\ InStage /\ Disjoint /\ [AwsStep]_AwsAllVars => Disjoint'
<1> SUFFICES ASSUME AwsShaped, InStage, Disjoint PROVE [AwsStep]_AwsAllVars => Disjoint'
  OBVIOUS
<1> USE AwsAssumption DEF slots, callVars, awsVars, AwsAllVars, AwsShaped, InStage, Disjoint
<1>1. StartGlobals => Disjoint'
  BY DEF StartGlobals
<1>2. \A enabled \in SUBSET Regions, how \in {OK, {}} : ProbeRegions(enabled, how) => Disjoint'
  BY DEF ProbeRegions
<1>3. \A got \in SUBSET Regionals : ReadCatalog(got) => Disjoint'
  BY DEF ReadCatalog
<1>4. Join => Disjoint'
  BY DEF Join
<1>5. \A r \in Resolvers : Resolve(r) => Disjoint'
  BY DEF Resolve
<1>6. NextAccount => Disjoint'
  BY DEF NextAccount
<1>7. LoadFails => Disjoint'
  BY DEF LoadFails
<1>8. ASSUME NEW r \in Regions, OpenRegion(r) PROVE Disjoint'
  <2>1. PICK on \in SUBSET Regionals : waiting' = waiting \union (on \X {r})
    BY <1>8 DEF OpenRegion
  <2>2. r \notin open /\ r # Everywhere
    BY <1>8 DEF OpenRegion
  <2>3. \A c \in on \X {r} : c[2] = r
    OBVIOUS
  <2>4. waiting' \intersect running' = {}
    BY <1>8, <2>1, <2>2, <2>3 DEF OpenRegion
  <2> QED
    BY <1>8, <2>1, <2>3, <2>4 DEF OpenRegion
<1>9. \A r \in Regions : DropRegion(r) => Disjoint'
  BY DEF DropRegion
<1>10. \A r \in Regions : CloseRegion(r) => Disjoint'
  BY DEF CloseRegion, In
<1>11. \A c \in Tasks : ServiceStarts(c) => Disjoint'
  BY DEF ServiceStarts
<1>12. \A c \in Tasks : ServiceDropped(c) => Disjoint'
  BY DEF ServiceDropped
<1>13. \A c \in Tasks, how \in Outcomes : ServiceEnds(c, how) => Disjoint'
  BY DEF ServiceEnds
<1>14. (Cancel /\ UNCHANGED awsVars) \/ UNCHANGED AwsAllVars => Disjoint'
  OBVIOUS
<1> QED
  BY <1>1, <1>2, <1>3, <1>4, <1>5, <1>6, <1>7, <1>8, <1>9, <1>10, <1>11, <1>12, <1>13, <1>14,
     AwsStepCases

LEMMA TasksFinite == IsFiniteSet(Tasks)
<1>1. IsFiniteSet({Everywhere})
  BY FS_Singleton
<1>2. IsFiniteSet(Globals \X {Everywhere}) /\ IsFiniteSet(Regionals \X Regions)
  BY <1>1, AwsAssumption, FS_Product
<1> QED
  BY <1>2, FS_Union DEF Tasks

(* A task more or less in a lane. *)
LEMMA LaneCount ==
  ASSUME NEW S \in SUBSET Tasks, NEW c \in Tasks, NEW r
  PROVE  /\ Cardinality(In(r, S)) \in Nat
         /\ c \notin S => Cardinality(In(r, S \union {c})) =
                              Cardinality(In(r, S)) + (IF c[2] = r THEN 1 ELSE 0)
         /\ c \in S => Cardinality(In(r, S \ {c})) =
                              Cardinality(In(r, S)) - (IF c[2] = r THEN 1 ELSE 0)
<1> DEFINE L == In(r, S)
<1>1. IsFiniteSet(L)
  BY TasksFinite, FS_Subset DEF In
<1>2. Cardinality(L) \in Nat
  BY <1>1, FS_CardinalityType
<1>3. ASSUME c \notin S
      PROVE  Cardinality(In(r, S \union {c})) = Cardinality(L) + (IF c[2] = r THEN 1 ELSE 0)
  <2>1. CASE c[2] = r
    <3>1. In(r, S \union {c}) = L \union {c} /\ c \notin L
      BY <1>3, <2>1 DEF In
    <3> QED
      BY <1>1, <2>1, <3>1, FS_AddElement
  <2>2. CASE c[2] # r
    <3>1. In(r, S \union {c}) = L
      BY <2>2 DEF In
    <3> QED
      BY <1>2, <2>2, <3>1
  <2> QED
    BY <2>1, <2>2
<1>4. ASSUME c \in S
      PROVE  Cardinality(In(r, S \ {c})) = Cardinality(L) - (IF c[2] = r THEN 1 ELSE 0)
  <2>1. CASE c[2] = r
    <3>1. In(r, S \ {c}) = L \ {c} /\ c \in L
      BY <1>4, <2>1 DEF In
    <3>2. Cardinality(L \ {c}) = Cardinality(L) - 1
      BY <1>1, <3>1, FS_RemoveElement
    <3> QED
      BY <2>1, <3>1, <3>2
  <2>2. CASE c[2] # r
    <3>1. In(r, S \ {c}) = L
      BY <2>2 DEF In
    <3> QED
      BY <1>2, <2>2, <3>1
  <2> QED
    BY <2>1, <2>2
<1> QED
  BY <1>2, <1>3, <1>4

(* A slot changes hands with a task. *)
LEMMA SlotBalance ==
  ASSUME AwsShaped, AwsSlotsBalance, NEW c \in Tasks, NEW by \in {-1, 1}, Slot(c, by),
         UNCHANGED open,
         \/ by = -1 /\ c \notin running /\ running' = running \union {c}
         \/ by = 1 /\ c \in running /\ running' = running \ {c}
  PROVE  AwsSlotsBalance'
<1> USE AwsAssumption
<1>1. \A r : /\ Cardinality(In(r, running)) \in Nat
             /\ Cardinality(In(r, running)') =
                   Cardinality(In(r, running)) - (IF c[2] = r THEN by ELSE 0)
  <2> TAKE r
  <2>1. running \in SUBSET Tasks
    BY DEF AwsShaped
  <2>2. In(r, running)' = In(r, running')
    BY DEF In
  <2>3. Cardinality(In(r, running)) \in Nat
    BY <2>1, LaneCount
  <2>4. CASE by = -1
    <3>1. c \notin running /\ running' = running \union {c}
      BY <2>4
    <3>2. Cardinality(In(r, running')) = Cardinality(In(r, running)) + (IF c[2] = r THEN 1 ELSE 0)
      BY <2>1, <3>1, LaneCount
    <3> QED
      BY <2>2, <2>3, <2>4, <3>2
  <2>5. CASE by = 1
    <3>1. c \in running /\ running' = running \ {c}
      BY <2>5
    <3>2. Cardinality(In(r, running')) = Cardinality(In(r, running)) - (IF c[2] = r THEN 1 ELSE 0)
      BY <2>1, <3>1, LaneCount
    <3> QED
      BY <2>2, <2>3, <2>5, <3>2
  <2> QED
    BY <2>4, <2>5
<1>2. \A r \in Regions : r # Everywhere
  OBVIOUS
<1>3. globalFree' = globalFree + (IF c[2] = Everywhere THEN by ELSE 0)
  BY DEF Slot, AwsShaped
<1>4. \A r \in Regions : serviceFree'[r] = serviceFree[r] + (IF c[2] = r THEN by ELSE 0)
  <2>1. CASE c[2] = Everywhere
    BY <1>2, <2>1 DEF Slot, AwsShaped
  <2>2. CASE c[2] # Everywhere
    <3>1. serviceFree' = [serviceFree EXCEPT ![c[2]] = @ + by]
      BY <2>2 DEF Slot
    <3> QED
      BY <2>2, <3>1 DEF AwsShaped
  <2> QED
    BY <2>1, <2>2
<1>5. globalFree' + Cardinality(In(Everywhere, running)') = GlobalSlots
  BY <1>1, <1>3 DEF AwsSlotsBalance, AwsShaped
<1>6. \A r \in Regions : serviceFree'[r] + Cardinality(In(r, running)') = ServiceSlots
  <2> TAKE r \in Regions
  <2>1. serviceFree[r] \in Nat /\ serviceFree[r] + Cardinality(In(r, running)) = ServiceSlots
    BY DEF AwsSlotsBalance, AwsShaped
  <2> QED
    BY <1>1, <1>4, <2>1
<1>7. regionFree' + Cardinality(open') = RegionSlots
  BY DEF AwsSlotsBalance, Slot
<1> QED
  BY <1>5, <1>6, <1>7 DEF AwsSlotsBalance

LEMMA BalanceStep == AwsShaped /\ Disjoint /\ AwsSlotsBalance /\ [AwsStep]_AwsAllVars => AwsSlotsBalance'
<1> SUFFICES ASSUME AwsShaped, Disjoint, AwsSlotsBalance PROVE [AwsStep]_AwsAllVars => AwsSlotsBalance'
  OBVIOUS
<1> USE AwsAssumption DEF slots, callVars, awsVars, AwsAllVars
<1>1. UNCHANGED <<running, open, slots>> => AwsSlotsBalance'
  BY DEF AwsSlotsBalance, In
<1>2. IsFiniteSet(open) /\ Cardinality(open) \in Nat
  BY FS_Subset, FS_CardinalityType DEF AwsShaped
<1>3. ASSUME NEW r \in Regions, OpenRegion(r) PROVE AwsSlotsBalance'
  <2>1. r \notin open
    BY <1>3 DEF OpenRegion, Disjoint
  <2>2. Cardinality(open') = Cardinality(open) + 1
    BY <1>2, <1>3, <2>1, FS_AddElement DEF OpenRegion
  <2>3. regionFree' + Cardinality(open') = RegionSlots
    BY <1>2, <1>3, <2>2 DEF OpenRegion, AwsSlotsBalance, AwsShaped
  <2> QED
    BY <1>3, <2>3 DEF OpenRegion, AwsSlotsBalance, In
<1>4. ASSUME NEW r \in Regions, CloseRegion(r) PROVE AwsSlotsBalance'
  <2>1. Cardinality(open') = Cardinality(open) - 1
    BY <1>2, <1>4, FS_RemoveElement DEF CloseRegion
  <2>2. regionFree' + Cardinality(open') = RegionSlots
    BY <1>2, <1>4, <2>1 DEF CloseRegion, AwsSlotsBalance, AwsShaped
  <2> QED
    BY <1>4, <2>2 DEF CloseRegion, AwsSlotsBalance, In
<1>5. ASSUME NEW c \in Tasks, ServiceStarts(c) PROVE AwsSlotsBalance'
  BY <1>5, SlotBalance DEF ServiceStarts, Disjoint
<1>6. ASSUME NEW c \in Tasks, NEW how \in Outcomes, ServiceEnds(c, how) PROVE AwsSlotsBalance'
  BY <1>6, SlotBalance DEF ServiceEnds
<1>7. StartGlobals => AwsSlotsBalance'
  BY <1>1 DEF StartGlobals
<1>8. \A enabled \in SUBSET Regions, how \in {OK, {}} :
         ProbeRegions(enabled, how) => AwsSlotsBalance'
  BY <1>1 DEF ProbeRegions
<1>9. \A got \in SUBSET Regionals : ReadCatalog(got) => AwsSlotsBalance'
  BY <1>1 DEF ReadCatalog
<1>10. Join \/ NextAccount \/ LoadFails => AwsSlotsBalance'
  BY <1>1 DEF Join, NextAccount, LoadFails
<1>11. \A r \in Resolvers : Resolve(r) => AwsSlotsBalance'
  BY <1>1 DEF Resolve
<1>12. \A r \in Regions : DropRegion(r) => AwsSlotsBalance'
  BY <1>1 DEF DropRegion
<1>13. \A c \in Tasks : ServiceDropped(c) => AwsSlotsBalance'
  BY <1>1 DEF ServiceDropped
<1>14. (Cancel /\ UNCHANGED awsVars) \/ UNCHANGED AwsAllVars => AwsSlotsBalance'
  BY <1>1
<1> QED
  BY <1>3, <1>4, <1>5, <1>6, <1>7, <1>8, <1>9, <1>10, <1>11, <1>12, <1>13, <1>14, AwsStepCases

(* No call is lost in silence but the ones left out. *)
LEMMA CallsAreNamed ==
  ASSUME NEW c, NEW how \in Outcomes, CallEnds(c, how)
  PROVE  silent' = silent /\ cancelled' = cancelled
BY LadderOwnsUp DEF CallEnds, LeftOut

(* What a region skips although the service is offered there. *)
LEMMA SkippedByTable ==
  ASSUME NEW r \in Regions, OpenRegion(r)
  PROVE  /\ cancelled' = cancelled
         /\ \A m \in silent' \ silent :
              /\ m[1] = account /\ m[2] \in Regionals \ Unlisted
              /\ m[3] \notin Shipped[m[2]] /\ m[2] \notin listed
<1> DEFINE on == {v \in Regionals : Scoped => Available(v, r)}
           out == {<<account, v, r>> : v \in {u \in Regionals \ on : r \in Offered[u]}}
<1>1. silent' = silent \union out /\ cancelled' = cancelled
  BY DEF OpenRegion, LeftOut
<1>2. ASSUME NEW v \in Regionals, v \notin on, r \in Offered[v]
      PROVE  v \notin Unlisted /\ r \notin Shipped[v] /\ v \notin listed
  BY <1>2 DEF Available
<1>3. \A m \in out : /\ m[1] = account /\ m[2] \in Regionals \ Unlisted
                     /\ m[3] \notin Shipped[m[2]] /\ m[2] \notin listed
  BY <1>2
<1> QED
  BY <1>1, <1>3

LEMMA MissesStep ==
  AwsShaped /\ InStage /\ Misses /\ AwsMissesAreNamed /\ [AwsStep]_AwsAllVars
    => Misses' /\ AwsMissesAreNamed'
<1> SUFFICES ASSUME AwsShaped, InStage, Misses, AwsMissesAreNamed
             PROVE  [AwsStep]_AwsAllVars => Misses' /\ AwsMissesAreNamed'
  OBVIOUS
<1> USE AwsAssumption DEF slots, callVars, awsVars, AwsAllVars, Misses, AwsMissesAreNamed
<1>1. StartGlobals => Misses' /\ AwsMissesAreNamed'
  BY DEF StartGlobals
<1>2. \A enabled \in SUBSET Regions, how \in {OK, {}} :
         ProbeRegions(enabled, how) => Misses' /\ AwsMissesAreNamed'
  BY DEF ProbeRegions
<1>3. \A got \in SUBSET Regionals : ReadCatalog(got) => Misses' /\ AwsMissesAreNamed'
  BY DEF ReadCatalog
<1>4. Join => Misses' /\ AwsMissesAreNamed'
  BY DEF Join
<1>5. \A r \in Resolvers : Resolve(r) => Misses' /\ AwsMissesAreNamed'
  BY DEF Resolve
<1>6. NextAccount => Misses' /\ AwsMissesAreNamed'
  BY DEF NextAccount, AwsShaped
<1>7. LoadFails => Misses' /\ AwsMissesAreNamed'
  BY DEF LoadFails
<1>8. ASSUME NEW r \in Regions, OpenRegion(r) PROVE Misses' /\ AwsMissesAreNamed'
  <2>1. stage = "join" /\ UNCHANGED <<account, stage, listed, cancelled>>
    BY <1>8, SkippedByTable DEF OpenRegion, InStage
  <2>2. account \in 1 .. account
    BY DEF AwsShaped
  <2> QED
    BY <1>8, <2>1, <2>2, SkippedByTable
<1>9. ASSUME NEW r \in Regions, DropRegion(r) PROVE Misses' /\ AwsMissesAreNamed'
  <2>1. /\ cancelled /\ cancelled' = cancelled /\ UNCHANGED account
        /\ \A m \in silent' \ silent : m[1] = account
    BY <1>9 DEF DropRegion, LeftOut
  <2> QED
    BY <2>1 DEF AwsShaped
<1>10. \A r \in Regions : CloseRegion(r) => Misses' /\ AwsMissesAreNamed'
  BY DEF CloseRegion
<1>11. \A c \in Tasks : ServiceStarts(c) => Misses' /\ AwsMissesAreNamed'
  BY DEF ServiceStarts
<1>12. ASSUME NEW c \in Tasks, ServiceDropped(c) PROVE Misses' /\ AwsMissesAreNamed'
  <2>1. /\ cancelled /\ cancelled' = cancelled /\ UNCHANGED account
        /\ \A m \in silent' \ silent : m[1] = account
    BY <1>12 DEF ServiceDropped, LeftOut, TaskOf
  <2> QED
    BY <2>1 DEF AwsShaped
<1>13. ASSUME NEW c \in Tasks, NEW how \in Outcomes, ServiceEnds(c, how)
       PROVE  Misses' /\ AwsMissesAreNamed'
  <2>1. silent' = silent /\ cancelled' = cancelled
    BY <1>13, CallsAreNamed DEF ServiceEnds
  <2> QED
    BY <1>13, <2>1 DEF ServiceEnds
<1>14. (Cancel /\ UNCHANGED awsVars) \/ UNCHANGED AwsAllVars => Misses' /\ AwsMissesAreNamed'
  BY DEF Cancel
<1> QED
  BY <1>1, <1>2, <1>3, <1>4, <1>5, <1>6, <1>7, <1>8, <1>9, <1>10, <1>11, <1>12, <1>13, <1>14,
     AwsStepCases

-----------------------------------------------------------------------------
LEMMA AwsInvInit == AwsInit => AwsInv
<1> SUFFICES ASSUME AwsInit PROVE AwsInv
  OBVIOUS
<1>1. AwsShaped /\ InStage /\ Disjoint /\ Misses /\ AwsMissesAreNamed
  BY AwsAssumption DEF AwsInit, AwsShaped, InStage, Disjoint, Misses, AwsMissesAreNamed
<1>2. \A r : In(r, running) = {}
  BY DEF AwsInit, In
<1>3. \A r : Cardinality(In(r, running)) = 0
  BY <1>2, FS_EmptySet
<1>4. AwsSlotsBalance
  BY <1>3, AwsAssumption, FS_EmptySet DEF AwsInit, AwsSlotsBalance
<1> QED
  BY <1>1, <1>4 DEF AwsInv

THEOREM AwsInvariance == AwsSpec => []AwsInv
<1>1. AwsInv /\ [AwsStep]_AwsAllVars => AwsInv'
  BY AwsShapedStep, InStageStep, DisjointStep, BalanceStep, MissesStep DEF AwsInv
<1> QED
  BY AwsInvInit, <1>1, PTL DEF AwsSpec, AwsStep, AwsAllVars

\* Every variable of an AWS scan stays in its type: a counter of slots below what
\* the semaphore holds.
THEOREM AwsTypes == AwsSpec => []AwsTypeOK
<1>1. AwsInv => AwsTypeOK
  <2> SUFFICES ASSUME AwsInv PROVE AwsTypeOK
    OBVIOUS
  <2>1. AwsShaped /\ AwsSlotsBalance
    BY DEF AwsInv
  <2>2. \A r : Cardinality(In(r, running)) \in Nat
    <3> TAKE r
    <3>1. IsFiniteSet(In(r, running))
      BY <2>1, TasksFinite, FS_Subset DEF In, AwsShaped
    <3> QED
      BY <3>1, FS_CardinalityType
  <2>3. Cardinality(open) \in Nat
    BY <2>1, AwsAssumption, FS_Subset, FS_CardinalityType DEF AwsShaped
  <2>4. globalFree \in 0 .. GlobalSlots /\ regionFree \in 0 .. RegionSlots
    BY <2>1, <2>2, <2>3, AwsAssumption DEF AwsShaped, AwsSlotsBalance
  <2>5. \A r \in Regions : serviceFree[r] \in 0 .. ServiceSlots
    <3> TAKE r \in Regions
    <3>1. serviceFree[r] \in Nat /\ serviceFree[r] + Cardinality(In(r, running)) = ServiceSlots
      BY <2>1 DEF AwsShaped, AwsSlotsBalance
    <3> QED
      BY <2>2, <3>1, AwsAssumption
  <2> QED
    BY <2>1, <2>4, <2>5 DEF AwsShaped, AwsTypeOK
<1> QED
  BY <1>1, AwsInvariance, PTL

\* The three semaphores lose and invent no slot, for any number of accounts,
\* services, regions and slots (scanAccount, scanRegion).
THEOREM AwsSlots == AwsSpec => []AwsSlotsBalance
<1>1. AwsInv => AwsSlotsBalance
  BY DEF AwsInv
<1> QED
  BY <1>1, AwsInvariance, PTL

\* No resolver runs while a service or a region is on its way (scanAccount).
THEOREM AwsResolversRunLast == AwsSpec => []AwsResolvesLast
<1>1. AwsInv => AwsResolvesLast
  BY DEF AwsInv, InStage, AwsResolvesLast
<1> QED
  BY <1>1, AwsInvariance, PTL

\* Without a cancellation only the shipped table hides an offered service, and
\* only one whose catalog entry was not read (serviceAvailableInRegion).
THEOREM AwsMisses == AwsSpec => []AwsMissesAreNamed
<1>1. AwsInv => AwsMissesAreNamed
  BY DEF AwsInv
<1> QED
  BY <1>1, AwsInvariance, PTL

\* All that a run checks of an AWS scan, for any accounts, services, regions and slots.
THEOREM AwsScanIsSafe == AwsSpec => []AwsScanSafe
BY AwsTypes, AwsSlots, AwsResolversRunLast, AwsMisses, PTL DEF AwsScanSafe

-----------------------------------------------------------------------------
(* GcpDispatch. *)

GcpAllVars == <<cancelled, gcpVars>>
GcpStep == GcpNext \/ (Cancel /\ UNCHANGED gcpVars)
ProjectCalls == Projects \X ProjectServices

(***************************************************************************)
(* The inductive invariant: the types without the bound of the counters;   *)
(* what may be left to do in which phase, and whose resolvers have run;    *)
(* that no call waits and runs at once; the balance of the slots, which    *)
(* gives the bound; and that nothing is forgotten, which gives the order.  *)
(***************************************************************************)
GcpShaped ==
    /\ at \in {"load", "org", "projects", "resolve", "over", "failed"}
    /\ orgLeft \subseteq OrgServices
    /\ pending \subseteq ProjectCalls /\ busy \subseteq ProjectCalls
    /\ projectFree \in [Projects -> Nat]
    /\ round \in Projects \union {Org, "none"}
    /\ toResolve \subseteq Projects \union {Org}
    /\ pool \subseteq (IF round = Org THEN OrgResolvers ELSE ProjectResolvers)
    /\ scanned \subseteq ServiceCalls /\ resolved \subseteq ResolverCalls

InPhase ==
    /\ at # "org" => orgLeft = {}
    /\ at # "projects" => pending = {} /\ busy = {}
    /\ at # "resolve" => toResolve = {} /\ pool = {}
    /\ at \notin {"resolve", "over"} => round = "none" /\ resolved = {}
    /\ round = "none" => pool = {}
    /\ round = Org => toResolve = {}
    /\ (\E c \in resolved : c[1] = Org) => round = Org
    /\ pending \intersect busy = {}

ServicesKept ==
    ~cancelled /\ at # "failed" => ServiceCalls \subseteq scanned \union ServicesAhead

ResolversKept ==
    ~cancelled /\ at # "failed" => ResolverCalls \subseteq resolved \union ResolversAhead

GcpInv == GcpShaped /\ InPhase /\ GcpSlotsBalance /\ ServicesKept /\ ResolversKept

(* The steps of GcpNext, for the case distinctions below. *)
LEMMA GcpStepCases ==
  ASSUME NEW P,
         \A scopes \in BOOLEAN : HierarchyDone(scopes) => P,
         \A v \in OrgServices, how \in GcpOutcomes : OrgService(v, how) => P,
         StartProjects => P, JoinProjects => P,
         \A s \in Projects \union {Org} : StartRound(s) => P,
         \A r \in ProjectResolvers \union OrgResolvers : DropResolver(r) => P,
         \A r \in ProjectResolvers \union OrgResolvers : RunResolver(r) => P,
         GcpEnds => P, GcpFails => P,
         \A c \in ProjectCalls : ProjectServiceStarts(c) => P,
         \A c \in ProjectCalls : ProjectServiceDropped(c) => P,
         \A c \in ProjectCalls, how \in GcpOutcomes : ProjectServiceEnds(c, how) => P,
         Cancel /\ UNCHANGED gcpVars => P,
         UNCHANGED GcpAllVars => P
  PROVE  [GcpStep]_GcpAllVars => P
BY DEF GcpStep, GcpNext, GcpMainStep, ProjectStep, ProjectCalls

(* No outcome of a service of GCP goes without a row or a report. *)
LEMMA GcpIsTold ==
  ASSUME NEW c, NEW how \in GcpOutcomes, Scanned(c, how)
  PROVE  scanned' = scanned \union {c}
<1>1. how \in Outcomes
  BY DEF GcpOutcomes, Outcomes
<1> QED
  BY <1>1, LadderOwnsUp DEF Scanned

LEMMA GcpShapedStep == GcpShaped /\ InPhase /\ [GcpStep]_GcpAllVars => GcpShaped'
<1> SUFFICES ASSUME GcpShaped, InPhase PROVE [GcpStep]_GcpAllVars => GcpShaped'
  OBVIOUS
<1> USE GcpAssumption DEF gcpVars, GcpAllVars, heard, GcpShaped
<1>1. ASSUME NEW scopes \in BOOLEAN, HierarchyDone(scopes) PROVE GcpShaped'
  <2>1. scanned' \subseteq ServiceCalls
    BY <1>1 DEF HierarchyDone, ServiceCalls
  <2> QED
    BY <1>1, <2>1 DEF HierarchyDone
<1>2. ASSUME NEW v \in OrgServices, NEW how \in GcpOutcomes, OrgService(v, how) PROVE GcpShaped'
  <2>1. <<Org, v>> \in ServiceCalls
    BY DEF ServiceCalls
  <2>2. scanned' = scanned \union {<<Org, v>>}
    BY <1>2, GcpIsTold DEF OrgService
  <2> QED
    BY <1>2, <2>1, <2>2 DEF OrgService
<1>3. StartProjects \/ JoinProjects \/ GcpEnds \/ GcpFails => GcpShaped'
  BY DEF StartProjects, JoinProjects, GcpEnds, GcpFails, ProjectCalls
<1>4. \A s \in Projects \union {Org} : StartRound(s) => GcpShaped'
  BY DEF StartRound
<1>5. \A r \in ProjectResolvers \union OrgResolvers : DropResolver(r) => GcpShaped'
  BY DEF DropResolver
<1>6. ASSUME NEW r \in ProjectResolvers \union OrgResolvers, RunResolver(r) PROVE GcpShaped'
  <2>1. round # "none"
    BY <1>6 DEF RunResolver, InPhase
  <2>2. <<round, r>> \in ResolverCalls
    BY <1>6, <2>1 DEF RunResolver, ResolverCalls
  <2>3. resolved' \subseteq ResolverCalls
    BY <1>6, <2>2 DEF RunResolver
  <2> QED
    BY <1>6, <2>3 DEF RunResolver
<1>7. ASSUME NEW c \in ProjectCalls, ProjectServiceStarts(c) PROVE GcpShaped'
  <2>1. projectFree' = [projectFree EXCEPT ![c[1]] = @ - 1] /\ c[1] \in Projects
    BY <1>7 DEF ProjectServiceStarts, ProjectCalls
  <2>2. projectFree[c[1]] - 1 \in Nat
    BY <1>7, <2>1 DEF ProjectServiceStarts
  <2>3. projectFree' \in [Projects -> Nat]
    BY <2>1, <2>2
  <2> QED
    BY <1>7, <2>3 DEF ProjectServiceStarts
<1>8. \A c \in ProjectCalls : ProjectServiceDropped(c) => GcpShaped'
  BY DEF ProjectServiceDropped
<1>9. ASSUME NEW c \in ProjectCalls, NEW how \in GcpOutcomes, ProjectServiceEnds(c, how)
      PROVE  GcpShaped'
  <2>1. projectFree' = [projectFree EXCEPT ![c[1]] = @ + 1] /\ c[1] \in Projects
    BY <1>9 DEF ProjectServiceEnds, ProjectCalls
  <2>2. projectFree' \in [Projects -> Nat]
    BY <2>1
  <2>3. scanned' = scanned \union {c} /\ c \in ServiceCalls
    BY <1>9, GcpIsTold DEF ProjectServiceEnds, ProjectCalls, ServiceCalls
  <2> QED
    BY <1>9, <2>2, <2>3 DEF ProjectServiceEnds
<1>10. (Cancel /\ UNCHANGED gcpVars) \/ UNCHANGED GcpAllVars => GcpShaped'
  OBVIOUS
<1> QED
  BY <1>1, <1>2, <1>3, <1>4, <1>5, <1>6, <1>7, <1>8, <1>9, <1>10, GcpStepCases

(* Each step keeps to its phase. *)
LEMMA InPhaseStep == GcpShaped /\ InPhase /\ [GcpStep]_GcpAllVars => InPhase'
<1> SUFFICES ASSUME GcpShaped, InPhase PROVE [GcpStep]_GcpAllVars => InPhase'
  OBVIOUS
<1> USE GcpAssumption DEF gcpVars, GcpAllVars, heard, GcpShaped, InPhase
<1>1. \A scopes \in BOOLEAN : HierarchyDone(scopes) => InPhase'
  BY DEF HierarchyDone
<1>2. \A v \in OrgServices, how \in GcpOutcomes : OrgService(v, how) => InPhase'
  BY DEF OrgService
<1>3. StartProjects \/ JoinProjects \/ GcpEnds \/ GcpFails => InPhase'
  BY DEF StartProjects, JoinProjects, GcpEnds, GcpFails
<1>4. \A s \in Projects \union {Org} : StartRound(s) => InPhase'
  BY DEF StartRound
<1>5. \A r \in ProjectResolvers \union OrgResolvers : DropResolver(r) => InPhase'
  BY DEF DropResolver
<1>6. \A r \in ProjectResolvers \union OrgResolvers : RunResolver(r) => InPhase'
  BY DEF RunResolver
<1>7. \A c \in ProjectCalls : ProjectServiceStarts(c) => InPhase'
  BY DEF ProjectServiceStarts
<1>8. \A c \in ProjectCalls : ProjectServiceDropped(c) => InPhase'
  BY DEF ProjectServiceDropped
<1>9. \A c \in ProjectCalls, how \in GcpOutcomes :
         ProjectServiceEnds(c, how) => InPhase'
  BY DEF ProjectServiceEnds
<1>10. (Cancel /\ UNCHANGED gcpVars) \/ UNCHANGED GcpAllVars => InPhase'
  OBVIOUS
<1> QED
  BY <1>1, <1>2, <1>3, <1>4, <1>5, <1>6, <1>7, <1>8, <1>9, <1>10, GcpStepCases

(* What a step leaves alone is kept as it was. *)
LEMMA ServicesStay ==
  ASSUME ServicesKept, UNCHANGED <<at, orgLeft, pending, busy, scanned>>,
         cancelled => cancelled'
  PROVE  ServicesKept'
BY DEF ServicesKept, ServicesAhead

LEMMA ResolversStay ==
  ASSUME ResolversKept, UNCHANGED <<round, toResolve, pool, resolved>>,
         at' = at \/ {at, at'} \subseteq {"load", "org", "projects"} \/ at' = "failed",
         cancelled => cancelled'
  PROVE  ResolversKept'
BY DEF ResolversKept, ResolversAhead, Resolving

(* A service is to come until it has run or a report names it. *)
LEMMA ServicesKeptStep ==
  GcpShaped /\ InPhase /\ ServicesKept /\ [GcpStep]_GcpAllVars => ServicesKept'
<1> SUFFICES ASSUME GcpShaped, InPhase, ServicesKept PROVE [GcpStep]_GcpAllVars => ServicesKept'
  OBVIOUS
<1> USE DEF gcpVars, GcpAllVars, heard
<1>1. ASSUME NEW scopes \in BOOLEAN, HierarchyDone(scopes) PROVE ServicesKept'
  <2>1. pending' = {} /\ busy' = {} /\ at' = "org"
    BY <1>1 DEF HierarchyDone, InPhase
  <2>2. {Org} \X OrgServices \subseteq scanned' \union ({Org} \X orgLeft')
    BY <1>1 DEF HierarchyDone
  <2> QED
    BY <2>1, <2>2 DEF ServicesKept, ServicesAhead, ServiceCalls
<1>2. ASSUME NEW v \in OrgServices, NEW how \in GcpOutcomes, OrgService(v, how)
      PROVE  ServicesKept'
  <2>1. scanned' = scanned \union {<<Org, v>>}
    BY <1>2, GcpIsTold DEF OrgService
  <2>2. {Org} \X orgLeft \subseteq ({Org} \X orgLeft') \union {<<Org, v>>}
    BY <1>2 DEF OrgService
  <2> QED
    BY <1>2, <2>1, <2>2 DEF OrgService, ServicesKept, ServicesAhead
<1>3. StartProjects => ServicesKept'
  BY DEF StartProjects, InPhase, ServicesKept, ServicesAhead
<1>4. JoinProjects \/ GcpEnds \/ GcpFails => ServicesKept'
  BY DEF JoinProjects, GcpEnds, GcpFails, ServicesKept, ServicesAhead
<1>5. \A s \in Projects \union {Org} : StartRound(s) => ServicesKept'
  BY ServicesStay DEF StartRound
<1>6. \A r \in ProjectResolvers \union OrgResolvers :
         DropResolver(r) \/ RunResolver(r) => ServicesKept'
  BY ServicesStay DEF DropResolver, RunResolver
<1>7. \A c \in ProjectCalls : ProjectServiceStarts(c) => ServicesKept'
  BY DEF ProjectServiceStarts, ServicesKept, ServicesAhead
<1>8. \A c \in ProjectCalls : ProjectServiceDropped(c) => ServicesKept'
  BY DEF ProjectServiceDropped, ServicesKept
<1>9. ASSUME NEW c \in ProjectCalls, NEW how \in GcpOutcomes, ProjectServiceEnds(c, how)
      PROVE  ServicesKept'
  <2>1. scanned' = scanned \union {c}
    BY <1>9, GcpIsTold DEF ProjectServiceEnds
  <2> QED
    BY <1>9, <2>1 DEF ProjectServiceEnds, ServicesKept, ServicesAhead
<1>10. (Cancel /\ UNCHANGED gcpVars) \/ UNCHANGED GcpAllVars => ServicesKept'
  BY ServicesStay DEF Cancel
<1> QED
  BY <1>1, <1>2, <1>3, <1>4, <1>5, <1>6, <1>7, <1>8, <1>9, <1>10, GcpStepCases

(* So is a resolver. *)
LEMMA ResolversKeptStep ==
  GcpShaped /\ InPhase /\ ResolversKept /\ [GcpStep]_GcpAllVars => ResolversKept'
<1> SUFFICES ASSUME GcpShaped, InPhase, ResolversKept
             PROVE  [GcpStep]_GcpAllVars => ResolversKept'
  OBVIOUS
<1> USE DEF gcpVars, GcpAllVars, heard
<1>1. \A scopes \in BOOLEAN : HierarchyDone(scopes) => ResolversKept'
  BY ResolversStay DEF HierarchyDone
<1>2. \A v \in OrgServices, how \in GcpOutcomes : OrgService(v, how) => ResolversKept'
  BY ResolversStay DEF OrgService
<1>3. StartProjects \/ GcpFails => ResolversKept'
  BY ResolversStay DEF StartProjects, GcpFails
<1>4. JoinProjects => ResolversKept'
  <2>1. \A c \in ResolverCalls : c[1] \in Projects \union {Org}
    BY DEF ResolverCalls
  <2> QED
    BY <2>1 DEF JoinProjects, ResolversKept, ResolversAhead
<1>5. GcpEnds => ResolversKept'
  BY DEF GcpEnds, ResolversKept, ResolversAhead, Resolving
<1>6. ASSUME NEW s \in Projects \union {Org}, StartRound(s) PROVE ResolversKept'
  <2>1. /\ at = "resolve" /\ at' = "resolve" /\ UNCHANGED <<cancelled, resolved>>
        /\ pool = {} /\ toResolve' = toResolve \ {s}
    BY <1>6 DEF StartRound
  <2>2. ASSUME NEW c \in ResolverCalls, c[1] = s PROVE c \in Resolving'
    <3>1. round' = s /\ pool' = IF s = Org THEN OrgResolvers ELSE ProjectResolvers
      BY <1>6 DEF StartRound
    <3>2. c[2] \in pool' /\ c = <<s, c[2]>>
      BY <2>2, <3>1, GcpAssumption DEF ResolverCalls
    <3> QED
      BY <3>1, <3>2 DEF Resolving
  <2> QED
    BY <2>1, <2>2 DEF ResolversKept, ResolversAhead, Resolving
<1>7. \A r \in ProjectResolvers \union OrgResolvers : DropResolver(r) => ResolversKept'
  BY DEF DropResolver, ResolversKept
<1>8. ASSUME NEW r \in ProjectResolvers \union OrgResolvers, RunResolver(r) PROVE ResolversKept'
  <2>1. /\ resolved' = resolved \union {<<round, r>>}
        /\ UNCHANGED <<cancelled, at, round, toResolve>> /\ pool' = pool \ {r}
    BY <1>8 DEF RunResolver
  <2>2. Resolving \subseteq Resolving' \union {<<round, r>>}
    BY <2>1 DEF Resolving
  <2> QED
    BY <2>1, <2>2 DEF ResolversKept, ResolversAhead
<1>9. \A c \in ProjectCalls :
         ProjectServiceStarts(c) \/ ProjectServiceDropped(c) => ResolversKept'
  BY ResolversStay DEF ProjectServiceStarts, ProjectServiceDropped
<1>10. \A c \in ProjectCalls, how \in GcpOutcomes : ProjectServiceEnds(c, how) => ResolversKept'
  BY ResolversStay DEF ProjectServiceEnds
<1>11. (Cancel /\ UNCHANGED gcpVars) \/ UNCHANGED GcpAllVars => ResolversKept'
  BY ResolversStay DEF Cancel
<1> QED
  BY <1>1, <1>2, <1>3, <1>4, <1>5, <1>6, <1>7, <1>8, <1>9, <1>10, <1>11, GcpStepCases

LEMMA CallsFinite ==
    ASSUME NEW S \in SUBSET ProjectCalls, NEW p
    PROVE  IsFiniteSet(Of(p, S)) /\ Cardinality(Of(p, S)) \in Nat
<1>1. IsFiniteSet(ProjectCalls)
  BY GcpAssumption, FS_Product DEF ProjectCalls
<1>2. IsFiniteSet(Of(p, S))
  BY <1>1, FS_Subset DEF Of
<1> QED
  BY <1>2, FS_CardinalityType

LEMMA BalancedStep == GcpShaped /\ InPhase /\ GcpSlotsBalance /\ [GcpStep]_GcpAllVars => GcpSlotsBalance'
<1> SUFFICES ASSUME GcpShaped, InPhase, GcpSlotsBalance PROVE [GcpStep]_GcpAllVars => GcpSlotsBalance'
  OBVIOUS
<1> USE DEF gcpVars, GcpAllVars, heard
<1>1. UNCHANGED <<busy, projectFree>> => GcpSlotsBalance'
  BY DEF GcpSlotsBalance, Of
<1>2. ASSUME NEW c \in ProjectCalls, ProjectServiceStarts(c) PROVE GcpSlotsBalance'
  <2> SUFFICES ASSUME NEW p \in Projects
               PROVE  projectFree'[p] + Cardinality(Of(p, busy')) = ProjectSlots
    BY DEF GcpSlotsBalance, Of
  <2>1. projectFree' = [projectFree EXCEPT ![c[1]] = @ - 1] /\ projectFree \in [Projects -> Nat]
    BY <1>2 DEF ProjectServiceStarts, GcpShaped
  <2>2. projectFree[p] + Cardinality(Of(p, busy)) = ProjectSlots
    BY DEF GcpSlotsBalance
  <2>3. IsFiniteSet(Of(p, busy)) /\ Cardinality(Of(p, busy)) \in Nat
    BY CallsFinite DEF GcpShaped
  <2>4. CASE c[1] = p
    <3>1. Of(p, busy') = Of(p, busy) \union {c} /\ c \notin Of(p, busy)
      BY <1>2, <2>4 DEF ProjectServiceStarts, InPhase, Of
    <3>2. Cardinality(Of(p, busy')) = Cardinality(Of(p, busy)) + 1
      BY <2>3, <3>1, FS_AddElement
    <3> QED
      BY <2>1, <2>2, <2>3, <2>4, <3>2
  <2>5. CASE c[1] # p
    <3>1. Of(p, busy') = Of(p, busy)
      BY <1>2, <2>5 DEF ProjectServiceStarts, Of
    <3> QED
      BY <2>1, <2>2, <2>5, <3>1
  <2> QED
    BY <2>4, <2>5
<1>3. ASSUME NEW c \in ProjectCalls, NEW how \in GcpOutcomes, ProjectServiceEnds(c, how)
      PROVE  GcpSlotsBalance'
  <2> SUFFICES ASSUME NEW p \in Projects
               PROVE  projectFree'[p] + Cardinality(Of(p, busy')) = ProjectSlots
    BY DEF GcpSlotsBalance, Of
  <2>1. projectFree' = [projectFree EXCEPT ![c[1]] = @ + 1] /\ projectFree \in [Projects -> Nat]
    BY <1>3 DEF ProjectServiceEnds, GcpShaped
  <2>2. projectFree[p] + Cardinality(Of(p, busy)) = ProjectSlots
    BY DEF GcpSlotsBalance
  <2>3. IsFiniteSet(Of(p, busy)) /\ Cardinality(Of(p, busy)) \in Nat
    BY CallsFinite DEF GcpShaped
  <2>4. CASE c[1] = p
    <3>1. Of(p, busy') = Of(p, busy) \ {c} /\ c \in Of(p, busy)
      BY <1>3, <2>4 DEF ProjectServiceEnds, Of
    <3>2. Cardinality(Of(p, busy')) = Cardinality(Of(p, busy)) - 1
      BY <2>3, <3>1, FS_RemoveElement
    <3> QED
      BY <2>1, <2>2, <2>3, <2>4, <3>2
  <2>5. CASE c[1] # p
    <3>1. Of(p, busy') = Of(p, busy)
      BY <1>3, <2>5 DEF ProjectServiceEnds, Of
    <3> QED
      BY <2>1, <2>2, <2>5, <3>1
  <2> QED
    BY <2>4, <2>5
<1>4. \A scopes \in BOOLEAN : HierarchyDone(scopes) => GcpSlotsBalance'
  BY <1>1 DEF HierarchyDone
<1>5. \A v \in OrgServices, how \in GcpOutcomes : OrgService(v, how) => GcpSlotsBalance'
  BY <1>1 DEF OrgService
<1>6. StartProjects \/ JoinProjects \/ GcpEnds \/ GcpFails => GcpSlotsBalance'
  BY <1>1 DEF StartProjects, JoinProjects, GcpEnds, GcpFails
<1>7. \A s \in Projects \union {Org} : StartRound(s) => GcpSlotsBalance'
  BY <1>1 DEF StartRound
<1>8. \A r \in ProjectResolvers \union OrgResolvers : DropResolver(r) => GcpSlotsBalance'
  BY <1>1 DEF DropResolver
<1>9. \A r \in ProjectResolvers \union OrgResolvers : RunResolver(r) => GcpSlotsBalance'
  BY <1>1 DEF RunResolver
<1>10. \A c \in ProjectCalls : ProjectServiceDropped(c) => GcpSlotsBalance'
  BY <1>1 DEF ProjectServiceDropped
<1>11. (Cancel /\ UNCHANGED gcpVars) \/ UNCHANGED GcpAllVars => GcpSlotsBalance'
  BY <1>1
<1> QED
  BY <1>2, <1>3, <1>4, <1>5, <1>6, <1>7, <1>8, <1>9, <1>10, <1>11, GcpStepCases

-----------------------------------------------------------------------------
LEMMA GcpInvInit == GcpInit => GcpInv
<1> SUFFICES ASSUME GcpInit PROVE GcpInv
  OBVIOUS
<1>1. GcpShaped /\ InPhase
  BY GcpAssumption DEF GcpInit, GcpShaped, InPhase
<1>2. ServicesKept /\ ResolversKept
  BY DEF GcpInit, ServicesKept, ServicesAhead, ServiceCalls, ResolversKept, ResolversAhead
<1>3. \A p : Of(p, busy) = {}
  BY DEF GcpInit, Of
<1>4. GcpSlotsBalance
  BY <1>3, GcpAssumption, FS_EmptySet DEF GcpInit, GcpSlotsBalance
<1> QED
  BY <1>1, <1>2, <1>4 DEF GcpInv

THEOREM GcpInvariance == GcpSpec => []GcpInv
<1>1. GcpInv /\ [GcpStep]_GcpAllVars => GcpInv'
  BY GcpShapedStep, InPhaseStep, BalancedStep, ServicesKeptStep, ResolversKeptStep DEF GcpInv
<1> QED
  BY GcpInvInit, <1>1, PTL DEF GcpSpec, GcpStep, GcpAllVars

\* Every variable of a GCP scan stays in its type: no project ever holds more or
\* fewer slots than its semaphore has (scanProject).
THEOREM GcpTypes == GcpSpec => []GcpTypeOK
<1>1. GcpInv => GcpTypeOK
  <2> SUFFICES ASSUME GcpInv PROVE GcpTypeOK
    OBVIOUS
  <2>1. \A p \in Projects : projectFree[p] \in 0 .. ProjectSlots
    <3> TAKE p \in Projects
    <3>1. /\ projectFree[p] \in Nat /\ Cardinality(Of(p, busy)) \in Nat
          /\ projectFree[p] + Cardinality(Of(p, busy)) = ProjectSlots
      BY CallsFinite DEF GcpInv, GcpShaped, GcpSlotsBalance
    <3> QED
      BY <3>1, GcpAssumption
  <2> QED
    BY <2>1 DEF GcpInv, GcpShaped, ProjectCalls, GcpTypeOK
<1> QED
  BY <1>1, GcpInvariance, PTL

\* The semaphore of a project loses and invents no slot, for any number of projects,
\* services and slots (scanProject).
THEOREM GcpSlots == GcpSpec => []GcpSlotsBalance
<1>1. GcpInv => GcpSlotsBalance
  BY DEF GcpInv
<1> QED
  BY <1>1, GcpInvariance, PTL

\* When the first resolver runs, every service has run or is named by a report, unless the
\* scan was cancelled, and none is on its way; the resolvers of the organization come
\* after all those of the projects (Scan).
THEOREM GcpResolversRunLast == GcpSpec => []GcpResolvesLast
<1>1. GcpInv => GcpResolvesLast
  <2> SUFFICES ASSUME GcpInv PROVE GcpResolvesLast
    OBVIOUS
  <2> USE DEF GcpInv
  <2>1. ASSUME resolved \union Resolving # {}
        PROVE  /\ at \in {"resolve", "over"} /\ orgLeft = {} /\ pending = {} /\ busy = {}
               /\ ~cancelled => scanned = ServiceCalls
    <3>1. at \in {"resolve", "over"}
      BY <2>1 DEF InPhase, Resolving, GcpShaped
    <3>2. orgLeft = {} /\ pending = {} /\ busy = {}
      BY <3>1 DEF InPhase
    <3>3. ServicesAhead = {}
      BY <3>1, <3>2 DEF ServicesAhead
    <3> QED
      BY <3>1, <3>2, <3>3 DEF ServicesKept, GcpShaped
  <2>2. ASSUME \E c \in resolved \union Resolving : c[1] = Org, ~cancelled
        PROVE  Projects \X ProjectResolvers \subseteq resolved
    <3>1. at \in {"resolve", "over"}
      BY <2>1, <2>2
    <3>2. round = Org /\ toResolve = {}
      BY <2>2 DEF InPhase, Resolving
    <3>3. ResolverCalls \subseteq resolved \union ({Org} \X pool)
      BY <2>2, <3>1, <3>2 DEF ResolversKept, ResolversAhead, Resolving
    <3> QED
      BY <3>3, GcpAssumption DEF ResolverCalls
  <2> QED
    BY <2>1, <2>2 DEF GcpResolvesLast
<1> QED
  BY <1>1, GcpInvariance, PTL

\* Without a cancellation, and once the hierarchy is read, no service and no resolver of
\* any scope is ever missing without a report: no failure takes a sibling down
\* (runOrgServices, scanProject, resolveRelationships).
THEOREM GcpNothingIsForgotten == GcpSpec => []GcpForgetsNothing
<1>1. GcpInv => GcpForgetsNothing
  BY DEF GcpInv, ServicesKept, ResolversKept, GcpForgetsNothing
<1> QED
  BY <1>1, GcpInvariance, PTL

\* All that a run checks of a GCP scan, for any projects, services, resolvers and slots.
THEOREM GcpScanIsSafe == GcpSpec => []GcpScanSafe
BY GcpTypes, GcpSlots, GcpResolversRunLast, GcpNothingIsForgotten, PTL DEF GcpScanSafe

-----------------------------------------------------------------------------
(* ServiceScan. *)

\* Page i of l has been dealt with: stored, gathered or given up.
Dealt(l, i) == i \in 1 .. taken[l] /\ (shape = "clusters" => where[l] = "describing")

\* Nothing is to come of page i of l any more.
Handled(l, i) == where[l] = "back" \/ Dealt(l, i)

\* l has been read to its end, or to the page it was refused on.
Through(l) == taken[l] = Len(Layout[l]) \/ givenUp[l] = taken[l] + 1

ServiceShape ==
    /\ shape \in {"phases", "enrich", "fanout", "clusters"}
    /\ only \subseteq Listings
    /\ where \in [Listings -> {"waiting", "listing", "enriching", "describing", "back"}]
    /\ taken \in [Listings -> Nat] /\ \A l \in Listings : taken[l] <= Len(Layout[l])
    /\ inStore \subseteq Rows /\ gathered \subseteq Rows /\ asking \subseteq Rows
    /\ total \in Nat
    /\ failed \in BOOLEAN
    /\ result \in {"none", "nil", "error"}
    /\ givenUp \in [Listings -> Nat]

\* What is held back and not stored, in which shape and where: the rows of the page
\* that is being enriched, or all that a fan-out has read.
HeldBack ==
    /\ shape \in {"phases", "clusters"} => asking = {} /\ gathered = {}
    /\ shape = "fanout" => /\ asking = {}
                           /\ result = "none" => inStore = {} /\ total = 0
                           /\ result # "none" => gathered = {}
    /\ shape = "enrich" =>
         \E l \in Listings :
            /\ only = {l} /\ where[l] \in {"listing", "enriching", "back"}
            /\ where[l] = "enriching" =>
                  /\ result = "none" /\ taken[l] < Len(Layout[l])
                  /\ asking \union gathered \subseteq Page(l)
                  /\ failed \/ Page(l) \subseteq asking \union gathered \union skipped
            /\ where[l] # "enriching" => asking = {} /\ gathered = {}

\* Pages that were dealt with are accounted for, unless an error comes back.
PagesKept ==
    result # "error" =>
        \A l \in only : \A i \in DOMAIN Layout[l] :
            Dealt(l, i) => Layout[l][i] \subseteq inStore \union gathered \union skipped

\* A listing that is over has been read through, or somebody returns an error.
EndsKnown ==
    /\ shape # "clusters" =>
         /\ \A l \in only : where[l] = "back" => Through(l) \/ failed \/ result = "error"
         /\ result = "nil" => gathered = {} /\ \A l \in only : Through(l)
    /\ shape = "clusters" =>
         /\ result # "error" => \A l \in only : where[l] = "back" =>
               \A i \in DOMAIN Layout[l] : Layout[l][i] \subseteq inStore \union skipped
         /\ result = "nil" => \A l \in only : where[l] = "back"
    /\ shape = "phases" /\ result = "nil" => ~failed

\* Rows are stored page by page, none twice, so that the count is theirs.
StoredOnce ==
    shape # "fanout" =>
        \A x \in inStore : \E l \in only : \E i \in DOMAIN Layout[l] :
            x \in Layout[l][i] /\ Handled(l, i)

Counted ==
    /\ total <= Cardinality(inStore)
    /\ \/ total = Cardinality(inStore)
       \/ result = "error"
       \/ shape = "phases" /\ failed

ServiceInv ==
    ServiceShape /\ HeldBack /\ PagesKept /\ EndsKnown /\ StoredOnce /\ Counted

\* The pages of a listing, as a sequence of sets of rows.
LEMMA LayoutFacts ==
    /\ \A l \in Listings : /\ Len(Layout[l]) \in Nat
                           /\ DOMAIN Layout[l] = 1 .. Len(Layout[l])
                           /\ \A i \in 1 .. Len(Layout[l]) : Layout[l][i] \subseteq Rows
BY ServiceAssumption

\* Rows of a page go into the store, or nothing does.
LEMMA UpsertStores ==
    ASSUME ServiceShape, NEW rows, rows \subseteq Rows, NEW how \in Ways, Upsert(rows, how)
    PROVE  /\ inStore \subseteq inStore' /\ inStore' \subseteq inStore \union rows
           /\ inStore' \subseteq Rows /\ total' \in Nat
           /\ how # "failed" => rows \subseteq inStore'
           /\ rows = {} => how = "done"
<1>1. IsFiniteSet(rows) /\ Cardinality(rows) \in Nat
  BY ServiceAssumption, FS_Subset, FS_CardinalityType
<1>2. total' \in Nat
  BY <1>1 DEF Upsert, ServiceShape
<1> QED
  BY <1>2 DEF Upsert, ServiceShape, Ways

\* The page a listing comes to is one of its pages.
LEMMA PageIsListed ==
    ASSUME ServiceShape, NEW l \in only, taken[l] < Len(Layout[l])
    PROVE  /\ Page(l) = Layout[l][taken[l] + 1] /\ Page(l) \subseteq Rows
           /\ taken[l] + 1 \in 1 .. Len(Layout[l]) /\ l \in Listings /\ taken[l] \in Nat
BY LayoutFacts DEF ServiceShape, Page

\* A page passed is one more page, a listing put elsewhere leaves the others.
LEMMA PassesOne ==
    ASSUME ServiceShape, NEW l \in only, taken[l] < Len(Layout[l]), Passes(l)
    PROVE  /\ taken' \in [Listings -> Nat] /\ \A k \in Listings : taken'[k] <= Len(Layout[k])
           /\ taken'[l] = taken[l] + 1 /\ \A k \in Listings \ {l} : taken'[k] = taken[k]
<1>1. l \in Listings /\ taken \in [Listings -> Nat] /\ taken' = [taken EXCEPT ![l] = taken[l] + 1]
  BY DEF ServiceShape, Passes
<1>2. taken[l] + 1 \in Nat /\ taken[l] + 1 <= Len(Layout[l])
  BY <1>1, LayoutFacts
<1>3. \A k \in Listings \ {l} : taken'[k] = taken[k]
  BY <1>1
<1>4. taken'[l] = taken[l] + 1 /\ taken' \in [Listings -> Nat]
  BY <1>1, <1>2
<1> QED
  BY <1>2, <1>3, <1>4 DEF ServiceShape

LEMMA PutsOne ==
    ASSUME ServiceShape, NEW l \in only, NEW place,
           place \in {"waiting", "listing", "enriching", "describing", "back"}, Puts(l, place)
    PROVE  /\ where' \in [Listings -> {"waiting", "listing", "enriching", "describing", "back"}]
           /\ where'[l] = place /\ \A k \in Listings \ {l} : where'[k] = where[k]
BY DEF ServiceShape, Puts

\* Once l has passed a page it is dealt with, and nothing else has changed.
LEMMA PassDeals ==
    ASSUME ServiceShape, NEW l \in only, taken[l] < Len(Layout[l]), Passes(l), shape' = shape,
           shape = "clusters" => where[l] = "describing" /\ where' = where
    PROVE  \A k \in only : \A i : Dealt(k, i)' <=> Dealt(k, i) \/ (k = l /\ i = taken[l] + 1)
<1>1. /\ taken'[l] = taken[l] + 1 /\ taken[l] \in Nat /\ l \in Listings
      /\ \A k \in only : k \in Listings /\ (k # l => taken'[k] = taken[k])
  BY PassesOne DEF ServiceShape
<1>2. 1 .. taken[l] + 1 = (1 .. taken[l]) \union {taken[l] + 1}
  BY <1>1
<1>3. SUFFICES ASSUME NEW k \in only, NEW i
               PROVE  Dealt(k, i)' <=> Dealt(k, i) \/ (k = l /\ i = taken[l] + 1)
  OBVIOUS
<1>4. CASE k = l
  BY <1>1, <1>2, <1>4 DEF Dealt
<1>5. CASE k # l
  BY <1>1, <1>5 DEF Dealt
<1> QED
  BY <1>4, <1>5

(* The steps of ServiceNext, for the case distinctions below. *)
LEMMA ServiceCases ==
  ASSUME NEW P,
         \A l \in only : ListingRefused(l) => P,
         \A l \in only : CallFails(l) => P,
         \A l \in only : ListingEnds(l) => P,
         \A l \in only : EnrichPage(l) => P,
         \A l \in only : EnrichEnds(l) => P,
         \A l \in only : FanoutAcquires(l) => P,
         \A l \in only : FanoutDropped(l) => P,
         \A l \in only : FanoutPage(l) => P,
         \A l \in only : ClusterStarts(l) => P,
         \A l \in only : ClusterPage(l) => P,
         \A l \in only : ClusterRefused(l) => P,
         \A l \in only : ClusterListed(l) => P,
         \A l \in only : DescribeRefused(l) => P,
         \A l \in only : ClusterEnds(l) => P,
         \A l \in only, how \in Ways : PhasePage(l, how) => P,
         \A l \in only, how \in Ways : EnrichJoin(l, how) => P,
         \A l \in only, how \in Ways : Describe(l, how) => P,
         \A x \in asking, how \in {"row", "refused", "failed"} : Enrich(x, how) => P,
         PhasesJoin => P,
         ClustersEnd => P,
         \A how \in Ways : FanoutJoin(how) => P,
         Expire => P,
         UNCHANGED serviceVars => P
  PROVE  [ServiceNext]_serviceVars => P
BY DEF ServiceNext, JoinStep, ListingStep, RowStep

\* The types are kept.
LEMMA ServiceShapeStep == ServiceShape /\ HeldBack /\ [ServiceNext]_serviceVars => ServiceShape'
<1> SUFFICES ASSUME ServiceShape, HeldBack PROVE [ServiceNext]_serviceVars => ServiceShape'
  OBVIOUS
<1> USE LayoutFacts
<1>1. \A l \in only : ListingRefused(l) => ServiceShape'
  BY DEF ListingRefused, Lists, More, Puts, ServiceShape
<1>2. \A l \in only : CallFails(l) => ServiceShape'
  BY DEF CallFails, Lists, More, Puts, ServiceShape
<1>3. \A l \in only : ListingEnds(l) => ServiceShape'
  BY DEF ListingEnds, More, Puts, ServiceShape
<1>4. ASSUME NEW l \in only, EnrichPage(l) PROVE ServiceShape'
  <2>1. /\ taken[l] + 1 \in 1 .. Len(Layout[l]) /\ l \in Listings /\ taken[l] \in Nat
        /\ Page(l) \subseteq Rows
    BY <1>4, PageIsListed DEF EnrichPage, Lists, More
  <2>2. CASE Page(l) = {}
    BY <1>4, <2>1, <2>2, PassesOne DEF EnrichPage, Lists, More, ServiceShape
  <2>3. CASE Page(l) # {}
    BY <1>4, <2>1, <2>3 DEF EnrichPage, Puts, ServiceShape
  <2> QED
    BY <2>2, <2>3
<1>5. \A l \in only : EnrichEnds(l) => ServiceShape'
  BY DEF EnrichEnds, More, Is, Puts, ServiceShape
<1>6. \A l \in only : FanoutAcquires(l) => ServiceShape'
  BY DEF FanoutAcquires, Is, Puts, ServiceShape
<1>7. \A l \in only : FanoutDropped(l) => ServiceShape'
  BY DEF FanoutDropped, Is, Puts, ServiceShape
<1>8. \A l \in only : FanoutPage(l) => ServiceShape'
  BY DEF FanoutPage, Lists, More, Passes, Page, ServiceShape
<1>9. \A l \in only : ClusterStarts(l) => ServiceShape'
  BY DEF ClusterStarts, Is, Puts, ServiceShape
<1>10. \A l \in only : ClusterPage(l) => ServiceShape'
  BY DEF ClusterPage, Lists, More, Passes, ServiceShape
<1>11. \A l \in only : ClusterRefused(l) => ServiceShape'
  BY DEF ClusterRefused, Lists, More, ServiceShape
<1>12. \A l \in only : ClusterListed(l) => ServiceShape'
  BY DEF ClusterListed, More, Is, Puts, ServiceShape
<1>13. \A l \in only : DescribeRefused(l) => ServiceShape'
  BY DEF DescribeRefused, More, Is, Puts, ServiceShape
<1>14. \A l \in only : ClusterEnds(l) => ServiceShape'
  BY DEF ClusterEnds, More, Is, Puts, ServiceShape
<1>15. ASSUME NEW l \in only, NEW how \in Ways, PhasePage(l, how) PROVE ServiceShape'
  <2>1. taken[l] < Len(Layout[l]) /\ Upsert(Page(l), how)
    BY <1>15 DEF PhasePage, Lists, More
  <2>2. /\ Page(l) = Layout[l][taken[l] + 1] /\ Page(l) \subseteq Rows
        /\ taken[l] + 1 \in 1 .. Len(Layout[l]) /\ l \in Listings /\ taken[l] \in Nat
    BY <2>1, PageIsListed
  <2>3. /\ inStore \subseteq inStore' /\ inStore' \subseteq inStore \union Page(l)
        /\ inStore' \subseteq Rows /\ total' \in Nat
        /\ how # "failed" => Page(l) \subseteq inStore'
    BY <2>1, <2>2, UpsertStores
  <2>4. CASE how = "done"
    BY <1>15, <2>1, <2>2, <2>3, <2>4, PassesOne DEF PhasePage, Lists, ServiceShape
  <2>5. CASE how # "done"
    BY <1>15, <2>1, <2>2, <2>3, <2>5, PutsOne DEF PhasePage, Lists, ServiceShape
  <2> QED
    BY <2>4, <2>5
<1>16. ASSUME NEW l \in only, NEW how \in Ways, EnrichJoin(l, how) PROVE ServiceShape'
  <2>1. CASE failed
    BY <1>16, <2>1 DEF EnrichJoin, Is, Puts, Passes, ServiceShape
  <2>2. CASE ~failed
    <3>1. Upsert(gathered, how) /\ how # "unlinked"
      BY <1>16, <2>2 DEF EnrichJoin
    <3>2. gathered \subseteq Rows
      BY DEF ServiceShape
    <3>3. /\ inStore \subseteq inStore' /\ inStore' \subseteq inStore \union gathered
          /\ inStore' \subseteq Rows /\ total' \in Nat
          /\ how # "failed" => gathered \subseteq inStore'
      BY <3>1, <3>2, UpsertStores
    <3>4. CASE how = "done"
      <4>1. /\ taken[l] < Len(Layout[l]) /\ l \in Listings /\ shape = "enrich"
            /\ \A k \in only : k = l
            /\ Page(l) \subseteq gathered \union skipped
        BY <1>16, <2>2 DEF EnrichJoin, Is, HeldBack, ServiceShape
      <4> QED
        BY <1>16, <2>2, <3>3, <3>4, <4>1, PassesOne, PutsOne DEF EnrichJoin, Is, Page,
           ServiceShape
    <3>5. CASE how # "done"
      BY <1>16, <2>2, <3>3, <3>5, PutsOne DEF EnrichJoin, Is, ServiceShape
    <3> QED
      BY <3>4, <3>5
  <2> QED
    BY <2>1, <2>2
<1>17. ASSUME NEW l \in only, NEW how \in Ways, Describe(l, how) PROVE ServiceShape'
  <2>1. taken[l] < Len(Layout[l]) /\ Upsert(Page(l), how)
    BY <1>17 DEF Describe, Is, More
  <2>2. /\ Page(l) = Layout[l][taken[l] + 1] /\ Page(l) \subseteq Rows
        /\ taken[l] + 1 \in 1 .. Len(Layout[l]) /\ l \in Listings /\ taken[l] \in Nat
    BY <2>1, PageIsListed
  <2>3. /\ inStore \subseteq inStore' /\ inStore' \subseteq inStore \union Page(l)
        /\ inStore' \subseteq Rows /\ total' \in Nat
        /\ how # "failed" => Page(l) \subseteq inStore'
    BY <2>1, <2>2, UpsertStores
  <2>4. CASE how = "done"
    BY <1>17, <2>1, <2>2, <2>3, <2>4, PassesOne DEF Describe, Is, ServiceShape
  <2>5. CASE how # "done"
    BY <1>17, <2>1, <2>2, <2>3, <2>5, PassesOne, PutsOne DEF Describe, Is, ServiceShape
  <2> QED
    BY <2>4, <2>5
<1>18. \A x \in asking, how \in {"row", "refused", "failed"} : Enrich(x, how) => ServiceShape'
  BY DEF Enrich, ServiceShape
<1>19. PhasesJoin => ServiceShape'
  BY DEF PhasesJoin, Back, ServiceShape
<1>20. ClustersEnd => ServiceShape'
  BY DEF ClustersEnd, Back, ServiceShape
<1>21. ASSUME NEW how \in Ways, FanoutJoin(how) PROVE ServiceShape'
  <2>1. CASE failed
    BY <1>21, <2>1 DEF FanoutJoin, ServiceShape
  <2>2. CASE ~failed
    <3>1. Upsert(gathered, how) /\ gathered \subseteq Rows
      BY <1>21, <2>2 DEF FanoutJoin, ServiceShape
    <3>2. inStore' \subseteq Rows /\ total' \in Nat
      BY <3>1, UpsertStores
    <3> QED
      BY <1>21, <3>2 DEF FanoutJoin, ServiceShape
  <2> QED
    BY <2>1, <2>2
<1>22. Expire => ServiceShape'
  BY DEF Expire, ServiceShape
<1>23. UNCHANGED serviceVars => ServiceShape'
  BY DEF serviceVars, Lists, More, Is, Puts, Passes, Back, Page, Upsert, ServiceShape
<1> QED
  BY <1>1, <1>2, <1>3, <1>4, <1>5, <1>6, <1>7, <1>8, <1>9, <1>10, <1>11, <1>12, <1>13, <1>14,
     <1>15, <1>16, <1>17, <1>18, <1>19, <1>20, <1>21, <1>22, <1>23,
     ServiceCases, Zenon

\* What is held back stays on its page, or with the fan-out that reads.
LEMMA HeldBackStep == ServiceShape /\ HeldBack /\ [ServiceNext]_serviceVars => HeldBack'
<1> SUFFICES ASSUME ServiceShape, HeldBack PROVE [ServiceNext]_serviceVars => HeldBack'
  OBVIOUS
<1> USE LayoutFacts
<1>1. \A l \in only : ListingRefused(l) => HeldBack'
  BY DEF ListingRefused, Lists, More, Puts, Page, ServiceShape, HeldBack
<1>2. \A l \in only : CallFails(l) => HeldBack'
  BY DEF CallFails, Lists, More, Puts, Page, ServiceShape, HeldBack
<1>3. \A l \in only : ListingEnds(l) => HeldBack'
  BY DEF ListingEnds, More, Puts, Page, ServiceShape, HeldBack
<1>4. \A l \in only : EnrichPage(l) => HeldBack'
  BY DEF EnrichPage, Lists, More, Puts, Passes, Page, ServiceShape, HeldBack
<1>5. \A l \in only : EnrichEnds(l) => HeldBack'
  BY DEF EnrichEnds, More, Is, Puts, Page, ServiceShape, HeldBack
<1>6. \A l \in only : FanoutAcquires(l) => HeldBack'
  BY DEF FanoutAcquires, Is, Puts, Page, ServiceShape, HeldBack
<1>7. \A l \in only : FanoutDropped(l) => HeldBack'
  BY DEF FanoutDropped, Is, Puts, Page, ServiceShape, HeldBack
<1>8. \A l \in only : FanoutPage(l) => HeldBack'
  BY DEF FanoutPage, Lists, More, Passes, Page, ServiceShape, HeldBack
<1>9. \A l \in only : ClusterStarts(l) => HeldBack'
  BY DEF ClusterStarts, Is, Puts, Page, ServiceShape, HeldBack
<1>10. \A l \in only : ClusterPage(l) => HeldBack'
  BY DEF ClusterPage, Lists, More, Passes, Page, ServiceShape, HeldBack
<1>11. \A l \in only : ClusterRefused(l) => HeldBack'
  BY DEF ClusterRefused, Lists, More, Page, ServiceShape, HeldBack
<1>12. \A l \in only : ClusterListed(l) => HeldBack'
  BY DEF ClusterListed, More, Is, Puts, Page, ServiceShape, HeldBack
<1>13. \A l \in only : DescribeRefused(l) => HeldBack'
  BY DEF DescribeRefused, More, Is, Puts, Page, ServiceShape, HeldBack
<1>14. \A l \in only : ClusterEnds(l) => HeldBack'
  BY DEF ClusterEnds, More, Is, Puts, Page, ServiceShape, HeldBack
<1>15. \A l \in only, how \in Ways : PhasePage(l, how) => HeldBack'
  BY DEF PhasePage, Lists, More, Puts, Passes, Page, Upsert, ServiceShape, HeldBack
<1>16. \A l \in only, how \in Ways : EnrichJoin(l, how) => HeldBack'
  BY DEF EnrichJoin, Is, Puts, Passes, Page, Upsert, ServiceShape, HeldBack
<1>17. \A l \in only, how \in Ways : Describe(l, how) => HeldBack'
  BY DEF Describe, More, Is, Puts, Passes, Page, Upsert, ServiceShape, HeldBack
<1>18. \A x \in asking, how \in {"row", "refused", "failed"} : Enrich(x, how) => HeldBack'
  BY DEF Enrich, Page, ServiceShape, HeldBack
<1>19. PhasesJoin => HeldBack'
  BY DEF PhasesJoin, Back, Page, ServiceShape, HeldBack
<1>20. ClustersEnd => HeldBack'
  BY DEF ClustersEnd, Back, Page, ServiceShape, HeldBack
<1>21. \A how \in Ways : FanoutJoin(how) => HeldBack'
  BY DEF FanoutJoin, Back, Page, Upsert, ServiceShape, HeldBack
<1>22. Expire => HeldBack'
  BY DEF Expire, Page, ServiceShape, HeldBack
<1>23. UNCHANGED serviceVars => HeldBack'
  BY DEF serviceVars, Lists, More, Is, Puts, Passes, Back, Page, Upsert, ServiceShape, HeldBack
<1> QED
  BY <1>1, <1>2, <1>3, <1>4, <1>5, <1>6, <1>7, <1>8, <1>9, <1>10, <1>11, <1>12, <1>13, <1>14,
     <1>15, <1>16, <1>17, <1>18, <1>19, <1>20, <1>21, <1>22, <1>23,
     ServiceCases, Zenon

\* No page that was dealt with is lost.
LEMMA PagesKeptStep ==
    ServiceShape /\ HeldBack /\ PagesKept /\ [ServiceNext]_serviceVars => PagesKept'
<1> SUFFICES ASSUME ServiceShape, HeldBack, PagesKept
             PROVE  [ServiceNext]_serviceVars => PagesKept'
  OBVIOUS
<1> USE LayoutFacts
<1>1. \A l \in only : ListingRefused(l) => PagesKept'
  BY DEF ListingRefused, Lists, More, Puts, Page, ServiceShape, HeldBack, PagesKept, Dealt
<1>2. \A l \in only : CallFails(l) => PagesKept'
  BY DEF CallFails, Lists, More, Puts, Page, ServiceShape, HeldBack, PagesKept, Dealt
<1>3. \A l \in only : ListingEnds(l) => PagesKept'
  BY DEF ListingEnds, More, Puts, Page, ServiceShape, HeldBack, PagesKept, Dealt
<1>4. \A l \in only : EnrichPage(l) => PagesKept'
  BY DEF EnrichPage, Lists, More, Puts, Passes, Page, ServiceShape, HeldBack, PagesKept, Dealt
<1>5. \A l \in only : EnrichEnds(l) => PagesKept'
  BY DEF EnrichEnds, More, Is, Puts, Page, ServiceShape, HeldBack, PagesKept, Dealt
<1>6. \A l \in only : FanoutAcquires(l) => PagesKept'
  BY DEF FanoutAcquires, Is, Puts, Page, ServiceShape, HeldBack, PagesKept, Dealt
<1>7. \A l \in only : FanoutDropped(l) => PagesKept'
  BY DEF FanoutDropped, Is, Puts, Page, ServiceShape, HeldBack, PagesKept, Dealt
<1>8. \A l \in only : FanoutPage(l) => PagesKept'
  BY DEF FanoutPage, Lists, More, Passes, Page, ServiceShape, HeldBack, PagesKept, Dealt
<1>9. \A l \in only : ClusterStarts(l) => PagesKept'
  BY DEF ClusterStarts, Is, Puts, Page, ServiceShape, HeldBack, PagesKept, Dealt
<1>10. \A l \in only : ClusterPage(l) => PagesKept'
  BY DEF ClusterPage, Lists, More, Passes, Page, ServiceShape, HeldBack, PagesKept, Dealt
<1>11. \A l \in only : ClusterRefused(l) => PagesKept'
  BY DEF ClusterRefused, Lists, More, Page, ServiceShape, HeldBack, PagesKept, Dealt
<1>12. \A l \in only : ClusterListed(l) => PagesKept'
  BY DEF ClusterListed, More, Is, Puts, Page, ServiceShape, HeldBack, PagesKept, Dealt
<1>13. \A l \in only : DescribeRefused(l) => PagesKept'
  BY DEF DescribeRefused, More, Is, Puts, Page, ServiceShape, HeldBack, PagesKept, Dealt
<1>14. \A l \in only : ClusterEnds(l) => PagesKept'
  BY DEF ClusterEnds, More, Is, Puts, Page, ServiceShape, HeldBack, PagesKept, Dealt
<1>15. ASSUME NEW l \in only, NEW how \in Ways, PhasePage(l, how) PROVE PagesKept'
  <2>1. taken[l] < Len(Layout[l]) /\ Upsert(Page(l), how)
    BY <1>15 DEF PhasePage, Lists, More
  <2>2. /\ Page(l) = Layout[l][taken[l] + 1] /\ Page(l) \subseteq Rows
        /\ taken[l] + 1 \in 1 .. Len(Layout[l]) /\ l \in Listings /\ taken[l] \in Nat
    BY <2>1, PageIsListed
  <2>3. /\ inStore \subseteq inStore' /\ inStore' \subseteq inStore \union Page(l)
        /\ inStore' \subseteq Rows /\ total' \in Nat
        /\ how # "failed" => Page(l) \subseteq inStore'
    BY <2>1, <2>2, UpsertStores
  <2>4. CASE how = "done"
    <3>1. Passes(l) /\ UNCHANGED <<shape, only, where, gathered, skipped, result>>
      BY <1>15, <2>4 DEF PhasePage
    <3>2. \A k \in only : \A i : Dealt(k, i)' => Dealt(k, i) \/ (k = l /\ i = taken[l] + 1)
      <4>1. shape = "phases"
        BY <1>15 DEF PhasePage
      <4> QED
        BY <2>1, <3>1, <4>1, PassDeals
    <3>3. Layout[l][taken[l] + 1] \subseteq inStore'
      BY <2>2, <2>3, <2>4
    <3> QED
      BY <2>3, <3>1, <3>2, <3>3 DEF PagesKept
  <2>5. CASE how # "done"
    BY <1>15, <2>1, <2>2, <2>3, <2>5, PutsOne DEF PhasePage, Lists, HeldBack, PagesKept, Dealt,
       ServiceShape
  <2> QED
    BY <2>4, <2>5
<1>16. ASSUME NEW l \in only, NEW how \in Ways, EnrichJoin(l, how) PROVE PagesKept'
  <2>1. CASE failed
    BY <1>16, <2>1 DEF EnrichJoin, Is, Puts, Passes, HeldBack, PagesKept, Dealt, ServiceShape
  <2>2. CASE ~failed
    <3>1. Upsert(gathered, how) /\ how # "unlinked"
      BY <1>16, <2>2 DEF EnrichJoin
    <3>2. gathered \subseteq Rows
      BY DEF ServiceShape
    <3>3. /\ inStore \subseteq inStore' /\ inStore' \subseteq inStore \union gathered
          /\ inStore' \subseteq Rows /\ total' \in Nat
          /\ how # "failed" => gathered \subseteq inStore'
      BY <3>1, <3>2, UpsertStores
    <3>4. CASE how = "done"
      <4>1. /\ taken[l] < Len(Layout[l]) /\ l \in Listings /\ shape = "enrich"
            /\ \A k \in only : k = l
            /\ Page(l) \subseteq gathered \union skipped
        BY <1>16, <2>2 DEF EnrichJoin, Is, HeldBack, ServiceShape
      <4>2. /\ Passes(l) /\ shape' = shape /\ only' = only /\ skipped' = skipped
            /\ result' = result /\ gathered' = {} /\ gathered \subseteq inStore'
        BY <1>16, <2>2, <3>3, <3>4 DEF EnrichJoin, Ways
      <4>3. \A k \in only : \A i : Dealt(k, i)' <=> Dealt(k, i) \/ (k = l /\ i = taken[l] + 1)
        BY <4>1, <4>2, PassDeals
      <4>4. Layout[l][taken[l] + 1] \subseteq inStore' \union skipped
        BY <4>1, <4>2 DEF Page
      <4> QED
        BY <3>3, <4>1, <4>2, <4>3, <4>4 DEF PagesKept
    <3>5. CASE how # "done"
      BY <1>16, <2>2, <3>3, <3>5, PutsOne DEF EnrichJoin, Is, HeldBack, PagesKept, Dealt,
         ServiceShape
    <3> QED
      BY <3>4, <3>5
  <2> QED
    BY <2>1, <2>2
<1>17. \A l \in only, how \in Ways : Describe(l, how) => PagesKept'
  BY DEF Describe, More, Is, Puts, Passes, Page, Upsert, ServiceShape, HeldBack, PagesKept, Dealt
<1>18. \A x \in asking, how \in {"row", "refused", "failed"} : Enrich(x, how) => PagesKept'
  BY DEF Enrich, Page, ServiceShape, HeldBack, PagesKept, Dealt
<1>19. PhasesJoin => PagesKept'
  BY DEF PhasesJoin, Back, Page, ServiceShape, HeldBack, PagesKept, Dealt
<1>20. ClustersEnd => PagesKept'
  BY DEF ClustersEnd, Back, Page, ServiceShape, HeldBack, PagesKept, Dealt
<1>21. \A how \in Ways : FanoutJoin(how) => PagesKept'
  BY DEF FanoutJoin, Back, Page, Upsert, ServiceShape, HeldBack, PagesKept, Dealt
<1>22. Expire => PagesKept'
  BY DEF Expire, Page, ServiceShape, HeldBack, PagesKept, Dealt
<1>23. UNCHANGED serviceVars => PagesKept'
  BY DEF serviceVars, Lists, More, Is, Puts, Passes, Back, Page, Upsert, ServiceShape,
     HeldBack, PagesKept, Dealt
<1> QED
  BY <1>1, <1>2, <1>3, <1>4, <1>5, <1>6, <1>7, <1>8, <1>9, <1>10, <1>11, <1>12, <1>13, <1>14,
     <1>15, <1>16, <1>17, <1>18, <1>19, <1>20, <1>21, <1>22, <1>23,
     ServiceCases, Zenon

\* A listing ends where it was read through, or with an error on its way.
LEMMA EndsKnownStep ==
    ServiceShape /\ HeldBack /\ PagesKept /\ EndsKnown /\ [ServiceNext]_serviceVars => EndsKnown'
<1> SUFFICES ASSUME ServiceShape, HeldBack, PagesKept, EndsKnown
             PROVE  [ServiceNext]_serviceVars => EndsKnown'
  OBVIOUS
<1> USE LayoutFacts
<1>1. \A l \in only : ListingRefused(l) => EndsKnown'
  BY DEF ListingRefused, Lists, More, Puts, Page, ServiceShape, HeldBack, PagesKept, EndsKnown,
     Dealt, Through
<1>2. \A l \in only : CallFails(l) => EndsKnown'
  BY DEF CallFails, Lists, More, Puts, Page, ServiceShape, HeldBack, PagesKept, EndsKnown,
     Dealt, Through
<1>3. \A l \in only : ListingEnds(l) => EndsKnown'
  BY DEF ListingEnds, More, Puts, Page, ServiceShape, HeldBack, PagesKept, EndsKnown, Dealt,
     Through
<1>4. \A l \in only : EnrichPage(l) => EndsKnown'
  BY DEF EnrichPage, Lists, More, Puts, Passes, Page, ServiceShape, HeldBack, PagesKept,
     EndsKnown, Dealt, Through
<1>5. \A l \in only : EnrichEnds(l) => EndsKnown'
  BY DEF EnrichEnds, More, Is, Puts, Page, ServiceShape, HeldBack, PagesKept, EndsKnown, Dealt,
     Through
<1>6. \A l \in only : FanoutAcquires(l) => EndsKnown'
  BY DEF FanoutAcquires, Is, Puts, Page, ServiceShape, HeldBack, PagesKept, EndsKnown, Dealt,
     Through
<1>7. \A l \in only : FanoutDropped(l) => EndsKnown'
  BY DEF FanoutDropped, Is, Puts, Page, ServiceShape, HeldBack, PagesKept, EndsKnown, Dealt,
     Through
<1>8. \A l \in only : FanoutPage(l) => EndsKnown'
  BY DEF FanoutPage, Lists, More, Passes, Page, ServiceShape, HeldBack, PagesKept, EndsKnown,
     Dealt, Through
<1>9. \A l \in only : ClusterStarts(l) => EndsKnown'
  BY DEF ClusterStarts, Is, Puts, Page, ServiceShape, HeldBack, PagesKept, EndsKnown, Dealt,
     Through
<1>10. \A l \in only : ClusterPage(l) => EndsKnown'
  BY DEF ClusterPage, Lists, More, Passes, Page, ServiceShape, HeldBack, PagesKept, EndsKnown,
     Dealt, Through
<1>11. \A l \in only : ClusterRefused(l) => EndsKnown'
  BY DEF ClusterRefused, Lists, More, Page, ServiceShape, HeldBack, PagesKept, EndsKnown,
     Dealt, Through
<1>12. \A l \in only : ClusterListed(l) => EndsKnown'
  BY DEF ClusterListed, More, Is, Puts, Page, ServiceShape, HeldBack, PagesKept, EndsKnown,
     Dealt, Through
<1>13. ASSUME NEW l \in only, DescribeRefused(l) PROVE EndsKnown'
  <2>1. /\ shape = "clusters" /\ where[l] = "describing" /\ result = "none" /\ gathered = {}
        /\ UNCHANGED <<shape, only, result, inStore>>
        /\ skipped' = skipped \union UNION {Layout[l][i] : i \in taken[l] + 1 .. Len(Layout[l])}
    BY <1>13 DEF DescribeRefused, Is, HeldBack
  <2>2. l \in Listings /\ taken[l] \in Nat /\ \A k \in only \ {l} : where'[k] = where[k]
    BY <1>13, PutsOne DEF DescribeRefused, ServiceShape
  <2>3. \A i \in DOMAIN Layout[l] : Layout[l][i] \subseteq inStore' \union skipped'
    <3> TAKE i \in DOMAIN Layout[l]
    <3>1. CASE i <= taken[l]
      <4>1. Dealt(l, i)
        BY <2>1, <2>2, <3>1 DEF Dealt
      <4> QED
        BY <2>1, <4>1 DEF PagesKept
    <3>2. CASE ~(i <= taken[l])
      <4>1. i \in taken[l] + 1 .. Len(Layout[l])
        BY <2>2, <3>2
      <4> QED
        BY <2>1, <4>1
    <3> QED
      BY <3>1, <3>2
  <2> QED
    BY <2>1, <2>2, <2>3 DEF EndsKnown
<1>14. ASSUME NEW l \in only, ClusterEnds(l) PROVE EndsKnown'
  <2>1. /\ shape = "clusters" /\ where[l] = "describing" /\ result = "none" /\ gathered = {}
        /\ UNCHANGED <<shape, only, result, inStore, skipped>> /\ ~(taken[l] < Len(Layout[l]))
    BY <1>14 DEF ClusterEnds, Is, More, HeldBack
  <2>2. l \in Listings /\ taken[l] \in Nat /\ \A k \in only \ {l} : where'[k] = where[k]
    BY <1>14, PutsOne DEF ClusterEnds, ServiceShape
  <2>3. \A i \in DOMAIN Layout[l] : Dealt(l, i)
    BY <2>1, <2>2 DEF Dealt
  <2> QED
    BY <2>1, <2>2, <2>3 DEF EndsKnown, PagesKept
<1>15. \A l \in only, how \in Ways : PhasePage(l, how) => EndsKnown'
  BY DEF PhasePage, Lists, More, Puts, Passes, Page, Upsert, ServiceShape, HeldBack, PagesKept,
     EndsKnown, Dealt, Through
<1>16. \A l \in only, how \in Ways : EnrichJoin(l, how) => EndsKnown'
  BY DEF EnrichJoin, Is, Puts, Passes, Page, Upsert, ServiceShape, HeldBack, PagesKept,
     EndsKnown, Dealt, Through
<1>17. \A l \in only, how \in Ways : Describe(l, how) => EndsKnown'
  BY DEF Describe, More, Is, Puts, Passes, Page, Upsert, ServiceShape, HeldBack, PagesKept,
     EndsKnown, Dealt, Through
<1>18. \A x \in asking, how \in {"row", "refused", "failed"} : Enrich(x, how) => EndsKnown'
  BY DEF Enrich, Page, ServiceShape, HeldBack, PagesKept, EndsKnown, Dealt, Through
<1>19. PhasesJoin => EndsKnown'
  BY DEF PhasesJoin, Back, Page, ServiceShape, HeldBack, PagesKept, EndsKnown, Dealt, Through
<1>20. ClustersEnd => EndsKnown'
  BY DEF ClustersEnd, Back, Page, ServiceShape, HeldBack, PagesKept, EndsKnown, Dealt, Through
<1>21. \A how \in Ways : FanoutJoin(how) => EndsKnown'
  BY DEF FanoutJoin, Back, Page, Upsert, ServiceShape, HeldBack, PagesKept, EndsKnown, Dealt,
     Through
<1>22. Expire => EndsKnown'
  BY DEF Expire, Page, ServiceShape, HeldBack, PagesKept, EndsKnown, Dealt, Through
<1>23. UNCHANGED serviceVars => EndsKnown'
  BY DEF serviceVars, Lists, More, Is, Puts, Passes, Back, Page, Upsert, ServiceShape,
     HeldBack, PagesKept, EndsKnown, Dealt, Through
<1> QED
  BY <1>1, <1>2, <1>3, <1>4, <1>5, <1>6, <1>7, <1>8, <1>9, <1>10, <1>11, <1>12, <1>13, <1>14,
     <1>15, <1>16, <1>17, <1>18, <1>19, <1>20, <1>21, <1>22, <1>23,
     ServiceCases, Zenon

\* What is handled stays handled, and what comes into the store is of handled pages.
LEMMA StoredOnceKept ==
    ASSUME StoredOnce, UNCHANGED <<shape, only>>,
           \A k \in only : \A i \in DOMAIN Layout[k] : Handled(k, i) => Handled(k, i)',
           \A x \in inStore' : x \notin inStore =>
              \E k \in only : \E i \in DOMAIN Layout[k] : x \in Layout[k][i] /\ Handled(k, i)'
    PROVE  StoredOnce'
BY DEF StoredOnce

\* Each row comes into the store with its page.
LEMMA StoredOnceStep ==
    ServiceShape /\ HeldBack /\ StoredOnce /\ [ServiceNext]_serviceVars => StoredOnce'
<1> SUFFICES ASSUME ServiceShape, HeldBack, StoredOnce
             PROVE  [ServiceNext]_serviceVars => StoredOnce'
  OBVIOUS
<1> USE LayoutFacts
<1>1. \A l \in only : ListingRefused(l) => StoredOnce'
  BY DEF ListingRefused, Lists, More, Puts, Page, ServiceShape, HeldBack, StoredOnce, Handled,
     Dealt
<1>2. \A l \in only : CallFails(l) => StoredOnce'
  BY DEF CallFails, Lists, More, Puts, Page, ServiceShape, HeldBack, StoredOnce, Handled, Dealt
<1>3. \A l \in only : ListingEnds(l) => StoredOnce'
  BY DEF ListingEnds, More, Puts, Page, ServiceShape, HeldBack, StoredOnce, Handled, Dealt
<1>4. \A l \in only : EnrichPage(l) => StoredOnce'
  BY DEF EnrichPage, Lists, More, Puts, Passes, Page, ServiceShape, HeldBack, StoredOnce,
     Handled, Dealt
<1>5. \A l \in only : EnrichEnds(l) => StoredOnce'
  BY DEF EnrichEnds, More, Is, Puts, Page, ServiceShape, HeldBack, StoredOnce, Handled, Dealt
<1>6. \A l \in only : FanoutAcquires(l) => StoredOnce'
  BY DEF FanoutAcquires, Is, Puts, Page, ServiceShape, HeldBack, StoredOnce, Handled, Dealt
<1>7. \A l \in only : FanoutDropped(l) => StoredOnce'
  BY DEF FanoutDropped, Is, Puts, Page, ServiceShape, HeldBack, StoredOnce, Handled, Dealt
<1>8. \A l \in only : FanoutPage(l) => StoredOnce'
  BY DEF FanoutPage, Lists, More, Passes, Page, ServiceShape, HeldBack, StoredOnce, Handled, Dealt
<1>9. \A l \in only : ClusterStarts(l) => StoredOnce'
  BY DEF ClusterStarts, Is, Puts, Page, ServiceShape, HeldBack, StoredOnce, Handled, Dealt
<1>10. \A l \in only : ClusterPage(l) => StoredOnce'
  BY DEF ClusterPage, Lists, More, Passes, Page, ServiceShape, HeldBack, StoredOnce, Handled,
     Dealt
<1>11. \A l \in only : ClusterRefused(l) => StoredOnce'
  BY DEF ClusterRefused, Lists, More, Page, ServiceShape, HeldBack, StoredOnce, Handled, Dealt
<1>12. ASSUME NEW l \in only, ClusterListed(l) PROVE StoredOnce'
  <2>1. shape = "clusters" /\ where[l] = "listing" /\ UNCHANGED <<shape, only, inStore>>
    BY <1>12 DEF ClusterListed, Is
  <2>2. \A k \in only \ {l} : where'[k] = where[k] /\ taken'[k] = taken[k]
    BY <1>12 DEF ClusterListed, Puts, ServiceShape
  <2>3. \A i : ~Handled(l, i)
    BY <2>1 DEF Handled, Dealt
  <2>4. \A k \in only : \A i \in DOMAIN Layout[k] : Handled(k, i) => Handled(k, i)'
    BY <2>1, <2>2, <2>3 DEF Handled, Dealt
  <2> QED
    BY <2>1, <2>4, StoredOnceKept
<1>13. \A l \in only : DescribeRefused(l) => StoredOnce'
  BY DEF DescribeRefused, More, Is, Puts, Page, ServiceShape, HeldBack, StoredOnce, Handled, Dealt
<1>14. \A l \in only : ClusterEnds(l) => StoredOnce'
  BY DEF ClusterEnds, More, Is, Puts, Page, ServiceShape, HeldBack, StoredOnce, Handled, Dealt
<1>15. ASSUME NEW l \in only, NEW how \in Ways, PhasePage(l, how) PROVE StoredOnce'
  <2>1. taken[l] < Len(Layout[l]) /\ Upsert(Page(l), how)
    BY <1>15 DEF PhasePage, Lists, More
  <2>2. /\ Page(l) = Layout[l][taken[l] + 1] /\ Page(l) \subseteq Rows
        /\ taken[l] + 1 \in 1 .. Len(Layout[l]) /\ l \in Listings /\ taken[l] \in Nat
    BY <2>1, PageIsListed
  <2>3. /\ inStore \subseteq inStore' /\ inStore' \subseteq inStore \union Page(l)
        /\ inStore' \subseteq Rows /\ total' \in Nat
        /\ how # "failed" => Page(l) \subseteq inStore'
    BY <2>1, <2>2, UpsertStores
  <2>4. UNCHANGED <<shape, only>>
    BY <1>15 DEF PhasePage
  <2>5. \A k \in only : \A i \in DOMAIN Layout[k] : Handled(k, i) => Handled(k, i)'
    <3>1. CASE how = "done"
      <4>1. Passes(l) /\ shape = "phases" /\ UNCHANGED <<shape, where>>
        BY <1>15, <3>1 DEF PhasePage, Lists
      <4>2. \A k \in only : \A i : Dealt(k, i)' <=> Dealt(k, i) \/ (k = l /\ i = taken[l] + 1)
        BY <2>1, <4>1, PassDeals
      <4> QED
        BY <4>1, <4>2 DEF Handled
    <3>2. CASE how # "done"
      BY <1>15, <2>1, <2>2, <3>2, PutsOne DEF PhasePage, Lists, Handled, Dealt, ServiceShape
    <3> QED
      BY <3>1, <3>2
  <2>6. \A i : i = taken[l] + 1 => Handled(l, i)'
    <3>1. CASE how = "done"
      <4>1. Passes(l) /\ shape = "phases" /\ UNCHANGED <<shape, where>>
        BY <1>15, <3>1 DEF PhasePage, Lists
      <4>2. \A k \in only : \A i : Dealt(k, i)' <=> Dealt(k, i) \/ (k = l /\ i = taken[l] + 1)
        BY <2>1, <4>1, PassDeals
      <4> QED
        BY <4>1, <4>2 DEF Handled
    <3>2. CASE how # "done"
      BY <1>15, <2>1, <2>2, <3>2, PutsOne DEF PhasePage, Lists, Handled, Dealt, ServiceShape
    <3> QED
      BY <3>1, <3>2
  <2>7. \A x \in inStore' : x \notin inStore => x \in Layout[l][taken[l] + 1]
    BY <2>2, <2>3
  <2>8. taken[l] + 1 \in DOMAIN Layout[l]
    BY <2>2
  <2>9. \A x \in inStore' : x \notin inStore =>
           \E k \in only : \E i \in DOMAIN Layout[k] : x \in Layout[k][i] /\ Handled(k, i)'
    BY <2>6, <2>7, <2>8
  <2> QED
    BY <2>4, <2>5, <2>9, StoredOnceKept
<1>16. ASSUME NEW l \in only, NEW how \in Ways, EnrichJoin(l, how) PROVE StoredOnce'
  <2>1. CASE failed
    BY <1>16, <2>1 DEF EnrichJoin, Is, Puts, Passes, HeldBack, StoredOnce, Handled, Dealt,
       ServiceShape
  <2>2. CASE ~failed
    <3>1. Upsert(gathered, how) /\ how # "unlinked"
      BY <1>16, <2>2 DEF EnrichJoin
    <3>2. gathered \subseteq Rows
      BY DEF ServiceShape
    <3>3. /\ inStore \subseteq inStore' /\ inStore' \subseteq inStore \union gathered
          /\ inStore' \subseteq Rows /\ total' \in Nat
          /\ how # "failed" => gathered \subseteq inStore'
      BY <3>1, <3>2, UpsertStores
    <3>4. /\ taken[l] < Len(Layout[l]) /\ shape = "enrich" /\ \A k \in only : k = l
          /\ gathered \subseteq Page(l) /\ UNCHANGED <<shape, only>>
      BY <1>16, <2>2 DEF EnrichJoin, Is, HeldBack, ServiceShape
    <3>5. /\ Page(l) = Layout[l][taken[l] + 1] /\ taken[l] + 1 \in DOMAIN Layout[l]
          /\ l \in Listings /\ taken[l] \in Nat
      BY <3>4, PageIsListed
    <3>6. \A i : Handled(l, i) \/ i = taken[l] + 1 => Handled(l, i)'
      <4>1. CASE how = "done"
        <5>1. Passes(l) /\ where[l] = "enriching" /\ shape' = shape
          BY <1>16, <2>2, <4>1 DEF EnrichJoin, Is
        <5>2. \A k \in only : \A i : Dealt(k, i)' <=> Dealt(k, i) \/ (k = l /\ i = taken[l] + 1)
          BY <3>4, <5>1, PassDeals
        <5> QED
          BY <5>1, <5>2 DEF Handled
      <4>2. CASE how # "done"
        BY <1>16, <2>2, <3>4, <3>5, <4>2, PutsOne DEF EnrichJoin, Is, Handled, Dealt, ServiceShape
      <4> QED
        BY <4>1, <4>2
    <3>7. \A x \in inStore' : x \notin inStore => x \in Layout[l][taken[l] + 1]
      BY <3>3, <3>4, <3>5
    <3>8. \A x \in inStore' : x \notin inStore =>
             \E k \in only : \E i \in DOMAIN Layout[k] : x \in Layout[k][i] /\ Handled(k, i)'
      BY <3>5, <3>6, <3>7
    <3>9. \A k \in only : \A i \in DOMAIN Layout[k] : Handled(k, i) => Handled(k, i)'
      BY <3>4, <3>6
    <3> QED
      BY <3>4, <3>8, <3>9, StoredOnceKept
  <2> QED
    BY <2>1, <2>2
<1>17. ASSUME NEW l \in only, NEW how \in Ways, Describe(l, how) PROVE StoredOnce'
  <2>1. taken[l] < Len(Layout[l]) /\ Upsert(Page(l), how)
    BY <1>17 DEF Describe, Is, More
  <2>2. /\ Page(l) = Layout[l][taken[l] + 1] /\ Page(l) \subseteq Rows
        /\ taken[l] + 1 \in 1 .. Len(Layout[l]) /\ l \in Listings /\ taken[l] \in Nat
    BY <2>1, PageIsListed
  <2>3. /\ inStore \subseteq inStore' /\ inStore' \subseteq inStore \union Page(l)
        /\ inStore' \subseteq Rows /\ total' \in Nat
        /\ how # "failed" => Page(l) \subseteq inStore'
    BY <2>1, <2>2, UpsertStores
  <2>4. UNCHANGED <<shape, only>>
    BY <1>17 DEF Describe
  <2>5. \A k \in only : \A i \in DOMAIN Layout[k] : Handled(k, i) => Handled(k, i)'
    <3>1. CASE how = "done"
      <4>1. Passes(l) /\ where[l] = "describing" /\ UNCHANGED <<shape, where>>
        BY <1>17, <3>1 DEF Describe, Is
      <4>2. \A k \in only : \A i : Dealt(k, i)' <=> Dealt(k, i) \/ (k = l /\ i = taken[l] + 1)
        BY <2>1, <4>1, PassDeals
      <4> QED
        BY <4>1, <4>2 DEF Handled
    <3>2. CASE how # "done"
      BY <1>17, <2>1, <2>2, <3>2, PassesOne, PutsOne DEF Describe, Is, Handled, Dealt,
         ServiceShape
    <3> QED
      BY <3>1, <3>2
  <2>6. \A i : i = taken[l] + 1 => Handled(l, i)'
    <3>1. CASE how = "done"
      <4>1. Passes(l) /\ where[l] = "describing" /\ UNCHANGED <<shape, where>>
        BY <1>17, <3>1 DEF Describe, Is
      <4>2. \A k \in only : \A i : Dealt(k, i)' <=> Dealt(k, i) \/ (k = l /\ i = taken[l] + 1)
        BY <2>1, <4>1, PassDeals
      <4> QED
        BY <4>1, <4>2 DEF Handled
    <3>2. CASE how # "done"
      BY <1>17, <2>1, <2>2, <3>2, PassesOne, PutsOne DEF Describe, Is, Handled, Dealt,
         ServiceShape
    <3> QED
      BY <3>1, <3>2
  <2>7. \A x \in inStore' : x \notin inStore => x \in Layout[l][taken[l] + 1]
    BY <2>2, <2>3
  <2>8. taken[l] + 1 \in DOMAIN Layout[l]
    BY <2>2
  <2>9. \A x \in inStore' : x \notin inStore =>
           \E k \in only : \E i \in DOMAIN Layout[k] : x \in Layout[k][i] /\ Handled(k, i)'
    BY <2>6, <2>7, <2>8
  <2> QED
    BY <2>4, <2>5, <2>9, StoredOnceKept
<1>18. \A x \in asking, how \in {"row", "refused", "failed"} : Enrich(x, how) => StoredOnce'
  BY DEF Enrich, Page, ServiceShape, HeldBack, StoredOnce, Handled, Dealt
<1>19. PhasesJoin => StoredOnce'
  BY DEF PhasesJoin, Back, Page, ServiceShape, HeldBack, StoredOnce, Handled, Dealt
<1>20. ClustersEnd => StoredOnce'
  BY DEF ClustersEnd, Back, Page, ServiceShape, HeldBack, StoredOnce, Handled, Dealt
<1>21. \A how \in Ways : FanoutJoin(how) => StoredOnce'
  BY DEF FanoutJoin, Back, Page, Upsert, ServiceShape, HeldBack, StoredOnce, Handled, Dealt
<1>22. Expire => StoredOnce'
  BY DEF Expire, Page, ServiceShape, HeldBack, StoredOnce, Handled, Dealt
<1>23. UNCHANGED serviceVars => StoredOnce'
  BY DEF serviceVars, Lists, More, Is, Puts, Passes, Back, Page, Upsert, ServiceShape,
     HeldBack, StoredOnce, Handled, Dealt
<1> QED
  BY <1>1, <1>2, <1>3, <1>4, <1>5, <1>6, <1>7, <1>8, <1>9, <1>10, <1>11, <1>12, <1>13, <1>14,
     <1>15, <1>16, <1>17, <1>18, <1>19, <1>20, <1>21, <1>22, <1>23,
     ServiceCases, Zenon

\* The page a listing comes to has not been stored: it is on one page only.
LEMMA PageIsFresh ==
    ASSUME ServiceShape, StoredOnce, shape # "fanout",
           NEW l \in only, taken[l] < Len(Layout[l]), where[l] # "back"
    PROVE  Page(l) \intersect inStore = {}
<1>1. SUFFICES ASSUME NEW x \in inStore, x \in Page(l) PROVE FALSE
  OBVIOUS
<1>2. PICK k \in only : \E i \in DOMAIN Layout[k] : x \in Layout[k][i] /\ Handled(k, i)
  BY DEF StoredOnce
<1>3. PICK i \in DOMAIN Layout[k] : x \in Layout[k][i] /\ Handled(k, i)
  BY <1>2
<1>4. x \in Layout[l][taken[l] + 1] /\ taken[l] + 1 \in DOMAIN Layout[l] /\ taken[l] \in Nat
  BY <1>1, PageIsListed, LayoutFacts
<1>5. l \in Listings /\ k \in Listings
  BY DEF ServiceShape
<1>6. k = l /\ i = taken[l] + 1
  BY <1>3, <1>4, <1>5, ServiceAssumption
<1> QED
  BY <1>3, <1>4, <1>6 DEF Handled, Dealt

\* What is counted is what came into the store.
LEMMA UpsertCounts ==
    ASSUME ServiceShape, NEW rows, rows \subseteq Rows, rows \intersect inStore = {},
           NEW how \in Ways, Upsert(rows, how)
    PROVE  /\ total <= Cardinality(inStore) => total' <= Cardinality(inStore')
           /\ how = "done" /\ total = Cardinality(inStore) => total' = Cardinality(inStore')
<1>1. /\ IsFiniteSet(rows) /\ Cardinality(rows) \in Nat
      /\ IsFiniteSet(inStore) /\ Cardinality(inStore) \in Nat /\ total \in Nat
  BY ServiceAssumption, FS_Subset, FS_CardinalityType DEF ServiceShape
<1>2. Cardinality(inStore \union rows) = Cardinality(inStore) + Cardinality(rows)
  <2>1. inStore \intersect rows = {}
    OBVIOUS
  <2>2. Cardinality(inStore \intersect rows) = 0
    BY <2>1, FS_EmptySet, Zenon
  <2>3. Cardinality(inStore \union rows) =
           Cardinality(inStore) + Cardinality(rows) - Cardinality(inStore \intersect rows)
    BY <1>1, FS_Union
  <2> QED
    BY <1>1, <2>2, <2>3
<1>3. CASE how = "failed"
  <2>1. inStore' = inStore /\ total' = total
    BY <1>3 DEF Upsert
  <2>2. Cardinality(inStore') = Cardinality(inStore)
    BY <2>1, Zenon
  <2> QED
    BY <1>3, <2>1, <2>2
<1>4. CASE how # "failed"
  <2>1. /\ inStore' = inStore \union rows
        /\ total' = IF how \in {"done", "unlinked"} THEN total + Cardinality(rows) ELSE total
    BY <1>4 DEF Upsert
  <2>2. Cardinality(inStore') = Cardinality(inStore) + Cardinality(rows)
    BY <1>2, <2>1, Zenon
  <2> QED
    BY <1>1, <2>1, <2>2
<1> QED
  BY <1>3, <1>4

\* The count keeps pace with the store until an error is on its way.
LEMMA CountedStep ==
    ServiceShape /\ HeldBack /\ StoredOnce /\ Counted /\ [ServiceNext]_serviceVars => Counted'
<1> SUFFICES ASSUME ServiceShape, HeldBack, StoredOnce, Counted
             PROVE  [ServiceNext]_serviceVars => Counted'
  OBVIOUS
<1>1. \A l \in only : ListingRefused(l) => Counted'
  BY DEF ListingRefused, Lists, Is, Counted
<1>2. \A l \in only : CallFails(l) => Counted'
  BY DEF CallFails, Lists, Is, Counted
<1>3. \A l \in only : ListingEnds(l) => Counted'
  BY DEF ListingEnds, Lists, Is, Counted
<1>4. \A l \in only : EnrichPage(l) => Counted'
  BY DEF EnrichPage, Lists, Is, Counted
<1>5. \A l \in only : EnrichEnds(l) => Counted'
  BY DEF EnrichEnds, Lists, Is, Counted
<1>6. \A l \in only : FanoutAcquires(l) => Counted'
  BY DEF FanoutAcquires, Lists, Is, Counted
<1>7. \A l \in only : FanoutDropped(l) => Counted'
  BY DEF FanoutDropped, Lists, Is, Counted
<1>8. \A l \in only : FanoutPage(l) => Counted'
  BY DEF FanoutPage, Lists, Is, Counted
<1>9. \A l \in only : ClusterStarts(l) => Counted'
  BY DEF ClusterStarts, Lists, Is, Counted
<1>10. \A l \in only : ClusterPage(l) => Counted'
  BY DEF ClusterPage, Lists, Is, Counted
<1>11. \A l \in only : ClusterRefused(l) => Counted'
  BY DEF ClusterRefused, Lists, Is, Counted
<1>12. \A l \in only : ClusterListed(l) => Counted'
  BY DEF ClusterListed, Lists, Is, Counted
<1>13. \A l \in only : DescribeRefused(l) => Counted'
  BY DEF DescribeRefused, Lists, Is, Counted
<1>14. \A l \in only : ClusterEnds(l) => Counted'
  BY DEF ClusterEnds, Lists, Is, Counted
<1>15. ASSUME NEW l \in only, NEW how \in Ways, PhasePage(l, how) PROVE Counted'
  <2>1. /\ shape = "phases" /\ taken[l] < Len(Layout[l]) /\ where[l] = "listing"
        /\ Upsert(Page(l), how) /\ UNCHANGED <<shape, result>>
        /\ (how = "done" => UNCHANGED failed) /\ (how # "done" => failed')
    BY <1>15 DEF PhasePage, Lists, More
  <2>2. Page(l) \intersect inStore = {} /\ Page(l) \subseteq Rows
    BY <2>1, PageIsFresh, PageIsListed
  <2>3. /\ total <= Cardinality(inStore) => total' <= Cardinality(inStore')
        /\ how = "done" /\ total = Cardinality(inStore) => total' = Cardinality(inStore')
    BY <2>1, <2>2, UpsertCounts
  <2> QED
    BY <2>1, <2>3 DEF Counted
<1>16. ASSUME NEW l \in only, NEW how \in Ways, EnrichJoin(l, how) PROVE Counted'
  <2>1. CASE failed
    BY <1>16, <2>1 DEF EnrichJoin, Is, Counted
  <2>2. CASE ~failed
    <3>1. /\ shape = "enrich" /\ where[l] = "enriching" /\ Upsert(gathered, how)
          /\ UNCHANGED <<shape, failed>>
          /\ (how = "done" => UNCHANGED result) /\ (how # "done" => result' = "error")
      BY <1>16, <2>2 DEF EnrichJoin, Is
    <3>2. taken[l] < Len(Layout[l]) /\ gathered \subseteq Page(l)
      BY <3>1 DEF HeldBack
    <3>3. gathered \intersect inStore = {} /\ gathered \subseteq Rows
      BY <3>1, <3>2, PageIsFresh DEF ServiceShape
    <3>4. /\ total <= Cardinality(inStore) => total' <= Cardinality(inStore')
          /\ how = "done" /\ total = Cardinality(inStore) => total' = Cardinality(inStore')
      BY <3>1, <3>3, UpsertCounts
    <3> QED
      BY <3>1, <3>4 DEF Counted
  <2> QED
    BY <2>1, <2>2
<1>17. ASSUME NEW l \in only, NEW how \in Ways, Describe(l, how) PROVE Counted'
  <2>1. /\ shape = "clusters" /\ taken[l] < Len(Layout[l]) /\ where[l] = "describing"
        /\ Upsert(Page(l), how) /\ UNCHANGED <<shape, failed>>
        /\ (how = "done" => UNCHANGED result) /\ (how # "done" => result' = "error")
    BY <1>17 DEF Describe, Is, More
  <2>2. Page(l) \intersect inStore = {} /\ Page(l) \subseteq Rows
    BY <2>1, PageIsFresh, PageIsListed
  <2>3. /\ total <= Cardinality(inStore) => total' <= Cardinality(inStore')
        /\ how = "done" /\ total = Cardinality(inStore) => total' = Cardinality(inStore')
    BY <2>1, <2>2, UpsertCounts
  <2> QED
    BY <2>1, <2>3 DEF Counted
<1>18. \A x \in asking, how \in {"row", "refused", "failed"} : Enrich(x, how) => Counted'
  BY DEF Enrich, Lists, Is, Counted
<1>19. PhasesJoin => Counted'
  BY DEF PhasesJoin, Lists, Is, Counted
<1>20. ClustersEnd => Counted'
  BY DEF ClustersEnd, Lists, Is, Counted
<1>21. ASSUME NEW how \in Ways, FanoutJoin(how) PROVE Counted'
  <2>1. /\ shape = "fanout" /\ inStore = {} /\ gathered \subseteq Rows
        /\ UNCHANGED <<shape, failed>> /\ (how # "done" => result' = "error")
    BY <1>21 DEF FanoutJoin, HeldBack, ServiceShape
  <2>2. CASE failed
    BY <1>21, <2>2 DEF FanoutJoin, Counted
  <2>3. CASE ~failed
    <3>1. Upsert(gathered, how)
      BY <1>21, <2>3 DEF FanoutJoin
    <3>2. /\ total <= Cardinality(inStore) => total' <= Cardinality(inStore')
          /\ how = "done" /\ total = Cardinality(inStore) => total' = Cardinality(inStore')
      BY <2>1, <3>1, UpsertCounts
    <3> QED
      BY <1>21, <2>1, <2>3, <3>2 DEF FanoutJoin, Counted
  <2> QED
    BY <2>2, <2>3
<1>22. Expire => Counted'
  BY DEF Expire, Lists, Is, Counted
<1>23. UNCHANGED serviceVars => Counted'
  BY DEF serviceVars, Counted
<1> QED
  BY <1>1, <1>2, <1>3, <1>4, <1>5, <1>6, <1>7, <1>8, <1>9, <1>10, <1>11, <1>12, <1>13, <1>14,
     <1>15, <1>16, <1>17, <1>18, <1>19, <1>20, <1>21, <1>22, <1>23,
     ServiceCases, Zenon


LEMMA ServiceInvInit == ServiceInit => ServiceInv
<1> SUFFICES ASSUME ServiceInit PROVE ServiceInv
  OBVIOUS
<1>1. ServiceShape
  <2>1. shape \in {"phases", "enrich", "fanout", "clusters"} /\ only \subseteq Listings
    BY ServiceAssumption DEF ServiceInit
  <2>2. where \in [Listings -> {"waiting", "listing", "enriching", "describing", "back"}]
    BY DEF ServiceInit
  <2>3. taken \in [Listings -> Nat] /\ \A l \in Listings : taken[l] <= Len(Layout[l])
    BY LayoutFacts DEF ServiceInit
  <2> QED
    BY <2>1, <2>2, <2>3 DEF ServiceInit, ServiceShape
<1>2. shape = "enrich" => \E l \in Listings : only = {l}
  <2>1. IsFiniteSet(only)
    BY ServiceAssumption, FS_Subset DEF ServiceInit
  <2> QED
    BY <2>1, FS_Singleton DEF ServiceInit
<1>3. HeldBack
  BY <1>2 DEF ServiceInit, HeldBack
<1>4. \A l \in only : (\A i : ~Dealt(l, i)) /\ where[l] # "back"
  BY DEF ServiceInit, Dealt
<1>5. PagesKept /\ EndsKnown
  BY <1>4 DEF ServiceInit, PagesKept, EndsKnown
<1>6. StoredOnce
  BY DEF ServiceInit, StoredOnce
<1>7. Counted
  <2>1. Cardinality(inStore) = 0
    BY FS_EmptySet DEF ServiceInit
  <2> QED
    BY <2>1 DEF ServiceInit, Counted
<1> QED
  BY <1>1, <1>3, <1>5, <1>6, <1>7 DEF ServiceInv

THEOREM ServiceInvariance == ServiceSpec => []ServiceInv
<1>1. ServiceInv /\ [ServiceNext]_serviceVars => ServiceInv'
  BY ServiceShapeStep, HeldBackStep, PagesKeptStep, EndsKnownStep, StoredOnceStep, CountedStep
     DEF ServiceInv
<1> QED
  BY ServiceInvInit, <1>1, PTL DEF ServiceSpec

\* What a scanner returns, an error or none and a count, is true of the store, for any
\* listings, pages and slots (pageScan, pageScanConcurrent, azRGFanoutScan,
\* gcpRegionFanoutScanIn, scanECSServices).
THEOREM ServiceTellsTruth == ServiceSpec => []ServiceResultIsTrue
<1>1. ServiceInv => NilMeansAllRead
  <2> SUFFICES ASSUME ServiceInv, result = "nil",
                      NEW l \in only, NEW i \in DOMAIN Layout[l], NEW x \in Layout[l][i]
               PROVE  x \in inStore \/ x \in skipped \/ givenUp[l] \in 1 .. i
    BY DEF NilMeansAllRead
  <2>1. CASE shape = "clusters"
    BY <2>1 DEF ServiceInv, EndsKnown
  <2>2. CASE shape # "clusters"
    <3>1. gathered = {} /\ Through(l) /\ l \in Listings
      BY <2>2 DEF ServiceInv, EndsKnown, ServiceShape
    <3>2. /\ i \in 1 .. Len(Layout[l]) /\ taken[l] \in Nat /\ Len(Layout[l]) \in Nat
          /\ givenUp[l] \in Nat
      BY <3>1, LayoutFacts DEF ServiceInv, ServiceShape
    <3>3. CASE i <= taken[l]
      <4>1. Dealt(l, i)
        BY <2>2, <3>2, <3>3 DEF Dealt
      <4> QED
        BY <3>1, <4>1 DEF ServiceInv, PagesKept
    <3>4. CASE ~(i <= taken[l])
      BY <3>1, <3>2, <3>4 DEF Through
    <3> QED
      BY <3>3, <3>4
  <2> QED
    BY <2>1, <2>2
<1>2. ServiceInv => CountIsOfStored
  BY DEF ServiceInv, Counted, EndsKnown, CountIsOfStored
<1> QED
  BY <1>1, <1>2, ServiceInvariance, PTL DEF ServiceResultIsTrue

-----------------------------------------------------------------------------
(* TokenRetry. *)

FlightPlaces == {"idle", "asking", "got", "sleeping", "judging", "gave up", "exhausted"}

\* The stamp is the time of the first failure since a success, however the three
\* atomic operations of several keys fall; who judges has failed at this moment.
TokenInv ==
    /\ now \in Nat /\ firstFailure \in Nat /\ cleared \in Nat
    /\ call \in [TokenKeys -> [at : FlightPlaces, attempt : Nat, since : Nat]]
    /\ firstFailure = failedAt
    /\ failedAt # 0 => cleared <= failedAt
    /\ cleared <= now
    /\ \A k \in TokenKeys : /\ call[k].since <= now
                            /\ Stands(k, "judging") => call[k].since = now

\* An acquisition that goes elsewhere keeps its attempt and the time it failed.
LEMMA GoesOn ==
    ASSUME TokenInv, NEW k \in TokenKeys, NEW place \in FlightPlaces, Goes(k, place)
    PROVE  /\ call' \in [TokenKeys -> [at : FlightPlaces, attempt : Nat, since : Nat]]
           /\ call'[k].at = place /\ call'[k].since = call[k].since
           /\ \A j \in TokenKeys \ {k} : call'[j] = call[j]
BY DEF TokenInv, Goes

\* A failure of k finds the streak begun, or begins it.
LEMMA StampFalls ==
    ASSUME TokenInv, NEW k \in TokenKeys, Stamp(k)
    PROVE  /\ UNCHANGED <<now, cleared>>
           /\ firstFailure' = (IF firstFailure = 0 THEN now ELSE firstFailure)
           /\ failedAt' = (IF failedAt = 0 THEN now ELSE failedAt)
           /\ call' \in [TokenKeys -> [at : FlightPlaces, attempt : Nat, since : Nat]]
           /\ call'[k].at = (IF firstFailure = 0 THEN Retry(k) ELSE "judging")
           /\ call'[k].since = now
           /\ \A j \in TokenKeys \ {k} : call'[j] = call[j]
<1>1. Retry(k) \in {"gave up", "sleeping"} /\ call[k].attempt \in Nat /\ now \in Nat
  BY DEF Retry, TokenInv
<1>2. CASE firstFailure = 0
  <2>1. call' = [call EXCEPT ![k].at = Retry(k), ![k].since = now] /\ firstFailure' = now
    BY <1>2 DEF Stamp
  <2> QED
    BY <1>1, <1>2, <2>1 DEF Stamp, TokenInv, FlightPlaces
<1>3. CASE firstFailure # 0
  <2>1. call' = [call EXCEPT ![k].at = "judging", ![k].since = now] /\ firstFailure' = firstFailure
    BY <1>3 DEF Stamp
  <2> QED
    BY <1>1, <1>3, <2>1 DEF Stamp, TokenInv, FlightPlaces
<1> QED
  BY <1>2, <1>3

LEMMA TokenStep == TokenInv /\ [TokenNext]_tokenVars => TokenInv'
<1> SUFFICES ASSUME TokenInv, [TokenNext]_tokenVars PROVE TokenInv'
  OBVIOUS
<1>1. ASSUME NEW k \in TokenKeys, Acquire(k) PROVE TokenInv'
  <2>1. call' = [call EXCEPT ![k] = [at |-> "asking", attempt |-> 1, since |-> 0]]
    BY <1>1 DEF Acquire
  <2>2. /\ call' \in [TokenKeys -> [at : FlightPlaces, attempt : Nat, since : Nat]]
        /\ call'[k].at = "asking" /\ call'[k].since = 0
        /\ \A j \in TokenKeys \ {k} : call'[j] = call[j]
    BY <2>1 DEF TokenInv, FlightPlaces
  <2>3. UNCHANGED <<now, firstFailure, cleared, failedAt>>
    BY <1>1 DEF Acquire
  <2> QED
    BY <2>2, <2>3 DEF TokenInv, Stands
<1>2. ASSUME NEW k \in TokenKeys, Succeeds(k) PROVE TokenInv'
  <2>1. /\ call' \in [TokenKeys -> [at : FlightPlaces, attempt : Nat, since : Nat]]
        /\ call'[k].at = "got" /\ call'[k].since = call[k].since
        /\ \A j \in TokenKeys \ {k} : call'[j] = call[j]
    BY <1>2, GoesOn DEF Succeeds, FlightPlaces
  <2> QED
    BY <1>2, <2>1 DEF Succeeds, TokenInv, Stands
<1>3. ASSUME NEW k \in TokenKeys, Fails(k) PROVE TokenInv'
  BY <1>3, GoesOn DEF Fails, TokenInv, Stands, FlightPlaces
<1>4. ASSUME NEW k \in TokenKeys, Stamp(k) PROVE TokenInv'
  BY <1>4, StampFalls DEF TokenInv, Stands
<1>5. ASSUME NEW k \in TokenKeys, Judge(k) PROVE TokenInv'
  BY <1>5, GoesOn DEF Judge, Retry, TokenInv, Stands, FlightPlaces
<1>6. ASSUME NEW k \in TokenKeys, Wakes(k) PROVE TokenInv'
  <2>1. call' = [call EXCEPT ![k].at = "asking", ![k].attempt = call[k].attempt + 1]
    BY <1>6 DEF Wakes
  <2>2. /\ call' \in [TokenKeys -> [at : FlightPlaces, attempt : Nat, since : Nat]]
        /\ call'[k].at = "asking" /\ call'[k].since = call[k].since
        /\ \A j \in TokenKeys \ {k} : call'[j] = call[j]
    <3>1. call[k].attempt \in Nat /\ call[k].attempt + 1 \in Nat
      BY DEF TokenInv
    <3> QED
      BY <2>1, <3>1 DEF TokenInv, FlightPlaces
  <2> QED
    BY <1>6, <2>2 DEF Wakes, TokenInv, Stands
<1>7. CASE Tick
  BY <1>7 DEF Tick, TokenInv, Stands
<1>8. CASE UNCHANGED tokenVars
  BY <1>8 DEF tokenVars, TokenInv, Stands
<1> QED
  BY <1>1, <1>2, <1>3, <1>4, <1>5, <1>6, <1>7, <1>8 DEF TokenNext

THEOREM TokenInvariance == TokenSpec => []TokenInv
<1>1. TokenInit => TokenInv
  BY DEF TokenInit, Idle, TokenInv, Stands, FlightPlaces
<1> QED
  BY <1>1, TokenStep, PTL DEF TokenSpec

\* Each step leaves the other acquisitions where they are.
LEMMA TokenCases ==
    ASSUME TokenInv, TokenNext, NEW k \in TokenKeys, call'[k] # call[k]
    PROVE  Acquire(k) \/ Succeeds(k) \/ Fails(k) \/ Stamp(k) \/ Judge(k) \/ Wakes(k)
<1> SUFFICES ASSUME NEW j \in TokenKeys, j # k,
                    \/ Acquire(j) \/ Succeeds(j) \/ Fails(j) \/ Stamp(j) \/ Judge(j) \/ Wakes(j)
             PROVE  FALSE
  BY DEF TokenNext, Tick
<1>1. CASE Acquire(j) \/ Wakes(j)
  BY <1>1 DEF Acquire, Wakes, TokenInv
<1>2. CASE Succeeds(j) \/ Fails(j) \/ Judge(j)
  BY <1>2 DEF Succeeds, Fails, Judge, Goes, TokenInv
<1>3. CASE Stamp(j)
  BY <1>3, StampFalls
<1> QED
  BY <1>1, <1>2, <1>3

\* Where an acquisition that moves has got to, and by which operation.
LEMMA TokenMoves ==
    ASSUME TokenInv, TokenNext, NEW k \in TokenKeys, call'[k] # call[k]
    PROVE  /\ call'[k].at = "exhausted" => Judge(k) /\ Spent(k)
           /\ call'[k].at = "sleeping" => Stamp(k) \/ (Judge(k) /\ ~Spent(k))
<1>1. CASE Acquire(k)
  <2>1. call'[k].at = "asking"
    BY <1>1 DEF Acquire, TokenInv
  <2> QED
    BY <2>1
<1>2. CASE Succeeds(k)
  <2>1. call'[k].at = "got"
    BY <1>2 DEF Succeeds, Goes, TokenInv
  <2> QED
    BY <2>1
<1>3. CASE Fails(k)
  <2>1. call'[k].at = "gave up"
    BY <1>3 DEF Fails, Goes, TokenInv
  <2> QED
    BY <2>1
<1>4. CASE Stamp(k)
  <2>1. call'[k].at # "exhausted"
    BY <1>4, StampFalls DEF Retry
  <2> QED
    BY <1>4, <2>1
<1>5. CASE Judge(k)
  <2>1. call'[k].at = IF Spent(k) THEN "exhausted" ELSE Retry(k)
    BY <1>5 DEF Judge, Goes, TokenInv
  <2> QED
    BY <1>5, <2>1 DEF Retry
<1>6. CASE Wakes(k)
  <2>1. call'[k].at = "asking"
    BY <1>6 DEF Wakes, TokenInv
  <2> QED
    BY <2>1
<1> QED
  BY <1>1, <1>2, <1>3, <1>4, <1>5, <1>6, TokenCases

\* A credential is given up only after a whole budget of failures since the last
\* success, and no later than the next failure, for any number of keys, attempts and
\* any interleaving of the operations on the stamp (acquireWithRetry, exhausted).
THEOREM TokenGivesUpInTime == TokenSpec => GivesUpInTime
<1>1. ASSUME TokenInv, TokenNext, NEW k \in TokenKeys,
             ~Stands(k, "exhausted"), call'[k].at = "exhausted"
      PROVE  failedAt # 0 /\ now > failedAt + Budget /\ failedAt >= cleared
  <2>1. Judge(k) /\ Spent(k)
    BY <1>1, TokenMoves DEF Stands
  <2>2. /\ firstFailure # 0 /\ call[k].since > firstFailure + Budget
        /\ call[k].since <= now /\ firstFailure = failedAt /\ cleared <= failedAt
        /\ now \in Nat /\ firstFailure \in Nat /\ cleared \in Nat /\ call[k].since \in Nat
    BY <1>1, <2>1 DEF Spent, TokenInv
  <2> QED
    BY <2>2, TokenAssumption
<1>2. ASSUME TokenInv, TokenNext, NEW k \in TokenKeys,
             ~Stands(k, "sleeping"), call'[k].at = "sleeping"
      PROVE  failedAt' = 0 \/ now <= failedAt' + Budget
  <2>1. Stamp(k) \/ (Judge(k) /\ ~Spent(k))
    BY <1>2, TokenMoves DEF Stands
  <2>2. /\ now \in Nat /\ firstFailure \in Nat /\ firstFailure = failedAt
        /\ call[k].since \in Nat /\ Budget \in Nat
    BY <1>2, TokenAssumption DEF TokenInv
  <2>3. CASE Stamp(k)
    <3>1. firstFailure = 0 /\ failedAt' = now
      BY <1>2, <2>2, <2>3, StampFalls
    <3> QED
      BY <2>2, <3>1
  <2>4. CASE Judge(k) /\ ~Spent(k)
    <3>1. call[k].since = now /\ failedAt' = failedAt
      BY <1>2, <2>4 DEF Judge, TokenInv
    <3> QED
      BY <2>2, <2>4, <3>1 DEF Spent
  <2> QED
    BY <2>1, <2>3, <2>4
<1>3. TokenInv /\ [TokenNext]_tokenVars =>
         [\A k \in TokenKeys : ~Stands(k, "exhausted") /\ call'[k].at = "exhausted"
            => failedAt # 0 /\ now > failedAt + Budget /\ failedAt >= cleared]_tokenVars
  BY <1>1
<1>4. TokenInv /\ [TokenNext]_tokenVars =>
         [\A k \in TokenKeys : ~Stands(k, "sleeping") /\ call'[k].at = "sleeping"
            => failedAt' = 0 \/ now <= failedAt' + Budget]_tokenVars
  BY <1>2
<1> QED
  BY <1>3, <1>4, TokenInvariance, PTL DEF TokenSpec, GivesUpInTime, GivesUpLate, StopsRetrying
=============================================================================
