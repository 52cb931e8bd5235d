------------------------- MODULE AzureDispatchProofs -------------------------
(* Proofs about AzureDispatch, for every value of its constants. *)
EXTENDS AzureDispatch, FiniteSetTheorems, TLAPS

\* A step leaves every variable in its type.
LEMMA TypeStep == TypeOK /\ [Next]_vars => TypeOK'
<1> SUFFICES ASSUME TypeOK, [Next]_vars PROVE TypeOK'
  OBVIOUS
<1> USE DispatchAssumption DEF TypeOK, Scopes, Working, TenantServices, mainVars, tenantVars,
       subVars, record, history
<1>1. ASSUME NEW known \in BOOLEAN, ResolveTenant(known) PROVE TypeOK'
  BY <1>1 DEF ResolveTenant
<1>2. ASSUME Join PROVE TypeOK'
  BY <1>2 DEF Join
<1>3. ASSUME NEW how \in {"ok", "warned", "fault"}, Stitch(how) PROVE TypeOK'
  BY <1>3 DEF Stitch, Report
<1>4. ASSUME Cancel PROVE TypeOK'
  BY <1>4 DEF Cancel
<1>5. ASSUME Account PROVE TypeOK'
  BY <1>5 DEF Account
<1>6. ASSUME NEW i \in DOMAIN TenantOrder,
             NEW how \in {"ok", "warned", "fault"}, TenantService(i, how)
      PROVE  TypeOK'
  BY <1>6 DEF TenantService, Turn, Report
<1>7. ASSUME NEW i \in DOMAIN TenantOrder, TenantPanics(i) PROVE TypeOK'
  BY <1>7 DEF TenantPanics, Turn, Error, Lose
<1>8. ASSUME CloseEntra PROVE TypeOK'
  BY <1>8 DEF CloseEntra
<1>9. ASSUME NEW s \in Subs, Acquire(s) PROVE TypeOK'
  <2>1. CASE subFree > 0 /\ Goto(s, "probing") /\ subFree' = subFree - 1 /\ UNCHANGED lost
    <3>1. sub' = [sub EXCEPT ![s] = "probing"] /\ subFree' \in Nat
      BY <2>1 DEF Goto
    <3> QED
      BY <1>9, <2>1, <3>1 DEF Acquire
  <2>2. CASE cancelled /\ Goto(s, "over") /\ Lose(s) /\ UNCHANGED subFree
    <3>1. sub' = [sub EXCEPT ![s] = "over"] /\ lost' \subseteq Scopes
      BY <2>2 DEF Goto, Lose
    <3> QED
      BY <1>9, <2>2, <3>1 DEF Acquire
  <2> QED
    BY <1>9, <2>1, <2>2 DEF Acquire
<1>10. ASSUME NEW s \in Subs, NEW rg \in Lists, NEW rp \in Probes,
              NEW off \in SUBSET Services, Probe(s, rg, rp, off)
      PROVE  TypeOK'
  <2>1. sub' \in [Subs -> Working \cup {"waiting", "over"}] /\ subFree' \in Nat
    <3>1. CASE Unreachable(rg, rp)
      <4>1. sub' = [sub EXCEPT ![s] = "over"] /\ subFree' = subFree + 1
        BY <1>10, <3>1 DEF Probe, Goto, Leave
      <4> QED
        BY <4>1
    <3>2. CASE ~Unreachable(rg, rp)
      BY <1>10, <3>2 DEF Probe, Goto
    <3> QED
      BY <3>1, <3>2
  <2>2. todo' \in [Subs -> SUBSET Services]
    BY <1>10 DEF Probe, Goto
  <2>3. warned' \in BOOLEAN
    BY <1>10 DEF Probe
  <2>4. errors' \subseteq Scopes /\ lost' \subseteq Scopes
    BY <1>10 DEF Probe
  <2> QED
    BY <1>10, <2>1, <2>2, <2>3, <2>4 DEF Probe
<1>11. ASSUME NEW s \in Subs, NEW v \in Services, ServiceStarts(s, v) PROVE TypeOK'
  <2>1. todo' \in [Subs -> SUBSET Services]
    BY <1>11 DEF ServiceStarts
  <2>2. running' \in [Subs -> SUBSET Services] /\ svcFree' \in [Subs -> Nat]
    <3>1. CASE /\ svcFree[s] > 0 /\ running' = [running EXCEPT ![s] = @ \cup {v}]
               /\ svcFree' = [svcFree EXCEPT ![s] = @ - 1]
      BY <3>1
    <3>2. CASE UNCHANGED <<running, svcFree>>
      BY <3>2
    <3> QED
      BY <1>11, <3>1, <3>2 DEF ServiceStarts
  <2>3. lost' \subseteq Scopes
    BY <1>11 DEF ServiceStarts, Lose
  <2> QED
    BY <1>11, <2>1, <2>2, <2>3 DEF ServiceStarts
<1>12. ASSUME NEW s \in Subs, NEW v \in Services, NEW how \in Outcomes, ServiceEnds(s, v, how)
      PROVE  TypeOK'
  BY <1>12 DEF ServiceEnds, ServiceLeaves, Report
<1>13. ASSUME NEW s \in Subs, NEW v \in Services, ServicePanics(s, v) PROVE TypeOK'
  BY <1>13 DEF ServicePanics, ServiceLeaves, Error, Lose
<1>14. ASSUME NEW s \in Subs, NEW how \in {"ok", "fault", "panicked"}, ApiResolve(s, how)
      PROVE  TypeOK'
  <2>1. sub' \in [Subs -> Working \cup {"waiting", "over"}] /\ subFree' \in Nat
    <3>1. CASE how = "panicked"
      <4>1. sub' = [sub EXCEPT ![s] = "over"] /\ subFree' = subFree + 1
        BY <1>14, <3>1 DEF ApiResolve, Goto, Leave
      <4> QED
        BY <4>1
    <3>2. CASE how # "panicked"
      <4>1. sub' = [sub EXCEPT ![s] = "gate"] /\ subFree' = subFree
        BY <1>14, <3>2 DEF ApiResolve, Goto
      <4> QED
        BY <4>1
    <3> QED
      BY <3>1, <3>2
  <2>2. errors' \subseteq Scopes /\ lost' \subseteq Scopes
    BY <1>14 DEF ApiResolve, Error, Lose
  <2> QED
    BY <1>14, <2>1, <2>2 DEF ApiResolve
<1>15. ASSUME NEW s \in Subs, WaitForTenant(s) PROVE TypeOK'
  BY <1>15 DEF WaitForTenant, StartResolving, Goto
<1>16. ASSUME NEW s \in Subs, NEW r \in Resolvers,
              NEW how \in {"ok", "fault"}, Resolve(s, r, how)
      PROVE  TypeOK'
  BY <1>16 DEF Resolve, Report
<1>17. ASSUME NEW s \in Subs, SubEnds(s) PROVE TypeOK'
  BY <1>17 DEF SubEnds, Goto, Leave
<1>18. CASE UNCHANGED vars
  BY <1>18 DEF vars, mainVars, tenantVars, subVars, record, history
<1>19. QED
  BY <1>1, <1>2, <1>3, <1>4, <1>5, <1>6, <1>7, <1>8, <1>9, <1>10, <1>11, <1>12, <1>13,
     <1>14, <1>15, <1>16, <1>17, <1>18
  DEF Next, MainStep, TenantStep, SubStep, ServiceStep

\* No goroutine is ahead of, or outlives, what the main goroutine waits for.
LEMMA PhasedStep == TypeOK /\ Phased /\ [Next]_vars => Phased'
<1> SUFFICES ASSUME TypeOK, Phased, [Next]_vars PROVE Phased'
  OBVIOUS
<1> USE DispatchAssumption DEF TypeOK, Phased, Working, mainVars, tenantVars, subVars, record,
       history
<1>1. ASSUME NEW known \in BOOLEAN, ResolveTenant(known) PROVE Phased'
  BY <1>1 DEF ResolveTenant
<1>2. ASSUME Join PROVE Phased'
  BY <1>2 DEF Join
<1>3. ASSUME NEW how \in {"ok", "warned", "fault"}, Stitch(how) PROVE Phased'
  BY <1>3 DEF Stitch, Report
<1>4. ASSUME Cancel PROVE Phased'
  BY <1>4 DEF Cancel
<1>5. ASSUME Account PROVE Phased'
  BY <1>5 DEF Account
<1>6. ASSUME NEW i \in DOMAIN TenantOrder,
             NEW how \in {"ok", "warned", "fault"}, TenantService(i, how)
      PROVE  Phased'
  BY <1>6 DEF TenantService, Turn, Report
<1>7. ASSUME NEW i \in DOMAIN TenantOrder, TenantPanics(i) PROVE Phased'
  BY <1>7 DEF TenantPanics, Turn, Error, Lose
<1>8. ASSUME CloseEntra PROVE Phased'
  BY <1>8 DEF CloseEntra
<1>9. ASSUME NEW s \in Subs, Acquire(s) PROVE Phased'
  BY <1>9 DEF Acquire, Goto, Lose
<1>10. ASSUME NEW s \in Subs, NEW rg \in Lists, NEW rp \in Probes,
              NEW off \in SUBSET Services, Probe(s, rg, rp, off)
      PROVE  Phased'
  BY <1>10 DEF Probe, Goto, Leave
<1>11. ASSUME NEW s \in Subs, NEW v \in Services, ServiceStarts(s, v) PROVE Phased'
  BY <1>11 DEF ServiceStarts, Lose
<1>12. ASSUME NEW s \in Subs, NEW v \in Services, NEW how \in Outcomes, ServiceEnds(s, v, how)
      PROVE  Phased'
  BY <1>12 DEF ServiceEnds, ServiceLeaves, Report
<1>13. ASSUME NEW s \in Subs, NEW v \in Services, ServicePanics(s, v) PROVE Phased'
  BY <1>13 DEF ServicePanics, ServiceLeaves, Error, Lose
<1>14. ASSUME NEW s \in Subs, NEW how \in {"ok", "fault", "panicked"}, ApiResolve(s, how)
      PROVE  Phased'
  BY <1>14 DEF ApiResolve, Goto, Leave, Error, Lose
<1>15. ASSUME NEW s \in Subs, WaitForTenant(s) PROVE Phased'
  BY <1>15 DEF WaitForTenant, StartResolving, Goto
<1>16. ASSUME NEW s \in Subs, NEW r \in Resolvers,
              NEW how \in {"ok", "fault"}, Resolve(s, r, how)
      PROVE  Phased'
  BY <1>16 DEF Resolve, Report
<1>17. ASSUME NEW s \in Subs, SubEnds(s) PROVE Phased'
  BY <1>17 DEF SubEnds, Goto, Leave
<1>18. CASE UNCHANGED vars
  BY <1>18 DEF vars, mainVars, tenantVars, subVars, record, history
<1>19. QED
  BY <1>1, <1>2, <1>3, <1>4, <1>5, <1>6, <1>7, <1>8, <1>9, <1>10, <1>11, <1>12, <1>13,
     <1>14, <1>15, <1>16, <1>17, <1>18
  DEF Next, MainStep, TenantStep, SubStep, ServiceStep

\* Whatever is lost goes on the record, until the scan is cancelled.
LEMMA AccountedStep == TypeOK /\ Accounted /\ [Next]_vars => Accounted'
<1> SUFFICES ASSUME TypeOK, Accounted, [Next]_vars PROVE Accounted'
  OBVIOUS
<1> USE DispatchAssumption DEF TypeOK, Accounted, mainVars, tenantVars, subVars, record, history
<1>1. ASSUME NEW known \in BOOLEAN, ResolveTenant(known) PROVE Accounted'
  BY <1>1 DEF ResolveTenant
<1>2. ASSUME Join PROVE Accounted'
  BY <1>2 DEF Join
<1>3. ASSUME NEW how \in {"ok", "warned", "fault"}, Stitch(how) PROVE Accounted'
  BY <1>3 DEF Stitch, Report
<1>4. ASSUME Cancel PROVE Accounted'
  BY <1>4 DEF Cancel
<1>5. ASSUME Account PROVE Accounted'
  BY <1>5 DEF Account
<1>6. ASSUME NEW i \in DOMAIN TenantOrder,
             NEW how \in {"ok", "warned", "fault"}, TenantService(i, how)
      PROVE  Accounted'
  BY <1>6 DEF TenantService, Turn, Report
<1>7. ASSUME NEW i \in DOMAIN TenantOrder, TenantPanics(i) PROVE Accounted'
  BY <1>7 DEF TenantPanics, Turn, Error, Lose
<1>8. ASSUME CloseEntra PROVE Accounted'
  BY <1>8 DEF CloseEntra
<1>9. ASSUME NEW s \in Subs, Acquire(s) PROVE Accounted'
  BY <1>9 DEF Acquire, Goto, Lose
<1>10. ASSUME NEW s \in Subs, NEW rg \in Lists, NEW rp \in Probes,
              NEW off \in SUBSET Services, Probe(s, rg, rp, off)
      PROVE  Accounted'
  BY <1>10 DEF Probe, Goto, Leave
<1>11. ASSUME NEW s \in Subs, NEW v \in Services, ServiceStarts(s, v) PROVE Accounted'
  BY <1>11 DEF ServiceStarts, Lose
<1>12. ASSUME NEW s \in Subs, NEW v \in Services, NEW how \in Outcomes, ServiceEnds(s, v, how)
      PROVE  Accounted'
  BY <1>12 DEF ServiceEnds, ServiceLeaves, Report
<1>13. ASSUME NEW s \in Subs, NEW v \in Services, ServicePanics(s, v) PROVE Accounted'
  BY <1>13 DEF ServicePanics, ServiceLeaves, Error, Lose
<1>14. ASSUME NEW s \in Subs, NEW how \in {"ok", "fault", "panicked"}, ApiResolve(s, how)
      PROVE  Accounted'
  BY <1>14 DEF ApiResolve, Goto, Leave, Error, Lose
<1>15. ASSUME NEW s \in Subs, WaitForTenant(s) PROVE Accounted'
  BY <1>15 DEF WaitForTenant, StartResolving, Goto
<1>16. ASSUME NEW s \in Subs, NEW r \in Resolvers,
              NEW how \in {"ok", "fault"}, Resolve(s, r, how)
      PROVE  Accounted'
  BY <1>16 DEF Resolve, Report
<1>17. ASSUME NEW s \in Subs, SubEnds(s) PROVE Accounted'
  BY <1>17 DEF SubEnds, Goto, Leave
<1>18. CASE UNCHANGED vars
  BY <1>18 DEF vars, mainVars, tenantVars, subVars, record, history
<1>19. QED
  BY <1>1, <1>2, <1>3, <1>4, <1>5, <1>6, <1>7, <1>8, <1>9, <1>10, <1>11, <1>12, <1>13,
     <1>14, <1>15, <1>16, <1>17, <1>18
  DEF Next, MainStep, TenantStep, SubStep, ServiceStep

\* The built-in definitions stay in somebody's charge.
LEMMA EntrustedStep == TypeOK /\ Phased /\ Entrusted /\ [Next]_vars => Entrusted'
<1> SUFFICES ASSUME TypeOK, Phased, Entrusted, [Next]_vars PROVE Entrusted'
  OBVIOUS
<1> USE DispatchAssumption DEF TypeOK, Phased, Entrusted, Working, mainVars, tenantVars, subVars,
       record, history
<1>1. ASSUME NEW known \in BOOLEAN, ResolveTenant(known) PROVE Entrusted'
  BY <1>1 DEF ResolveTenant
<1>2. ASSUME Join PROVE Entrusted'
  BY <1>2 DEF Join
<1>3. ASSUME NEW how \in {"ok", "warned", "fault"}, Stitch(how) PROVE Entrusted'
  BY <1>3 DEF Stitch, Report
<1>4. ASSUME Cancel PROVE Entrusted'
  BY <1>4 DEF Cancel
<1>5. ASSUME Account PROVE Entrusted'
  BY <1>5 DEF Account, Runnable
<1>6. ASSUME NEW i \in DOMAIN TenantOrder,
             NEW how \in {"ok", "warned", "fault"}, TenantService(i, how)
      PROVE  Entrusted'
  BY <1>6 DEF TenantService, Turn, Report
<1>7. ASSUME NEW i \in DOMAIN TenantOrder, TenantPanics(i) PROVE Entrusted'
  BY <1>7 DEF TenantPanics, Turn, Error, Lose
<1>8. ASSUME CloseEntra PROVE Entrusted'
  BY <1>8 DEF CloseEntra
<1>9. ASSUME NEW s \in Subs, Acquire(s) PROVE Entrusted'
  BY <1>9 DEF Acquire, Goto, Lose
<1>10. ASSUME NEW s \in Subs, NEW rg \in Lists, NEW rp \in Probes,
              NEW off \in SUBSET Services, Probe(s, rg, rp, off)
      PROVE  Entrusted'
  BY <1>10 DEF Probe, Goto, Leave
<1>11. ASSUME NEW s \in Subs, NEW v \in Services, ServiceStarts(s, v) PROVE Entrusted'
  BY <1>11 DEF ServiceStarts, Lose
<1>12. ASSUME NEW s \in Subs, NEW v \in Services, NEW how \in Outcomes, ServiceEnds(s, v, how)
      PROVE  Entrusted'
  BY <1>12 DEF ServiceEnds, ServiceLeaves, Report
<1>13. ASSUME NEW s \in Subs, NEW v \in Services, ServicePanics(s, v) PROVE Entrusted'
  BY <1>13 DEF ServicePanics, ServiceLeaves, Error, Lose
<1>14. ASSUME NEW s \in Subs, NEW how \in {"ok", "fault", "panicked"}, ApiResolve(s, how)
      PROVE  Entrusted'
  BY <1>14 DEF ApiResolve, Goto, Leave, Error, Lose
<1>15. ASSUME NEW s \in Subs, WaitForTenant(s) PROVE Entrusted'
  BY <1>15 DEF WaitForTenant, StartResolving, Goto
<1>16. ASSUME NEW s \in Subs, NEW r \in Resolvers,
              NEW how \in {"ok", "fault"}, Resolve(s, r, how)
      PROVE  Entrusted'
  BY <1>16 DEF Resolve, Report
<1>17. ASSUME NEW s \in Subs, SubEnds(s) PROVE Entrusted'
  BY <1>17 DEF SubEnds, Goto, Leave
<1>18. CASE UNCHANGED vars
  BY <1>18 DEF vars, mainVars, tenantVars, subVars, record, history
<1> HIDE DEF TypeOK, Phased, Entrusted
<1>19. QED
  BY <1>1, <1>2, <1>3, <1>4, <1>5, <1>6, <1>7, <1>8, <1>9, <1>10, <1>11, <1>12, <1>13,
     <1>14, <1>15, <1>16, <1>17, <1>18
  DEF Next, MainStep, TenantStep, SubStep, ServiceStep

Busy == {s \in Subs : sub[s] \in Working}

\* There are finitely many.
LEMMA BusyFinite == IsFiniteSet(Busy) /\ Cardinality(Busy) \in Nat
BY DispatchAssumption, FS_Subset, FS_CardinalityType DEF Busy

\* A goroutine that takes a slot is one more that holds one.
LEMMA BusyGrows ==
  ASSUME NEW s \in Subs, NEW p \in Working, TypeOK, Goto(s, p), sub[s] \notin Working
  PROVE  Cardinality(Busy') = Cardinality(Busy) + 1
<1>1. Busy' = Busy \cup {s} /\ s \notin Busy
  BY DEF Busy, Goto, TypeOK
<1>2. IsFiniteSet(Busy)
  BY DispatchAssumption, FS_Subset DEF Busy
<1> QED
  BY <1>1, <1>2, FS_AddElement

\* One that leaves is one less.
LEMMA BusyShrinks ==
  ASSUME NEW s \in Subs, TypeOK, Goto(s, "over"), sub[s] \in Working
  PROVE  Cardinality(Busy') = Cardinality(Busy) - 1 /\ Cardinality(Busy) \in Nat
<1>1. Busy' = Busy \ {s} /\ s \in Busy
  BY DEF Busy, Goto, TypeOK, Working
<1>2. IsFiniteSet(Busy)
  BY DispatchAssumption, FS_Subset DEF Busy
<1> QED
  BY <1>1, <1>2, FS_RemoveElement, FS_CardinalityType

\* One that goes on to another phase of its work, or that did not work and
\* leaves, is neither.
LEMMA BusyStays ==
  ASSUME NEW s \in Subs, NEW p, TypeOK, Goto(s, p), sub[s] \in Working <=> p \in Working
  PROVE  Cardinality(Busy') = Cardinality(Busy)
<1>1. Busy' = Busy
  BY DEF Busy, Goto, TypeOK
<1> QED
  BY <1>1

\* The slots of the subscriptions, and those of the services of each.
SubSlotsBalance == subFree + Cardinality(Busy) = SubSlots
SvcSlotsBalance(s) == svcFree[s] + Cardinality(running[s]) = SvcSlots

LEMMA BalanceSplit == SlotsBalance <=> SubSlotsBalance /\ \A s \in Subs : SvcSlotsBalance(s)
BY DEF SlotsBalance, SubSlotsBalance, SvcSlotsBalance, Busy
\* The semaphore of the subscriptions.
LEMMA SubSlotsStep == TypeOK /\ Phased /\ SubSlotsBalance /\ [Next]_vars => SubSlotsBalance'
<1> SUFFICES ASSUME TypeOK, Phased, SubSlotsBalance, [Next]_vars PROVE SubSlotsBalance'
  OBVIOUS
<1> DEFINE Still == UNCHANGED <<sub, subFree>>
<1>0. SubSlots \in Nat /\ subFree \in Nat /\ subFree + Cardinality(Busy) = SubSlots
  BY DispatchAssumption DEF TypeOK, SubSlotsBalance
<1>1. ASSUME Still PROVE SubSlotsBalance'
  BY <1>0, <1>1 DEF SubSlotsBalance, Busy
<1>2. ASSUME NEW s \in Subs, Acquire(s) PROVE SubSlotsBalance'
  <2>1. CASE subFree > 0 /\ Goto(s, "probing") /\ subFree' = subFree - 1
    <3>1. Cardinality(Busy') = Cardinality(Busy) + 1
      BY <1>2, <2>1, BusyGrows, "probing" \in Working DEF Acquire, Working
    <3> QED
      BY <1>0, <2>1, <3>1, BusyFinite DEF SubSlotsBalance
  <2>2. CASE Goto(s, "over") /\ UNCHANGED subFree
    <3>1. Cardinality(Busy') = Cardinality(Busy)
      BY <1>2, <2>2, BusyStays DEF Acquire, Working
    <3> QED
      BY <1>0, <2>2, <3>1 DEF SubSlotsBalance
  <2> QED
    BY <1>2, <2>1, <2>2 DEF Acquire
<1>3. ASSUME NEW s \in Subs, sub[s] \in Working, Leave(s) PROVE SubSlotsBalance'
  <2>1. Cardinality(Busy') = Cardinality(Busy) - 1 /\ Cardinality(Busy) \in Nat
    BY <1>3, BusyShrinks DEF Leave
  <2> QED
    BY <1>0, <1>3, <2>1 DEF SubSlotsBalance, Leave
<1>4. ASSUME NEW s \in Subs,
             NEW p \in Working, sub[s] \in Working, Goto(s, p), UNCHANGED subFree
      PROVE  SubSlotsBalance'
  <2>1. Cardinality(Busy') = Cardinality(Busy)
    BY <1>4, BusyStays
  <2> QED
    BY <1>0, <1>4, <2>1 DEF SubSlotsBalance
<1>5. ASSUME NEW s \in Subs, NEW rg \in Lists, NEW rp \in Probes, NEW off \in SUBSET Services,
             Probe(s, rg, rp, off)
      PROVE  SubSlotsBalance'
  BY <1>3, <1>4, <1>5 DEF Probe, Working
<1>6. ASSUME NEW s \in Subs, NEW how \in {"ok", "fault", "panicked"}, ApiResolve(s, how)
      PROVE  SubSlotsBalance'
  BY <1>3, <1>4, <1>6 DEF ApiResolve, Working
<1>7. ASSUME NEW s \in Subs, WaitForTenant(s) PROVE SubSlotsBalance'
  BY <1>4, <1>7 DEF WaitForTenant, StartResolving, Working
<1>8. ASSUME NEW s \in Subs, SubEnds(s) PROVE SubSlotsBalance'
  BY <1>3, <1>8 DEF SubEnds, Working
<1>9. ASSUME MainStep \/ TenantStep \/ Cancel \/ UNCHANGED vars PROVE Still
  BY <1>9 DEF MainStep, TenantStep, ResolveTenant, Join, Stitch, Cancel, Account, TenantService,
              TenantPanics, CloseEntra, vars, subVars
<1>10. ASSUME NEW s \in Subs, NEW v \in Services, ServiceStep(s, v) PROVE Still
  BY <1>10 DEF ServiceStep, ServiceStarts, ServiceEnds, ServicePanics
<1>11. ASSUME NEW s \in Subs, NEW r \in Resolvers,
              NEW how \in {"ok", "fault"}, Resolve(s, r, how)
       PROVE  Still
  BY <1>11 DEF Resolve
<1> HIDE DEF Still
<1> QED
  BY <1>1, <1>2, <1>5, <1>6, <1>7, <1>8, <1>9, <1>10, <1>11 DEF Next, SubStep

\* The semaphore of the services of subscription t.
LEMMA SvcSlotsStep ==
  ASSUME NEW t \in Subs, TypeOK, Phased, SvcSlotsBalance(t), [Next]_vars
  PROVE  SvcSlotsBalance(t)'
<1> DEFINE Still == UNCHANGED <<running, svcFree>>
<1>0. /\ SvcSlots \in Nat /\ svcFree[t] \in Nat /\ svcFree[t] + Cardinality(running[t]) = SvcSlots
      /\ IsFiniteSet(running[t]) /\ Cardinality(running[t]) \in Nat
  BY DispatchAssumption, FS_Subset, FS_CardinalityType DEF TypeOK, SvcSlotsBalance
<1>1. ASSUME Still PROVE SvcSlotsBalance(t)'
  BY <1>0, <1>1 DEF SvcSlotsBalance
<1>2. ASSUME NEW s \in Subs, NEW v \in Services, ServiceStarts(s, v) PROVE SvcSlotsBalance(t)'
  <2>1. CASE Still
    BY <1>1, <2>1
  <2>2. CASE s # t
    BY <1>0, <1>2, <2>2 DEF ServiceStarts, SvcSlotsBalance, TypeOK
  <2>3. CASE s = t /\ ~Still
    <3>1. running'[t] = running[t] \cup {v} /\ svcFree'[t] = svcFree[t] - 1
      BY <1>2, <2>3 DEF ServiceStarts, TypeOK
    <3>2. v \notin running[t]
      BY <1>2, <2>3 DEF ServiceStarts, Phased
    <3>3. Cardinality(running[t] \cup {v}) = Cardinality(running[t]) + 1
      BY <1>0, <3>2, FS_AddElement
    <3> QED
      BY <1>0, <3>1, <3>3 DEF SvcSlotsBalance
  <2> QED
    BY <2>1, <2>2, <2>3
<1>3. ASSUME NEW s \in Subs, NEW v \in Services, ServiceLeaves(s, v) PROVE SvcSlotsBalance(t)'
  <2>1. CASE s # t
    BY <1>0, <1>3, <2>1 DEF ServiceLeaves, SvcSlotsBalance, TypeOK
  <2>2. CASE s = t
    <3>1. running'[t] = running[t] \ {v} /\ v \in running[t] /\ svcFree'[t] = svcFree[t] + 1
      BY <1>3, <2>2 DEF ServiceLeaves, TypeOK
    <3>2. Cardinality(running[t] \ {v}) = Cardinality(running[t]) - 1
      BY <1>0, <3>1, FS_RemoveElement
    <3> QED
      BY <1>0, <3>1, <3>2 DEF SvcSlotsBalance
  <2> QED
    BY <2>1, <2>2
<1>4. ASSUME NEW s \in Subs, NEW v \in Services, ServiceStep(s, v) PROVE SvcSlotsBalance(t)'
  BY <1>2, <1>3, <1>4 DEF ServiceStep, ServiceEnds, ServicePanics
<1>5. ASSUME MainStep \/ TenantStep \/ Cancel \/ UNCHANGED vars PROVE Still
  BY <1>5 DEF MainStep, TenantStep, ResolveTenant, Join, Stitch, Cancel, Account, TenantService,
              TenantPanics, CloseEntra, vars, subVars
<1>6. ASSUME NEW s \in Subs, SubStep(s) PROVE Still
  BY <1>6 DEF SubStep, Acquire, Probe, ApiResolve, WaitForTenant, StartResolving, Resolve, SubEnds
<1> HIDE DEF Still
<1> QED
  BY <1>1, <1>4, <1>5, <1>6 DEF Next

\* The initial states satisfy the invariant.
LEMMA InitInv == Init => DispatchInv
<1> SUFFICES ASSUME Init PROVE DispatchInv
  OBVIOUS
<1>1. TypeOK
  BY DispatchAssumption DEF Init, TypeOK, Working, Scopes, TenantServices
<1>2. Phased
  BY DEF Init, Phased
<1>3. SlotsBalance
  <2>1. {s \in Subs : sub[s] \in Working} = {}
    BY DEF Init, Working
  <2>2. \A s \in Subs : running[s] = {} /\ svcFree[s] = SvcSlots
    BY DEF Init
  <2>3. Cardinality({s \in Subs : sub[s] \in Working}) = 0
    BY <2>1, FS_EmptySet
  <2>4. subFree + Cardinality({s \in Subs : sub[s] \in Working}) = SubSlots
    BY <2>3, DispatchAssumption DEF Init
  <2>5. \A s \in Subs : svcFree[s] + Cardinality(running[s]) = SvcSlots
    <3>1. Cardinality({}) = 0
      BY FS_EmptySet
    <3>2. SvcSlots + 0 = SvcSlots
      BY DispatchAssumption
    <3> QED
      BY <2>2, <3>1, <3>2
  <2> QED
    BY <2>4, <2>5 DEF SlotsBalance
<1>4. Accounted
  BY DEF Init, Accounted
<1>5. Entrusted
  BY DEF Init, Entrusted
<1> QED
  BY <1>1, <1>2, <1>3, <1>4, <1>5 DEF DispatchInv

\* The invariant holds of every reachable state.
THEOREM DispatchInvariance == Spec => []DispatchInv
<1>1. DispatchInv /\ [Next]_vars => DispatchInv'
  <2> SUFFICES ASSUME DispatchInv, [Next]_vars PROVE DispatchInv'
    OBVIOUS
  <2>1. TypeOK' /\ Phased' /\ Accounted' /\ Entrusted'
    BY TypeStep, PhasedStep, AccountedStep, EntrustedStep DEF DispatchInv
  <2>2. SubSlotsBalance'
    BY SubSlotsStep, BalanceSplit DEF DispatchInv
  <2>3. \A t \in Subs : SvcSlotsBalance(t)'
    BY SvcSlotsStep, BalanceSplit DEF DispatchInv
  <2>4. SlotsBalance'
    BY <2>2, <2>3 DEF SlotsBalance, SubSlotsBalance, SvcSlotsBalance, Busy
  <2> QED
    BY <2>1, <2>4 DEF DispatchInv
<1> QED
  BY InitInv, <1>1, PTL DEF Spec

\* Every variable stays in its type.
THEOREM DispatchTypes == Spec => []TypeOK
<1>1. DispatchInv => TypeOK
  BY DEF DispatchInv
<1> QED
  BY <1>1, DispatchInvariance, PTL

\* Slots are neither lost nor made up, for every number of subscriptions,
\* services and slots.
THEOREM SlotsAreBalanced == Spec => []SlotsBalance
<1>1. DispatchInv => SlotsBalance
  BY DEF DispatchInv
<1> QED
  BY <1>1, DispatchInvariance, PTL

\* When the hierarchy is stitched nothing of the scan still runs.
THEOREM NobodyIsLeftBehind == Spec => []NobodyLeftBehind
<1>1. DispatchInv => NobodyLeftBehind
  BY DEF DispatchInv, Phased, NobodyLeftBehind
<1> QED
  BY <1>1, DispatchInvariance, PTL

\* A scan that was not cancelled and reported nothing left nothing out.
THEOREM QuietIsComplete == Spec => []QuietMeansComplete
<1>1. DispatchInv => QuietMeansComplete
  <2> SUFFICES ASSUME DispatchInv, main = "over", ~cancelled, errors = {}, ~warned
               PROVE  early = {} /\ lost = {} /\ (authorized # {} => builtins # {})
    BY DEF QuietMeansComplete
  <2>1. early = {} /\ lost = {}
    BY DEF DispatchInv, Accounted
  <2>2. tenantPhase = "closed" /\ tenantLeft = {}
    BY DEF DispatchInv, Phased, Entrusted
  <2>3. PICK i \in DOMAIN TenantOrder : TenantOrder[i] = Builtin
    BY DispatchAssumption DEF TenantServices
  <2>4. CASE tenantKnown
    BY <2>1, <2>2, <2>3, <2>4 DEF DispatchInv, Entrusted
  <2>5. CASE ~tenantKnown
    BY <2>1, <2>5 DEF DispatchInv, Entrusted
  <2> QED
    BY <2>1, <2>4, <2>5 DEF DispatchInv, TypeOK
<1> QED
  BY <1>1, DispatchInvariance, PTL
=============================================================================
