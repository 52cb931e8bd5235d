---------------------------- MODULE MCAzureEdges ----------------------------
(***************************************************************************)
(* Instances for TLC of the Azure dispatcher and of the edges that the     *)
(* resolvers of a dispatcher emit.  A behaviour is one of one part, chosen *)
(* at the start, so that their state spaces add up.                        *)
(***************************************************************************)
EXTENDS AzureDispatch, EdgeBuffer, TLC

CONSTANTS entra, r1, r2, d, e1, e2, a, b

MCTenantOrder == <<Builtin, entra>>
MCGraphScoped == {entra}

X(e, v) == [edge |-> e, attrs |-> v]

\* Two resolvers that meet on two edges in opposite orders, one of them again later,
\* and a scanner that writes the edges directly.
MCJobs == r1 :> <<<<X(e1, a), X(e2, a)>>, <<X(e2, b)>>>>
       @@ r2 :> <<<<X(e2, b), X(e1, b)>>>>
       @@ d  :> <<<<X(e1, a)>>, <<X(e2, b)>>>>

MCTeams == {{}, {r1, r2}, {r1, d}, {r2, d}}

VARIABLE part

partVars == <<part, vars, flushVars>>

\* The part that runs starts anywhere it may, the other in one place.
PartsInit ==
    /\ part \in {"azure", "edges"}
    /\ part # "azure" => wif = "none"
    /\ Init /\ EdgeInit
    /\ part # "edges" => \A w \in Writers : WriterDone(w)

Azure(step) == part = "azure" /\ step /\ UNCHANGED <<part, flushVars>>
Edge(step) == part = "edges" /\ step /\ UNCHANGED <<part, vars>>

\* Every goroutine goes on.  A service of Azure has a deadline (serviceTimeout), the
\* other calls to ARM are taken to return, and a semaphore serves its waiters in turn.
\* A statement returns unless it waits for a lock, and the server breaks deadlocks;
\* nothing ends a lock wait but the end of the transaction that holds the lock.
PartsSpec ==
    /\ PartsInit
    /\ [][Azure(Next) \/ Edge(EdgeNext)]_partVars
    /\ WF_partVars(Azure(MainStep)) /\ WF_partVars(Azure(TenantStep))
    /\ \A s \in Subs : /\ WF_partVars(Azure(SubStep(s)))
                       /\ \A v \in Services : WF_partVars(Azure(ServiceStep(s, v)))
    /\ \A w \in Writers : WF_partVars(Edge(Progress(w)))

\* A scan ends, whatever fails, panics or is cancelled: nobody waits for a slot or
\* for the tenant phase for ever (scanWithCredential).
ScanEnds == <>(part = "azure" => main = "over")

\* Whatever the database does, every writer comes to the end of its jobs: two
\* flushes that lock the same edges in opposite orders do not wait for ever, no
\* lock outlives its transaction, and no call retries without end.
WritersFinish == <>(part = "edges" => \A w \in Writers : WriterDone(w))
=============================================================================
