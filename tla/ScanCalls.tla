----------------------------- MODULE ScanCalls -----------------------------
(***************************************************************************)
(* What the AWS and the GCP dispatchers share: the context, which may end  *)
(* at any time, and the ladder that decides what the scan says of a call   *)
(* that came back with an error (src/internal/providers/aws/aws_errors.go, *)
(* src/internal/providers/gcp/gcp_scanner.go).                             *)
(***************************************************************************)

VARIABLE
    cancelled       \* ctx.Err() # nil

\* A call ends well or with an error, of which several things can be true at once:
\* "store": a write failed (ErrStoreWrite); "off": the service is disabled, blocked, not
\* entitled or without a host; "transient": a network error.  A database whose host name
\* is gone or whose connection drops gives an error of the first kind that also looks
\* like the second or the third.  Nothing of the sort: a deadline, or any other error.
OK == {"ok"}
Outcomes == {OK} \union SUBSET {"store", "off", "transient"}

\* Mutant of Ladder: a missing host is asked for before a failed write.
LadderByLooks(how) ==
    IF how = OK \/ "off" \in how THEN "status"
    ELSE IF "transient" \in how /\ "store" \notin how THEN "warning"
    ELSE "error"

\* classifyServiceError, and what the dispatcher makes of its answer: the first rung
\* that fits.  scanProject of GCP has the same order, and no rung for "transient".
Ladder(how) ==
    IF how = OK THEN "status"
    ELSE IF "store" \in how THEN "error"
    ELSE IF "off" \in how THEN "status"
    ELSE IF "transient" \in how THEN "warning"
    ELSE "error"

\* The scan owns up to what the call did not deliver: to rows that were listed and not
\* written with an error, to a service that is on and did not answer with one or a warning.
Told(how) ==
    /\ "store" \in how => Ladder(how) = "error"
    /\ how # OK /\ "off" \notin how => Ladder(how) # "status"

Cancel == ~cancelled /\ cancelled' = TRUE
=============================================================================
