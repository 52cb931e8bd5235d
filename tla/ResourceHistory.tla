--------------------------- MODULE ResourceHistory ---------------------------
(***************************************************************************)
(* What the store promises of a resource, without rows, transactions or    *)
(* races: the sequence of contents it has had, oldest first, and the       *)
(* standing of the last one.  One step is one committed call: it moves     *)
(* every key it touches by one legal change, all of them together.         *)
(***************************************************************************)
EXTENDS Naturals, Sequences

CONSTANTS
    Keys,
    Contents,
    Empty           \* what a placeholder holds

VARIABLES
    hist,           \* hist[k]: contents of k, oldest first
    standing        \* standing[k]: what the last of them is

vars == <<hist, standing>>

Standings == {"absent", "placeholder", "live", "archived"}

LastContent(k) == hist[k][Len(hist[k])]

\* The changes of one key: first discovery, placeholder, verification (which
\* also resurrects and confirms), new version, archive, restore.
Discover(k) ==
    /\ standing[k] = "absent" /\ standing'[k] = "live"
    /\ \E c \in Contents : hist'[k] = <<c>>

Refer(k) ==
    /\ standing[k] = "absent" /\ standing'[k] = "placeholder"
    /\ hist'[k] = <<Empty>>

Confirm(k) ==
    /\ standing[k] # "absent" /\ standing'[k] = "live"
    /\ hist'[k] = hist[k]

Change(k) ==
    /\ standing[k] # "absent" /\ standing'[k] = "live"
    /\ \E c \in Contents \ {LastContent(k)} : hist'[k] = Append(hist[k], c)

Archive(k) ==
    /\ standing[k] \in {"live", "placeholder"} /\ standing'[k] = "archived"
    /\ hist'[k] = Append(hist[k], LastContent(k))

Keep(k) == hist'[k] = hist[k] /\ standing'[k] = standing[k]

HInit ==
    /\ hist = [k \in Keys |-> <<>>]
    /\ standing = [k \in Keys |-> "absent"]

HNext ==
    \A k \in Keys :
        Discover(k) \/ Refer(k) \/ Confirm(k) \/ Change(k) \/ Archive(k) \/ Keep(k)

HSpec == HInit /\ [][HNext]_vars
=============================================================================
