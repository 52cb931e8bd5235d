------------------------------- MODULE SdkCache -------------------------------
(***************************************************************************)
(* Cache.Ensure and Cache.Status of src/internal/sdkinv/cache.go: several  *)
(* processes fetch one snapshot of an SDK.  A fetch fills a directory of   *)
(* its own, removes the target and renames its own into place.  The        *)
(* removal goes file by file, in an order the code does not choose, and a  *)
(* process may die anywhere.                                               *)
(***************************************************************************)
EXTENDS Naturals, FiniteSets

CONSTANTS
    Fetchers,       \* calls of Ensure, in processes of their own
    Sources,        \* files a fetch writes before the manifest
    Manifest,       \* manifestFile
    MaxKills,       \* bound on the processes killed
    Missing         \* what a path holds where there is no directory

WholeSnapshot == Sources \union {Manifest}
Directory(maker, files) == [by |-> maker, files |-> files]
Earlier == "an earlier run"
Directories == [by : Fetchers \union {Earlier}, files : SUBSET WholeSnapshot]

ASSUME SdkAssumption ==
    /\ Manifest \notin Sources /\ MaxKills \in Nat
    /\ Earlier \notin Fetchers /\ Missing \notin Directories

VARIABLES
    dir,            \* the directory at the target: who made it, and its files
    tmp,            \* tmp[f]: the files of f's temporary directory
    fetcher,        \* fetcher[f]: where f is
    opened,         \* opened[f]: the directory f's removal has opened, and its files
    killed          \* processes that died

sdkVars == <<dir, tmp, fetcher, opened, killed>>

SdkInit ==
    /\ dir \in {Missing, Directory(Earlier, WholeSnapshot)}
    /\ tmp = [f \in Fetchers |-> {}]
    /\ fetcher = [f \in Fetchers |-> "called"]
    /\ opened = [f \in Fetchers |-> Missing]
    /\ killed = {}

-----------------------------------------------------------------------------
FetcherAt(f, place) == f \notin killed /\ fetcher[f] = place
FetcherGoes(f, place) == fetcher' = [fetcher EXCEPT ![f] = place]

\* A snapshot is there if its manifest is, and names this fetch.
Status == dir # Missing /\ Manifest \in dir.files

\* With --force the snapshot is fetched whatever is there.
CallEnsure(f) ==
    /\ FetcherAt(f, "called")
    /\ \/ Status /\ FetcherGoes(f, "present")
       \/ FetcherGoes(f, "fetching")
    /\ UNCHANGED <<dir, tmp, opened, killed>>

\* Mutant of FetchSource: the manifest is written as the fetch goes along.
FetchSourceUnordered(f) ==
    /\ FetcherAt(f, "fetching")
    /\ \/ \E file \in WholeSnapshot \ tmp[f] :
             /\ tmp' = [tmp EXCEPT ![f] = @ \union {file}]
             /\ FetcherGoes(f, IF file = Manifest THEN "fetched" ELSE "fetching")
       \/ tmp' = [tmp EXCEPT ![f] = {}] /\ FetcherGoes(f, "no source")
    /\ UNCHANGED <<dir, opened, killed>>

\* One file after another, the manifest last; an error ends the call and removes
\* what it fetched.
FetchSource(f) ==
    /\ FetcherAt(f, "fetching")
    /\ \/ \E file \in WholeSnapshot \ tmp[f] :
             /\ file = Manifest => Sources \subseteq tmp[f]
             /\ tmp' = [tmp EXCEPT ![f] = @ \union {file}]
             /\ FetcherGoes(f, IF file = Manifest THEN "fetched" ELSE "fetching")
       \/ tmp' = [tmp EXCEPT ![f] = {}] /\ FetcherGoes(f, "no source")
    /\ UNCHANGED <<dir, opened, killed>>

\* os.RemoveAll(dir): an empty path is left alone; a directory is opened, ...
OpenForRemoval(f) ==
    /\ FetcherAt(f, "fetched")
    /\ opened' = [opened EXCEPT ![f] = dir]
    /\ FetcherGoes(f, IF dir = Missing THEN "renaming" ELSE "removing")
    /\ UNCHANGED <<dir, tmp, killed>>

\* ... its files are unlinked in it, even if the path holds another one by now, ...
RemoveFile(f) ==
    /\ FetcherAt(f, "removing")
    /\ \E file \in opened[f].files :
          /\ opened' = [opened EXCEPT ![f].files = @ \ {file}]
          /\ dir' = IF dir # Missing /\ dir.by = opened[f].by
                    THEN [dir EXCEPT !.files = @ \ {file}] ELSE dir
    /\ UNCHANGED <<tmp, fetcher, killed>>

\* ... and the path is removed: an error if it holds files again.
EndRemoval(f) ==
    /\ FetcherAt(f, "removing") /\ opened[f].files = {}
    /\ opened' = [opened EXCEPT ![f] = Missing]
    /\ IF dir = Missing \/ dir.files = {}
       THEN dir' = Missing /\ FetcherGoes(f, "renaming") /\ UNCHANGED tmp
       ELSE UNCHANGED dir /\ FetcherGoes(f, "beaten") /\ tmp' = [tmp EXCEPT ![f] = {}]
    /\ UNCHANGED killed

\* os.Rename does not replace a directory; the one who came first is then enough if
\* its snapshot is there.
RenameIn(f) ==
    /\ FetcherAt(f, "renaming")
    /\ IF dir = Missing
       THEN dir' = Directory(f, tmp[f]) /\ FetcherGoes(f, "renamed")
       ELSE UNCHANGED dir /\ FetcherGoes(f, IF Status THEN "present" ELSE "beaten")
    /\ tmp' = [tmp EXCEPT ![f] = {}]
    /\ UNCHANGED <<opened, killed>>

Returned(f) == fetcher[f] \in {"present", "renamed", "beaten", "no source"}

Kill(f) ==
    /\ Cardinality(killed) < MaxKills /\ f \notin killed
    /\ ~Returned(f)
    /\ killed' = killed \union {f}
    /\ UNCHANGED <<dir, tmp, fetcher, opened>>

FetcherStep(f) ==
    CallEnsure(f) \/ FetchSource(f) \/ OpenForRemoval(f) \/ RemoveFile(f) \/ EndRemoval(f) \/ RenameIn(f)

SdkNext == \E f \in Fetchers : FetcherStep(f) \/ Kill(f)

SdkSpec == SdkInit /\ [][SdkNext]_sdkVars

-----------------------------------------------------------------------------
\* An interrupted fetch never passes for a snapshot: where there is a manifest all
\* the sources are, unless a removal is under way or was cut short.  The exception
\* is the code's: a process killed between the removal of a source and that of the
\* manifest leaves a snapshot that says it is complete.
SnapshotsAreWhole ==
    Status => \/ Sources \subseteq dir.files
              \/ \E f \in Fetchers : fetcher[f] = "removing" /\ opened[f].by = dir.by

\* When all is quiet and nobody was killed, one call that could fetch everything is
\* enough to leave a whole snapshot: calls remove and rename beside each other, and
\* one that is beaten to the rename fails only where another has succeeded.
SomebodySucceeds ==
    (/\ \A f \in Fetchers : Returned(f)
     /\ killed = {}
     /\ \E f \in Fetchers : fetcher[f] # "no source")
    => dir # Missing /\ dir.files = WholeSnapshot

\* Racing and killed fetches leave a cache that can be used (Ensure).
CacheIsUsable == SnapshotsAreWhole /\ SomebodySucceeds
=============================================================================
