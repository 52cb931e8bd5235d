---------------------------- MODULE TypeSightings ----------------------------
(***************************************************************************)
(* noteNativeIDType (src/store/resources_upsert.go): the detector of two   *)
(* resource types that share one identity.  The sighting of an identity is *)
(* loaded and stored in two steps that the writers of a pool interleave,   *)
(* and the map outlives a scan.                                            *)
(***************************************************************************)
EXTENDS Naturals, FiniteSets

CONSTANTS
    Spotters,       \* calls that note the same identity
    SpotScans, SpotTypes,
    NoSighting      \* nativeIDSeen without an entry

ASSUME SightAssumption == IsFiniteSet(Spotters) /\ NoSighting \notin [scan : SpotScans, typ : SpotTypes]

VARIABLES
    noted,          \* noted[p]: the scan and the type of call p
    sighting,       \* what nativeIDSeen holds for the identity
    spotter,        \* spotter[p]: "before", "loaded" or "after"
    warned,         \* scans with a warning about the identity
    blurred         \* scans in which two calls overlapped, or another scan came between

sightVars == <<noted, sighting, spotter, warned, blurred>>

Sightings == [scan : SpotScans, typ : SpotTypes]

SightInit ==
    /\ noted \in [Spotters -> Sightings]
    /\ sighting = NoSighting
    /\ spotter = [p \in Spotters |-> "before"]
    /\ warned = {} /\ blurred = {}

-----------------------------------------------------------------------------
Begun(s) == {p \in Spotters : spotter[p] # "before" /\ noted[p].scan = s}
Between(p) == {q \in Spotters \ {p} : spotter[q] = "loaded"}

\* The scans whose calls a step of p falls between.
Blurs(p) ==
    {s \in SpotScans : /\ Begun(s) # {}
                       /\ s # noted[p].scan \/ \E q \in Between(p) : noted[q].scan = s}

\* The same scan gave the identity another type.
Clashes(p) ==
    sighting # NoSighting /\ sighting.scan = noted[p].scan /\ sighting.typ # noted[p].typ

LoadSighting(p) ==
    /\ spotter[p] = "before"
    /\ warned' = IF Clashes(p) THEN warned \union {noted[p].scan} ELSE warned
    /\ blurred' = blurred \union Blurs(p)
    /\ spotter' = [spotter EXCEPT ![p] = "loaded"]
    /\ UNCHANGED <<noted, sighting>>

\* Mutant of StoreSighting: LoadOrStore keeps what is there.
StoreSightingOnce(p) ==
    /\ spotter[p] = "loaded"
    /\ sighting' = IF sighting = NoSighting THEN noted[p] ELSE sighting
    /\ spotter' = [spotter EXCEPT ![p] = "after"]
    /\ blurred' = blurred \union Blurs(p)
    /\ UNCHANGED <<noted, warned>>

StoreSighting(p) ==
    /\ spotter[p] = "loaded"
    /\ sighting' = noted[p]
    /\ spotter' = [spotter EXCEPT ![p] = "after"]
    /\ blurred' = blurred \union Blurs(p)
    /\ UNCHANGED <<noted, warned>>

SightNext == \E p \in Spotters : LoadSighting(p) \/ StoreSighting(p)

SightSpec == SightInit /\ [][SightNext]_sightVars

-----------------------------------------------------------------------------
TypesOf(s) == {noted[p].typ : p \in Begun(s)}

\* A warning is about two types that one scan really gave the identity, whatever
\* earlier or concurrent scans of the same pool saw: a rename is no false alarm.
NoFalseAlarm == \A s \in warned : Cardinality(TypesOf(s)) > 1

\* A scan that gives an identity two types is told so, unless its own calls
\* overlapped or another scan's came between them: only then can the detector miss
\* the merge.
MergesAreSeen == \A s \in SpotScans \ (warned \union blurred) : Cardinality(TypesOf(s)) <= 1

\* The detector of merged types warns of what one scan did, and of all of that
\* (noteNativeIDType).
SightingsAreTrue == NoFalseAlarm /\ MergesAreSeen
=============================================================================
