---------------------------- MODULE VersionedBucket ----------------------------
(***************************************************************************)
(* What the object engine promises about the versions of the objects of a *)
(* bucket (spec 3.5, 4.5.1 to 4.5.3 and testable property 1), with no     *)
(* index, flags, cache or clock: each name has a sequence of versions,    *)
(* newest first.  A version is its id (Null for the null version) and     *)
(* whether it is a delete marker.  The head of the sequence is what HEAD  *)
(* without a version id returns, not found when it is a delete marker.    *)
(***************************************************************************)
EXTENDS Integers, Sequences, SequencesExt

CONSTANTS
    Names,      \* object names
    Ids         \* version ids a versioned PUT or DELETE may generate

Null == 0

ASSUME Null \notin Ids

VARIABLES
    versions,   \* name -> sequence of [id, dm], newest first
    status      \* versioning status of the bucket

vars == <<versions, status>>

Version == [id : Ids \cup {Null}, dm : BOOLEAN]

IdsOf(n) == {versions[n][i].id : i \in DOMAIN versions[n]}

\* The versions of n with the null version, if any, removed.
WithoutNull(n) == SelectSeq(versions[n], LAMBDA v : v.id # Null)

\* A new version of n becomes the newest: with a fresh id when versioning
\* is enabled, else as the null version, which replaces the previous one.
AddNewest(n, dm) ==
    IF status = "Enabled"
    THEN \E id \in Ids \ IdsOf(n) :
             versions' = [versions EXCEPT ![n] = Cons([id |-> id, dm |-> dm], @)]
    ELSE versions' = [versions EXCEPT ![n] = Cons([id |-> Null, dm |-> dm],
                                                  WithoutNull(n))]

Init ==
    /\ versions = [n \in Names |-> <<>>]
    /\ status = "Unversioned"

\* 4.5.1 and 4.5.2: PUT.
Put(n) ==
    /\ AddNewest(n, FALSE)
    /\ UNCHANGED status

\* 4.5.3: DELETE without a version id of an object that has a version:
\* unversioned, the null version goes; versioned, a delete marker becomes
\* the newest version.
Delete(n) ==
    /\ versions[n] # <<>>
    /\ IF status = "Unversioned"
       THEN versions' = [versions EXCEPT ![n] = WithoutNull(n)]
       ELSE AddNewest(n, TRUE)
    /\ UNCHANGED status

\* 4.5.3: DELETE of a given version in a versioned bucket.
DeleteVersion(n) ==
    /\ status # "Unversioned"
    /\ \E i \in DOMAIN versions[n] :
          versions' = [versions EXCEPT ![n] = RemoveAt(@, i)]
    /\ UNCHANGED status

\* PutBucketVersioning: a bucket once versioned never becomes unversioned.
SetVersioning ==
    /\ status' \in {"Enabled", "Suspended"} \ {status}
    /\ UNCHANGED versions

Next == SetVersioning \/ \E n \in Names : Put(n) \/ Delete(n) \/ DeleteVersion(n)

Spec == Init /\ [][Next]_vars

-----------------------------------------------------------------------------
TypeOK ==
    /\ versions \in [Names -> Seq(Version)]
    /\ status \in {"Unversioned", "Enabled", "Suspended"}

=============================================================================
