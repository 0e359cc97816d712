---------------------- MODULE ObjectVersionsRefinement ----------------------
(***************************************************************************)
(* The object engine of ObjectVersions, one request at a time, implements *)
(* VersionedBucket for its one object name.  Each request takes effect    *)
(* at the index operation that adds or removes the version it is about:   *)
(* PIndex for a PUT, DmPut for a DELETE in a versioned bucket, and RmDel  *)
(* for a DELETE in an unversioned bucket and for a DELETE of a version.   *)
(* Until then the abstract versions are those of snap, the index when the *)
(* request started, because a PUT or DELETE first removes a null version  *)
(* it then replaces.  A versioning change during a request is ordered     *)
(* after it: the abstract status is the one the request read until it     *)
(* returns.                                                               *)
(***************************************************************************)
EXTENDS MCObjectVersions

VARIABLE snap    \* the bucket index when the request in progress started

\* A DELETE of a version: from its first label, or with setl set.
IsDeleteVersion(r) == r.pc \in {"dv_fetch", "dv_fill", "dv_crm"} \/ r.setl

\* Request r has made the index change that is its effect.
Linearized(r) ==
    \/ r.pc \in {"p_cache", "p_sget", "p_sput", "dm_cache"}
    \/ IsDeleteVersion(r) /\ r.pc \in {"rm_sget", "rm_sput", "uve_fetch",
                                       "uve_crm", "uve_put"}
    \/ ~IsDeleteVersion(r) /\ r.pc \in {"rm_sget", "rm_sput"} /\ r.ret = "idle"

\* The versions of an index, newest first.
VersionSeq(ix) ==
    LET ks == Present(ix)
        rank(k) == Cardinality({j \in ks : ix[j].mtime > ix[k].mtime}) + 1
        at(i) == CHOOSE k \in ks : rank(k) = i
    IN  [i \in 1 .. Cardinality(ks) |-> [id |-> at(i), dm |-> IsDM(ix[at(i)])]]

AbsIndex ==
    IF \E p \in Busy : ~IsDeleteVersion(req[p]) /\ ~Linearized(req[p])
    THEN snap ELSE idx

AbsStatus ==
    IF \E p \in Busy : ~IsDeleteVersion(req[p])
    THEN req[CHOOSE p \in Busy : ~IsDeleteVersion(req[p])].vst
    ELSE vstatus

VB == INSTANCE VersionedBucket
          WITH Names <- {1}, Ids <- 1 .. MaxTime,
               versions <- [n \in {1} |-> VersionSeq(AbsIndex)],
               status <- AbsStatus

SpecH == /\ Init /\ snap = idx
         /\ [][Next /\ snap' = IF Busy = {} THEN idx ELSE snap]_<<vars, snap>>

(* Spec 4.5.1 to 4.5.3: run one at a time, PUT, DELETE and DELETE of a    *)
(* version, each a sequence of index, cache and stats operations, change *)
(* the versions of the object as S3 versioning says.                     *)
VersionsRefined == VB!Spec

=============================================================================
