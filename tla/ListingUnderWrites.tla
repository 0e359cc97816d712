------------------------- MODULE ListingUnderWrites -------------------------
(***************************************************************************)
(* BucketList with one history variable, ix0: the bucket index when the   *)
(* ListObjects request in progress began.  An entry present in ix0 and    *)
(* present with the same mtime when the listing returns was there all the *)
(* time, since a key once removed never comes back with its old mtime.   *)
(***************************************************************************)
EXTENDS BucketList

VARIABLE ix0   \* the index when the listing in progress began

SpecH == /\ Init /\ ix0 = ix
         /\ [][Next /\ ix0' = IF ListBegin THEN ix ELSE ix0]_<<vars, ix0>>

\* The records present in both indexes with the same entry mtime.
Stable(a, b) ==
    {<<n, k>> \in UNION {{<<m, j>> : j \in DOMAIN a[m]} : m \in DOMAIN a} :
        k \in DOMAIN b[n] /\ a[n][k].mtime = b[n][k].mtime}

(* A ListObjectVersions request that returns untruncated lists every      *)
(* version that existed, unchanged, from its start to its end, whatever   *)
(* PUTs and DELETEs landed between its NEXT batches.                      *)
StableEntriesListed ==
    ls.pc = "done" /\ ls.ver /\ ~ls.l.st.trunc =>
        Stable(ix0, ix) \subseteq ToSet(ls.l.st.objs)

=============================================================================
