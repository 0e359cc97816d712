--------------------------- MODULE ObjectVersions ---------------------------
(***************************************************************************)
(* The object engine of src/src/rgw/rgw_sal_motr.cc for one object name in *)
(* one bucket: PUT (MotrAtomicWriter write + complete), DELETE without a   *)
(* version id and DELETE of a version (MotrDeleteOp::delete_obj), with the *)
(* helpers they call: update_version_entries, fetch_latest_obj,            *)
(* get_bucket_dir_ent, fetch_null_obj, remove_null_obj,                    *)
(* remove_mobj_and_index_entry, create_delete_marker, update_bucket_stats  *)
(* and the process-local object metadata cache (MotrMetaCache).            *)
(*                                                                         *)
(* Every request runs on its own thread; each index, cache or stats        *)
(* operation is one atomic step, so requests of different threads         *)
(* interleave between any two of them.  A request's program counter and   *)
(* locals live in req[p].                                                  *)
(*                                                                         *)
(* Keys of the bucket index: NullKey is "name\a" (the null version); key t *)
(* > 0 is "name\a<instance>" for the instance made at clock tick t.  The   *)
(* instance is an inverted millisecond timestamp, so a later tick sorts    *)
(* earlier, and "name\a" sorts before every instance.                      *)
(***************************************************************************)
EXTENDS Integers, FiniteSets, FiniteSetsExt

CONSTANTS
    Procs,          \* request threads
    Sizes,          \* object sizes a PUT may write (0 = no Motr object)
    MaxTime,        \* bound on the clock: instances, mtimes and object ids
    GcEnabled,      \* MotrStore::gc_enabled()
    EnqueueMayFail, \* whether MotrGC::enqueue may return an error
    InitialVersioning, \* versioning status of the bucket at the start
    VersioningChanges, \* whether PutBucketVersioning requests occur
    NoEntry         \* model value: key absent from the index or the cache

ASSUME MaxTime \in Nat /\ Sizes \subseteq Nat /\ GcEnabled \in BOOLEAN
       /\ EnqueueMayFail \in BOOLEAN /\ VersioningChanges \in BOOLEAN
       /\ InitialVersioning \in {"Unversioned", "Enabled", "Suspended"}

VARIABLES
    idx,      \* bucket index motr.rgw.bucket.index.<bucket>: key -> entry
    cache,    \* MotrMetaCache of object entries: key -> entry
    stats,    \* Main category of the bucket header in motr.rgw.user.stats.<owner>
    objs,     \* Motr objects created by writers and never destroyed
    gcq,      \* number of times each object was enqueued to the GC
    vstatus,  \* versioning status of the bucket (RGWBucketInfo flags)
    clock,    \* real_clock: source of instances, mtimes and object ids
    req       \* per-thread request state

vars == <<idx, cache, stats, objs, gcq, vstatus, clock, req>>

NullKey == 0
Keys == 0 .. MaxTime
Oids == 1 .. MaxTime
NoObj == 0
NoKey == -1
Entry == [mtime : 1 .. MaxTime, size : Sizes,
          flags : SUBSET {"VER", "CURRENT", "DM"}, oid : Oids \cup {NoObj}]
VStatus == {"Unversioned", "Enabled", "Suspended"}
Versioned(s) == s # "Unversioned"           \* RGWBucketInfo::versioned()
Stat == [num : Int, size : Int]

Labels == {"idle", "p_complete", "rn_fetch", "rn_fill", "p_index", "p_cache",
           "p_sget", "p_sput", "d_fetch", "d_fill", "d_crm", "dm_put",
           "dm_cache", "dv_fetch", "dv_fill", "dv_crm", "rm_obj", "rm_del",
           "rm_sget", "rm_sput", "uve_fetch", "uve_crm", "uve_put"}

IdleReq == [pc |-> "idle", vst |-> "Unversioned", key |-> NullKey,
            ent |-> NoEntry, ekey |-> NullKey, new |-> NoEntry,
            lat |-> NoEntry, latk |-> NullKey, setl |-> FALSE,
            st |-> [num |-> 0, size |-> 0], ret |-> "idle", uret |-> "idle"]

\* rgw_bucket_dir_entry::is_current() and is_delete_marker()
IsCurrent(e) == "VER" \notin e.flags \/ "CURRENT" \in e.flags
IsDM(e) == "DM" \in e.flags

Present(ix) == {k \in Keys : ix[k] # NoEntry}

\* Order of keys returned by the index NEXT operation.
KeyBefore(a, b) == a = NullKey \/ (b # NullKey /\ a > b)
FirstKey(S) == CHOOSE k \in S : \A j \in S \ {k} : KeyBefore(k, j)

\* Mutant: the latest is the first record of the NEXT, mtimes not compared.
FetchLatestFirst(ix) ==
    IF Present(ix) = {} THEN NoKey ELSE FirstKey(Present(ix))

\* fetch_latest_obj: NEXT of two records from "name\a"; the second record
\* replaces the first unless the first has the greater mtime.
FetchLatest(ix) ==
    LET P == Present(ix)
        k1 == FirstKey(P)
        k2 == FirstKey(P \ {k1})
    IN  CASE P = {}                    -> NoKey
          [] P = {k1}                  -> k1
          [] ix[k1].mtime > ix[k2].mtime -> k1
          [] OTHER                     -> k2

\* Mutant: the delete flow sets FLAG_VER only, dropping FLAG_CURRENT.
VersionFlagsNoCurrent(e, setLatest) ==
    IF IsDM(e) THEN {"DM", "VER"} ELSE {"VER"}

\* The flags update_version_entries writes for the latest entry.
VersionFlags(e, setLatest) ==
    CASE setLatest /\ IsDM(e)  -> {"DM"}
      [] setLatest             -> {"VER", "CURRENT"}
      [] IsDM(e)               -> {"DM", "VER"}
      [] OTHER                 -> {"VER"}

Busy == {q \in Procs : req[q].pc # "idle"}
\* A request that needs n clock ticks starts only if every busy request can
\* still take the two ticks it may need (PUT: instance/object id and mtime;
\* DELETE: marker instance and marker mtime).
RoomFor(n) == clock + n + 2 * Cardinality(Busy) <= MaxTime

\* Continue request p at label l; a request that returns to "idle" drops
\* its locals.
Goto(p, l) == req' = [req EXCEPT ![p] = IF l = "idle" THEN IdleReq
                                        ELSE [@ EXCEPT !.pc = l]]
At(p, l) == req[p].pc = l

Init ==
    /\ idx = [k \in Keys |-> NoEntry]
    /\ cache = [k \in Keys |-> NoEntry]
    /\ stats = [num |-> 0, size |-> 0]
    /\ objs = {}
    /\ gcq = [o \in Oids |-> 0]
    /\ vstatus = InitialVersioning
    /\ clock = 0
    /\ req = [p \in Procs |-> IdleReq]

-----------------------------------------------------------------------------
(* PUT: MotrAtomicWriter::write creates the Motr object on the first write *)
(* (none for a zero-byte object); the front end gave the key an instance   *)
(* (gen_rand_obj_instance_name) when versioning is enabled.                *)
StartPut(p) ==
    /\ At(p, "idle")
    /\ RoomFor(2)
    /\ \E s \in Sizes :
         LET t == clock + 1 IN
         /\ clock' = t
         /\ objs' = IF s = 0 THEN objs ELSE objs \cup {t}
         /\ req' = [req EXCEPT ![p] = [IdleReq EXCEPT
                      !.pc = "p_complete", !.vst = vstatus,
                      !.key = IF vstatus = "Enabled" THEN t ELSE NullKey,
                      !.new = [mtime |-> t, size |-> s, flags |-> {},
                               oid |-> IF s = 0 THEN NoObj ELSE t]]]
    /\ UNCHANGED <<idx, cache, stats, gcq, vstatus>>

\* MotrAtomicWriter::complete: stamp mtime and flags, then unset CURRENT on
\* the latest entry (versioned buckets) and remove the null version
\* (buckets whose versioning is not enabled).
PComplete(p) ==
    /\ At(p, "p_complete")
    /\ clock' = clock + 1
    /\ LET r == req[p]
           e == [r.new EXCEPT !.mtime = clock + 1,
                   !.flags = IF Versioned(r.vst) THEN {"VER", "CURRENT"} ELSE {}]
       IN req' = [req EXCEPT ![p] =
             IF Versioned(r.vst)
             THEN [r EXCEPT !.new = e, !.pc = "uve_fetch", !.setl = FALSE,
                     !.uret = IF r.vst = "Enabled" THEN "p_index" ELSE "rn_fetch"]
             ELSE [r EXCEPT !.new = e, !.pc = "rn_fetch"]]
    /\ UNCHANGED <<idx, cache, stats, objs, gcq, vstatus>>

\* remove_null_obj / fetch_null_obj: the cache first, then an index GET.
RnFetch(p) ==
    /\ At(p, "rn_fetch")
    /\ \/ /\ cache[NullKey] # NoEntry
          /\ req' = [req EXCEPT ![p].ent = cache[NullKey], ![p].ekey = NullKey,
                                ![p].ret = "p_index", ![p].pc = "rm_obj"]
       \/ /\ cache[NullKey] = NoEntry
          /\ idx[NullKey] = NoEntry
          /\ Goto(p, "p_index")
       \/ /\ cache[NullKey] = NoEntry
          /\ idx[NullKey] # NoEntry
          /\ req' = [req EXCEPT ![p].ent = idx[NullKey], ![p].pc = "rn_fill"]
    /\ UNCHANGED <<idx, cache, stats, objs, gcq, vstatus, clock>>

\* fetch_null_obj puts what the GET returned into the cache.
RnFill(p) ==
    /\ At(p, "rn_fill")
    /\ cache' = [cache EXCEPT ![NullKey] = req[p].ent]
    /\ req' = [req EXCEPT ![p].ekey = NullKey, ![p].ret = "p_index",
                          ![p].pc = "rm_obj"]
    /\ UNCHANGED <<idx, stats, objs, gcq, vstatus, clock>>

PIndex(p) ==
    /\ At(p, "p_index")
    /\ idx' = [idx EXCEPT ![req[p].key] = req[p].new]
    /\ Goto(p, "p_cache")
    /\ UNCHANGED <<cache, stats, objs, gcq, vstatus, clock>>

PCache(p) ==
    /\ At(p, "p_cache")
    /\ cache' = [cache EXCEPT ![req[p].key] = req[p].new]
    /\ Goto(p, "p_sget")
    /\ UNCHANGED <<idx, stats, objs, gcq, vstatus, clock>>

\* update_bucket_stats: GET the bucket header ...
PStatsGet(p) ==
    /\ At(p, "p_sget")
    /\ req' = [req EXCEPT ![p].st = stats, ![p].pc = "p_sput"]
    /\ UNCHANGED <<idx, cache, stats, objs, gcq, vstatus, clock>>

\* ... and PUT it back with one more object of the new size.
PStatsPut(p) ==
    /\ At(p, "p_sput")
    /\ stats' = [num |-> req[p].st.num + 1,
                 size |-> req[p].st.size + req[p].new.size]
    /\ Goto(p, "idle")
    /\ UNCHANGED <<idx, cache, objs, gcq, vstatus, clock>>

-----------------------------------------------------------------------------
(* DELETE without a version id: MotrDeleteOp::delete_obj.                  *)
StartDelete(p) ==
    /\ At(p, "idle")
    /\ RoomFor(2)
    /\ req' = [req EXCEPT ![p] = [IdleReq EXCEPT !.pc = "d_fetch", !.vst = vstatus]]
    /\ UNCHANGED <<idx, cache, stats, objs, gcq, vstatus, clock>>

\* get_bucket_dir_ent without an instance: fetch_latest_obj; ENOENT fails.
DFetch(p) ==
    /\ At(p, "d_fetch")
    /\ LET k == FetchLatest(idx) IN
         IF k = NoKey THEN Goto(p, "idle")
         ELSE req' = [req EXCEPT ![p].ent = idx[k], ![p].ekey = k,
                                 ![p].pc = "d_fill"]
    /\ UNCHANGED <<idx, cache, stats, objs, gcq, vstatus, clock>>

\* get_bucket_dir_ent puts the entry it read into the cache under its key.
DFill(p) ==
    /\ At(p, "d_fill")
    /\ cache' = [cache EXCEPT ![req[p].ekey] = req[p].ent]
    /\ Goto(p, "d_crm")
    /\ UNCHANGED <<idx, stats, objs, gcq, vstatus, clock>>

\* Mutant: the suspended flow keeps the instance for the delete marker.
DCacheRemoveSuspendedInstance(p) ==
    /\ At(p, "d_crm")
    /\ cache' = [cache EXCEPT ![NullKey] = NoEntry]
    /\ LET r == req[p]
           t == clock + 1
           dmk == t
       IN IF ~Versioned(r.vst)
          THEN /\ req' = [req EXCEPT ![p].ekey = NullKey, ![p].ret = "idle",
                                     ![p].pc = "rm_obj"]
               /\ UNCHANGED clock
          ELSE /\ clock' = t
               /\ IF r.vst = "Suspended" /\ IsDM(r.ent) /\ r.ekey = NullKey
                  THEN Goto(p, "idle")
                  ELSE req' = [req EXCEPT ![p] = [r EXCEPT
                         !.key = dmk, !.setl = FALSE, !.uret = "dm_put",
                         !.ret = "uve_fetch",
                         !.pc = IF r.vst = "Suspended" /\ r.ekey = NullKey
                                THEN "rm_obj" ELSE "uve_fetch"]]
    /\ UNCHANGED <<idx, stats, objs, gcq, vstatus>>

\* delete_obj removes delete_key ("name\a") from the cache, then: the
\* unversioned flow removes the null entry; the versioned flow takes an
\* instance for the delete marker (dropped again when versioning is
\* suspended), returns early on a null delete marker, removes a latest
\* null entry, unsets CURRENT on the latest entry and adds the marker.
DCacheRemove(p) ==
    /\ At(p, "d_crm")
    /\ cache' = [cache EXCEPT ![NullKey] = NoEntry]
    /\ LET r == req[p]
           t == clock + 1
           dmk == IF r.vst = "Enabled" THEN t ELSE NullKey
       IN IF ~Versioned(r.vst)
          THEN /\ req' = [req EXCEPT ![p].ekey = NullKey, ![p].ret = "idle",
                                     ![p].pc = "rm_obj"]
               /\ UNCHANGED clock
          ELSE /\ clock' = t
               /\ IF r.vst = "Suspended" /\ IsDM(r.ent) /\ r.ekey = NullKey
                  THEN Goto(p, "idle")
                  ELSE req' = [req EXCEPT ![p] = [r EXCEPT
                         !.key = dmk, !.setl = FALSE, !.uret = "dm_put",
                         !.ret = "uve_fetch",
                         !.pc = IF r.vst = "Suspended" /\ r.ekey = NullKey
                                THEN "rm_obj" ELSE "uve_fetch"]]
    /\ UNCHANGED <<idx, stats, objs, gcq, vstatus>>

\* create_delete_marker: PUT a DELETE_MARKER|CURRENT entry stamped now ...
DmPut(p) ==
    /\ At(p, "dm_put")
    /\ clock' = clock + 1
    /\ LET dm == [mtime |-> clock + 1, size |-> 0, flags |-> {"DM", "CURRENT"},
                  oid |-> NoObj]
       IN /\ idx' = [idx EXCEPT ![req[p].key] = dm]
          /\ req' = [req EXCEPT ![p].new = dm, ![p].pc = "dm_cache"]
    /\ UNCHANGED <<cache, stats, objs, gcq, vstatus>>

\* ... and put it into the cache.
DmCache(p) ==
    /\ At(p, "dm_cache")
    /\ cache' = [cache EXCEPT ![req[p].key] = req[p].new]
    /\ Goto(p, "idle")
    /\ UNCHANGED <<idx, stats, objs, gcq, vstatus, clock>>

-----------------------------------------------------------------------------
(* DELETE of version k of a versioned bucket ("null" names NullKey).       *)
StartDeleteVersion(p) ==
    /\ At(p, "idle")
    /\ Versioned(vstatus)
    /\ \E k \in 0 .. clock :
         req' = [req EXCEPT ![p] = [IdleReq EXCEPT !.pc = "dv_fetch",
                                      !.vst = vstatus, !.key = k]]
    /\ UNCHANGED <<idx, cache, stats, objs, gcq, vstatus, clock>>

\* get_bucket_dir_ent with an instance: a cache hit skips the index GET
\* and the fill; a GET of an absent key fails the request.
DvFetch(p) ==
    /\ At(p, "dv_fetch")
    /\ LET k == req[p].key IN
         CASE cache[k] # NoEntry ->
                req' = [req EXCEPT ![p].ent = cache[k], ![p].pc = "dv_crm"]
           [] idx[k] = NoEntry -> Goto(p, "idle")
           [] OTHER ->
                req' = [req EXCEPT ![p].ent = idx[k], ![p].pc = "dv_fill"]
    /\ UNCHANGED <<idx, cache, stats, objs, gcq, vstatus, clock>>

DvFill(p) ==
    /\ At(p, "dv_fill")
    /\ cache' = [cache EXCEPT ![req[p].key] = req[p].ent]
    /\ Goto(p, "dv_crm")
    /\ UNCHANGED <<idx, stats, objs, gcq, vstatus, clock>>

\* Mutant: delete_key ignores the instance (always "name\a").
DvCacheRemoveWrongKey(p) ==
    /\ At(p, "dv_crm")
    /\ cache' = [cache EXCEPT ![req[p].key] = NoEntry]
    /\ req' = [req EXCEPT ![p].ekey = NullKey, ![p].setl = TRUE,
                          ![p].uret = "idle", ![p].pc = "rm_obj",
                          ![p].ret = IF IsCurrent(req[p].ent)
                                     THEN "uve_fetch" ELSE "idle"]
    /\ UNCHANGED <<idx, stats, objs, gcq, vstatus, clock>>

\* Remove the key from the cache, delete the version permanently and, if
\* it was current, set CURRENT on the new latest entry.
DvCacheRemove(p) ==
    /\ At(p, "dv_crm")
    /\ cache' = [cache EXCEPT ![req[p].key] = NoEntry]
    /\ req' = [req EXCEPT ![p].ekey = req[p].key, ![p].setl = TRUE,
                          ![p].uret = "idle", ![p].pc = "rm_obj",
                          ![p].ret = IF IsCurrent(req[p].ent)
                                     THEN "uve_fetch" ELSE "idle"]
    /\ UNCHANGED <<idx, stats, objs, gcq, vstatus, clock>>

-----------------------------------------------------------------------------
(* remove_mobj_and_index_entry(ent, ekey), returning to label ret.         *)

\* The synchronous delete after a failed or disabled GC enqueue calls
\* delete_hsm_enabled_mobj whatever the object is ("this-meta.is_composite"
\* is a pointer, never null).  It lists composite layers and deletes them,
\* never the root object: the layout GET either fails, failing the
\* request, or returns and the root object stays.
SyncDelete(p) ==
    \/ Goto(p, "idle")
    \/ Goto(p, "rm_del")

RmObj(p) ==
    /\ At(p, "rm_obj")
    /\ LET e == req[p].ent IN
         \/ /\ e.size = 0
            /\ Goto(p, "rm_del")
            /\ UNCHANGED gcq
         \/ /\ e.size # 0
            /\ GcEnabled
            /\ gcq' = [gcq EXCEPT ![e.oid] = @ + 1]
            /\ Goto(p, "rm_del")
         \/ /\ e.size # 0
            /\ ~GcEnabled \/ EnqueueMayFail
            /\ SyncDelete(p)
            /\ UNCHANGED gcq
    /\ UNCHANGED <<idx, cache, stats, objs, vstatus, clock>>

\* Mutant: delete markers are subtracted from the stats too.
RmDelCountsMarkers(p) ==
    /\ At(p, "rm_del")
    /\ LET k == req[p].ekey IN
         IF idx[k] = NoEntry
         THEN /\ Goto(p, "idle")
              /\ UNCHANGED idx
         ELSE /\ idx' = [idx EXCEPT ![k] = NoEntry]
              /\ Goto(p, "rm_sget")
    /\ UNCHANGED <<cache, stats, objs, gcq, vstatus, clock>>

\* Mutant: the index DEL is dropped; the request goes on as if it succeeded.
RmDelKeepsEntry(p) ==
    /\ At(p, "rm_del")
    /\ Goto(p, IF IsDM(req[p].ent) THEN req[p].ret ELSE "rm_sget")
    /\ UNCHANGED <<idx, cache, stats, objs, gcq, vstatus, clock>>

\* Index DEL of the key (ENOENT fails the request); a delete marker is not
\* counted in the stats.
RmDel(p) ==
    /\ At(p, "rm_del")
    /\ LET k == req[p].ekey IN
         IF idx[k] = NoEntry
         THEN /\ Goto(p, "idle")
              /\ UNCHANGED idx
         ELSE /\ idx' = [idx EXCEPT ![k] = NoEntry]
              /\ Goto(p, IF IsDM(req[p].ent) THEN req[p].ret ELSE "rm_sget")
    /\ UNCHANGED <<cache, stats, objs, gcq, vstatus, clock>>

RmStatsGet(p) ==
    /\ At(p, "rm_sget")
    /\ req' = [req EXCEPT ![p].st = stats, ![p].pc = "rm_sput"]
    /\ UNCHANGED <<idx, cache, stats, objs, gcq, vstatus, clock>>

RmStatsPut(p) ==
    /\ At(p, "rm_sput")
    /\ stats' = [num |-> req[p].st.num - 1,
                 size |-> req[p].st.size - req[p].ent.size]
    /\ Goto(p, req[p].ret)
    /\ UNCHANGED <<idx, cache, objs, gcq, vstatus, clock>>

-----------------------------------------------------------------------------
(* update_version_entries(setl), returning to label uret.                  *)

\* fetch_latest_obj; nothing to do if there is no entry, or if the latest
\* is not current and CURRENT is to be unset.
UveFetch(p) ==
    /\ At(p, "uve_fetch")
    /\ LET k == FetchLatest(idx) IN
         IF k = NoKey \/ (~IsCurrent(idx[k]) /\ ~req[p].setl)
         THEN Goto(p, req[p].uret)
         ELSE req' = [req EXCEPT ![p].latk = k, ![p].pc = "uve_crm",
                        ![p].lat = [idx[k] EXCEPT
                                      !.flags = VersionFlags(idx[k], req[p].setl)]]
    /\ UNCHANGED <<idx, cache, stats, objs, gcq, vstatus, clock>>

\* Mutant: the cache entry of the updated key is not removed.
UveCacheRemoveSkipped(p) ==
    /\ At(p, "uve_crm")
    /\ Goto(p, "uve_put")
    /\ UNCHANGED <<idx, cache, stats, objs, gcq, vstatus, clock>>

UveCacheRemove(p) ==
    /\ At(p, "uve_crm")
    /\ cache' = [cache EXCEPT ![req[p].latk] = NoEntry]
    /\ Goto(p, "uve_put")
    /\ UNCHANGED <<idx, stats, objs, gcq, vstatus, clock>>

\* PUT of the entry read by UveFetch with its new flags.
UvePut(p) ==
    /\ At(p, "uve_put")
    /\ idx' = [idx EXCEPT ![req[p].latk] = req[p].lat]
    /\ Goto(p, req[p].uret)
    /\ UNCHANGED <<cache, stats, objs, gcq, vstatus, clock>>

-----------------------------------------------------------------------------
(* PutBucketVersioning stores the bucket info: MotrBucket::put_info.       *)
SetVersioning ==
    /\ VersioningChanges
    /\ \E s \in VStatus \ {"Unversioned", vstatus} : vstatus' = s
    /\ UNCHANGED <<idx, cache, stats, objs, gcq, clock, req>>

Step(p) ==
    \/ StartPut(p) \/ PComplete(p) \/ RnFetch(p) \/ RnFill(p)
    \/ PIndex(p) \/ PCache(p) \/ PStatsGet(p) \/ PStatsPut(p)
    \/ StartDelete(p) \/ DFetch(p) \/ DFill(p) \/ DCacheRemove(p)
    \/ DmPut(p) \/ DmCache(p)
    \/ StartDeleteVersion(p) \/ DvFetch(p) \/ DvFill(p) \/ DvCacheRemove(p)
    \/ RmObj(p) \/ RmDel(p) \/ RmStatsGet(p) \/ RmStatsPut(p)
    \/ UveFetch(p) \/ UveCacheRemove(p) \/ UvePut(p)

Next == SetVersioning \/ \E p \in Procs : Step(p)

Spec == Init /\ [][Next]_vars

-----------------------------------------------------------------------------
(* Properties.  Quiescent: no request is in progress.                      *)

Quiescent == Busy = {}

\* The entry with the greatest mtime: the latest version by S3 semantics.
NewestKey(ix) ==
    CHOOSE k \in Present(ix) : \A j \in Present(ix) : ix[j].mtime <= ix[k].mtime

NonMarkers(ix) == {k \in Present(ix) : ~IsDM(ix[k])}

TypeOK ==
    /\ idx \in [Keys -> Entry \cup {NoEntry}]
    /\ cache \in [Keys -> Entry \cup {NoEntry}]
    /\ stats \in [num : Nat, size : Nat]
    /\ objs \subseteq Oids
    /\ gcq \in [Oids -> Nat]
    /\ vstatus \in VStatus
    /\ clock \in 0 .. MaxTime
    /\ \A p \in Procs : req[p].pc \in Labels /\ req[p].st \in Stat

\* When no request is in progress, exactly one entry is CURRENT and it is
\* the newest one: update_version_entries moves CURRENT from the previous
\* latest entry to the new one on PUT (clear then insert) and back on a
\* DELETE of the current version (delete then set).
CurrentIsLatest ==
    Quiescent /\ Present(idx) # {} =>
        {k \in Present(idx) : IsCurrent(idx[k])} = {NewestKey(idx)}

\* A GET or HEAD without a version id (fetch_latest_obj, which compares
\* only the first two records of a NEXT from "name\a") finds the entry
\* with the greatest mtime.
HeadIsNewest ==
    Present(idx) # {} => FetchLatest(idx) = NewestKey(idx)

\* When no request is in progress, no index entry refers to a Motr object
\* that remove_mobj_and_index_entry has handed to the GC.
NoDanglingEntry ==
    Quiescent =>
        \A k \in Present(idx) :
            idx[k].oid # NoObj => idx[k].oid \in objs /\ gcq[idx[k].oid] = 0

\* When no request is in progress, every cached entry equals the index
\* entry at its key: each index mutation of the PUT and DELETE paths is
\* paired with a cache put or remove of that key.
CacheCoherent ==
    Quiescent =>
        \A k \in Keys : cache[k] # NoEntry => cache[k] = idx[k]

\* remove_mobj_and_index_entry hands each Motr object to the GC at most
\* once: no two deletes ever both find the same entry.
GcEnqueuedOnce ==
    \A o \in Oids : gcq[o] <= 1

\* When no request is in progress, every Motr object a writer created is
\* referenced by an index entry or handed to the GC (no leaked object).
NoLeakedObject ==
    Quiescent =>
        \A o \in objs : gcq[o] > 0 \/ \E k \in Present(idx) : idx[k].oid = o

\* When no request is in progress, the bucket stats (update_bucket_stats
\* on PUT and on remove_mobj_and_index_entry) count exactly the entries
\* of the index that are not delete markers, and their sizes.
StatsMatchIndex ==
    Quiescent =>
        stats = [num |-> Cardinality(NonMarkers(idx)),
                 size |-> MapThenSumSet(LAMBDA k : idx[k].size, NonMarkers(idx))]
=============================================================================
