------------------------------ MODULE Multipart ------------------------------
(***************************************************************************)
(* The multipart engine of src/src/rgw/rgw_sal_motr.cc for one object name *)
(* in one unversioned bucket, separate-part strategy (hsm disabled):       *)
(* MotrMultipartUpload::init, the upload-part request (get_info, then      *)
(* MotrMultipartWriter prepare/process/complete and store_part_info),     *)
(* abort with delete_parts, and complete, including the removal of the    *)
(* object it overwrites (remove_null_obj, remove_mobj_and_index_entry for *)
(* a MultiMeta entry) and the bucket stats updates (update_bucket_stats). *)
(*                                                                         *)
(* Each request runs on its own thread and each index, object or stats    *)
(* operation is one atomic step.  Upload ids are model values; the index  *)
(* entry of the object name is `head`, the upload it was completed from   *)
(* with its size.  Part objects are numbered Motr oids.                   *)
(***************************************************************************)
EXTENDS Integers, FiniteSets, FiniteSetsExt, Sequences, SequencesExt

CONSTANTS
    Procs,          \* request threads
    Uploads,        \* upload ids init may generate
    PartNums,       \* part numbers clients upload
    Sizes,          \* part sizes (bytes, abstracted)
    MaxOid,         \* bound on the number of part objects created
    GcEnabled,      \* MotrStore::gc_enabled()
    EnqueueMayFail, \* whether MotrGC::enqueue may return an error
    NoPart,         \* model value: no record under a part key
    NoHead          \* model value: no entry for the object in the bucket index

ASSUME MaxOid \in Nat /\ Sizes \subseteq Nat \ {0} /\ PartNums \subseteq Nat
       /\ GcEnabled \in BOOLEAN /\ EnqueueMayFail \in BOOLEAN

VARIABLES
    inprog,   \* keys of motr.rgw.bucket.<b>.multiparts.in-progress
    pidx,     \* part index motr.rgw.bucket.<b>.multiparts: upload -> num -> part
    head,     \* bucket index entry of the object name: completed upload and size
    objs,     \* Motr part objects created and not deleted
    gcq,      \* uploads whose part objects were handed to the GC
    stats,    \* Main category of the bucket stats header
    used,     \* upload ids generated so far
    known,    \* upload ids whose init returned them to the client
    nextOid,  \* next object id m0_ufid_next hands out
    done,     \* history: the parts each completed upload was completed with
    req       \* per-thread request state

vars == <<inprog, pidx, head, objs, gcq, stats, used, known, nextOid, done,
          req>>

Oids == 1 .. MaxOid
Part == [oid : Oids, size : Sizes]
Parts == [PartNums -> Part \cup {NoPart}]
NoParts == [n \in PartNums |-> NoPart]
HeadEntry == [up : Uploads, size : Nat]
Stat == [num : Int, size : Int]

Labels == {"idle", "i_done", "s_get", "s_put", "p_create", "p_getold", "p_delold",
           "p_put", "dp_list", "dp_del", "a_del", "c_get", "c_rmnull",
           "r_gc", "r_del", "c_put", "c_del"}

IdleReq == [pc |-> "idle", up |-> CHOOSE u \in Uploads : TRUE,
            n |-> CHOOSE n \in PartNums : TRUE, size |-> 0, oid |-> 0,
            old |-> NoPart, lst |-> NoParts, dl |-> NoParts,
            tgt |-> CHOOSE u \in Uploads : TRUE,
            sub |-> FALSE, ret |-> "idle", hd |-> NoHead, dn |-> 0, ds |-> 0,
            st |-> [num |-> 0, size |-> 0], sret |-> "idle"]

Listed(ps) == {n \in PartNums : ps[n] # NoPart}
TotalSize(ps) == MapThenSumSet(LAMBDA n : ps[n].size, Listed(ps))
PartOids(ps) == {ps[n].oid : n \in Listed(ps)}

Goto(p, l) == req' = [req EXCEPT ![p] = IF l = "idle" THEN IdleReq
                                        ELSE [@ EXCEPT !.pc = l]]
At(p, l) == req[p].pc = l

\* Call update_bucket_stats with count and size deltas, returning to l.
CallStats(p, dn, ds, l) ==
    req' = [req EXCEPT ![p] = [@ EXCEPT !.pc = "s_get", !.dn = dn,
                                        !.ds = ds, !.sret = l]]

Init ==
    /\ inprog = {}
    /\ pidx = [u \in Uploads |-> NoParts]
    /\ head = NoHead
    /\ objs = {}
    /\ gcq = {}
    /\ stats = [num |-> 0, size |-> 0]
    /\ used = {}
    /\ known = {}
    /\ nextOid = 1
    /\ done = [u \in Uploads |-> NoParts]
    /\ req = [p \in Procs |-> IdleReq]

(* update_bucket_stats: GET the stats header, add the deltas, PUT it.     *)
SGet(p) ==
    /\ At(p, "s_get")
    /\ req' = [req EXCEPT ![p] = [@ EXCEPT !.st = stats, !.pc = "s_put"]]
    /\ UNCHANGED <<inprog, pidx, head, objs, gcq, stats, used, known, nextOid,
                   done>>

SPut(p) ==
    /\ At(p, "s_put")
    /\ stats' = [num |-> req[p].st.num + req[p].dn,
                 size |-> req[p].st.size + req[p].ds]
    /\ Goto(p, req[p].sret)
    /\ UNCHANGED <<inprog, pidx, head, objs, gcq, used, known, nextOid, done>>

(* init: PUT the in-progress record under a fresh random upload id (the   *)
(* EEXIST retry loop never repeats an id), then count the object.         *)
StartInit(p) ==
    /\ At(p, "idle")
    /\ \E u \in Uploads \ used :
          /\ used' = used \cup {u}
          /\ inprog' = inprog \cup {u}
          /\ req' = [req EXCEPT ![p] = [@ EXCEPT !.pc = "s_get", !.up = u,
                                  !.dn = 1, !.ds = 0, !.sret = "i_done"]]
    /\ UNCHANGED <<pidx, head, objs, gcq, stats, known, nextOid, done>>

(* init returns the upload id to the client, which may now use it.       *)
IDone(p) ==
    /\ At(p, "i_done")
    /\ known' = known \cup {req[p].up}
    /\ Goto(p, "idle")
    /\ UNCHANGED <<inprog, pidx, head, objs, gcq, stats, used, nextOid, done>>

(* Upload part, step 1: get_info GETs the in-progress record; ENOENT is   *)
(* NoSuchUpload and the request ends.                                     *)
StartPart(p) ==
    /\ At(p, "idle")
    /\ nextOid + Cardinality({q \in Procs : At(q, "p_create")}) <= MaxOid
    /\ \E u \in known, n \in PartNums :
          IF u \in inprog
          THEN req' = [req EXCEPT ![p] = [@ EXCEPT !.pc = "p_create",
                                                   !.up = u, !.n = n]]
          ELSE UNCHANGED req
    /\ UNCHANGED <<inprog, pidx, head, objs, gcq, stats, used, known, nextOid,
                   done>>

(* prepare creates the part object under a new oid; process writes it.   *)
PCreate(p) ==
    /\ At(p, "p_create")
    /\ \E s \in Sizes :
          req' = [req EXCEPT ![p] = [@ EXCEPT !.oid = nextOid, !.size = s,
                                              !.pc = "p_getold"]]
    /\ objs' = objs \cup {nextOid}
    /\ nextOid' = nextOid + 1
    /\ UNCHANGED <<inprog, pidx, head, gcq, stats, used, known, done>>

\* Mutant: store_part_info never looks for a part uploaded before.
PGetOldNoCheck(p) ==
    /\ At(p, "p_getold")
    /\ req' = [req EXCEPT ![p] = [@ EXCEPT !.old = NoPart, !.pc = "p_put"]]
    /\ UNCHANGED <<inprog, pidx, head, objs, gcq, stats, used, known, nextOid,
                   done>>

(* store_part_info: GET the part key to find a part uploaded before.     *)
PGetOld(p) ==
    /\ At(p, "p_getold")
    /\ LET old == pidx[req[p].up][req[p].n]
       IN  req' = [req EXCEPT ![p] = [@ EXCEPT !.old = old,
                     !.pc = IF old = NoPart THEN "p_put" ELSE "p_delold"]]
    /\ UNCHANGED <<inprog, pidx, head, objs, gcq, stats, used, known, nextOid,
                   done>>

(* delete_mobj of the old part object; it fails when the object is gone. *)
PDelOld(p) ==
    /\ At(p, "p_delold")
    /\ IF req[p].old.oid \in objs
       THEN /\ objs' = objs \ {req[p].old.oid}
            /\ Goto(p, "p_put")
       ELSE /\ UNCHANGED objs
            /\ Goto(p, "idle")
    /\ UNCHANGED <<inprog, pidx, head, gcq, stats, used, known, nextOid, done>>

\* Mutant: the stats get the whole part size, the replaced part's size is
\* not taken off.
PPutAddsFull(p) ==
    /\ At(p, "p_put")
    /\ pidx' = [pidx EXCEPT ![req[p].up][req[p].n] =
                               [oid |-> req[p].oid, size |-> req[p].size]]
    /\ CallStats(p, 0, req[p].size, "idle")
    /\ UNCHANGED <<inprog, head, objs, gcq, stats, used, known, nextOid, done>>

(* PUT the part record, then add the size difference to the stats.       *)
PPut(p) ==
    /\ At(p, "p_put")
    /\ pidx' = [pidx EXCEPT ![req[p].up][req[p].n] =
                               [oid |-> req[p].oid, size |-> req[p].size]]
    /\ CallStats(p, 0, req[p].size - (IF req[p].old = NoPart THEN 0
                                      ELSE req[p].old.size), "idle")
    /\ UNCHANGED <<inprog, head, objs, gcq, stats, used, known, nextOid, done>>

(* abort: GET the in-progress record (ENOENT: NoSuchUpload), delete the  *)
(* parts with delete_parts, which also subtracts them from the stats,    *)
(* then DEL the in-progress record.                                       *)
StartAbort(p) ==
    /\ At(p, "idle")
    /\ \E u \in known :
          IF u \in inprog
          THEN req' = [req EXCEPT ![p] = [@ EXCEPT !.pc = "dp_list", !.up = u,
                          !.tgt = u, !.sub = TRUE, !.ret = "a_del"]]
          ELSE UNCHANGED req
    /\ UNCHANGED <<inprog, pidx, head, objs, gcq, stats, used, known, nextOid,
                   done>>

ADel(p) ==
    /\ At(p, "a_del")
    /\ inprog' = inprog \ {req[p].up}
    /\ Goto(p, "idle")
    /\ UNCHANGED <<pidx, head, objs, gcq, stats, used, known, nextOid, done>>

(* delete_parts, step 1: list_parts of the target upload (one NEXT over   *)
(* the part index keyed "<name>.<upload>.<num>"); the loop sums the sizes *)
(* of the parts it lists.                                                 *)
DpList(p) ==
    /\ At(p, "dp_list")
    /\ req' = [req EXCEPT ![p] = [@ EXCEPT !.dl = pidx[req[p].tgt],
                     !.size = TotalSize(pidx[req[p].tgt]), !.pc = "dp_del"]]
    /\ UNCHANGED <<inprog, pidx, head, objs, gcq, stats, used, known, nextOid,
                   done>>

(* delete_parts, step 2: delete_mobj of each listed part in part order;  *)
(* a failed delete (the object is already gone) ends the request.        *)
DpDel(p) ==
    /\ At(p, "dp_del")
    /\ Listed(req[p].dl) # {}
    /\ LET n == Min(Listed(req[p].dl))
       IN  IF req[p].dl[n].oid \in objs
           THEN /\ objs' = objs \ {req[p].dl[n].oid}
                /\ req' = [req EXCEPT ![p].dl[n] = NoPart]
           ELSE /\ UNCHANGED objs
                /\ Goto(p, "idle")
    /\ UNCHANGED <<inprog, pidx, head, gcq, stats, used, known, nextOid, done>>

\* Mutant: delete_parts subtracts the stats whoever calls it.
DpDoneAlwaysSubtracts(p) ==
    /\ At(p, "dp_del")
    /\ Listed(req[p].dl) = {}
    /\ CallStats(p, -1, -req[p].size, req[p].ret)
    /\ UNCHANGED <<inprog, pidx, head, objs, gcq, stats, used, known, nextOid,
                   done>>

(* delete_parts, step 3: with the upload id of the request known (abort), *)
(* subtract the listed sizes and one object from the stats.               *)
DpDone(p) ==
    /\ At(p, "dp_del")
    /\ Listed(req[p].dl) = {}
    /\ IF req[p].sub
       THEN CallStats(p, -1, -req[p].size, req[p].ret)
       ELSE Goto(p, req[p].ret)
    /\ UNCHANGED <<inprog, pidx, head, objs, gcq, stats, used, known, nextOid,
                   done>>

(* complete, step 1: list_parts; the client's part list must name the    *)
(* listed parts (else InvalidPart and nothing changes), so the request    *)
(* goes on with the listed parts.  list_parts does not look at the        *)
(* in-progress record.                                                    *)
StartComplete(p) ==
    /\ At(p, "idle")
    /\ \E u \in known :
          /\ Listed(pidx[u]) # {}
          /\ req' = [req EXCEPT ![p] = [@ EXCEPT !.pc = "c_get", !.up = u,
                                                 !.lst = pidx[u]]]
    /\ UNCHANGED <<inprog, pidx, head, objs, gcq, stats, used, known, nextOid,
                   done>>

\* Mutant: complete does not read the in-progress record.
CGetNoCheck(p) ==
    /\ At(p, "c_get")
    /\ Goto(p, "c_rmnull")
    /\ UNCHANGED <<inprog, pidx, head, objs, gcq, stats, used, known, nextOid,
                   done>>

(* complete, step 2: GET the in-progress record; ENOENT is NoSuchUpload. *)
CGet(p) ==
    /\ At(p, "c_get")
    /\ Goto(p, IF req[p].up \in inprog THEN "c_rmnull" ELSE "idle")
    /\ UNCHANGED <<inprog, pidx, head, objs, gcq, stats, used, known, nextOid,
                   done>>

(* complete, step 3, unversioned bucket: remove_null_obj reads the entry  *)
(* at "name\a"; a MultiMeta entry of non-zero size goes to the GC when    *)
(* it is enabled, else its parts are deleted with delete_part_objs.       *)
CRmNull(p) ==
    /\ At(p, "c_rmnull")
    /\ IF head = NoHead
       THEN Goto(p, "c_put")
       ELSE req' = [req EXCEPT ![p] = [@ EXCEPT !.hd = head, !.tgt = head.up,
                       !.sub = FALSE, !.ret = "r_del",
                       !.pc = IF GcEnabled THEN "r_gc" ELSE "dp_list"]]
    /\ UNCHANGED <<inprog, pidx, head, objs, gcq, stats, used, known, nextOid,
                   done>>

(* remove_mobj_and_index_entry, MultiMeta: get_upload_id and enqueue the  *)
(* upload with its part index to the GC; if enqueue fails, fall back to   *)
(* delete_part_objs.                                                      *)
RGc(p) ==
    /\ At(p, "r_gc")
    /\ \/ /\ gcq' = gcq \cup {req[p].hd.up}
          /\ Goto(p, "r_del")
       \/ /\ EnqueueMayFail
          /\ Goto(p, "dp_list")
          /\ UNCHANGED gcq
    /\ UNCHANGED <<inprog, pidx, head, objs, stats, used, known, nextOid, done>>

(* DEL "name\a" from the bucket index (ENOENT fails the request), then    *)
(* subtract the removed entry's size and count from the stats.            *)
RDel(p) ==
    /\ At(p, "r_del")
    /\ IF head = NoHead
       THEN /\ Goto(p, "idle")
            /\ UNCHANGED head
       ELSE /\ head' = NoHead
            /\ CallStats(p, -1, -req[p].hd.size, "c_put")
    /\ UNCHANGED <<inprog, pidx, objs, gcq, stats, used, known, nextOid, done>>

(* complete, step 4: PUT the final entry (size = sum of listed parts) at  *)
(* "name\a" and put it in the cache.                                      *)
CPut(p) ==
    /\ At(p, "c_put")
    /\ head' = [up |-> req[p].up, size |-> TotalSize(req[p].lst)]
    /\ done' = [done EXCEPT ![req[p].up] = req[p].lst]
    /\ Goto(p, "c_del")
    /\ UNCHANGED <<inprog, pidx, objs, gcq, stats, used, known, nextOid>>

(* complete, step 5: DEL the in-progress record.                         *)
CDel(p) ==
    /\ At(p, "c_del")
    /\ inprog' = inprog \ {req[p].up}
    /\ Goto(p, "idle")
    /\ UNCHANGED <<pidx, head, objs, gcq, stats, used, known, nextOid, done>>

Step(p) ==
    \/ StartInit(p) \/ IDone(p) \/ StartPart(p) \/ StartAbort(p)
    \/ StartComplete(p)
    \/ SGet(p) \/ SPut(p)
    \/ PCreate(p) \/ PGetOld(p) \/ PDelOld(p) \/ PPut(p)
    \/ DpList(p) \/ DpDel(p) \/ DpDone(p) \/ ADel(p)
    \/ CGet(p) \/ CRmNull(p) \/ RGc(p) \/ RDel(p) \/ CPut(p) \/ CDel(p)

Next == \E p \in Procs : Step(p)

Spec == Init /\ [][Next]_vars

-----------------------------------------------------------------------------
(* MotrBucket::list_multiparts without prefix and delimiter, an operator  *)
(* over the keys of the in-progress index.  Upload ids are random, so the *)
(* index order of their keys is one fixed order of the upload ids.  A     *)
(* marker is the key of the last upload returned, or NoMarker for "".     *)
NoMarker == "none"

UploadOrder == SetToSeq(Uploads)
UploadRank(u) == CHOOSE i \in DOMAIN UploadOrder : UploadOrder[i] = u

\* The keys of the set ks in index order.
KeyOrder(ks) == SelectSeq(UploadOrder, LAMBDA u : u \in ks)

\* Mutant: the marker's slot is not added to the query.
MpQueryNoMarkerSlot(mk, max) == max

\* upl: max_uploads, plus one for the marker record that is skipped.
MpQuery(mk, max) == IF mk = NoMarker THEN max ELSE max + 1

\* One call: next_query_by_name returns up to upl keys from the marker on;
\* with a marker the first one is skipped; truncated when the query filled
\* all upl slots; the marker becomes the last key returned, "" if none.
ListMultiparts(ks, mk, max) ==
    LET upl == MpQuery(mk, max)
        from == IF mk = NoMarker THEN KeyOrder(ks)
                ELSE SelectSeq(KeyOrder(ks), LAMBDA u : UploadRank(u) >= UploadRank(mk))
        recs == SubSeq(from, 1, IF upl < Len(from) THEN upl ELSE Len(from))
        got == IF mk # NoMarker /\ recs # <<>> THEN Tail(recs) ELSE recs
    IN  [ups |-> got, trunc |-> Len(recs) = upl,
         next |-> IF got = <<>> THEN NoMarker ELSE got[Len(got)]]

\* A client paging with the returned marker while it is truncated; <<NoMarker>>
\* when the pages do not end within fuel calls.
RECURSIVE MpPages(_, _, _, _)
MpPages(ks, mk, max, fuel) ==
    LET pg == ListMultiparts(ks, mk, max) IN
    CASE fuel = 0 -> <<NoMarker>>
      [] ~pg.trunc -> pg.ups
      [] OTHER -> pg.ups \o MpPages(ks, pg.next, max, fuel - 1)

-----------------------------------------------------------------------------
(* Properties *)

Quiescent == \A p \in Procs : At(p, "idle")

\* Uploads whose parts the object state still owns: in progress, the one
\* the bucket entry was completed from, and those handed to the GC.
Owners == inprog \cup gcq \cup (IF head = NoHead THEN {} ELSE {head.up})

TypeOK ==
    /\ inprog \subseteq used /\ known \subseteq used /\ used \subseteq Uploads /\ gcq \subseteq used
    /\ pidx \in [Uploads -> Parts] /\ done \in [Uploads -> Parts]
    /\ head \in HeadEntry \cup {NoHead}
    /\ objs \subseteq Oids /\ nextOid \in 1 .. MaxOid + 1
    /\ stats \in [num : Nat, size : Nat]
    /\ \A p \in Procs : req[p].pc \in Labels

(* Every Motr part object that exists between requests belongs to an      *)
(* upload still in progress, to the completed object, or to an upload     *)
(* handed to the GC: upload-part, abort and complete never leave a part   *)
(* object that nothing will delete.                                       *)
NoLeakedPart ==
    Quiescent => \A o \in objs : \E u \in Owners : o \in PartOids(pidx[u])

(* The completed object reads its data through the part index: between   *)
(* requests, the parts recorded for its upload are exactly those complete *)
(* listed, and each part object still exists.                             *)
CompletedIntact ==
    (Quiescent /\ head # NoHead) =>
        /\ pidx[head.up] = done[head.up]
        /\ PartOids(done[head.up]) \subseteq objs

(* Between requests the bucket stats count one object per upload in       *)
(* progress plus the completed object, and the sizes of their parts:      *)
(* init, upload-part, abort and the overwrite in complete keep the header *)
(* in step.                                                               *)
StatsMatchUploads ==
    Quiescent =>
        stats = [num |-> Cardinality(inprog) + IF head = NoHead THEN 0 ELSE 1,
                 size |-> MapThenSumSet(LAMBDA u : TotalSize(pidx[u]), inprog)
                          + IF head = NoHead THEN 0 ELSE head.size]

(* Spec 4.6.6 and its testable property 5: after an abort no record of   *)
(* the upload remains in the part index.                                  *)
AbortLeavesNoRecord ==
    Quiescent =>
        \A u \in used \ inprog : done[u] = NoParts => Listed(pidx[u]) = {}


(* Spec 4.6.7: a client paging through list_multiparts with the marker it *)
(* returns gets every upload in progress once, in index order, for every  *)
(* max-uploads.                                                           *)
MultipartListingComplete ==
    \A max \in 1 .. Cardinality(Uploads) :
        MpPages(inprog, NoMarker, max, Cardinality(Uploads) + 1) = KeyOrder(inprog)

====
