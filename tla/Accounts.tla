------------------------------ MODULE Accounts ------------------------------
(***************************************************************************)
(* Users and buckets of the Motr SAL (src/src/rgw/rgw_sal_motr.cc): the    *)
(* users index with its cache (store_user, load_user_from_idx,            *)
(* remove_user), the bucket instance index with its cache (put_info,      *)
(* load_bucket), and the multi-step create_bucket and remove_bucket with  *)
(* the per-bucket indices, the user info index that links buckets to      *)
(* their owner and the user stats index that holds each bucket's stats    *)
(* header.  A PUT of a new object is kept to the steps that touch the      *)
(* bucket: load_bucket, create the Motr object, PUT the index entry and   *)
(* update the bucket's stats header.                                      *)
(*                                                                         *)
(* Each index operation, each index creation or deletion and each cache   *)
(* operation is one atomic step of a request thread.  When IdxMayFail     *)
(* holds, the operations whose errors the code handles may also fail.     *)
(* User info and access keys, emails and ACLs are data the properties do  *)
(* not tell apart: a user record is its object version and a value.       *)
(***************************************************************************)
EXTENDS Integers, FiniteSets

CONSTANTS
    Procs,       \* request threads
    Users,       \* user ids
    Buckets,     \* bucket names (one tenant)
    Keys,        \* object names
    Vals,        \* user info values a client writes
    MaxVer,      \* bound on the user object version
    MaxOid,      \* bound on the Motr objects created
    IdxMayFail,  \* whether index operations may return an error
    NoRec,       \* no record under the key
    Miss         \* no cache entry

ASSUME MaxVer \in Nat /\ MaxOid \in Nat /\ IdxMayFail \in BOOLEAN

VARIABLES
    uidx,    \* RGW_MOTR_USERS_IDX_NAME: user id -> user record
    ucache,  \* the user cache
    uinfo,   \* users whose "motr.rgw.user.info.<id>" index exists
    links,   \* its entries: the buckets linked to the user
    ustats,  \* users whose "motr.rgw.user.stats.<id>" index exists
    bstat,   \* its entries: the buckets with a stats header
    binst,   \* RGW_MOTR_BUCKET_INST_IDX_NAME: bucket -> owner
    bcache,  \* the bucket instance cache
    bidx,    \* buckets whose "motr.rgw.bucket.index.<name>" exists
    ents,    \* its entries: key -> Motr object
    mpidx,   \* buckets whose two multipart indices exist
    objs,    \* Motr objects that exist
    nextOid, \* next object id
    acked,   \* history: objects whose PUT returned success
    req      \* per-thread request state

vars == <<uidx, ucache, uinfo, links, ustats, bstat, binst, bcache, bidx, ents,
          mpidx, objs, nextOid, acked, req>>

Oids == 1 .. MaxOid
URec == [ver : 1 .. MaxVer, val : Vals]
NoEnts == [k \in Keys |-> NoRec]

IdleReq == [pc |-> "idle", u |-> CHOOSE u \in Users : TRUE,
            b |-> CHOOSE b \in Buckets : TRUE, k |-> CHOOSE k \in Keys : TRUE,
            v |-> CHOOSE v \in Vals : TRUE, excl |-> FALSE, trk |-> 0,
            nv |-> 0, got |-> NoRec, rok |-> "idle", rfail |-> "idle",
            oid |-> 0]

Goto(p, l) == req' = [req EXCEPT ![p] = IF l = "idle" THEN IdleReq
                                        ELSE [@ EXCEPT !.pc = l]]
At(p, l) == req[p].pc = l

\* An index operation that may return an error.
MayFail == IdxMayFail

Init ==
    /\ uidx = [u \in Users |-> NoRec] /\ ucache = [u \in Users |-> Miss]
    /\ uinfo = {} /\ links = [u \in Users |-> {}]
    /\ ustats = {} /\ bstat = [u \in Users |-> {}]
    /\ binst = [b \in Buckets |-> NoRec] /\ bcache = [b \in Buckets |-> Miss]
    /\ bidx = {} /\ ents = [b \in Buckets |-> NoEnts] /\ mpidx = {}
    /\ objs = {} /\ nextOid = 1 /\ acked = {}
    /\ req = [p \in Procs |-> IdleReq]

-----------------------------------------------------------------------------
(* load_user_from_idx: a cache hit returns the cached record; a miss GETs *)
(* the users index (ENOENT is an error) and puts the record in the cache. *)
URead(p) ==
    /\ At(p, "u_rd")
    /\ LET c == ucache[req[p].u]
       IN  req' = [req EXCEPT ![p] = [@ EXCEPT !.got = c,
                      !.pc = IF c = Miss THEN "u_get" ELSE req[p].rok]]
    /\ UNCHANGED <<uidx, ucache, uinfo, links, ustats, bstat, binst, bcache,
                   bidx, ents, mpidx, objs, nextOid, acked>>

UGet(p) ==
    /\ At(p, "u_get")
    /\ LET r == uidx[req[p].u]
       IN  req' = [req EXCEPT ![p] = [@ EXCEPT !.got = r,
                      !.pc = IF r = NoRec THEN req[p].rfail ELSE "u_fill"]]
    /\ UNCHANGED <<uidx, ucache, uinfo, links, ustats, bstat, binst, bcache,
                   bidx, ents, mpidx, objs, nextOid, acked>>

UFill(p) ==
    /\ At(p, "u_fill")
    /\ ucache' = [ucache EXCEPT ![req[p].u] = req[p].got]
    /\ Goto(p, req[p].rok)
    /\ UNCHANGED <<uidx, uinfo, links, ustats, bstat, binst, bcache, bidx,
                   ents, mpidx, objs, nextOid, acked>>

(* load_bucket: the same through the bucket instance cache.              *)
BRead(p) ==
    /\ At(p, "b_rd")
    /\ LET c == bcache[req[p].b]
       IN  req' = [req EXCEPT ![p] = [@ EXCEPT !.got = c,
                      !.pc = IF c = Miss THEN "b_get" ELSE req[p].rok]]
    /\ UNCHANGED <<uidx, ucache, uinfo, links, ustats, bstat, binst, bcache,
                   bidx, ents, mpidx, objs, nextOid, acked>>

BGet(p) ==
    /\ At(p, "b_get")
    /\ LET r == binst[req[p].b]
       IN  req' = [req EXCEPT ![p] = [@ EXCEPT !.got = r,
                      !.pc = IF r = NoRec THEN req[p].rfail ELSE "b_fill"]]
    /\ UNCHANGED <<uidx, ucache, uinfo, links, ustats, bstat, binst, bcache,
                   bidx, ents, mpidx, objs, nextOid, acked>>

BFill(p) ==
    /\ At(p, "b_fill")
    /\ bcache' = [bcache EXCEPT ![req[p].b] = req[p].got]
    /\ Goto(p, req[p].rok)
    /\ UNCHANGED <<uidx, ucache, uinfo, links, ustats, bstat, binst, bidx,
                   ents, mpidx, objs, nextOid, acked>>

-----------------------------------------------------------------------------
(* A user update: load_user records the object version it read in the    *)
(* user's objv_tracker, then store_user runs with that tracker.           *)
StartEditUser(p) ==
    /\ At(p, "idle")
    /\ \E u \in Users, v \in Vals :
          /\ \A r \in {uidx[u], ucache[u]} \ {NoRec, Miss} : r.ver < MaxVer
          /\ req' = [req EXCEPT ![p] = [@ EXCEPT !.pc = "u_rd", !.u = u,
                        !.v = v, !.rok = "l_done", !.rfail = "idle"]]
    /\ UNCHANGED <<uidx, ucache, uinfo, links, ustats, bstat, binst, bcache,
                   bidx, ents, mpidx, objs, nextOid, acked>>

(* User creation: store_user(exclusive) of a new user, whose tracker has *)
(* read no version.                                                       *)
StartCreateUser(p) ==
    /\ At(p, "idle")
    /\ \E u \in Users, v \in Vals :
          req' = [req EXCEPT ![p] = [@ EXCEPT !.pc = "u_rd", !.u = u, !.v = v,
                     !.excl = TRUE, !.trk = 0, !.rok = "s_chk",
                     !.rfail = "s_chk"]]
    /\ UNCHANGED <<uidx, ucache, uinfo, links, ustats, bstat, binst, bcache,
                   bidx, ents, mpidx, objs, nextOid, acked>>

(* store_user begins with its own load_user_from_idx; an error there is  *)
(* taken as "no such user".                                               *)
LDone(p) ==
    /\ At(p, "l_done")
    /\ req' = [req EXCEPT ![p] = [@ EXCEPT !.trk = req[p].got.ver, !.pc = "u_rd",
                                           !.rok = "s_chk", !.rfail = "s_chk"]]
    /\ UNCHANGED <<uidx, ucache, uinfo, links, ustats, bstat, binst, bcache,
                   bidx, ents, mpidx, objs, nextOid, acked>>

\* Mutant: the read-version check is dropped.
SChkNoVersionCheck(p) ==
    /\ At(p, "s_chk")
    /\ LET g == req[p].got
       IN  req' = [req EXCEPT ![p] = [@ EXCEPT !.pc = "s_put",
                      !.nv = IF g # NoRec THEN g.ver + 1 ELSE 1]]
    /\ UNCHANGED <<uidx, ucache, uinfo, links, ustats, bstat, binst, bcache,
                   bidx, ents, mpidx, objs, nextOid, acked>>

(* store_user: a user that exists must still have the version the caller *)
(* read (else ECANCELED); an exclusive store of it returns; otherwise the *)
(* version is incremented.  A new user gets version 1.                    *)
SChk(p) ==
    /\ At(p, "s_chk")
    /\ LET g == req[p].got
       IN  IF g # NoRec
           THEN IF g.ver # req[p].trk \/ req[p].excl
                THEN Goto(p, "idle")
                ELSE req' = [req EXCEPT ![p] = [@ EXCEPT !.nv = g.ver + 1,
                                                         !.pc = "s_put"]]
           ELSE req' = [req EXCEPT ![p] = [@ EXCEPT !.nv = 1, !.pc = "s_put"]]
    /\ UNCHANGED <<uidx, ucache, uinfo, links, ustats, bstat, binst, bcache,
                   bidx, ents, mpidx, objs, nextOid, acked>>

(* PUT the record into the users index.  The code goes on whatever the   *)
(* PUT returns (access keys and email are stored next, and are data).    *)
SPut(p) ==
    /\ At(p, "s_put")
    /\ \/ uidx' = [uidx EXCEPT ![req[p].u] = [ver |-> req[p].nv,
                                               val |-> req[p].v]]
       \/ MayFail /\ UNCHANGED uidx
    /\ Goto(p, "s_info")
    /\ UNCHANGED <<ucache, uinfo, links, ustats, bstat, binst, bcache, bidx,
                   ents, mpidx, objs, nextOid, acked>>

(* create_user_info_idx and create_user_stats_idx (an existing index is  *)
(* success); an error ends the request.                                   *)
SInfo(p) ==
    /\ At(p, "s_info")
    /\ \/ uinfo' = uinfo \cup {req[p].u} /\ Goto(p, "s_stats")
       \/ MayFail /\ UNCHANGED uinfo /\ Goto(p, "idle")
    /\ UNCHANGED <<uidx, ucache, links, ustats, bstat, binst, bcache, bidx,
                   ents, mpidx, objs, nextOid, acked>>

SStats(p) ==
    /\ At(p, "s_stats")
    /\ \/ ustats' = ustats \cup {req[p].u} /\ Goto(p, "s_cache")
       \/ MayFail /\ UNCHANGED ustats /\ Goto(p, "idle")
    /\ UNCHANGED <<uidx, ucache, uinfo, links, bstat, binst, bcache, bidx,
                   ents, mpidx, objs, nextOid, acked>>

(* Put the record just stored into the user cache.                       *)
SCache(p) ==
    /\ At(p, "s_cache")
    /\ ucache' = [ucache EXCEPT ![req[p].u] = [ver |-> req[p].nv,
                                                 val |-> req[p].v]]
    /\ Goto(p, "idle")
    /\ UNCHANGED <<uidx, uinfo, links, ustats, bstat, binst, bcache, bidx,
                   ents, mpidx, objs, nextOid, acked>>

(* remove_user of a loaded user: invalidate the cache entry, delete the  *)
(* user info and user stats indices (their errors are not looked at),    *)
(* then DEL the user record.                                              *)
StartRemoveUser(p) ==
    /\ At(p, "idle")
    /\ \E u \in Users :
          /\ uidx[u] # NoRec
          /\ ucache' = [ucache EXCEPT ![u] = Miss]
          /\ req' = [req EXCEPT ![p] = [@ EXCEPT !.pc = "ru_info", !.u = u]]
    /\ UNCHANGED <<uidx, uinfo, links, ustats, bstat, binst, bcache, bidx,
                   ents, mpidx, objs, nextOid, acked>>

RuInfo(p) ==
    /\ At(p, "ru_info")
    /\ \/ /\ uinfo' = uinfo \ {req[p].u}
          /\ links' = [links EXCEPT ![req[p].u] = {}]
       \/ MayFail /\ UNCHANGED <<uinfo, links>>
    /\ Goto(p, "ru_stats")
    /\ UNCHANGED <<uidx, ucache, ustats, bstat, binst, bcache, bidx, ents,
                   mpidx, objs, nextOid, acked>>

RuStats(p) ==
    /\ At(p, "ru_stats")
    /\ \/ /\ ustats' = ustats \ {req[p].u}
          /\ bstat' = [bstat EXCEPT ![req[p].u] = {}]
       \/ MayFail /\ UNCHANGED <<ustats, bstat>>
    /\ Goto(p, "ru_del")
    /\ UNCHANGED <<uidx, ucache, uinfo, links, binst, bcache, bidx, ents,
                   mpidx, objs, nextOid, acked>>

RuDel(p) ==
    /\ At(p, "ru_del")
    /\ \/ uidx' = [uidx EXCEPT ![req[p].u] = NoRec]
       \/ MayFail /\ UNCHANGED uidx
    /\ Goto(p, "idle")
    /\ UNCHANGED <<ucache, uinfo, links, ustats, bstat, binst, bcache, bidx,
                   ents, mpidx, objs, nextOid, acked>>

-----------------------------------------------------------------------------
(* create_bucket by an authenticated user: get_bucket loads the bucket;  *)
(* a bucket that loads is EEXIST, ENOENT goes on to create it.            *)
StartCreateBucket(p) ==
    /\ At(p, "idle")
    /\ \E u \in Users, b \in Buckets :
          /\ uidx[u] # NoRec
          /\ req' = [req EXCEPT ![p] = [@ EXCEPT !.pc = "b_rd", !.u = u,
                        !.b = b, !.rok = "idle", !.rfail = "cb_put"]]
    /\ UNCHANGED <<uidx, ucache, uinfo, links, ustats, bstat, binst, bcache,
                   bidx, ents, mpidx, objs, nextOid, acked>>

(* put_info(exclusive): a PUT without overwrite, EEXIST if the record     *)
(* exists; on success the record goes into the bucket instance cache.     *)
CbPut(p) ==
    /\ At(p, "cb_put")
    /\ IF binst[req[p].b] # NoRec
       THEN UNCHANGED binst /\ Goto(p, "idle")
       ELSE binst' = [binst EXCEPT ![req[p].b] = req[p].u] /\ Goto(p, "cb_cache")
    /\ UNCHANGED <<uidx, ucache, uinfo, links, ustats, bstat, bcache, bidx,
                   ents, mpidx, objs, nextOid, acked>>

CbCache(p) ==
    /\ At(p, "cb_cache")
    /\ bcache' = [bcache EXCEPT ![req[p].b] = req[p].u]
    /\ Goto(p, "cb_idx")
    /\ UNCHANGED <<uidx, ucache, uinfo, links, ustats, bstat, binst, bidx,
                   ents, mpidx, objs, nextOid, acked>>

(* create_bucket_index, then create_multipart_indices: create_motr_idx_  *)
(* by_name returns -EEXIST for an index that exists, and create_bucket    *)
(* takes it, like any error, as the end of the request.                   *)
CbIdx(p) ==
    /\ At(p, "cb_idx")
    /\ \/ /\ req[p].b \notin bidx
          /\ bidx' = bidx \cup {req[p].b} /\ Goto(p, "cb_mp")
       \/ /\ req[p].b \in bidx \/ MayFail
          /\ UNCHANGED bidx /\ Goto(p, "idle")
    /\ UNCHANGED <<uidx, ucache, uinfo, links, ustats, bstat, binst, bcache,
                   ents, mpidx, objs, nextOid, acked>>

CbMp(p) ==
    /\ At(p, "cb_mp")
    /\ \/ /\ req[p].b \notin mpidx
          /\ mpidx' = mpidx \cup {req[p].b} /\ Goto(p, "cb_link")
       \/ /\ req[p].b \in mpidx \/ MayFail
          /\ UNCHANGED mpidx /\ Goto(p, "idle")
    /\ UNCHANGED <<uidx, ucache, uinfo, links, ustats, bstat, binst, bcache,
                   bidx, ents, objs, nextOid, acked>>

(* link_user: PUT the bucket into the owner's user info index; a missing *)
(* index is an error.                                                     *)
CbLink(p) ==
    /\ At(p, "cb_link")
    /\ \/ /\ req[p].u \in uinfo
          /\ links' = [links EXCEPT ![req[p].u] = @ \cup {req[p].b}]
          /\ Goto(p, "cb_stats")
       \/ /\ req[p].u \notin uinfo \/ MayFail
          /\ UNCHANGED links /\ Goto(p, "idle")
    /\ UNCHANGED <<uidx, ucache, uinfo, ustats, bstat, binst, bcache, bidx,
                   ents, mpidx, objs, nextOid, acked>>

(* PUT an empty stats header into the owner's user stats index.          *)
CbStats(p) ==
    /\ At(p, "cb_stats")
    /\ \/ /\ req[p].u \in ustats
          /\ bstat' = [bstat EXCEPT ![req[p].u] = @ \cup {req[p].b}]
       \/ /\ req[p].u \notin ustats \/ MayFail
          /\ UNCHANGED bstat
    /\ Goto(p, "idle")
    /\ UNCHANGED <<uidx, ucache, uinfo, links, ustats, binst, bcache, bidx,
                   ents, mpidx, objs, nextOid, acked>>

-----------------------------------------------------------------------------
(* remove_bucket (S3 DeleteBucket, no delete_children): load_bucket       *)
(* refreshes the info, whose owner the later steps use.                   *)
StartRemoveBucket(p) ==
    /\ At(p, "idle")
    /\ \E b \in Buckets :
          req' = [req EXCEPT ![p] = [@ EXCEPT !.pc = "b_rd", !.b = b,
                                     !.rok = "rb_list", !.rfail = "idle"]]
    /\ UNCHANGED <<uidx, ucache, uinfo, links, ustats, bstat, binst, bcache,
                   bidx, ents, mpidx, objs, nextOid, acked>>

(* List the bucket index: a NEXT on a missing index is an error; any     *)
(* entry is ENOTEMPTY.  abort_multiparts is a no-op that returns 0.       *)
RbList(p) ==
    /\ At(p, "rb_list")
    /\ \/ /\ req[p].b \in bidx
          /\ \A k \in Keys : ents[req[p].b][k] = NoRec
          /\ Goto(p, "rb_mp")
       \/ /\ \/ req[p].b \notin bidx
             \/ \E k \in Keys : ents[req[p].b][k] # NoRec
             \/ MayFail
          /\ Goto(p, "idle")
    /\ UNCHANGED <<uidx, ucache, uinfo, links, ustats, bstat, binst, bcache,
                   bidx, ents, mpidx, objs, nextOid, acked>>

(* Delete the two multipart indices (ENOENT is success).                 *)
RbMp(p) ==
    /\ At(p, "rb_mp")
    /\ \/ mpidx' = mpidx \ {req[p].b} /\ Goto(p, "rb_stats")
       \/ MayFail /\ UNCHANGED mpidx /\ Goto(p, "idle")
    /\ UNCHANGED <<uidx, ucache, uinfo, links, ustats, bstat, binst, bcache,
                   bidx, ents, objs, nextOid, acked>>

(* DEL the stats header from the owner's stats index; an error is logged *)
(* and the removal goes on.                                               *)
RbStats(p) ==
    /\ At(p, "rb_stats")
    /\ \/ bstat' = [bstat EXCEPT ![req[p].got] = @ \ {req[p].b}]
       \/ MayFail /\ UNCHANGED bstat
    /\ Goto(p, "rb_unlink")
    /\ UNCHANGED <<uidx, ucache, uinfo, links, ustats, binst, bcache, bidx,
                   ents, mpidx, objs, nextOid, acked>>

\* Mutant: an error of unlink_user is logged and the removal goes on, as
\* for the stats header.
RbUnlinkIgnoresError(p) ==
    /\ At(p, "rb_unlink")
    /\ \/ /\ req[p].got \in uinfo /\ req[p].b \in links[req[p].got]
          /\ links' = [links EXCEPT ![req[p].got] = @ \ {req[p].b}]
       \/ UNCHANGED links
    /\ Goto(p, "rb_idx")
    /\ UNCHANGED <<uidx, ucache, uinfo, ustats, bstat, binst, bcache, bidx,
                   ents, mpidx, objs, nextOid, acked>>

(* unlink_user: DEL the bucket from the owner's user info index; a       *)
(* missing index or entry (ENOENT) is an error that ends the removal.     *)
RbUnlink(p) ==
    /\ At(p, "rb_unlink")
    /\ LET o == req[p].got
       IN  \/ /\ o \in uinfo /\ req[p].b \in links[o]
              /\ links' = [links EXCEPT ![o] = @ \ {req[p].b}]
              /\ Goto(p, "rb_idx")
           \/ /\ o \notin uinfo \/ req[p].b \notin links[o] \/ MayFail
              /\ UNCHANGED links /\ Goto(p, "idle")
    /\ UNCHANGED <<uidx, ucache, uinfo, ustats, bstat, binst, bcache, bidx,
                   ents, mpidx, objs, nextOid, acked>>

(* Delete the bucket index with its entries (ENOENT is success).         *)
RbIdx(p) ==
    /\ At(p, "rb_idx")
    /\ \/ /\ bidx' = bidx \ {req[p].b}
          /\ ents' = [ents EXCEPT ![req[p].b] = NoEnts]
          /\ Goto(p, "rb_cache")
       \/ MayFail /\ UNCHANGED <<bidx, ents>> /\ Goto(p, "idle")
    /\ UNCHANGED <<uidx, ucache, uinfo, links, ustats, bstat, binst, bcache,
                   mpidx, objs, nextOid, acked>>

\* Mutant: the instance cache entry is not removed.
RbCacheSkipped(p) ==
    /\ At(p, "rb_cache")
    /\ Goto(p, "rb_del")
    /\ UNCHANGED <<uidx, ucache, uinfo, links, ustats, bstat, binst, bcache,
                   bidx, ents, mpidx, objs, nextOid, acked>>

(* Remove the bucket from the instance cache, then DEL its record.       *)
RbCache(p) ==
    /\ At(p, "rb_cache")
    /\ bcache' = [bcache EXCEPT ![req[p].b] = Miss]
    /\ Goto(p, "rb_del")
    /\ UNCHANGED <<uidx, ucache, uinfo, links, ustats, bstat, binst, bidx,
                   ents, mpidx, objs, nextOid, acked>>

RbDel(p) ==
    /\ At(p, "rb_del")
    /\ \/ binst[req[p].b] # NoRec /\ binst' = [binst EXCEPT ![req[p].b] = NoRec]
       \/ MayFail /\ UNCHANGED binst
    /\ Goto(p, "idle")
    /\ UNCHANGED <<uidx, ucache, uinfo, links, ustats, bstat, bcache, bidx,
                   ents, mpidx, objs, nextOid, acked>>

-----------------------------------------------------------------------------
(* PUT of a new object: the request loads the bucket, the writer creates *)
(* the Motr object, and complete PUTs its entry into the bucket index.   *)
StartPutObj(p) ==
    /\ At(p, "idle")
    /\ nextOid + Cardinality({q \in Procs : At(q, "po_create")}) <= MaxOid
    /\ \E b \in Buckets, k \in Keys :
          /\ ents[b][k] = NoRec
          /\ ~\E q \in Procs : req[q].rok = "po_create" /\ req[q].b = b
                               /\ req[q].k = k
          /\ req' = [req EXCEPT ![p] = [@ EXCEPT !.pc = "b_rd", !.b = b,
                        !.k = k, !.rok = "po_create", !.rfail = "idle"]]
    /\ UNCHANGED <<uidx, ucache, uinfo, links, ustats, bstat, binst, bcache,
                   bidx, ents, mpidx, objs, nextOid, acked>>

PoCreate(p) ==
    /\ At(p, "po_create")
    /\ objs' = objs \cup {nextOid}
    /\ nextOid' = nextOid + 1
    /\ req' = [req EXCEPT ![p] = [@ EXCEPT !.oid = nextOid, !.pc = "po_index"]]
    /\ UNCHANGED <<uidx, ucache, uinfo, links, ustats, bstat, binst, bcache,
                   bidx, ents, mpidx, acked>>

(* The index PUT fails when the bucket index is missing; the object is   *)
(* then left behind, as after any failed PUT.                             *)
PoIndex(p) ==
    /\ At(p, "po_index")
    /\ \/ /\ req[p].b \in bidx
          /\ ents' = [ents EXCEPT ![req[p].b][req[p].k] = req[p].oid]
          /\ Goto(p, "po_sget")
       \/ /\ req[p].b \notin bidx \/ MayFail
          /\ Goto(p, "idle")
          /\ UNCHANGED ents
    /\ UNCHANGED <<uidx, ucache, uinfo, links, ustats, bstat, binst, bcache,
                   bidx, mpidx, objs, nextOid, acked>>

(* update_bucket_stats in the owner's stats index, as loaded with the     *)
(* bucket: the GET of the header fails when the header is gone, and the   *)
(* PUT returns an error; the entry stays in the index either way.         *)
PoStatsGet(p) ==
    /\ At(p, "po_sget")
    /\ \/ /\ req[p].b \in bstat[req[p].got]
          /\ Goto(p, "po_sput")
       \/ /\ req[p].b \notin bstat[req[p].got] \/ MayFail
          /\ Goto(p, "idle")
    /\ UNCHANGED <<uidx, ucache, uinfo, links, ustats, bstat, binst, bcache,
                   bidx, ents, mpidx, objs, nextOid, acked>>

(* The PUT of the header writes it back, whatever happened since the GET; *)
(* only then does complete, and the PUT, return success.                  *)
PoStatsPut(p) ==
    /\ At(p, "po_sput")
    /\ \/ /\ req[p].got \in ustats
          /\ bstat' = [bstat EXCEPT ![req[p].got] = @ \cup {req[p].b}]
          /\ acked' = acked \cup {req[p].oid}
       \/ /\ req[p].got \notin ustats \/ MayFail
          /\ UNCHANGED <<bstat, acked>>
    /\ Goto(p, "idle")
    /\ UNCHANGED <<uidx, ucache, uinfo, links, ustats, binst, bcache,
                   bidx, ents, mpidx, objs, nextOid>>

Step(p) ==
    \/ URead(p) \/ UGet(p) \/ UFill(p) \/ BRead(p) \/ BGet(p) \/ BFill(p)
    \/ StartEditUser(p) \/ StartCreateUser(p) \/ LDone(p) \/ SChk(p)
    \/ SPut(p) \/ SInfo(p) \/ SStats(p) \/ SCache(p)
    \/ StartRemoveUser(p) \/ RuInfo(p) \/ RuStats(p) \/ RuDel(p)
    \/ StartCreateBucket(p) \/ CbPut(p) \/ CbCache(p) \/ CbIdx(p) \/ CbMp(p)
    \/ CbLink(p) \/ CbStats(p)
    \/ StartRemoveBucket(p) \/ RbList(p) \/ RbMp(p) \/ RbStats(p)
    \/ RbUnlink(p) \/ RbIdx(p) \/ RbCache(p) \/ RbDel(p)
    \/ StartPutObj(p) \/ PoCreate(p) \/ PoIndex(p) \/ PoStatsGet(p)
    \/ PoStatsPut(p)

Next == \E p \in Procs : Step(p)

Spec == Init /\ [][Next]_vars

-----------------------------------------------------------------------------
Quiescent == \A p \in Procs : At(p, "idle")

TypeOK ==
    /\ uidx \in [Users -> URec \cup {NoRec}]
    /\ ucache \in [Users -> URec \cup {Miss}]
    /\ uinfo \subseteq Users /\ links \in [Users -> SUBSET Buckets]
    /\ ustats \subseteq Users /\ bstat \in [Users -> SUBSET Buckets]
    /\ binst \in [Buckets -> Users \cup {NoRec}]
    /\ bcache \in [Buckets -> Users \cup {Miss}]
    /\ bidx \subseteq Buckets /\ mpidx \subseteq Buckets
    /\ ents \in [Buckets -> [Keys -> Oids \cup {NoRec}]]
    /\ objs \subseteq Oids /\ nextOid \in 1 .. MaxOid + 1
    /\ acked \subseteq objs

(* create_bucket writes the instance record before the bucket's indices  *)
(* and its user link, and remove_bucket deletes them before the record,  *)
(* stopping at the first error: whatever step fails, no bucket index,    *)
(* multipart index or user link outlives the bucket's record, and a link *)
(* names the bucket's owner.                                              *)
NoDanglingBucketRefs ==
    \A b \in Buckets :
        /\ b \in bidx \cup mpidx => binst[b] # NoRec
        /\ \A u \in Users : b \in links[u] => binst[b] = u

(* put_info caches the record it wrote, and remove_bucket invalidates     *)
(* the cache before it DELs the record: once no request is running, a      *)
(* cached bucket is the stored one, whatever step failed.                 *)
BucketCacheCoherent ==
    Quiescent => \A b \in Buckets : bcache[b] # Miss => bcache[b] = binst[b]

(* Spec 4.3: the user cache is updated after each write of the users     *)
(* index, so once no request is running a cached user is the stored one. *)
UserCacheCoherent ==
    Quiescent => \A u \in Users : ucache[u] # Miss => ucache[u] = uidx[u]

(* The ENOTEMPTY check of remove_bucket: no bucket removal takes with it *)
(* an object whose PUT returned success (objects are not deleted here).   *)
NoLostObject ==
    \A o \in acked : \E b \in bidx, k \in Keys : ents[b][k] = o

====
