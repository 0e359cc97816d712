# Model-checking project for the Motr storage layer of RGW

This directory holds TLA+ models of the Motr SAL (storage abstraction layer)
in `src/src/rgw/rgw_sal_motr.cc`, declared in `src/unnamed/part_000`
(`rgw_sal_motr.h`). The SAL serves S3 requests on top of the CORTX Motr
object store and its key-value indices. The models are checked with TLC.

## 1. The system and its parts

The SAL runs inside the RGW process. Each S3 request is served by one thread
from a pool. Within a request the work is sequential: a thread waits
synchronously for each Motr index or object operation. Requests of different
threads are not serialised in any way. There are no locks around index
read-modify-write sequences, around the stats header, or around version
reconciliation.

| Part (spec name) | Code | What it does | Model |
|---|---|---|---|
| C1 Index Gateway | `do_idx_op`, `do_idx_op_by_name`, `do_idx_next_op`, `next_query_by_name`, index create/delete (lines 5871-6293) | PUT/GET/DEL/NEXT on named Motr indices | key order of NEXT in `ObjectVersions` (`KeyBefore`, `FirstKey`) and `BucketListing` (`KeyLess`, `Records`, `NextBatch` for `do_idx_next_op`'s batches); prefix and delimiter not modelled |
| C2 Object Gateway | `create_mobj`, `open_mobj`, `write_mobj`, `read_mobj`, `delete_mobj`, composite-layer functions (2747-3690) | Motr byte objects, composite (HSM) layers | object existence only (`objs`); `delete_hsm_enabled_mobj` by its effect (`SyncDelete`) |
| C3 Metadata Cache | `MotrMetaCache` (200-333, header 259-333) | process-local LRU caches for object entries, users and bucket instances | object-entry cache is `cache` in `ObjectVersions`; user and bucket-instance caches are `ucache` and `bcache` in `Accounts` |
| C4 Catalog | `update_bucket_stats` (200-227), bucket/user indices | per-bucket stats header in `motr.rgw.user.stats.<owner>` | `stats` in `ObjectVersions` and `Multipart`; the per-user stats records in `Accounts` |
| C5 Object Engine | `MotrAtomicWriter::complete`, `MotrDeleteOp::delete_obj`, `update_version_entries`, `fetch_latest_obj`, `get_bucket_dir_ent`, `remove_null_obj`, `remove_mobj_and_index_entry`, `create_delete_marker` (1946-2370, 3693-3914, 4246-4422) | versioned PUT/GET/DELETE, delete markers, null versions | **`ObjectVersions`** |
| C5 Listing | `MotrBucket::list`, `list_multiparts` (1288-1521) | ListObjects(V2)/ListObjectVersions, ListMultipartUploads | **`BucketListing`** (operators), driven by **`BucketList`**; `list_multiparts` in `Multipart` |
| C6 Multipart Engine | `MotrMultipartUpload::init/abort/complete/list_parts`, `delete_parts`, `store_part_info`, writers (4424-5440) | multipart uploads | **`Multipart`** |
| C7 Writer Pipeline | `MotrAtomicWriter::write/process`, `get_optimal_bs` (4046-4244) | buffering and block size | object creation in `ObjectVersions`; buffering, write loop and block size in **`WriterBlockSize`** |
| Users, buckets | `store_user`, `remove_user`, `create_bucket`, `remove_bucket`, `link_user` (377-1127) | user and bucket records | **`Accounts`** |
| GC enqueue | `src/src/rgw/motr/gc/gc.h` | queue of objects to destroy later | enqueue success or failure in `RmObj`; the GC worker is out of scope (spec section 1) |

How they interact on the paths modelled so far:

- **PUT.** `MotrAtomicWriter::write` creates the Motr object. `complete` then
  does the following in order:
  1. In a versioned bucket, `update_version_entries(false)` fetches the latest
     entry and PUTs it back with CURRENT cleared.
  2. If versioning is not enabled, `remove_null_obj` removes the null version:
     it reads the cache or the index, then calls `remove_mobj_and_index_entry`.
  3. It PUTs the new entry into the index, puts it into the cache, and adds it
     to the stats with a GET followed by a PUT.
- **DELETE.** `get_bucket_dir_ent` reads the cache or the index and fills the
  cache. `delete_obj` removes the delete key from the cache, then branches:
  - an unversioned bucket removes the null entry;
  - a DELETE of a version removes that version, and if it was CURRENT,
    `update_version_entries(true)` makes the new latest entry CURRENT;
  - a DELETE without a version clears CURRENT on the latest entry and PUTs a
    delete marker. In a suspended bucket it first removes the null version,
    but only when that version is the latest.

  `remove_mobj_and_index_entry` first hands the object to the GC, or deletes
  it synchronously. It then DELs the index key and subtracts the stats (GET,
  then PUT).
- **LIST.** `MotrBucket::list` reads the bucket index with NEXT from the
  marker's name on. Keys of a name come null version first (`name\a`), then
  versions newest first (instances are inverted timestamps). The null
  version is held back in `null_ent` until a record of another name or an
  older record comes, so that it is listed by its mtime. When `max` is
  reached, `next_marker` is the first entry not returned. A client sends it
  back as the marker, and the next call skips what sorts before it.
  `list_multiparts` does the same over the in-progress index, skipping the
  first record after a marker.

## 2. Modules

### `ObjectVersions.tla`: versioned PUT and DELETE of one object name

The model covers one bucket and one object name, with concurrent request
threads `Procs`.

| Variable | Code |
|---|---|
| `idx` | bucket index `motr.rgw.bucket.index.<bucket>`. Key `0` is `name\a` (the null version); key `t` is `name\a<instance>` for the instance generated at clock tick `t`. Instances are inverted millisecond timestamps, so later instances sort first. An entry keeps `mtime`, `size`, `flags` (VER, CURRENT, DM) and `oid`. |
| `cache` | the object-entry `MotrMetaCache` |
| `stats` | the Main category of the bucket's stats header (count and size) |
| `objs` | Motr objects created by writers |
| `gcq` | number of GC enqueues per object |
| `vstatus` | the bucket's versioning status |
| `clock` | `real_clock::now()`; it stamps instances, mtimes and object ids |
| `req[p]` | thread `p`'s program counter and locals: the entry read, the key, the stats value read, and the return labels of the two shared subroutines |

Every index, cache or stats operation is one action, named after the code
step:
- PUT: `StartPut`, `PComplete`, `RnFetch`, `RnFill`, `PIndex`, `PCache`,
  `PStatsGet`, `PStatsPut`;
- DELETE without a version: `StartDelete`, `DFetch`, `DFill`,
  `DCacheRemove`, `DmPut`, `DmCache`;
- DELETE of a version: `StartDeleteVersion`, `DvFetch`, `DvFill`,
  `DvCacheRemove`;
- `remove_mobj_and_index_entry`: `RmObj`, `RmDel`, `RmStatsGet`,
  `RmStatsPut`;
- `update_version_entries`: `UveFetch`, `UveCacheRemove`, `UvePut`;
- PutBucketVersioning: `SetVersioning`.

`PROJECT.json` maps each action to its lines. Threads interleave between any
two actions. This is the granularity of the code: each action is one
synchronous Motr operation or one cache call.

Error paths kept:
- ENOENT from the NEXT or the GET ends the request.
- A DEL of an absent key ends the request after the object was already
  handed to the GC.
- A failed synchronous delete ends the request.
- A GC enqueue that fails falls back to the synchronous delete.

The synchronous delete is modelled by what the code does. Line 2338 reads
`this-meta.is_composite ? delete_hsm_enabled_mobj : delete_mobj`. That is
pointer arithmetic and is always true, so `delete_hsm_enabled_mobj` runs for
every object. It never deletes the root object: its layout GET either fails
or returns. `SyncDelete` is therefore the choice between "request fails" and
"continue without destroying the object".

Abstracted:
- entry contents other than size, mtime, flags and object id;
- the rounded size in the stats;
- owner and ACL fields.

Stats are unbounded integers. A negative value stands for the wrapped
`uint64`, and the type invariant flags it.

### `Multipart.tla`: multipart uploads of one object name

The model covers one unversioned bucket, one object name, and the
separate-part strategy (HSM disabled). Threads run `init`, upload-part,
`abort` and `complete` concurrently.

| Variable | Code |
|---|---|
| `inprog` | keys of `motr.rgw.bucket.<b>.multiparts.in-progress` (upload ids with a live record) |
| `pidx` | the part index `motr.rgw.bucket.<b>.multiparts`: upload -> part number -> part record (oid, size) |
| `head` | the bucket-index entry of the object name: the upload it was completed from, with its size |
| `objs`, `nextOid` | Motr part objects that exist; the next oid `m0_ufid_next` returns |
| `gcq` | uploads whose parts were handed to the GC as one MultiMeta entry |
| `stats` | the Main category of the bucket stats header |
| `used`, `known` | upload ids generated; upload ids returned to a client |
| `done` | history: the parts each completed upload was completed with |
| `req[p]` | thread `p`'s pc and locals |

Actions:
- `init`: `StartInit`, `IDone`; the stats GET/PUT pair is `SGet`, `SPut`,
  called through `CallStats`.
- upload part: `StartPart`, `PCreate`, `PGetOld`, `PDelOld`, `PPut`. The
  writer re-checks the upload, creates the part object, reads and deletes a
  part it replaces, then stores the part info.
- `abort`: `StartAbort`, `ADel`; `delete_parts` is `DpList`, `DpDel`,
  `DpDone`.
- `complete`: `StartComplete`, `CGet`, `CRmNull`, then either `RGc` (GC
  enqueue) or `RDel` (synchronous delete) for the overwritten object, then
  `CPut`, `CDel`.

`ListMultiparts` is `MotrBucket::list_multiparts` as an operator over
`inprog`: the query of `max` keys (one more with a marker), the skipped
marker record, the truncation flag and the new marker. Upload ids are
random, so their index order is one fixed order of the model values
(`UploadOrder`). `MpPages` is a client paging with the returned marker.

Pages of `list_parts` are abstracted to one NEXT of the whole part index.
The engine keeps the null-version path of an unversioned bucket, the only
one the separate-part strategy uses. Versioned completes reuse the steps of
`ObjectVersions`.

### `WriterBlockSize.tla`: the writer's buffering and block size

`MotrAtomicWriter::process` accumulates data up to `MAX_ACC_SIZE`.
`write()` writes the accumulator in blocks of `get_optimal_bs`, and the last,
empty `process()` call flushes what is left.
- Actions: `Process`, `Flush`, `WriteBlock` (one loop iteration: wait for
  more data, recompute the tail block size on a flush, or one Motr write),
  and `WriteDone`.
- `GetOptimalBs` translates the code in unsigned 32-bit arithmetic. Sizes
  are in 4 KiB pages, so the 2^32-byte wrap is a 2^20-page wrap. `BsRef` is
  the reference definition the code comment describes, with no wrap.
- The module has no concurrency: one writer serves one PUT.

### `Accounts.tla`: users, buckets and the bucket's life under PUT

| Variable | Code |
|---|---|
| `uidx`, `ucache` | the users index and the user cache: user -> record (object version, value) |
| `uinfo`, `links` | users whose `motr.rgw.user.info.<id>` index exists; the buckets it links |
| `ustats`, `bstat` | users whose `motr.rgw.user.stats.<id>` index exists; buckets with a stats header in it |
| `binst`, `bcache` | the bucket instance index (bucket -> owner) and the bucket cache |
| `bidx`, `ents` | buckets whose bucket index exists; its entries |
| `mpidx` | buckets whose two multipart indices exist |
| `objs`, `nextOid` | Motr objects created by PUTs |
| `acked` | history: objects whose PUT returned success to the client |

Actions:
- user and bucket reads with cache fill: `URead`, `UGet`, `UFill`, `BRead`,
  `BGet`, `BFill`, plus `LDone`.
- `store_user`: `StartEditUser`/`StartCreateUser`, then `SChk` (the version
  check against the stored record), `SPut`, `SInfo`, `SStats`, `SCache`.
- `remove_user`: `StartRemoveUser` (invalidates the cache first), `RuInfo`,
  `RuStats`, `RuDel`.
- `create_bucket`: `StartCreateBucket`, `CbPut`, `CbCache`, `CbIdx`, `CbMp`,
  `CbLink`, `CbStats`.
- `remove_bucket`: `StartRemoveBucket`, `RbList` (the emptiness check),
  `RbMp`, `RbStats`, `RbUnlink`, `RbIdx`, `RbCache`, `RbDel`.
- object PUT, reduced to what touches the bucket: `StartPutObj` (load the
  bucket), `PoCreate`, `PoIndex`, then `update_bucket_stats` as
  `PoStatsGet` (fails when the header is gone) and `PoStatsPut`. The PUT is
  acknowledged only when the stats PUT succeeds, as `complete` returns.
- `CbIdx` and `CbMp` fail on an index that exists:
  `create_motr_idx_by_name` returns -EEXIST, and `create_bucket` ends on it.

When `IdxMayFail` holds, every index operation whose error the code checks
may fail, and the request takes the code's error path. Errors the code
ignores are modelled as ignored:
- the rc of the users-index PUT, overwritten at line 731;
- the stats DEL of `remove_bucket`.

### `BucketListing.tla`: `MotrBucket::list` as operators

Constant operators over a bucket index of several names: name -> (key ->
entry with `mtime` and `flags`). Names are integers in lexicographic order.
Key 0 is the null version `name\a`; key `t > 0` is the instance made at
tick `t`. A marker is `[n, i]`: `n = 0` is the empty marker, `i = -1` the
instance "", `i = 0` "null".

| Operator | Code |
|---|---|
| `KeyLess`, `Records` | key order of `next_query_by_name`; instance order of `gen_rand_obj_instance_name` |
| `List` | `list()`: `max == 0`, the version-id-marker check (`BadMarker`, EINVAL), the batch loop, the final `null_ent` |
| `NextBatch` | `do_idx_next_op`: the first `BatchSize` records at or after the start key (NEXT includes its start key) |
| `ListFirst`, `ListBatch`, `ListLoop` | the loop of `list()`: the first query from the marker, one batch with the skip of its first key after the first batch (`next_key`, 1356), the loop until a batch comes back short (1428) |
| `ListStep` | one record: visibility filter, the marker filters (lines 1367-1386) |
| `CheckKeycount`, `NullBefore`, `Truncate`, `Store` | `check_keycount`, the placement of `null_ent` and its `goto` (1387-1420) |
| `Finish` | the pending `null_ent` after the loop (1435-1444) |

`ListStart` is the loop's state: results, `null_ent` (after a move its key
is empty but its mtime stays, as libstdc++ leaves it), `keycount`,
`marker_mtime`, truncation and `next_marker`. `ListBatch` carries the
cursor (`cur`, the last key of the batch), whether the next batch skips
its first record, and whether another batch is due. `BatchSize` stands for
the code's 100.

The reference, `RefList`, reads no flags: all versions by name and then
descending mtime, or for current objects the newest version of each name
when it is not a delete marker (`IsLive`). `Pages` is a client following
`next_marker` until the listing is not truncated.

### `BucketList.tla`: a bucket of several names under whole requests

`BucketListing` needs several names, which `ObjectVersions` (one name,
requests split into steps) does not have. `BucketList` keeps `ix`,
`vstatus` and `clock` and makes each request one action with every index
operation it does, in the code's order, without failures:
- `Put(n)`: `MotrAtomicWriter::complete`;
- `Delete(n)`: `delete_obj` without a version id, all four flows, including
  the early return on a null delete marker in a suspended bucket;
- `DeleteVersion(n)`: `delete_obj` of a version;
- `SetVersioning`.

`FetchLatest` and `UpdateVersionEntries` are the same helpers as in
`ObjectVersions`. The refinement to `VersionedBucket` is checked on
`ObjectVersions`, whose requests take every intermediate step; checking
it again on these atomic requests would add nothing.

A listing thread, `ls`, runs `list()` one batch per step, so the writes
interleave between its NEXT queries:
- `ListBegin` chooses `max` and the listing kind and starts at `ListFirst`;
- `ListNext` runs one `ListBatch` on the current index, and when no batch is
  due ends with `Finish`;
- `Written` counts the writes during a listing (`writes`, a history
  variable, at most `MaxOverlap`); a write after a finished listing
  returns the thread to idle.

Properties:
- `QuiescentPageInOrder`: a listing no write overlapped returns the head of
  the reference listing with its truncation flag;
- `ListedOnce`: even under writes, no entry is listed twice;
- `PagingWithinName`, checked when the thread is idle. The writers never
  read `ls`, so every index state occurs with the thread idle.

`TypeOK` describes the state but is not checked: no plausible bug of the
code, only a change of the model's bounds, breaks it.

The loop's termination needs no property: a full batch of `BatchSize >= 2`
distinct sorted keys ends past its start key, so `next_key` always moves
forward (line 1428).

### `ListingUnderWrites.tla`: what a listing under writes returns

Extends `BucketList` with `ix0`, the index when the listing began.
`StableEntriesListed` says a complete, untruncated listing of versions
returns every record that was in the index at the start and is still there
unchanged at the end. It is violated (see "Further violations").

### `VersionedBucket.tla`: what the object engine promises

The abstract specification, written from spec 3.5 and 4.5.1-4.5.3. Each
name has a sequence of versions, newest first; a version is its id (0 for
the null version) and whether it is a delete marker. It has no flags,
mtimes, cache or index:
- PUT prepends a version, with a fresh id when versioning is enabled, else
  as the null version, which replaces the previous null version;
- DELETE of an object with a version removes the null version
  (unversioned) or prepends a delete marker (as the null version when
  suspended);
- DELETE of a version removes it;
- versioning goes from unversioned to enabled or suspended, never back.

### `ObjectVersionsRefinement.tla`: the step-level engine refines it

This module extends `MCObjectVersions` with one history variable, `snap`:
the index when the request in progress started. Its `SpecH` is `Spec`
plus that variable. The refinement mapping takes the abstract versions
from `snap` until the request has made its effect, and from `idx` after:
- a PUT's effect is `PIndex`;
- a DELETE's effect is `DmPut`, or `RmDel` in an unversioned bucket;
- a version DELETE's effect is `RmDel`.

Until then, a PUT or DELETE may already have removed a null version it is
about to replace, a state S3 never shows. The abstract status is the one the
request read until it returns. So a PutBucketVersioning during a PUT is
ordered after the PUT, which is a legal order with one thread.

### MC modules

`MCObjectVersions`, `MCMultipart` and `MCAccounts` declare the threads,
upload ids, users, buckets, keys and values as model values.
`MCWriterBlockSize` defines the layouts: unit sizes from 4 KiB to 8 MiB, and
pools given as N+K+S over P.

## 3. Runs

| Run | Config | Expect | What it shows |
|---|---|---|---|
| versions_seq | `ObjectVersionsSeq.cfg` | pass | One thread, all versioning transitions, GC on, sizes 0 and 1, 7 ticks. CURRENT is always on the newest entry when idle, HEAD finds the newest, the cache agrees with the index, no referenced object is in the GC queue, and no object is enqueued twice. Under `SpecH` of `ObjectVersionsRefinement`, the engine implements `VersionedBucket` (`VersionsRefined`). |
| versions_sync | `ObjectVersionsSync.cfg` | pass | The same with GC off. Every delete is synchronous and may fail; a failed request still leaves the cache agreeing with the index. |
| leak_sync_delete | `ObjectVersionsLeak.cfg` | violation | With GC off, the `is_composite` typo (line 2338) means an overwritten or deleted object is never destroyed (`NoLeakedObject`). |
| resurrect_deleted_version | `ObjectVersionsResurrect.cfg` | violation | Two threads: `update_version_entries` re-creates a version that a concurrent DELETE removed and queued for GC (`NoDanglingEntry`). |
| multipart_seq | `MultipartSeq.cfg` | pass | One thread, two uploads of up to two parts, re-uploaded parts, GC enqueue that may fail. No part object leaks (`NoLeakedPart`); a completed object's parts exist and are those it was completed with (`CompletedIntact`); the stats equal the in-progress and completed uploads (`StatsMatchUploads`); paging `list_multiparts` with its marker returns every in-progress upload once, for every max (`MultipartListingComplete`). |
| abort_races_complete | `MultipartAbortComplete.cfg` | violation | Abort deletes the parts after complete listed them and before complete read the in-progress record; the completed object refers to deleted parts (`CompletedIntact`). |
| writer_block_size | `WriterBlockSize.cfg` | pass | For every unit size and pools with P*N up to 256, `get_optimal_bs` equals its reference (`OptimalBsNoWrap`), and under weak fairness every PUT of 1, 1500 or 9000 pages is written completely (`WriterFinishes`). |
| write_loop_spins | `WriterBlockSizeSpin.cfg` | violation | For 8+2 over 64 targets and wider, `max_bs` wraps to 0 and the flush loop writes 0 bytes forever (`WriterFinishes`). |
| accounts_seq | `AccountsSeq.cfg` | pass | One thread over user create/update/remove, bucket create/remove and object PUTs, with every handled index error. No bucket index, multipart index or user link outlives its bucket record (`NoDanglingBucketRefs`), and the bucket cache agrees with the instance index when idle (`BucketCacheCoherent`). |
| bucket_list | `BucketListSeq.cfg` | pass | Two names, four writes, a listing thread reading batches of 2 with up to one write between them. A listing no write overlapped is the head of the reference listing, with its truncation flag (`QuiescentPageInOrder`); no entry is listed twice under writes (`ListedOnce`); paging within one name is complete (`PagingWithinName`). |
| bucket_list_paging | `BucketListPaging.cfg` | violation | Paging across names loses entries: with the marker at a name, the code skips every non-versioned entry of that name (line 1370), including a null version not yet listed (`PagingComplete`). Trace: PUT 1 and PUT 2 unversioned, max 1. |
| bucket_removed_under_put | `AccountsBucketPut.cfg` | violation | Two threads: `remove_bucket` lists the bucket as empty, a PUT writes its entry and updates the stats header before `remove_bucket` DELs the header (line 890), so it is acknowledged; then `remove_bucket` deletes the bucket index with its entry (`NoLostObject`). |

Properties are stated over quiescent states (no request in flight) where the
code only promises them between requests. `HeadIsNewest`, `GcEnqueuedOnce`,
`NoLeakedPart`, `CompletedIntact`, `NoDanglingBucketRefs` and
`NoLostObject` are checked in every state. The listing properties quantify
over every `max` up to `MaxKeys` (or the number of uploads) and both
listing kinds in each reachable state.

`PROJECT.json` lists one mutant per property of the passing runs: a plausible
bug in a mapped definition that TLC must catch.

### Further violations, without a run of their own

The project keeps at most twelve runs. The following violations were found
with the same modules and are recorded in `PROJECT.json` as hazards. Each
can be reproduced by checking the named property under a copy of the
indicated config:

- **CurrentIsLatest**, `ObjectVersionsSync.cfg`. With GC off, the
  synchronous delete may fail. A PUT clears CURRENT on the latest entry, and
  the null-version removal then fails: no entry is CURRENT.
- **HeadIsNewest**, two threads. A delete marker whose instance is generated
  after a concurrent PUT's instance, but whose mtime is stamped before it,
  hides the newer PUT from HEAD.
- **NoDanglingEntry**, two threads with `SetVersioning`. A DELETE that
  loaded the bucket as unversioned before versioning was enabled queues the
  latest versioned object and deletes only the null key.
- **CacheCoherent**, two PUTs. The PUTs interleave their index and cache
  writes in opposite orders, leaving a stale cache entry.
- **GcEnqueuedOnce**, two DELETEs of one version. Both enqueue its object.
- **AbortLeavesNoRecord** (`Multipart`), one thread, three steps: init,
  upload part, abort. Abort deletes the part objects and the in-progress
  record, but never DELs the part records from the part index. Spec 4.6.6
  says abort removes them.
- **StatsMatchUploads** (`Multipart`), two threads. Two stats GET/PUT pairs
  interleave and one update is lost.
- **NoLeakedPart** (`Multipart`), two threads. Two uploads of the same part
  number each read no old part, and both PUT their part; the first object
  is never deleted.
- **StatsMatchIndex**, `ObjectVersionsStats.cfg`. A
  DELETE in a suspended bucket overwrites an older null version with the
  marker, and that version's size and count stay in the stats. Trace: PUT
  (unversioned), enable, PUT, suspend, DELETE (line 2193).
- **UserCacheCoherent**, `AccountsUserCache.cfg`, one thread with index failures.
  `store_user` ignores a failed users-index PUT and caches the unstored
  record (line 731).
- **PagingComplete** with the skip of line 1370 removed. Trace: PUT 1
  (unversioned), enable, PUT 1, PUT 2, max 1. The first page ends after the
  version of name 1, and its `next_marker` is "null" with the name of that
  record. But when the null version of name 1 is pending and the page fills
  on a record of name 2, the marker carries name 2 (line 1392). The next
  call finds no key "2\a" and fails with EINVAL, and the null version of
  name 1 is lost.
- **list_multiparts with a stale marker**, on the operator
  `ListMultiparts`. When the upload named by the marker completes between
  two pages, the next query starts past where the marker was. The code still
  skips the first record, so a live upload is never listed (line 1489).
- **StableEntriesListed**, `ListingUnderWrites.cfg`, 8 states. Three PUTs
  of one name in an enabled bucket; a version listing with max 2 reads the
  batch of the two newest; a DeleteVersion removes the second of them,
  `next_key`; the next NEXT starts there, returns the oldest version first,
  and the skip drops it (line 1356). The listing ends untruncated without
  a version that was never touched.
- **OptimalBsNoWrap**, `WidePools`. The same wrap that makes
  write_loop_spins.

## 4. Bounds

`ObjectVersions`:
- `MaxTime` bounds the clock, and so bounds the number of PUTs and delete
  markers. A request starts only if every busy request can still take its
  two ticks (`RoomFor`).
- One-thread runs use 7 ticks. That allows three PUTs, or two PUTs and a
  marker, across versioning changes. The shortest trace of the
  suspended-delete bug needs 5 ticks.
- Two-thread runs use 5 or 6 ticks. That is enough for two overlapping
  requests after one completed PUT; every race found needs at most one
  prior PUT.
- Sizes are `{0, 1}`, so both the zero-byte path (no Motr object) and the
  object path occur.

`Multipart`:
- Two uploads, part numbers `{1, 2}` and sizes `{1, 2}`. With these, a part
  can be replaced by one of a different size, and complete can overwrite an
  object completed from the other upload.
- `MaxOid = 4` bounds the part objects created.

`WriterBlockSize`:
- Unit sizes 4 KiB to 8 MiB cover both the depth-zero guard (above 4 MiB)
  and the ordinary depth.
- Objects of 1, 1500 and 9000 pages take the three paths of `write()`:
  - a flush shorter than a block;
  - several 4 MiB chunks below `MAX_ACC_SIZE`;
  - more than `MAX_ACC_SIZE` (8192 pages), which forces a write before the
    flush.

`Accounts`:
- One user, one bucket, one key and two values.
- `MaxVer = 3` allows two stores of a user after its creation.
- `MaxOid = 2` allows two PUTs, or a PUT into a bucket that is removed and
  created again.
- Two threads without index failures are enough for the remove-vs-PUT race.

`BucketList`:
- Names `{1, 2}`, so listings cross a name boundary. Both the marker's name
  and a later name occur.
- `MaxTime = 8`, two ticks per write, so four writes. That gives two
  versions and a null version of one name, with versioning changes between
  them, or three records across both names. Ten ticks with the listing
  thread reach 2.6 million states in about seven minutes, past the five a
  run has.
- `BatchSize = 2` (the code's 100): three records already need a second
  batch, and so a skipped first record. A batch of 1 would make every
  batch after the first empty after the skip.
- `MaxOverlap = 1`: one write between two batches is what the skip bug
  needs.
- The paging run (`BucketListPaging.cfg`) uses `MaxTime = 6`: its trace
  needs two writes.
- `MaxKeys = 3` covers a page boundary inside a name, at a null version
  and at the name boundary. The paging violation needs only max 1.

The refinement runs reuse these bounds. The engine's ids are its ticks,
`1 .. MaxTime`.

## 5. Fairness and liveness

The concurrent modules check safety only and assume no fairness. The
scheduler of the RGW thread pool promises nothing about which request
progresses.

`WriterBlockSize` assumes `WF_vars(Next)`:
- one writer thread calls `process()` back to back for the request's data;
- every Motr operation it waits on uses `M0_TIME_NEVER`, so it cannot time
  out;
- a step, once enabled, stays enabled until the writer takes it.

Under this fairness `WriterFinishes` holds for small pools and fails for
wide ones.

The refinement properties (`VersionsRefined`) are safety properties:
`VersionedBucket!Spec` has no fairness, and the implementation is checked
for its steps only.

## 6. Findings

`PROJECT.json` lists each finding with its source line. In short:
- the `is_composite` typo leaks objects when GC is off (2338);
- `update_version_entries` resurrects a deleted version (3913);
- abort racing complete leaves the completed object with deleted parts
  (4956);
- `get_optimal_bs` wraps to 0 on wide pools and `write()` spins (4149);
- `remove_bucket` deletes an acknowledged object's entry under a
  concurrent PUT (844/911);
- paging a listing across names loses the entries of the marker's name that
  are not versioned (1370).

Also found, and kept without a run (see "Further violations"):
- a suspended DELETE leaves stale stats (2193);
- `store_user` drops its PUT error and caches an unstored record (731);
- `next_marker` for a pending null version names the wrong object (1392);
- `list_multiparts` skips a live upload after its marker upload completes
  (1489);
- a listing's batch skip drops a valid entry after a concurrent DELETE of
  `next_key` (1356).

A divergence noted while modelling: `create_delete_marker` sets
DELETE_MARKER|CURRENT without VER (2241), where spec 4.5.3 says
DELETE_MARKER|VER|CURRENT. The model follows the code; it makes delete
markers fall under the skip of line 1370.

## 7. Not modelled, and why

- **Listing with prefix or delimiter.** `BucketListing` models
  `MotrBucket::list` without prefix or delimiter; the common-prefix
  handling needs names as strings. Index failures during a listing are
  not modelled: they end the request with the error.
  `list_multiparts` is checked on a static set of uploads.
- **`list_buckets`** (324-376) has no caller in the repository, so what a
  caller does with its marker is unknown. Its two hazards, the write to
  `keys[0]` with max 0 and the marker returned again, are listed in
  `PROJECT.json` without a property.
- **The GC (`motr/gc/gc.h`)** has declarations only. Its implementation is
  not in the repository, so the queue is modelled by what its callers do
  (`gc_enqueued`).
- **GET/HEAD** (`ReadOp::prepare`) is represented by `FetchLatest`,
  `HeadIsNewest` and the cache fills. Its conditional-request checks are
  not modelled.
- **Copy, attribute updates, access keys and email indices, and
  `delete_children`** change records the properties do not tell apart.
- **The GC worker** is out of scope per the spec. An enqueued object counts
  as destroyed.
- **Motr byte I/O, composite (HSM) layer calls, ADDB logging,
  configuration and store setup** are I/O with no state a property
  distinguishes.
- **LRU eviction** of the caches only removes entries. A miss is modelled
  by the read paths.
- **`abort_multiparts` in `remove_bucket`** is a no-op in the code (867).
  The composition of `Multipart` with `Accounts` therefore adds no steps,
  and `remove_bucket` simply deletes the multipart indices (`RbMp`).
