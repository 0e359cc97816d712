---------------------------- MODULE BucketListing ----------------------------
(***************************************************************************)
(* MotrBucket::list of src/src/rgw/rgw_sal_motr.cc as operators over a     *)
(* bucket index, with the listing S3 asks for (spec 4.5.5 and testable   *)
(* properties 2 and 7) as the reference.                                  *)
(*                                                                         *)
(* An index is a function from object names to a function from the keys  *)
(* present to their entries.  Names are positive integers in              *)
(* lexicographic order.  Key 0 is "name\a", the null version; key t > 0  *)
(* is "name\a<instance>" for the instance made at tick                    *)
(* t, an inverted timestamp, so a later tick sorts first.  An entry has   *)
(* an mtime and the flags VER, CURRENT and DM.  No prefix or delimiter is *)
(* given, so next_query_by_name returns the records in key order.         *)
(*                                                                         *)
(* A marker is [n |-> name, i |-> instance]: name 0 is the empty marker,  *)
(* instance -1 is "", 0 is "null" and t > 0 the instance of tick t.       *)
(***************************************************************************)
EXTENDS Integers, Sequences, SequencesExt

CONSTANT BatchSize   \* batch_size of list(): records per NEXT query (100)

ASSUME BatchSize \in Nat /\ BatchSize >= 2

\* rgw_bucket_dir_entry::is_current, is_delete_marker and is_visible.
IsCurrent(e) == "VER" \notin e.flags \/ "CURRENT" \in e.flags
IsDM(e) == "DM" \in e.flags
IsVisible(e) == IsCurrent(e) /\ ~IsDM(e)

\* Key order of the index: names ascending, "name\a" first, then instances
\* from the latest tick down.
KeyLess(a, b) ==
    \/ a[1] < b[1]
    \/ a[1] = b[1] /\ (a[2] = 0 \/ (b[2] # 0 /\ a[2] > b[2]))

\* The records of the index, in the order NEXT returns them.
Records(ix) ==
    SetToSortSeq(UNION {{<<n, k>> : k \in DOMAIN ix[n]} : n \in DOMAIN ix},
                 KeyLess)

NoMarker == [n |-> 0, i |-> -1]

\* The state of list()'s loop: the results, the pending null_ent (its key
\* emptied by a move keeps its mtime), keycount, marker_mtime, and the
\* truncation with its next_marker.
ListStart == [objs |-> <<>>, nul |-> [set |-> FALSE, n |-> 0, mtime |-> 0],
              kc |-> 0, mm |-> 0, trunc |-> FALSE, next |-> NoMarker,
              err |-> FALSE]

\* Mutant: the pending null version is placed only at the end of its name.
NullBeforeAtNameEnd(st, r, ix) ==
    st.nul.set /\ st.nul.n # r[1]

\* The pending null version goes before record r: r is of another name or
\* older than it.
NullBefore(st, r, ix) ==
    st.nul.set /\ (st.nul.n # r[1] \/ st.nul.mtime > ix[r[1]][r[2]].mtime)

\* check_keycount reached max: the next marker is the pending null version
\* ("null" with the name of r) or r itself.
Truncate(st, r, ix) ==
    [st EXCEPT !.trunc = TRUE,
               !.next = IF NullBefore(st, r, ix) THEN [n |-> r[1], i |-> 0]
                        ELSE [n |-> r[1], i |-> IF r[2] = 0 THEN -1 ELSE r[2]]]

\* A null version becomes the pending null_ent; a version is a result.
Store(st, r, ix) ==
    IF r[2] = 0
    THEN [st EXCEPT !.nul = [set |-> TRUE, n |-> r[1],
                             mtime |-> ix[r[1]][r[2]].mtime]]
    ELSE [st EXCEPT !.objs = Append(@, r), !.kc = @ + 1]

\* check_keycount and the placement of the pending null version; after
\* emitting it the code jumps back to check_keycount once more.
CheckKeycount(st, r, ix, mk, max) ==
    CASE st.kc >= max -> Truncate(st, r, ix)
      [] NullBefore(st, r, ix) /\ mk.i > 0 /\ r[2] = mk.i ->
             Store([st EXCEPT !.nul.set = FALSE], r, ix)
      [] NullBefore(st, r, ix) /\ st.nul.mtime # st.mm ->
             LET s2 == [st EXCEPT !.objs = Append(@, <<st.nul.n, 0>>),
                                  !.kc = @ + 1, !.nul.set = FALSE]
             IN  IF s2.kc >= max THEN Truncate(s2, r, ix) ELSE Store(s2, r, ix)
      [] OTHER -> Store(st, r, ix)

\* Mutant: the marker's own instance is skipped with the later ones.
ListStepSkipsMarker(st, r, ix, mk, max, ver) ==
    LET e == ix[r[1]][r[2]]
        atMarker == r[1] = mk.n
    IN  CASE st.trunc -> st
          [] ~(ver \/ IsVisible(e)) -> st
          [] atMarker /\ "VER" \notin e.flags -> st
          [] atMarker /\ mk.i = 0 /\ st.nul.set /\ st.nul.mtime < e.mtime -> st
          [] atMarker /\ mk.i > 0 /\ r[2] # 0 /\ r[2] >= mk.i ->
                 [st EXCEPT !.mm = IF st.nul.mtime >= e.mtime THEN st.nul.mtime
                                   ELSE @]
          [] OTHER -> CheckKeycount(st, r, ix, mk, max)

\* One record of the loop: the visibility filter, then the marker filters
\* for records of the marker's name, then check_keycount.
ListStep(st, r, ix, mk, max, ver) ==
    LET e == ix[r[1]][r[2]]
        atMarker == r[1] = mk.n
    IN  CASE st.trunc -> st
          [] ~(ver \/ IsVisible(e)) -> st
          [] atMarker /\ "VER" \notin e.flags -> st
          [] atMarker /\ mk.i = 0 /\ st.nul.set /\ st.nul.mtime < e.mtime -> st
          [] atMarker /\ mk.i > 0 /\ r[2] # 0 /\ r[2] > mk.i ->
                 [st EXCEPT !.mm = IF st.nul.mtime >= e.mtime THEN st.nul.mtime
                                   ELSE @]
          [] OTHER -> CheckKeycount(st, r, ix, mk, max)

\* After the loop: the pending null version is a result if there is room,
\* else it is the next marker.
Finish(st, max) ==
    CASE ~st.nul.set \/ st.trunc -> st
      [] st.kc < max ->
             IF st.nul.mtime # st.mm
             THEN [st EXCEPT !.objs = Append(@, <<st.nul.n, 0>>)]
             ELSE st
      [] OTHER -> [st EXCEPT !.trunc = TRUE, !.next = [n |-> st.nul.n, i |-> 0]]

\* NEXT from key c, c included when present (do_idx_next_op with flags 0):
\* at most BatchSize records.  A cursor [n, -1] is the bare name n, which
\* sorts before every key of n; [0, -1] is the empty key.
NextBatch(ix, c) ==
    LET recs == SelectSeq(Records(ix), LAMBDA r : r = c \/ KeyLess(c, r)
                                             \/ (c[2] = -1 /\ r[1] >= c[1]))
    IN  SubSeq(recs, 1, IF Len(recs) < BatchSize THEN Len(recs) ELSE BatchSize)

\* The loop of list() before its first query: keys[0] is the marker's name,
\* next_key is empty.
ListFirst(mk) ==
    [st |-> ListStart, cur |-> <<mk.n, -1>>, skip |-> FALSE, more |-> TRUE]

\* Mutant: the first record of every batch is processed again.
ListBatchNoSkip(ix, mk, max, ver, l) ==
    LET batch == NextBatch(ix, l.cur)
        st1 == FoldLeft(LAMBDA st, r : ListStep(st, r, ix, mk, max, ver), l.st, batch)
    IN  [st |-> st1, cur |-> IF batch = <<>> THEN l.cur ELSE batch[Len(batch)],
         skip |-> TRUE, more |-> Len(batch) = BatchSize /\ ~st1.trunc]

\* One pass of the while loop: NEXT from next_key (the marker's name at
\* first), skip the first record unless this is the first query, process
\* the rest; stop when the batch is short or the page is truncated, else
\* the last key read is the next next_key.
ListBatch(ix, mk, max, ver, l) ==
    LET batch == NextBatch(ix, l.cur)
        rest == IF l.skip /\ batch # <<>> THEN Tail(batch) ELSE batch
        st1 == FoldLeft(LAMBDA st, r : ListStep(st, r, ix, mk, max, ver), l.st, rest)
    IN  [st |-> st1, cur |-> IF batch = <<>> THEN l.cur ELSE batch[Len(batch)],
         skip |-> TRUE, more |-> Len(batch) = BatchSize /\ ~st1.trunc]

\* The while loop over an index no one writes meanwhile; fuel bounds the
\* passes, and running out of it is an error.
RECURSIVE ListLoop(_, _, _, _, _, _)
ListLoop(ix, mk, max, ver, l, fuel) ==
    CASE ~l.more -> l.st
      [] fuel = 0 -> [l.st EXCEPT !.err = TRUE]
      [] OTHER -> ListLoop(ix, mk, max, ver, ListBatch(ix, mk, max, ver, l), fuel - 1)

\* The version-id-marker GET fails: the marker names no entry.
BadMarker(ix, mk) ==
    LET mkKey == IF mk.i > 0 THEN mk.i ELSE 0
    IN  mk.i # -1 /\ ~(mk.n \in DOMAIN ix /\ mkKey \in DOMAIN ix[mk.n])

\* MotrBucket::list(params, max): err is the EINVAL of a bad marker.  NEXT
\* starts at the marker's name, so records of earlier names are never read.
List(ix, mk, max, ver) ==
    CASE max = 0 -> ListStart
      [] BadMarker(ix, mk) -> [ListStart EXCEPT !.err = TRUE]
      [] OTHER ->
             Finish(ListLoop(ix, mk, max, ver, ListFirst(mk),
                             Len(Records(ix)) + 1), max)

-----------------------------------------------------------------------------
(* The reference: every version of each name, or the newest when it is    *)
(* not a delete marker, names ascending and the versions of a name by     *)
(* descending mtime.  It reads no flags, so wrong CURRENT flags show.     *)
\* Record a goes before record b in the reference.
MtimeBefore(ix, a, b) ==
    \/ a[1] < b[1]
    \/ a[1] = b[1] /\ ix[a[1]][a[2]].mtime > ix[b[1]][b[2]].mtime

\* Record r is what HEAD returns for its name: the newest version, not a
\* delete marker.
IsLive(ix, r) ==
    /\ \A k \in DOMAIN ix[r[1]] : ix[r[1]][k].mtime <= ix[r[1]][r[2]].mtime
    /\ ~IsDM(ix[r[1]][r[2]])

RefList(ix, ver) ==
    SetToSortSeq({r \in ToSet(Records(ix)) : ver \/ IsLive(ix, r)},
                 LAMBDA a, b : MtimeBefore(ix, a, b))

\* A client paging with next_marker: the concatenated pages, or <<-1>>
\* when a page fails or the pages do not end within fuel requests.
RECURSIVE Pages(_, _, _, _, _)
Pages(ix, mk, max, ver, fuel) ==
    LET pg == List(ix, mk, max, ver) IN
    CASE pg.err \/ fuel = 0 -> <<<<-1, -1>>>>
      [] ~pg.trunc -> pg.objs
      [] OTHER -> pg.objs \o Pages(ix, pg.next, max, ver, fuel - 1)

=============================================================================
