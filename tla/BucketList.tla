------------------------------ MODULE BucketList ------------------------------
(***************************************************************************)
(* Listing a bucket of several object names (MotrBucket::list) while one  *)
(* request at a time changes it.  Each action is a whole request of       *)
(* src/src/rgw/rgw_sal_motr.cc with every index operation it makes, in    *)
(* the code's order and without failures: MotrAtomicWriter::complete      *)
(* (PUT), MotrDeleteOp::delete_obj without and with a version id, and     *)
(* PutBucketVersioning.  ObjectVersions splits the same requests into     *)
(* their steps for one name; here they are atomic so that the index can   *)
(* hold several names.  Entries keep what the listing reads: mtime and    *)
(* flags.  One ListObjects request runs beside them, one NEXT query of    *)
(* the index per step, so writes land between its batches.               *)
(***************************************************************************)
EXTENDS Integers, FiniteSets, Functions, BucketListing

CONSTANTS
    Names,      \* object names, as their rank in lexicographic order
    MaxTime,    \* bound on the clock: instances and mtimes
    MaxKeys,    \* largest max-keys a client sends
    MaxOverlap  \* most write requests that land during one listing

ASSUME Names \subseteq Nat \ {0} /\ MaxTime \in Nat /\ MaxKeys \in Nat
       /\ MaxOverlap \in Nat

VARIABLES
    ix,        \* bucket index: name -> key present -> [mtime, flags]
    vstatus,   \* versioning status of the bucket
    clock,     \* real_clock: instances and mtimes
    ls         \* the ListObjects request: pc, max-keys, versions?, loop state;
               \* writes (history): write requests since it began

vars == <<ix, vstatus, clock, ls>>

ListIdle == [pc |-> "idle", max |-> 1, ver |-> FALSE, l |-> ListFirst(NoMarker),
             writes |-> 0]

NullKey == 0
Entry == [mtime : 1 .. MaxTime, flags : SUBSET {"VER", "CURRENT", "DM"}]
Versioned(s) == s # "Unversioned"

Without(f, k) == [j \in DOMAIN f \ {k} |-> f[j]]
With(f, k, e) == [j \in DOMAIN f \cup {k} |-> IF j = k THEN e ELSE f[j]]

\* fetch_latest_obj: of the first two records of the name in key order,
\* the second is the latest unless the first has the greater mtime.
FetchLatest(f) ==
    LET first(S) == CHOOSE k \in S : \A j \in S \ {k} : KeyLess(<<1, k>>, <<1, j>>)
        k1 == first(DOMAIN f)
        k2 == first(DOMAIN f \ {k1})
    IN  CASE DOMAIN f = {}                -> -1
          [] DOMAIN f = {k1}              -> k1
          [] f[k1].mtime > f[k2].mtime    -> k1
          [] OTHER                        -> k2

\* update_version_entries(setl): the flags it writes on the latest entry;
\* without setl it leaves an entry that is not current alone.
UpdateVersionEntries(f, setl) ==
    LET k == FetchLatest(f)
        e == f[k]
        fl == CASE setl /\ IsDM(e) -> {"DM"}
                [] setl           -> {"VER", "CURRENT"}
                [] IsDM(e)        -> {"DM", "VER"}
                [] OTHER          -> {"VER"}
    IN  IF k = -1 \/ (~IsCurrent(e) /\ ~setl) THEN f
        ELSE With(f, k, [e EXCEPT !.flags = fl])

Init ==
    /\ ix = [n \in Names |-> <<>>]
    /\ vstatus = "Unversioned"
    /\ clock = 0
    /\ ls = ListIdle

(* PUT: the instance (enabled) and the object id take a tick, complete     *)
(* stamps the mtime; in a versioned bucket CURRENT is unset on the latest *)
(* entry, unless versioning is enabled the null version is removed, and   *)
(* the new entry is PUT.                                                   *)
Put(n) ==
    /\ clock + 2 <= MaxTime
    /\ LET t == clock + 1
           new == [mtime |-> clock + 2,
                   flags |-> IF Versioned(vstatus) THEN {"VER", "CURRENT"} ELSE {}]
           f1 == IF Versioned(vstatus) THEN UpdateVersionEntries(ix[n], FALSE)
                 ELSE ix[n]
           f2 == IF vstatus = "Enabled" THEN f1 ELSE Without(f1, NullKey)
       IN  ix' = [ix EXCEPT ![n] = With(f2, IF vstatus = "Enabled" THEN t
                                             ELSE NullKey, new)]
    /\ clock' = clock + 2
    /\ UNCHANGED vstatus

(* DELETE without a version id: ENOENT when the name has no entry; an     *)
(* unversioned bucket removes the null version; a versioned one takes an  *)
(* instance, stops at a null delete marker when suspended, removes a      *)
(* latest null version when suspended, unsets CURRENT and PUTs a delete   *)
(* marker ("name\a" when suspended) stamped one tick later.               *)
Delete(n) ==
    /\ clock + 2 <= MaxTime
    /\ LET f == ix[n]
           k == FetchLatest(f)
           susp == vstatus = "Suspended"
           f1 == IF susp /\ k = NullKey THEN Without(f, NullKey) ELSE f
           dm == [mtime |-> clock + 2, flags |-> {"DM", "CURRENT"}]
       IN  CASE k = -1 -> UNCHANGED <<ix, clock>>
             [] ~Versioned(vstatus) ->
                    /\ ix' = [ix EXCEPT ![n] = Without(f, NullKey)]
                    /\ UNCHANGED clock
             [] susp /\ k = NullKey /\ IsDM(f[k]) ->
                    /\ clock' = clock + 1
                    /\ UNCHANGED ix
             [] OTHER ->
                    /\ ix' = [ix EXCEPT ![n] =
                           With(UpdateVersionEntries(f1, FALSE),
                                IF susp THEN NullKey ELSE clock + 1, dm)]
                    /\ clock' = clock + 2
    /\ UNCHANGED vstatus

(* DELETE of a version: remove it and, if it was current, set CURRENT on  *)
(* the new latest entry.                                                   *)
DeleteVersion(n) ==
    /\ Versioned(vstatus)
    /\ \E k \in DOMAIN ix[n] :
          LET f1 == Without(ix[n], k)
          IN  ix' = [ix EXCEPT ![n] = IF IsCurrent(ix[n][k])
                                      THEN UpdateVersionEntries(f1, TRUE)
                                      ELSE f1]
    /\ UNCHANGED <<vstatus, clock>>

SetVersioning ==
    /\ \E s \in {"Enabled", "Suspended"} \ {vstatus} : vstatus' = s
    /\ UNCHANGED <<ix, clock, ls>>

\* A write request lands during the listing, or after a listing that has
\* returned, whose response the model then drops.
Written ==
    IF ls.pc = "next"
    THEN /\ ls.writes < MaxOverlap
         /\ ls' = [ls EXCEPT !.writes = @ + 1]
    ELSE ls' = ListIdle

\* ListObjects (or ListObjectVersions) from the start of the bucket.
ListBegin ==
    /\ ls.pc \in {"idle", "done"}
    /\ \E max \in 1 .. MaxKeys, ver \in BOOLEAN :
          ls' = [pc |-> "next", max |-> max, ver |-> ver, l |-> ListFirst(NoMarker),
                 writes |-> 0]
    /\ UNCHANGED <<ix, vstatus, clock>>

\* One pass of list()'s loop over the index as it is now; the last one
\* adds the pending null version.
ListNext ==
    /\ ls.pc = "next"
    /\ LET l1 == ListBatch(ix, NoMarker, ls.max, ls.ver, ls.l)
       IN  ls' = IF l1.more THEN [ls EXCEPT !.l = l1]
                 ELSE [ls EXCEPT !.pc = "done",
                                 !.l = [l1 EXCEPT !.st = Finish(l1.st, ls.max)]]
    /\ UNCHANGED <<ix, vstatus, clock>>

Next == \/ SetVersioning
        \/ \E n \in Names : (Put(n) \/ Delete(n) \/ DeleteVersion(n)) /\ Written
        \/ ListBegin
        \/ ListNext

Spec == Init /\ [][Next]_vars

-----------------------------------------------------------------------------
TypeOK ==
    /\ \A n \in Names : DOMAIN ix[n] \subseteq 0 .. MaxTime
                        /\ \A k \in DOMAIN ix[n] : ix[n][k] \in Entry
    /\ vstatus \in {"Unversioned", "Enabled", "Suspended"}
    /\ clock \in 0 .. MaxTime
    /\ ls.pc \in {"idle", "next", "done"} /\ ls.max \in 1 .. MaxKeys
    /\ ls.ver \in BOOLEAN /\ ls.writes \in 0 .. MaxOverlap

(* Spec 4.5.5 and 8.7: a listing from the start that no write overlapped, *)
(* read over as many NEXT batches as it takes, returns the head of the    *)
(* listing by name and descending mtime, with the null version placed     *)
(* among the versions by its mtime although its key sorts first, and it   *)
(* is truncated exactly when entries remain.                              *)
QuiescentPageInOrder ==
    ls.pc = "done" /\ ls.writes = 0 =>
        LET pg == ls.l.st
            ref == RefList(ix, ls.ver)
        IN  /\ ~pg.err
            /\ pg.objs = SubSeq(ref, 1, IF ls.max < Len(ref) THEN ls.max ELSE Len(ref))
            /\ pg.trunc = (Len(ref) > ls.max)

(* Spec 4.1 and 4.5.5: each NEXT after the first starts at the last key    *)
(* of the previous batch, and list() drops that first record; whatever    *)
(* PUTs and DELETEs land between the batches, no entry is returned twice. *)
ListedOnce ==
    ls.pc # "idle" => IsInjective(ls.l.st.objs)

\* The index restricted to the entries of name n.
NameIndex(n) == [m \in {n} |-> ix[n]]

(* Spec 8.2, within one name: paging with next_marker and              *)
(* version-id-marker through the versions of any one name returns each   *)
(* version once, in mtime order, with the null version of a suspended or  *)
(* once-unversioned bucket among them.  This covers marker_mtime, the     *)
(* null_ent placement and the instance-order filter at the marker.        *)
PagingWithinName ==
    ls.pc = "idle" =>
    \A n \in Names, max \in 1 .. MaxKeys, ver \in BOOLEAN :
        Pages(NameIndex(n), NoMarker, max, ver, Cardinality(DOMAIN ix[n]) + 1)
            = RefList(NameIndex(n), ver)

(* Spec 8.2: a client that lists from the start and then from each        *)
(* next_marker gets every entry exactly once, in the order of the full    *)
(* listing, for every max-keys, listing versions or current objects.      *)
PagingComplete ==
    \A max \in 1 .. MaxKeys, ver \in BOOLEAN :
        Pages(ix, NoMarker, max, ver, Cardinality(UNION {DOMAIN ix[n] : n \in Names}) + 1)
            = RefList(ix, ver)

=============================================================================
