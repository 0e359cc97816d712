--------------------------- MODULE WriterBlockSize ---------------------------
(***************************************************************************)
(* The data path of MotrAtomicWriter in src/src/rgw/rgw_sal_motr.cc:      *)
(* process() accumulates the request's data up to MAX_ACC_SIZE, write()   *)
(* writes the accumulator in blocks of MotrObject::get_optimal_bs bytes,  *)
(* and the last, empty process() call flushes what is left.                *)
(*                                                                         *)
(* Sizes are counted in 4 KiB pages: unit sizes are powers of two of at   *)
(* least 4 KiB, so every product get_optimal_bs forms is a whole number   *)
(* of pages and its 32-bit unsigned wrap (mod 2^32 bytes) is the wrap     *)
(* mod 2^20 pages.  The byte-exact quotient by N+K+S is followed by a     *)
(* round-up to the group size, which in pages is the round-up of the      *)
(* ceiling of the page quotient.  Request data is counted in whole pages. *)
(***************************************************************************)
EXTENDS Integers

CONSTANTS
    Units,       \* unit sizes of the object's layout, in pages
    Geometries,  \* pool versions: [N, K, S, P] of the pdclust attributes
    ObjSizes,    \* sizes of the objects written, in pages
    ChunkPages,  \* size of the data buffers process() receives
    MaxAccPages  \* MAX_ACC_SIZE (32 MiB) in pages

ASSUME /\ Units \subseteq Nat \ {0} /\ ObjSizes \subseteq Nat
       /\ \A g \in Geometries : g.N > 0 /\ g.N + g.K + g.S <= g.P
       /\ ChunkPages \in Nat \ {0} /\ MaxAccPages \in Nat \ {0}

WordPages == 2 ^ 20          \* 2^32 bytes: the range of unsigned
U32(x) == x % WordPages      \* unsigned arithmetic wraps

CeilDiv(x, y) == (x + y - 1) \div y
\* roundup() of <sys/param.h> on unsigned operands.
RoundUp(x, y) == U32((U32(x + y - 1) \div y) * y)

\* Reference: the block size the comment describes, without wrap.
BsRef(len, last, unit, g) ==
    LET depth0 == 128 \div ((unit + 7) \div 8)
        depth == IF depth0 = 0 THEN 1 ELSE depth0
        grp == unit * g.N
        maxBs == CeilDiv(CeilDiv(depth * unit * g.P * g.N, g.N + g.K + g.S),
                         grp) * grp
    IN  CASE len >= maxBs -> maxBs
          [] last         -> CeilDiv(len, unit) * unit
          [] OTHER        -> CeilDiv(len, grp) * grp

\* Mutant: the guard for a depth of zero (units over 4 MiB) is dropped.
GetOptimalBsNoDepthGuard(len, last, unit, g) ==
    LET depth == 128 \div ((unit + 7) \div 8)
        grp == U32(unit * g.N)
        maxBs == RoundUp(CeilDiv(U32(depth * unit * g.P * g.N),
                                 g.N + g.K + g.S), grp)
    IN  CASE len >= maxBs -> maxBs
          [] last         -> RoundUp(len, unit)
          [] OTHER        -> RoundUp(len, grp)

\* MotrObject::get_optimal_bs: depth units per target, times the data
\* units of the pool width, rounded up to the group size, all in unsigned.
GetOptimalBs(len, last, unit, g) ==
    LET depth0 == 128 \div ((unit + 7) \div 8)
        depth == IF depth0 = 0 THEN 1 ELSE depth0
        grp == U32(unit * g.N)
        maxBs == RoundUp(CeilDiv(U32(depth * unit * g.P * g.N),
                                 g.N + g.K + g.S), grp)
    IN  CASE len >= maxBs -> maxBs
          [] last         -> RoundUp(len, unit)
          [] OTHER        -> RoundUp(len, grp)

VARIABLES
    unit, geom,  \* layout of the object created by the writer
    size,        \* size of the object the client sends
    remaining,   \* data the client has still to send
    acc,         \* acc_data: accumulated and not yet written
    left, bs,    \* write(): bytes left in the accumulator, block size
    last,        \* write(): the flushing call
    written,     \* total_data_size
    phase        \* "recv": in process(); "write": in write()'s loop

vars == <<unit, geom, size, remaining, acc, left, bs, last, written, phase>>

Init ==
    /\ unit \in Units
    /\ geom \in Geometries
    /\ size \in ObjSizes
    /\ remaining = size
    /\ acc = 0 /\ left = 0 /\ bs = 0 /\ last = FALSE /\ written = 0
    /\ phase = "recv"

\* Enter write(): bs is computed once for the whole accumulator.
StartWrite(isLast) ==
    /\ phase' = "write" /\ last' = isLast /\ left' = acc
    /\ bs' = GetOptimalBs(acc, isLast, unit, geom)

(* process() with data: append it; write once MAX_ACC_SIZE is reached.   *)
Process ==
    /\ phase = "recv" /\ remaining > 0
    /\ LET c == IF remaining < ChunkPages THEN remaining ELSE ChunkPages
       IN  /\ remaining' = remaining - c
           /\ acc' = acc + c
           /\ IF acc + c < MaxAccPages
              THEN UNCHANGED <<left, bs, last, phase>>
              ELSE /\ phase' = "write" /\ last' = FALSE /\ left' = acc + c
                   /\ bs' = GetOptimalBs(acc + c, FALSE, unit, geom)
    /\ UNCHANGED <<unit, geom, size, written>>

(* The last process() call, with no data: flush the accumulator.         *)
Flush ==
    /\ phase = "recv" /\ remaining = 0
    /\ IF acc # 0
       THEN StartWrite(TRUE)
       ELSE /\ phase' = "done" /\ UNCHANGED <<left, bs, last>>
    /\ UNCHANGED <<unit, geom, size, remaining, acc, written>>

\* Mutant: the loop stops for more data on the flushing call too.
WriteBlockBreaksOnLast ==
    /\ phase = "write" /\ left > 0
    /\ IF left < bs
       THEN /\ phase' = "recv" /\ acc' = left
            /\ UNCHANGED <<left, bs, last, written>>
       ELSE LET n == IF left < bs THEN left ELSE bs
            IN  /\ written' = written + n
                /\ left' = left - n
                /\ UNCHANGED <<acc, bs, last, phase>>
    /\ UNCHANGED <<unit, geom, size, remaining>>

\* Mutant: the count of bytes written is not clamped to what is left.
WriteBlockNoClamp ==
    /\ phase = "write" /\ left > 0
    /\ IF left < bs /\ ~last
       THEN /\ phase' = "recv" /\ acc' = left
            /\ UNCHANGED <<left, bs, last, written>>
       ELSE LET b == IF left < bs THEN GetOptimalBs(left, TRUE, unit, geom)
                     ELSE bs
            IN  /\ bs' = b
                /\ written' = written + b
                /\ left' = left - b
                /\ UNCHANGED <<acc, last, phase>>
    /\ UNCHANGED <<unit, geom, size, remaining>>

(* One iteration of write()'s loop: short of a block, wait for more data *)
(* unless flushing; a flush recomputes bs for the tail and pads the tail *)
(* to it; then one Motr write of bs bytes.                               *)
WriteBlock ==
    /\ phase = "write" /\ left > 0
    /\ IF left < bs /\ ~last
       THEN /\ phase' = "recv" /\ acc' = left
            /\ UNCHANGED <<left, bs, last, written>>
       ELSE LET b == IF left < bs THEN GetOptimalBs(left, TRUE, unit, geom)
                     ELSE bs
                n == IF left < b THEN left ELSE b
            IN  /\ bs' = b
                /\ written' = written + n
                /\ left' = left - n
                /\ UNCHANGED <<acc, last, phase>>
    /\ UNCHANGED <<unit, geom, size, remaining>>

(* The loop ends with the accumulator written: clear it.                 *)
WriteDone ==
    /\ phase = "write" /\ left = 0
    /\ acc' = 0
    /\ phase' = IF last THEN "done" ELSE "recv"
    /\ UNCHANGED <<unit, geom, size, remaining, left, bs, last, written>>

Next == Process \/ Flush \/ WriteBlock \/ WriteDone

(* The writer thread runs process() calls back to back and waits on each *)
(* Motr operation without a timeout, so its steps are weakly fair.       *)
Spec == Init /\ [][Next]_vars /\ WF_vars(Next)

-----------------------------------------------------------------------------
TypeOK ==
    /\ unit \in Units /\ geom \in Geometries /\ size \in ObjSizes
    /\ remaining \in Nat /\ acc \in Nat /\ left \in Nat /\ bs \in Nat
    /\ written \in Nat /\ last \in BOOLEAN
    /\ phase \in {"recv", "write", "done"}

(* get_optimal_bs returns the block size its comment describes (depth    *)
(* units per target over the data units of the pool width, a multiple of *)
(* the group size) for every length, flag, unit size and pool geometry:  *)
(* the unsigned products never wrap.                                     *)
OptimalBsNoWrap ==
    \A len \in {1, ChunkPages, MaxAccPages}, l \in BOOLEAN, u \in Units,
       g \in Geometries :
        GetOptimalBs(len, l, u, g) = BsRef(len, l, u, g)

(* Every PUT's data is eventually written: process() and write() finish  *)
(* with all of it in the object.                                         *)
WriterFinishes == <>(phase = "done" /\ written = size)

====
