------------------------- MODULE MCWriterBlockSize -------------------------
(* Pool versions for WriterBlockSize: N data, K parity and S spare units  *)
(* per group over P targets.                                              *)
EXTENDS WriterBlockSize

\* Unit sizes in pages: 4 KiB, 64 KiB, 1 MiB, 4 MiB, 8 MiB.
LayoutUnits == {1, 16, 256, 1024, 2048}

\* Pools with at most 256 data-unit slots across the pool width (P * N).
SmallPools == {[N |-> 1, K |-> 0, S |-> 0, P |-> 1],
               [N |-> 4, K |-> 2, S |-> 0, P |-> 8],
               [N |-> 4, K |-> 2, S |-> 2, P |-> 16],
               [N |-> 8, K |-> 2, S |-> 0, P |-> 32]}

\* Wider pools: 8+2 over 64 targets, 4+2 over 256 and 8+2 over 128.
WidePools == {[N |-> 8, K |-> 2, S |-> 0, P |-> 64],
              [N |-> 4, K |-> 2, S |-> 0, P |-> 256],
              [N |-> 8, K |-> 2, S |-> 0, P |-> 128]}
=============================================================================
