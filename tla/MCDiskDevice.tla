--------------------------- MODULE MCDiskDevice ---------------------------
(* Blocks of two bytes, a disk of fifteen, two buffers. The lengths reach  *)
(* chunks of eight, four, two and one block and every way to end.          *)
EXTENDS DiskDevice

MCByteCalls == {<<1, 1>>, <<0, 3>>, <<3, 7>>, <<1, 12>>, <<0, 21>>, <<1, 27>>}
MCBlockCalls == {<<3, 0>>, <<14, 1>>, <<2, 7>>, <<0, 13>>}
=============================================================================
