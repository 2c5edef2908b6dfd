---------------------------- MODULE MCLZ77Store ----------------------------
(* Alphabets of three and two symbols, so that chunks of both sizes begin  *)
(* and end within a store of ten tokens, for TLC.                          *)
EXTENDS LZ77Store

MCLengthSymbol(n) == IF n = 3 THEN 1 ELSE 2
MCDistSymbol(n) == n - 1

=============================================================================
