----------------------------- MODULE SymbolTables -----------------------------
(***************************************************************************)
(* The symbols of deflate (symbols.go): a length or a distance is a symbol *)
(* and the value of its extra bits.  The tables of lengths are literals in *)
(* the source and a formula here; those of distances are filled with       *)
(* computeDistCode at start-up.                                            *)
(***************************************************************************)
EXTENDS Integers

Code(symbol, extraBits, value) == [symbol |-> symbol, extraBits |-> extraBits, value |-> value]

(* bits.Len(n) - 1 *)
Log2(n) == CHOOSE l \in 0..30 : 2 ^ l <= n /\ n < 2 ^ (l + 1)

(* getLengthSymbol, getLengthExtraBits and getLengthExtraBitsValue: four   *)
(* symbols for each number of extra bits, and one for the longest match.   *)
LengthCode(length) ==
    LET n == length - 3
        extra == Log2(n) - 2
    IN  IF length < 11 THEN Code(257 + n, 0, 0)
        ELSE IF length = 258 THEN Code(285, 0, 0)
        ELSE Code(261 + 4 * extra + ((n \div 2 ^ extra) % 4), extra, n % 2 ^ extra)

(* computeDistCode: two symbols for each number of extra bits. *)
DistCode(dist) ==
    LET l == Log2(dist - 1)
        r == ((dist - 1) \div 2 ^ (l - 1)) % 2
    IN  IF dist < 5 THEN Code(dist - 1, 0, 0)
        ELSE Code(2 * l + r, l - 1, (dist - (1 + 2 ^ l)) % 2 ^ (l - 1))

(* getLengthSymbolExtraBits, getDistSymbolExtraBits *)
LengthExtraBits(symbol) ==
    IF symbol < 265 \/ symbol = 285 THEN 0 ELSE (symbol - 261) \div 4

DistExtraBits(symbol) == IF symbol < 4 THEN 0 ELSE symbol \div 2 - 1

=============================================================================
