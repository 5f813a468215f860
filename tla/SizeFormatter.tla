--------------------------- MODULE SizeFormatter ---------------------------
(***************************************************************************)
(* The texts of sizes (size_formatter.cpp), as the amount they name: a     *)
(* number of digits' last places, and the unit.                            *)
(*                                                                         *)
(* printf rounds to the nearest amount, and an amount half way between two *)
(* to either, as the C runtime has it.                                     *)
(***************************************************************************)
EXTENDS Naturals

CONSTANTS
  Kilo,       \* 1024
  Sentinel    \* kPendingSizeSentinel, the largest size there is

ASSUME FormatterAssumption == Kilo \in Nat \ {0, 1} /\ Sentinel \in Nat

VARIABLE bytes

(* Bytes, KB, MB, GB and TB, and their decimals.                           *)
Power == LET Square == Kilo * Kilo
         IN  [u \in 0 .. 4 |-> CASE u = 0 -> 1
                                 [] u = 1 -> Kilo
                                 [] u = 2 -> Square
                                 [] u = 3 -> Kilo * Square
                                 [] u = 4 -> Kilo * (Kilo * Square)]

SizeDecimals   == [u \in 0 .. 4 |-> IF u = 0 THEN 0 ELSE IF u <= 2 THEN 1 ELSE 2]
ColumnDecimals == [u \in 0 .. 4 |-> IF u <= 1 THEN 0 ELSE IF u = 2 THEN 1 ELSE 2]

UnitOf(n) == CHOOSE u \in 0 .. 4 : /\ u < 4 => n < Power[u + 1]
                                   /\ u > 0 => n >= Power[u]

(* printf's %.0f, %.1f and %.2f.                                           *)
Rounded(n, d) == IF 2 * (n % d) < d THEN {n \div d}
                 ELSE IF 2 * (n % d) > d THEN {n \div d + 1}
                 ELSE {n \div d, n \div d + 1}

Formatted(n, divisor, decimals) ==
  {[amount |-> a, places |-> decimals[UnitOf(n)], unit |-> UnitOf(n)] :
     a \in Rounded(n * 10 ^ decimals[UnitOf(n)], divisor)}

FormatGigabytesAsMega(n, decimals) ==
  Formatted(n, IF UnitOf(n) = 3 THEN Power[2] ELSE Power[UnitOf(n)], decimals)

Format(n, decimals) == Formatted(n, Power[UnitOf(n)], decimals)

format_size(n)            == Format(n, SizeDecimals)
format_size_for_column(n) == Format(n, ColumnDecimals)
is_pending_size(n)        == n = Sentinel
Pending                   == [amount |-> 0, places |-> 0, unit |-> 5]

format_size_for_shell_column(n) ==
  IF is_pending_size(n) THEN {Pending} ELSE format_size_for_column(n)

-----------------------------------------------------------------------------
(* Every size, put together digit by digit.                                *)
FormatterInit == bytes = 0
FormatterNext == /\ \E digit \in 0 .. Kilo - 1 : bytes' = bytes * Kilo + digit
                 /\ bytes' \in bytes + 1 .. Sentinel

FormatterSpec == FormatterInit /\ [][FormatterNext]_bytes

(* A column that is sorted by size, as the shell sorts it, reads in order: *)
(* no text names more than the next larger size's does, across the units,  *)
(* with few decimals and whichever way the halves go; and only the folders *)
(* that are pending, which come last, have no size to read                 *)
(* (format_size, format_size_for_shell_column).                            *)
NamesNoMore(x, y) ==
  x.amount * Power[x.unit] * 10 ^ y.places <= y.amount * Power[y.unit] * 10 ^ x.places

ColumnKeepsOrder ==
  bytes < Sentinel =>
    /\ \A x \in format_size(bytes), y \in format_size(bytes + 1) : NamesNoMore(x, y)
    /\ \A x \in format_size_for_shell_column(bytes),
          y \in format_size_for_shell_column(bytes + 1) :
         x # Pending /\ (y = Pending \/ NamesNoMore(x, y))
=============================================================================
