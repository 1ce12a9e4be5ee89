------------------------------ MODULE Rounding ------------------------------
(* toDecimalPlaces(decimals, Decimal.ROUND_HALF_EVEN), as fx.service.ts,   *)
(* orders.service.ts and order-math.util.ts (backend/src/) round amounts   *)
(* to the smallest unit of a currency.                                     *)
EXTENDS Integers

(* n / d to the nearest integer, ties to the even one. *)
HalfEven(n, d) ==
  LET down == n \div d
      rest == 2 * (n % d)
  IN  IF rest < d \/ (rest = d /\ down % 2 = 0) THEN down ELSE down + 1
=============================================================================
