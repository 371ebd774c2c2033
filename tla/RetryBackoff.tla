------------------------------ MODULE RetryBackoff ------------------------------
(***************************************************************************)
(* retryBackoff (jobs.go): how long a job stays RETRYING.  A Duration is   *)
(* an int64 of nanoseconds in two's complement, here the four 16-bit       *)
(* digits of its bit pattern, the lowest first.                            *)
(***************************************************************************)
EXTENDS Integers

Digit == 65536

(* k * d, modulo 2^64.                                                      *)
Times(k, d) ==
  LET p1 == k * d[1]
      p2 == k * d[2] + p1 \div Digit
      p3 == k * d[3] + p2 \div Digit
      p4 == k * d[4] + p3 \div Digit
  IN  <<p1 % Digit, p2 % Digit, p3 % Digit, p4 % Digit>>

Negative(d) == d[4] >= 32768

Second == <<51712, 15258, 0, 0>>  \* 10^9
Minute == Times(60, Second)

(* time.Duration(1 << n) * time.Second: the bits that leave the word are    *)
(* lost, those of the shift and those of the product alike.                 *)
Shifted[n \in Nat] == IF n = 0 THEN Second ELSE Times(2, Shifted[n - 1])

(* d > time.Minute, as signed numbers.                                      *)
OverAMinute(d) ==
  /\ ~Negative(d)
  /\ \E i \in 1..4 : d[i] > Minute[i] /\ \A k \in (i + 1)..4 : d[k] = Minute[k]

retryBackoff(attempt) ==
  LET d == Shifted[IF attempt < 1 THEN 1 ELSE attempt] IN
  IF OverAMinute(d) THEN Minute ELSE d

(* retryBackoff's comment: "doubling per attempt, capped at 60s".  It is,   *)
(* up to the 33rd attempt; the product of the 34th is negative, passes the  *)
(* cap and is due at once.                                                  *)
BackoffDoubles ==
  /\ \A n \in 0..33 :
       retryBackoff(n) = Times(IF n < 1 THEN 2 ELSE IF n < 6 THEN 2^n ELSE 60, Second)
  /\ Negative(retryBackoff(34))

(* A fact about constants: TLC evaluates it when it loads the module.       *)
ASSUME BackoffAssumption == BackoffDoubles
================================================================================
