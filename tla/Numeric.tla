-------------------------------- MODULE Numeric --------------------------------
(***************************************************************************)
(* Exact numbers: gnc-numeric.c and qofmath128.c.  A number is a numerator *)
(* over a denominator, both machine integers; a negative denominator is    *)
(* that of a reciprocal, so that n over -d means n * d, and a zero one     *)
(* marks an error.  Products are computed twice as wide, as a sign and a   *)
(* magnitude.  Bits stands for 64.  Signed integers that overflow wrap,    *)
(* which is what compilers make of them here.  Left out are the number of  *)
(* significant figures, for which the code takes logarithms of doubles,    *)
(* conversion from and to doubles, and division by zero.                   *)
(***************************************************************************)
EXTENDS Integers, FiniteSetsExt

CONSTANT Bits

ASSUME NumericAssumption == Bits \in Nat /\ Bits > 2

\* Powers of two
Power[n \in 0..(2 * Bits)] == IF n = 0 THEN 1 ELSE 2 * Power[n - 1]
Wide == Power[Bits]
Half == Power[Bits - 1]
\* From here on, twice a remainder may overflow.
Quarter == Power[Bits - 2]

Wrap(n) == ((n + Half) % Wide) - Half
Unsigned(n) == n % Wide
Size(n) == IF n < 0 THEN -n ELSE n
SignOf(n) == IF n < 0 THEN -1 ELSE 1

Num(n, d) == [num |-> n, denom |-> d]
ErrorArg == -1
ErrorOverflow == -2
ErrorDenomDiff == -3
ErrorRemainder == -4
Error(code) == Num(code, 0)
Valid(a) == a.denom # 0

DenomAuto == 0
Roundings == {"floor", "ceil", "trunc", "promote", "half down", "half up", "round"}
Denoms == {"exact", "reduce", "lcd", "fixed"}
How(type, rnd) == [type |-> type, rnd |-> rnd]

-----------------------------------------------------------------------------
(* Numbers of twice the width.                                             *)
Mult128(a, b) == [neg |-> (a < 0) # (b < 0), mag |-> Size(a) * Size(b)]
Div128(n, d) == [n EXCEPT !.mag = @ \div d]
Big(n) == n.mag >= Half
Signed(n) == IF n.neg THEN -n.mag ELSE n.mag
Add128(a, b) ==
  LET sum == Signed(a) + Signed(b) IN [neg |-> sum < 0, mag |-> Size(sum)]

\* Only the lower bits of n and of quotient times divisor are subtracted, both
\* taken for positive numbers.
Rem128(n, d) ==
  LET mu == Mult128(Wrap(Div128(n, d).mag), d) IN (n.mag % Half) - (mu.mag % Half)

Gcf(a, b) == IF b = 0 THEN a ELSE Max({k \in 1..b : a % k = 0 /\ b % k = 0})
Lcm128(a, b) == Mult128(a, Wrap(Unsigned(b) \div Gcf(Unsigned(a), Unsigned(b))))

\* The loop of Euclid's algorithm does not start at a negative remainder.
Reduce128(n, d) ==
  LET t   == Rem128(n, d)
      gcf == IF t > 0 THEN Gcf(d, t) ELSE d
      red == Div128(n, gcf)
  IN IF Big(red) THEN Error(ErrorOverflow) ELSE Num(Signed(red), d \div gcf)

\* shift128 of both until both fit
Shifted(n, d) ==
  LET fits(i) == n.mag \div Power[i] < Half /\ d.mag \div Power[i] < Half
      k == Min({i \in 0..(2 * Bits) : fits(i)})
  IN Num(Signed([n EXCEPT !.mag = @ \div Power[k]]), d.mag \div Power[k])

-----------------------------------------------------------------------------
gnc_numeric_reduce(a) ==
  LET gcf == IF a.denom > 0 THEN Gcf(Size(a.num), a.denom) ELSE Size(a.num)
  IN Num(SignOf(a.num) * (Size(a.num) \div gcf), SignOf(a.denom) * (Size(a.denom) \div gcf))

gnc_numeric_lcd(a, b) ==
  LET lcm == Lcm128(a.denom, b.denom)
      divides(c, d) == d.denom < c.denom /\ Size(c.denom) % Size(d.denom) = 0
  IN CASE a.denom = b.denom \/ divides(a, b) -> a.denom
       [] divides(b, a) -> b.denom
       [] OTHER -> IF Big(lcm) THEN ErrorArg ELSE lcm.mag

Whole(a) == IF a.denom < 0 THEN Num(Wrap(a.num * (-a.denom)), 1) ELSE a

\* How a remainder compares with half of its divisor.  Where twice the remainder
\* may overflow this is checked; not so for reciprocals.
Twice(r) == Wrap(2 * r)
Above(r, base) == Twice(r) > base \/ (Twice(r) < r /\ r > base \div 2)
Middle(r, base) == Twice(r) = base \/ (Twice(r) < r /\ r = base \div 2)

\* Mutant: a half is always rounded up.
RoundsHalfUp(rnd, q, above, middle, sign) ==
  CASE rnd = "floor"     -> sign < 0
    [] rnd = "ceil"      -> sign > 0
    [] rnd = "trunc"     -> FALSE
    [] rnd = "promote"   -> TRUE
    [] rnd = "half down" -> above
    [] OTHER             -> above \/ middle

\* Whether a magnitude with quotient q and a remainder is rounded up.
RoundsUp(rnd, q, above, middle, sign) ==
  CASE rnd = "floor"     -> sign < 0
    [] rnd = "ceil"      -> sign > 0
    [] rnd = "trunc"     -> FALSE
    [] rnd = "promote"   -> TRUE
    [] rnd = "half down" -> above
    [] rnd = "half up"   -> above \/ middle
    [] rnd = "round"     -> above \/ (middle /\ q % 2 = 1)

Rounded(q, r, above, middle, denom, sign, rnd) ==
  CASE r # 0 /\ rnd = "never" -> Error(ErrorRemainder)
    [] r # 0 /\ rnd # "never" /\ RoundsUp(rnd, q, above, middle, sign) ->
         Num(Wrap(sign * Wrap(q + 1)), denom)
    [] OTHER -> Num(sign * q, denom)

\* To 1/denom for a multiple of a whole number: no wider numbers are used.
ToReciprocal(a, d, rnd) ==
  LET base == Wrap(a.denom * d)
      r    == Size(a.num) % base
  IN Rounded(Size(a.num) \div base, r, Twice(r) > base, Twice(r) = base, -d,
             SignOf(a.num), rnd)

ToDenominator(a, denom, rnd) ==
  LET scale == gnc_numeric_reduce(Num(denom, a.denom))
      nume  == Mult128(a.num, scale.num)
      newm  == Div128(nume, scale.denom)
      r     == Rem128(nume, scale.denom)
  IN IF Big(newm) THEN Error(ErrorOverflow)
     ELSE Rounded(newm.mag, r, Above(r, scale.denom), Middle(r, scale.denom), denom,
                  SignOf(a.num), rnd)

gnc_numeric_convert(a, denom, how) ==
  CASE ~Valid(a) -> Error(ErrorArg)
    [] Valid(a) /\ denom = DenomAuto ->
         CASE how.type = "reduce" -> gnc_numeric_reduce(a)
           [] how.type = "fixed"  -> Error(ErrorDenomDiff)
           [] OTHER               -> a
    [] Valid(a) /\ denom # DenomAuto ->
         CASE a.denom = denom -> a
           [] a.denom # denom /\ a.num = 0 -> Num(0, denom)
           [] a.denom # denom /\ a.num # 0 /\ denom < 0 ->
                ToReciprocal(Whole(a), -denom, how.rnd)
           [] OTHER -> ToDenominator(Whole(a), denom, how.rnd)

-----------------------------------------------------------------------------
(* Arithmetic.  With a fixed denominator both have it, or one is zero.     *)
Fixed(denom, how) == denom = DenomAuto /\ how.type = "fixed"
Differ(a, b) == a.denom # b.denom /\ a.num # 0 /\ b.num # 0
Common(a, b) == IF a.denom = b.denom \/ b.num = 0 THEN a.denom ELSE b.denom
FixedTo(a, b, denom, how) == IF Fixed(denom, how) THEN Common(a, b) ELSE denom
LcdTo(a, b, denom, how) ==
  IF denom = DenomAuto /\ how.type = "lcd" THEN gnc_numeric_lcd(a, b) ELSE denom

\* Mutant: a common multiple that does not fit is used as it is.
SumUnchecked(x, y) ==
  LET lcd == Wrap(Lcm128(x.denom, y.denom).mag)
      sum == Add128(Mult128(x.num, lcd \div x.denom), Mult128(y.num, lcd \div y.denom))
  IN IF x.denom = y.denom THEN Num(Wrap(x.num + y.num), x.denom)
     ELSE IF lcd <= 0 \/ Big(sum) THEN Error(ErrorOverflow) ELSE Num(Signed(sum), lcd)

Sum(x, y) ==
  LET lcd == gnc_numeric_lcd(x, y)
      cx  == Mult128(x.num, lcd \div x.denom)
      cy  == Mult128(y.num, lcd \div y.denom)
      sum == Add128(cx, cy)
  IN CASE x.denom = y.denom -> Num(Wrap(x.num + y.num), x.denom)
       [] x.denom # y.denom /\ lcd = ErrorArg -> Error(ErrorOverflow)
       [] OTHER -> IF Big(cx) \/ Big(cy) \/ Big(sum) THEN Error(ErrorOverflow)
                   ELSE Num(Signed(sum), lcd)

AddUp(x, y, denom, how) ==
  LET sum == Sum(x, y)
  IN IF Valid(sum) THEN gnc_numeric_convert(sum, LcdTo(x, y, denom, how), how) ELSE sum

gnc_numeric_add(a, b, denom, how) ==
  LET at(c) == IF Fixed(denom, how) THEN Num(c.num, Common(a, b)) ELSE c
  IN CASE ~Valid(a) \/ ~Valid(b) -> Error(ErrorArg)
       [] Valid(a) /\ Valid(b) /\ Fixed(denom, how) /\ Differ(a, b) -> Error(ErrorDenomDiff)
       [] OTHER -> AddUp(Whole(at(a)), Whole(at(b)), FixedTo(a, b, denom, how), how)

gnc_numeric_sub(a, b, denom, how) == gnc_numeric_add(a, Num(-b.num, b.denom), denom, how)

\* Mutant: each number is only reduced by itself.
ReducedAlone(x, y) == << gnc_numeric_reduce(x), gnc_numeric_reduce(y) >>

\* Each numerator is reduced with the denominator of the other.
CrossReduced(x, y) ==
  LET rx == gnc_numeric_reduce(x)
      ry == gnc_numeric_reduce(y)
  IN << gnc_numeric_reduce(Num(ry.num, rx.denom)), gnc_numeric_reduce(Num(rx.num, ry.denom)) >>

Product(c, rnd) ==
  LET n == Mult128(c[1].num, c[2].num)
      d == Mult128(c[1].denom, c[2].denom)
  IN CASE ~Big(n) /\ ~Big(d) -> Num(Signed(n), d.mag)
       [] (Big(n) \/ Big(d)) /\ rnd = "never" ->
            IF Big(d) THEN Error(ErrorOverflow) ELSE Reduce128(n, d.mag)
       [] OTHER -> Shifted(n, d)

TooBig(x, y) == Big(Mult128(x.num, y.num)) \/ Big(Mult128(x.denom, y.denom))
Multiply(x, y, rnd) == Product(IF TooBig(x, y) THEN CrossReduced(x, y) ELSE <<x, y>>, rnd)

gnc_numeric_mul(a, b, denom, how) ==
  LET product == Multiply(Whole(a), Whole(b), how.rnd)
      to == LcdTo(a, b, FixedTo(a, b, denom, how), how)
  IN CASE ~Valid(a) \/ ~Valid(b) -> Error(ErrorArg)
       [] Valid(a) /\ Valid(b) /\ Fixed(denom, how) /\ Differ(a, b) -> Error(ErrorDenomDiff)
       [] OTHER -> IF Valid(product)
                   THEN gnc_numeric_convert(product, to, how)
                   ELSE Error(ErrorOverflow)

\* Of magnitudes; common factors are removed only if both products are big.
Ratio(x, y) ==
  LET rx == gnc_numeric_reduce(x)
      ry == gnc_numeric_reduce(y)
      fn == Gcf(rx.num, ry.num)
      fd == Gcf(ry.denom, rx.denom)
      n  == Mult128(x.num, y.denom)
      d  == Mult128(y.num, x.denom)
  IN IF Big(n) /\ Big(d)
     THEN << Mult128(rx.num \div fn, ry.denom \div fd), Mult128(ry.num \div fn, rx.denom \div fd) >>
     ELSE << n, d >>

Quotient(r, rnd) ==
  LET reduced == Reduce128(r[1], r[2].mag)
  IN CASE ~Big(r[1]) /\ ~Big(r[2]) -> Num(r[1].mag, r[2].mag)
       [] Big(r[1]) /\ ~Big(r[2]) /\ Valid(reduced) -> reduced
       [] OTHER -> IF rnd = "never" THEN Error(ErrorOverflow) ELSE Shifted(r[1], r[2])

Divide(x, y, rnd) ==
  LET sign == SignOf(x.num) * SignOf(y.num)
      q == Quotient(Ratio(Num(Size(x.num), x.denom), Num(Size(y.num), y.denom)), rnd)
  IN IF x.denom = y.denom THEN Num(SignOf(y.num) * x.num, Size(y.num))
     ELSE IF Valid(q) THEN Num(sign * q.num, q.denom) ELSE Error(ErrorOverflow)

gnc_numeric_div(a, b, denom, how) ==
  CASE ~Valid(a) \/ ~Valid(b) -> Error(ErrorArg)
    [] Valid(a) /\ Valid(b) /\ Fixed(denom, how) /\ a.denom # b.denom -> Error(ErrorDenomDiff)
    [] Valid(a) /\ Valid(b) /\ ~(Fixed(denom, how) /\ a.denom # b.denom) /\ b.num = 0 ->
         Error(ErrorArg)
    [] OTHER ->
         LET q  == Divide(Whole(a), Whole(b), how.rnd)
             to == LcdTo(Whole(a), Whole(b), FixedTo(a, b, denom, how), how)
         IN IF Valid(q) THEN gnc_numeric_convert(q, to, how) ELSE q

Operations == {"add", "sub", "mul", "div"}
Apply(op, a, b, denom, how) ==
  CASE op = "add" -> gnc_numeric_add(a, b, denom, how)
    [] op = "sub" -> gnc_numeric_sub(a, b, denom, how)
    [] op = "mul" -> gnc_numeric_mul(a, b, denom, how)
    [] op = "div" -> gnc_numeric_div(a, b, denom, how)
-----------------------------------------------------------------------------
(* gnc_numeric_to_decimal: factors of 2 and 5 are made up to powers of 10. *)
Decimal(ok, a, places) == [ok |-> ok, num |-> a, places |-> places]

\* One more place: fraction is what is left of the denominator.
OnePlace(s) ==
  LET last == s.fraction % 10
      times(k) == gnc_numeric_mul(s.num, Num(k, k), DenomAuto, How("exact", "never"))
      made(c, by) == [num |-> c, fraction |-> s.fraction \div by, places |-> s.places + 1,
                      ok |-> Valid(c)]
  IN CASE s.fraction = 1 \/ ~s.ok -> s
       [] s.fraction # 1 /\ s.ok /\ last = 0 -> made(s.num, 10)
       [] s.fraction # 1 /\ s.ok /\ last = 5 -> made(times(2), 5)
       [] s.fraction # 1 /\ s.ok /\ last \in {2, 4, 6, 8} -> made(times(5), 2)
       [] OTHER -> [s EXCEPT !.ok = FALSE]

\* No more than Bits times, for each place at least halves what is left.
MadeDecimal(a) ==
  LET start == [num |-> a, fraction |-> a.denom, places |-> 0, ok |-> TRUE]
      loop[n \in 0..Bits] == IF n = 0 THEN start ELSE OnePlace(loop[n - 1])
  IN loop[Bits]

\* Mutant: what is left of the denominator is not looked at.
ToDecimalUnchecked(a) ==
  LET made == MadeDecimal(a) IN Decimal(TRUE, made.num, made.places)

gnc_numeric_to_decimal(a) ==
  LET whole == gnc_numeric_convert(a, 1, How("exact", "never"))
      b == IF a.num = 0 THEN Num(0, 1) ELSE a
      made == MadeDecimal(b)
  IN CASE ~Valid(a) -> Decimal(FALSE, a, 0)
       [] Valid(a) /\ a.denom < 0 -> Decimal(Valid(whole), whole, 0)
       [] OTHER -> IF made.ok THEN Decimal(TRUE, made.num, made.places) ELSE Decimal(FALSE, a, 0)
=============================================================================
