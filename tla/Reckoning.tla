------------------------------ MODULE Reckoning ------------------------------
(***************************************************************************)
(* Two numbers, and what they come to under every operation, conversion    *)
(* and rounding of gnc-numeric.c: an operation keeps nothing, so a state   *)
(* is the two operands that it is given.                                   *)
(***************************************************************************)
EXTENDS Numeric

CONSTANTS
  Numerators, Denominators,   \* of the numbers that are reckoned with
  Targets                     \* denominators they are converted to

\* Machine integers; the least one, which has no negative, is left out.
ASSUME ReckoningAssumption ==
  /\ Numerators \subseteq (1 - Half)..(Half - 1)
  /\ Denominators \subseteq 1..(Half - 1)
  /\ Targets \subseteq ((1 - Half)..(Half - 1)) \ {0}

VARIABLE operands   \* two numbers, or none

Numbers == {Num(n, d) : n \in Numerators, d \in Denominators}
ReckonInit == operands \in {<<>>} \cup (Numbers \X Numbers)
ReckonSpec == ReckonInit /\ [][FALSE]_operands

-----------------------------------------------------------------------------
(* The reference: the arithmetic of fractions, of unbounded integers.      *)
Exact(op, a, b) ==
  CASE op = "add" -> Num(a.num * b.denom + b.num * a.denom, a.denom * b.denom)
    [] op = "sub" -> Num(a.num * b.denom - b.num * a.denom, a.denom * b.denom)
    [] op = "mul" -> Num(a.num * b.num, a.denom * b.denom)
    [] op = "div" -> Num(SignOf(b.num) * a.num * b.denom, Size(b.num) * a.denom)

Equal(a, b) == a.num * b.denom = b.num * a.denom

Tens[n \in 0..Bits] == IF n = 0 THEN 1 ELSE 10 * Tens[n - 1]

\* The whole numbers that are nearest to n over d, d > 0, one or two of them
Nearest(n, d) ==
  LET near == {n \div d, -((-n) \div d)}
      off(k) == Size(n - k * d)
  IN {k \in near : \A j \in near : off(k) <= off(j)}
RoundedTo(n, d, rnd) ==
  LET low == n \div d
      high == -((-n) \div d)
      towardsZero(S) == CHOOSE k \in S : \A j \in S : Size(k) <= Size(j)
      awayFromZero(S) == CHOOSE k \in S : \A j \in S : Size(k) >= Size(j)
      even(S) == {k \in S : k % 2 = 0}
  IN CASE rnd = "floor"     -> low
       [] rnd = "ceil"      -> high
       [] rnd = "trunc"     -> towardsZero({low, high})
       [] rnd = "promote"   -> awayFromZero({low, high})
       [] rnd = "half down" -> towardsZero(Nearest(n, d))
       [] rnd = "half up"   -> awayFromZero(Nearest(n, d))
       [] rnd = "round"     -> IF Cardinality(Nearest(n, d)) = 2
                               THEN CHOOSE k \in even(Nearest(n, d)) : TRUE
                               ELSE CHOOSE k \in Nearest(n, d) : TRUE

-----------------------------------------------------------------------------
(* Where the code is known to go wrong: operands that its authors' remarks *)
(* except ("BUG: overflow not handled"), and three that nobody mentions.   *)

\* Numerators over the same denominator are added as they are.
SumFits(op, a, b) ==
  op \in {"add", "sub"} /\ a.denom = b.denom =>
    Size(IF op = "add" THEN a.num + b.num ELSE a.num - b.num) < Half

\* A fraction whose numerator is too big, which is then reduced, with a multiple
\* of Half between the numerator and the next lower multiple of the denominator
InLowestTerms(op, a, b) ==
  CASE op = "mul" -> LET c == IF TooBig(a, b) THEN CrossReduced(a, b) ELSE <<a, b>>
                     IN << Mult128(c[1].num, c[2].num), Mult128(c[1].denom, c[2].denom) >>
    [] op = "div" -> Ratio(Num(Size(a.num), a.denom), Num(Size(b.num), b.denom))
    [] OTHER      -> << Mult128(0, 1), Mult128(1, 1) >>
Fits(f) == ~Big(f[1]) /\ ~Big(f[2])
Straddles(f) == Big(f[1]) /\ ~Big(f[2]) /\ Rem128(f[1], f[2].mag) # f[1].mag % f[2].mag

\* The error that gnc_numeric_lcd returns is taken for a denominator of -1.
NoLcd(a, b) == gnc_numeric_lcd(a, b) = ErrorArg

-----------------------------------------------------------------------------
(* "all results are exact": where no rounding is allowed, an operation on  *)
(* two numbers gives what the arithmetic of fractions gives, or an error,  *)
(* however its intermediate products overflow.                             *)
Exactly(op, a, b) ==
  \A type \in Denoms :
    \A r \in {Apply(op, a, b, DenomAuto, How(type, "never"))} :
      Valid(r) /\ (type = "lcd" => ~NoLcd(a, b)) =>
        r.denom > 0 /\ Equal(r, Exact(op, a, b))
ExactOrError ==
  operands # <<>> =>
    LET a == operands[1]
        b == operands[2]
    IN \A op \in Operations :
         /\ op = "div" => b.num # 0
         /\ SumFits(op, a, b) /\ ~Straddles(InLowestTerms(op, a, b))
         => Exactly(op, a, b)

(* A product is found whenever it has a representation at all, although    *)
(* only the operands are reduced and never the product.                    *)
ProductFound ==
  operands # <<>> =>
    LET a == operands[1]
        b == operands[2]
        p == gnc_numeric_reduce(Exact("mul", a, b))
    IN Size(p.num) < Half /\ p.denom < Half
       => Valid(gnc_numeric_mul(a, b, DenomAuto, How("exact", "never")))

(* A number that is made decimal has the same value and as many places as  *)
(* it says, if there is room for them.                                     *)
DecimalsAreExact ==
  operands # <<>> =>
    LET a == operands[1]
    IN \A d \in {gnc_numeric_to_decimal(a)} :
         LET tens == Tens[d.places]
             fits == Size(a.num) * tens < Half * a.denom /\ tens < Half
         IN d.ok => Equal(d.num, a) /\ (fits => d.num.denom = tens)

(* An operation that is given a denominator and a rounding rounds its      *)
(* exact result, once, and a conversion its argument, to the neighbour the *)
(* rule names, whatever the sign; or it gives an error.                    *)
IsRounded(r, exact, denom, rnd) ==
  LET n == IF denom > 0 THEN RoundedTo(exact.num * denom, exact.denom, rnd)
           ELSE RoundedTo(exact.num, exact.denom * (-denom), rnd)
  IN Valid(r) /\ Size(n) # Half => r = Num(n, denom)
RoundedOnce ==
  operands # <<>> =>
    LET a == operands[1]
        b == operands[2]
    IN \A denom \in Targets, rnd \in Roundings :
         /\ a.denom * Max({1, -denom}) < Quarter =>
              IsRounded(gnc_numeric_convert(a, denom, How("exact", rnd)), a, denom, rnd)
         /\ \A op \in Operations :
              /\ denom > 0 /\ Fits(InLowestTerms(op, a, b)) /\ SumFits(op, a, b)
              /\ (op = "div" => b.num # 0) /\ Exact(op, a, b).denom < Quarter
              => IsRounded(Apply(op, a, b, denom, How("exact", rnd)), Exact(op, a, b), denom, rnd)
=============================================================================
