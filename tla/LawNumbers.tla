----------------------------- MODULE LawNumbers -----------------------------
(* The numbers of the control laws.  The floats of the code are residues    *)
(* modulo a prime, each written as the representative nearest to zero:      *)
(* every operation is exact and defined, none overflows, and two            *)
(* expressions that agree on enough residues are one expression.  Rounding  *)
(* is left out; the order is that of the representatives.  The functions of *)
(* the mathematical library stand for themselves, as fixed functions whose  *)
(* values neither law knows anything about.  Time is in milliseconds, and   *)
(* the unit factors both laws write alike (1e-3, 2 pi, the quarters of the  *)
(* persistent profile) are left out.                                        *)
EXTENDS Integers

CONSTANTS
    Prime,          \* of the residues
    XWatch,         \* MG_X_WATCH and X_WATCH: a state beyond it trips the watchdog
    VarthetaWatch,  \* MG_VARTHETA_WATCH and VARTHETA_WATCH, for the gain
    SatPersist      \* MG_SAT_PERSIST and SAT_PERSIST_UPDATES, for saturated ticks

ASSUME NumbersAssumption ==
    /\ {XWatch, VarthetaWatch, SatPersist} \subseteq Nat
    /\ Prime \in Nat /\ Prime > 2 /\ \A n \in 2 .. Prime - 1 : Prime % n # 0

Half == Prime \div 2
Num(n) == ((n + Half) % Prime) - Half

Reciprocal ==
    [n \in -Half .. Half |->
        IF n = 0 THEN 0 ELSE CHOOSE m \in -Half .. Half : Num(m * n) = 1]
Over(a, b) == Num(Num(a) * Reciprocal[Num(b)])

Magnitude(n) == IF n < 0 THEN -n ELSE n
Sign(n) == IF n = 0 THEN 0 ELSE IF n > 0 THEN 1 ELSE -1
Least(a, b) == IF a <= b THEN a ELSE b
AtLeast(a, b) == IF a >= b THEN a ELSE b
Clip(n, limit) == IF n > limit THEN limit ELSE IF n < -limit THEN -limit ELSE n

\* tanh, exp, sin and x to the power y.
Tanh(n) == Num(n * n * n + 5 * n)
Exp(n) == Num(3 * n * n + 7 * n + 1)
Sin(n) == Num(2 * n * n * n + 11 * n)
Power(x, y) == Num(x * (x + 2 * y + 1))

Coordinates == 1 .. 2
=============================================================================
