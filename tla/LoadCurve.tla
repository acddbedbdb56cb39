----------------------------- MODULE LoadCurve ------------------------------
(***************************************************************************)
(* warpper/curve.py: the load curve of a burn, one period long, linear     *)
(* between its points and wrapping around at the ends.  Abscissae and      *)
(* times are counted in one unit, Period of which make a period; ordinates *)
(* in one of which Full make 100 %.                                        *)
(***************************************************************************)
EXTENDS Integers, Sequences

CONSTANTS Period, Full

ASSUME CurveAssumption == Period \in Nat \ {0} /\ Full \in Nat \ {0}

\* The rows from_csv accepts.
Accepted(rows) ==
  /\ rows \in Seq([x : 0..Period, y : Int])
  /\ Len(rows) >= 2
  /\ \A i, j \in DOMAIN rows : i < j => rows[i].x < rows[j].x

Clamp(y) == IF y < 0 THEN 0 ELSE IF y > Full THEN Full ELSE y

FromCsv(rows) ==
  [i \in DOMAIN rows |-> [x |-> rows[i].x, y |-> Clamp(rows[i].y)]]

Interpolate(x, left, right) ==
  left.y + ((right.y - left.y) * (x - left.x)) \div (right.x - left.x)

\* Mutant: the neighbour on the left of the first point is not moved.
LeftOf_mutant(c, f) ==
  IF f < c[1].x THEN c[Len(c)]
  ELSE c[CHOOSE i \in DOMAIN c :
           c[i].x <= f /\ \A j \in DOMAIN c : c[j].x <= f => j <= i]

\* The neighbours of f: before the first and after the last point they are
\* the last point a period earlier and the first one a period later.
LeftOf(c, f) ==
  IF f < c[1].x THEN [x |-> c[Len(c)].x - Period, y |-> c[Len(c)].y]
  ELSE c[CHOOSE i \in DOMAIN c :
           c[i].x <= f /\ \A j \in DOMAIN c : c[j].x <= f => j <= i]

RightOf(c, f) ==
  IF f > c[Len(c)].x THEN [x |-> c[1].x + Period, y |-> c[1].y]
  ELSE c[CHOOSE i \in DOMAIN c :
           c[i].x > f /\ \A j \in DOMAIN c : c[j].x > f => i <= j]

\* value_at_fraction
ValueAt(c, f) ==
  IF \E i \in DOMAIN c : c[i].x = f
  THEN c[CHOOSE i \in DOMAIN c : c[i].x = f].y
  ELSE Interpolate(f, LeftOf(c, f), RightOf(c, f))

\* value_at_elapsed
ValueAtElapsed(c, elapsed) == ValueAt(c, elapsed % Period)
=============================================================================
