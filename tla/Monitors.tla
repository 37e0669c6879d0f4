------------------------------ MODULE Monitors ------------------------------
(***************************************************************************)
(* Monitors and positions, as both sides compute with them: the display    *)
(* package on the client and ClientManager on the server.  A position and  *)
(* a size have two axes, which the code treats alike.                      *)
(***************************************************************************)
EXTENDS Integers, Sequences, FiniteSetsExt

Axes == 1..2
Origin == [i \in Axes |-> 0]
Point == [Axes -> Int]
Size == [Axes -> Nat]
Monitor == [at : Point, size : Size, primary : BOOLEAN]

FarCorner(m) == [i \in Axes |-> m.at[i] + m.size[i]]

ContainsPoint(m, p) == \A i \in Axes : m.at[i] <= p[i] /\ p[i] < FarCorner(m)[i]

Centre(m) == [i \in Axes |-> m.at[i] + m.size[i] \div 2]

\* The members of a list that pass a test, in their order: the k-th is the one
\* at the position that has k - 1 such positions before it.
Pick(list, I) ==
  [k \in 1..Cardinality(I) |->
    list[CHOOSE i \in I : Cardinality({j \in I : j < i}) = k - 1]]
Only(list, Test(_)) == Pick(list, {i \in DOMAIN list : Test(list[i])})

-----------------------------------------------------------------------------
(* The primary monitor: the display package marks it, the server looks for *)
(* the mark first and for the origin next.                                 *)

MarkedPrimary(monitors) == {i \in DOMAIN monitors : monitors[i].primary}
AtOrigin(monitors) == {i \in DOMAIN monitors : monitors[i].at = Origin}

\* The least of the first set of indices that is not empty, or 1.
FirstOf(preferred, next) ==
  IF preferred # {} THEN Min(preferred) ELSE IF next # {} THEN Min(next) ELSE 1

DeterminePrimaryMonitor(monitors) ==
  [i \in DOMAIN monitors |->
    [monitors[i] EXCEPT !.primary = i = FirstOf(AtOrigin(monitors), {})]]

\* Requires monitors # <<>>, as every use does.
FindMainMonitor(monitors) == monitors[FirstOf(MarkedPrimary(monitors), AtOrigin(monitors))]

-----------------------------------------------------------------------------
(* The box around all monitors, and positions in it.                       *)

Bounds == [min : Point, max : Point]

\* The far edge is a bound too: a position may lie one past the last pixel.
CalculateTotalDisplayBounds(monitors) ==
  [min |-> [i \in Axes |-> Min({monitors[k].at[i] : k \in DOMAIN monitors})],
   max |-> [i \in Axes |-> Max({FarCorner(monitors[k])[i] : k \in DOMAIN monitors})]]

ConstrainCursorPosition(p, bounds) ==
  [i \in Axes |-> IF p[i] < bounds.min[i] THEN bounds.min[i]
                  ELSE IF p[i] > bounds.max[i] THEN bounds.max[i] ELSE p[i]]

Within(p, bounds) == \A i \in Axes : bounds.min[i] <= p[i] /\ p[i] <= bounds.max[i]

=============================================================================
