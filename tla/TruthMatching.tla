----------------------------- MODULE TruthMatching -----------------------------
(***************************************************************************)
(* Which detected armour shows which true armour of the simulation         *)
(* (simulation_evaluator.cpp, MatchDetectionsToTruth): the Hungarian       *)
(* algorithm with potentials, one step for each turn of its inner loops.   *)
(* Every detection (row) may be given one of the true armours or, in a     *)
(* column of its own making, none.  Column 0 stands for the row that is    *)
(* being placed.                                                           *)
(***************************************************************************)
EXTENDS Integers, FiniteSets, FiniteSetsExt

CONSTANTS
  MaxRows,   \* bound: detections
  MaxTruths, \* bound: true armours that are visible
  Prices     \* bound: costs of pairs whose shapes agree

Unmatched == 10
Forbidden == 1000
Infinity == 100000

VARIABLES
  problem, \* the detections, the true armours and the cost of every pair
  duals,   \* u and v, the potentials of rows and columns
  p, way,  \* the row of each column, and the column before it on the path
  search   \* the search for one row's place

vars == <<problem, duals, p, way, search>>

Rows == 1 .. problem.rows
Columns == 1 .. problem.truths + problem.rows
Reached == {0} \cup Columns

\* A pair is forbidden where team, label, overlap, centre or corners disagree.
Problems ==
  UNION {[rows : {r}, truths : {t}, cost : [(1 .. r) \X (1 .. t) -> Prices \cup {Forbidden}]] :
           r \in 1 .. MaxRows, t \in 1 .. MaxTruths}

CostOf(row, column) ==
  IF column <= problem.truths THEN problem.cost[<<row, column>>] ELSE Unmatched

\* The search begins at column 0, which holds the row.
Begin(row) ==
  [pc |-> "GROW", row |-> row, column |-> 0, used |-> {},
   min |-> [c \in Columns |-> Infinity]]

StartRow ==
  /\ search.pc = "ROW"
  /\ IF search.row > problem.rows
     THEN search' = [search EXCEPT !.pc = "DONE"] /\ UNCHANGED p
     ELSE search' = Begin(search.row) /\ p' = [p EXCEPT ![0] = search.row]
  /\ UNCHANGED <<problem, duals, way>>

\* Where two columns are equally near, the first is taken.
Nearest(min, open) ==
  CHOOSE c \in open : \A d \in open : min[c] < min[d] \/ (min[c] = min[d] /\ c <= d)

\* The potentials of the columns stay what they were.
Lowered_RowsOnly(used, delta) ==
  [u |-> [r \in Rows |-> IF r \in {p[c] : c \in used} THEN duals.u[r] + delta ELSE duals.u[r]],
   v |-> duals.v]

\* The tree of used columns comes nearer to the others by delta.
Lowered(used, delta) ==
  [u |-> [r \in Rows |-> IF r \in {p[c] : c \in used} THEN duals.u[r] + delta ELSE duals.u[r]],
   v |-> [c \in Reached |-> IF c \in used THEN duals.v[c] - delta ELSE duals.v[c]]]

\* One turn of the inner loop: the tree takes in its column, the other columns hear of
\* its row, and the nearest of them is next.  A free column ends the search.
Grow ==
  /\ search.pc = "GROW"
  /\ LET used == search.used \cup {search.column}
         open == Columns \ used
         row == p[search.column]
         current == [c \in open |-> CostOf(row, c) - duals.u[row] - duals.v[c]]
         closer == {c \in open : current[c] < search.min[c]}
         min == [c \in Columns |-> IF c \in closer THEN current[c] ELSE search.min[c]]
         next == Nearest(min, open)
         delta == min[next]
     IN /\ way' = [c \in Reached |-> IF c \in closer THEN search.column ELSE way[c]]
        /\ duals' = Lowered(used, delta)
        /\ search' = [search EXCEPT
             !.pc = IF p[next] = 0 THEN "FLIP" ELSE "GROW",
             !.used = used, !.column = next,
             !.min = [c \in Columns |-> IF c \in open THEN min[c] - delta ELSE min[c]]]
  /\ UNCHANGED <<problem, p>>

\* Back along the path every column gets the row of the one before it.
Flip ==
  /\ search.pc = "FLIP"
  /\ LET before == way[search.column]
     IN /\ p' = [p EXCEPT ![search.column] = p[before]]
        /\ search' = IF before # 0 THEN [search EXCEPT !.column = before]
                     ELSE [search EXCEPT !.pc = "ROW", !.row = @ + 1]
  /\ UNCHANGED <<problem, duals, way>>

\* A column beyond the true armours, or a pair that is as dear as none, is no match.
Matches ==
  {<<p[c], c>> : c \in {c \in 1 .. problem.truths :
                          p[c] # 0 /\ CostOf(p[c], c) < Unmatched}}

Init ==
  /\ problem \in Problems
  /\ duals = [u |-> [r \in Rows |-> 0], v |-> [c \in Reached |-> 0]]
  /\ p = [c \in Reached |-> 0]
  /\ way = [c \in Reached |-> 0]
  /\ search = [pc |-> "ROW", row |-> 1]

Next == StartRow \/ Grow \/ Flip

Spec == Init /\ [][Next]_vars

-----------------------------------------------------------------------------
(* Properties *)

\* The reference: every way to give detections their true armours.
Matchings ==
  LET pairs == {pair \in Rows \X (1 .. problem.truths) : problem.cost[pair] < Unmatched}
  IN {m \in SUBSET pairs : \A a, b \in m : a # b => a[1] # b[1] /\ a[2] # b[2]}

Total(m) ==
  MapThenSumSet(LAMBDA pair : problem.cost[pair], m) + Unmatched * (problem.rows - Cardinality(m))

\* No other way to match the detections costs less, counting those left without one.
MatchingIsOptimal ==
  search.pc = "DONE" =>
    /\ Matches \in Matchings
    /\ \A m \in Matchings : Total(Matches) <= Total(m)

\* Between two rows the potentials prove the places given so far: no column is nearer
\* to a placed row than its own, and every placed row has one.
PlacesAreProved ==
  search.pc = "ROW" =>
    \A r \in 1 .. search.row - 1 :
      \E c \in Columns :
        /\ p[c] = r
        /\ CostOf(r, c) = duals.u[r] + duals.v[c]
        /\ \A d \in Columns : CostOf(r, d) >= duals.u[r] + duals.v[d]
=============================================================================
