---------------------------- MODULE ArmorAssociation ----------------------------
(***************************************************************************)
(* Which detected armours and light bars belong to which armour slots of   *)
(* the tracked vehicle in one frame (armor_predictor.cpp, Associate,       *)
(* AssociateLightbars, SelectLightOnlyPairs).                              *)
(*                                                                         *)
(* Image geometry is reduced to what it decides: an armour has a cost for  *)
(* every visible slot it can be compared with, a light bar a cost for      *)
(* every bar it matches within the gates, and the bars of other            *)
(* observations it duplicates.                                             *)
(***************************************************************************)
EXTENDS Naturals, FiniteSets, FiniteSetsExt, Sequences

Slots == 0 .. 3
Sides == {"LEFT", "RIGHT"}

\* A light bar of the vehicle: one side of one slot.
Bar == Slots \X Sides

\* cost: the visible slots with a finite cost; pnp: its pose was solved.
IsArmor(a, labels) ==
  /\ a.label \in labels
  /\ a.pnp \in BOOLEAN
  /\ DOMAIN a.cost \subseteq Slots
  /\ \A s \in DOMAIN a.cost : a.cost[s] \in Nat

\* cost: the bars whose gates the detection passes; near: the sides of detected
\* armours (by index) the detection lies upon.
IsLight(l, armors) ==
  /\ DOMAIN l.cost \subseteq Bar
  /\ \A b \in DOMAIN l.cost : l.cost[b] \in Nat
  /\ l.near \subseteq (DOMAIN armors) \X Sides

-----------------------------------------------------------------------------
(* A matching is a set of pairs <<row, column>> in which no row and no     *)
(* column occurs twice.                                                    *)

Injective(m) == \A p, q \in m : p # q => p[1] # q[1] /\ p[2] # q[2]

Cost(rows, m) == MapThenSumSet(LAMBDA p : rows[p[1]].cost[p[2]], m)

\* More pairs first, then the lower total cost.
Better(rows, m, n) ==
  \/ Cardinality(m) > Cardinality(n)
  \/ Cardinality(m) = Cardinality(n) /\ Cost(rows, m) < Cost(rows, n)

Best(rows, matchings) ==
  {m \in matchings : \A n \in matchings : ~Better(rows, n, m)}

\* The armours of one label among the visible slots, at most gate apart.  The
\* recursive search tries every matching and keeps the first of the best.
Associate(armors, candidates, visible, gate) ==
  LET near == {p \in candidates \X visible :
                 p[2] \in DOMAIN armors[p[1]].cost /\ armors[p[1]].cost[p[2]] <= gate}
  IN Best(armors, {m \in SUBSET near : Injective(m)})

-----------------------------------------------------------------------------
(* Light bars, once the armours are matched. *)

\* The bars the matched armours already measure.
Occupied(match) == {<<p[2], side>> : p \in match, side \in Sides}

Duplicates(lights, match) ==
  {i \in DOMAIN lights : \E p \in match, side \in Sides : <<p[1], side>> \in lights[i].near}

\* The bars of matched armours stay candidates.
FreeBars_All(visible, match) == visible \X Sides

FreeBars(visible, match) == (visible \X Sides) \ Occupied(match)

\* One row of the dynamic program.  table gives, for each set of bars in use, the
\* cheapest matching of the rows so far that uses exactly these bars.
Ways(lights, bars, row, table, used) ==
  (IF used \in DOMAIN table THEN {table[used]} ELSE {}) \cup
  {table[used \ {b}] \cup {<<row, b>>} :
     b \in {c \in DOMAIN lights[row].cost \cap bars \cap used :
              used \ {c} \in DOMAIN table}}

Reached(lights, bars, row, table) ==
  DOMAIN table \cup
  {used \cup {b} : used \in DOMAIN table, b \in DOMAIN lights[row].cost \cap bars}

\* A matching found later replaces a cheaper one.
Relax_Overwrites(lights, bars, row, table) ==
  [used \in Reached(lights, bars, row, table) |->
     LET ways == Ways(lights, bars, row, table, used)
     IN CHOOSE m \in ways : \A n \in ways : Cost(lights, m) >= Cost(lights, n)]

Relax(lights, bars, row, table) ==
  [used \in Reached(lights, bars, row, table) |->
     LET ways == Ways(lights, bars, row, table, used)
     IN CHOOSE m \in ways : \A n \in ways : Cost(lights, m) <= Cost(lights, n)]

LightMatch(lights, bars, duplicates) ==
  LET table[n \in 0 .. Len(lights)] ==
        IF n = 0 THEN [used \in {{}} |-> {}]
        ELSE IF n \in duplicates THEN table[n - 1]
        ELSE Relax(lights, bars, n, table[n - 1])
      final == table[Len(lights)]
      best == CHOOSE used \in DOMAIN final :
                \A other \in DOMAIN final : ~Better(lights, final[other], final[used])
  IN final[best]

AssociateLightbars(lights, visible, match) ==
  LightMatch(lights, FreeBars(visible, match), Duplicates(lights, match))

\* Every matched bar counts.
SelectLightOnlyPairs_All(match) == match

\* Without an armour only the slots seen with both bars count.
SelectLightOnlyPairs(match) ==
  {p \in match : \A side \in Sides : \E q \in match : q[2] = <<p[2][1], side>>}
=============================================================================
