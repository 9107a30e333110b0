------------------------------ MODULE FifoCost ------------------------------
(***************************************************************************)
(* What was sold cost: the oldest stock is used up first.  The calculator  *)
(* calculate_fifo_cost_aging tells the cost of a period for the profit of  *)
(* an analysis; the profit bridge computes the cost of each SKU once more, *)
(* in _fifo_period_costs, from the same rows.                              *)
(*                                                                         *)
(* Quantities are whole and unit costs are whole cents, so that no cost is *)
(* rounded.  Lots and outbound events are numbered as their ids sort.      *)
(***************************************************************************)
EXTENDS Integers, FiniteSetsExt

CONSTANTS
  Skus,
  Lots,        \* receipt lots, numbers
  Outbounds,   \* outbound events, numbers
  LastDay,     \* bound: days are counted up to this one
  Quantities,  \* of a lot or of an event
  UnitCost,    \* of each lot
  Ages,        \* 90 and 120 days
  Untold,     \* the value None of a metric
  Asked        \* no answer yet

ASSUME FifoAssumption ==
  /\ IsFiniteSet(Skus)
  /\ IsFiniteSet(Lots) /\ Lots \subseteq Nat
  /\ IsFiniteSet(Outbounds) /\ Outbounds \subseteq Nat
  /\ LastDay \in Nat \ {0} /\ Quantities \subseteq Nat /\ Ages \subseteq Nat
  /\ UnitCost \in [Lots -> Nat]
  /\ Untold \notin Nat /\ Untold # Asked

VARIABLES
  lot,     \* inventory_receipt_lot
  out,     \* outbound_event
  period,  \* the period that is asked for
  answer   \* what the calculator says

fifoVars == <<lot, out, period, answer>>

Days == 1..LastDay
Rows == [sku : Skus, day : Days, units : Quantities]
Periods == {p \in [start : Days, end : Days] : p.start <= p.end}

Before(rows, i, j) ==
  rows[i].day < rows[j].day \/ (rows[i].day = rows[j].day /\ i < j)
Latest(rows, set) == CHOOSE i \in set : \A j \in set \ {i} : Before(rows, j, i)

-----------------------------------------------------------------------------
(***************************************************************************)
(* The calculator                                                          *)
(***************************************************************************)

\* What came later than the day it is asked for is left out.
Held(end) == {l \in Lots : lot[l].day <= end}
Shipped(end) == {o \in Outbounds : out[o].day <= end}

Draw_AnyLot(o, state, l) ==   \* mutant: a lot that came later
  LET used == Min({state.need, state.left[l]})
  IN  [need |-> state.need - used, left |-> [state.left EXCEPT ![l] = @ - used],
       drawn |-> [state.drawn EXCEPT ![l] = used]]

\* One lot gives what it has to an event, if it was there.
Draw(o, state, l) ==
  LET used == IF lot[l].day > out[o].day THEN 0 ELSE Min({state.need, state.left[l]})
  IN  [need |-> state.need - used, left |-> [state.left EXCEPT ![l] = @ - used],
       drawn |-> [state.drawn EXCEPT ![l] = used]]

\* The inner loop: an event draws on a set of lots, one after the other.
Supply(o, left) ==
  LET after[set \in SUBSET Lots] ==
        IF set = {}
        THEN [need |-> out[o].units, left |-> left, drawn |-> [l \in Lots |-> 0]]
        ELSE LET l == Latest(lot, set) IN Draw(o, after[set \ {l}], l)
  IN  after

Own(set, o) == {l \in set : lot[l].sku = out[o].sku}

Serve(end, state, o) ==
  LET supplied == Supply(o, state.left)[Own(Held(end), o)]
  IN  [left |-> supplied.left,
       drawn |-> [state.drawn EXCEPT ![o] = supplied.drawn],
       uncovered |-> state.uncovered + supplied.need]

Untouched ==
  [left |-> [l \in Lots |-> lot[l].units],
   drawn |-> [o \in Outbounds |-> [l \in Lots |-> 0]], uncovered |-> 0]

\* The outer loop, over a set of events.
Allocation(end) ==
  LET after[set \in SUBSET Outbounds] ==
        IF set = {} THEN Untouched
        ELSE LET o == Latest(out, set) IN Serve(end, after[set \ {o}], o)
  IN  after

Allocated(end) == Allocation(end)[Shipped(end)]

CostOf(drawn) == SumFunction([l \in Lots |-> drawn[l] * UnitCost[l]])
Cost(allocated, events) == SumFunctionOnSet([o \in events |-> CostOf(allocated.drawn[o])], events)

InPeriod(p) == {o \in Outbounds : p.start <= out[o].day /\ out[o].day <= p.end}

\* Nothing is told of a period while any event up to its end is not covered.
Calculator(p) ==
  LET allocated == Allocated(p.end)
      covered == allocated.uncovered = 0 /\ Held(p.end) # {}
      told(events, value) == IF covered /\ events # {} THEN value ELSE Untold
  IN  [cogs |-> told(InPeriod(p), Cost(allocated, InPeriod(p))),
       stock |-> told(Shipped(p.end),
                      SumFunction([l \in Held(p.end) |-> allocated.left[l] * UnitCost[l]])),
       aged |-> [a \in Ages |->
                   told(Shipped(p.end),
                        SumFunctionOnSet(allocated.left,
                                         {l \in Held(p.end) : p.end - lot[l].day >= a}))],
       allocated |-> allocated]

-----------------------------------------------------------------------------
(***************************************************************************)
(* The profit bridge                                                       *)
(***************************************************************************)

\* The inner loop of _fifo_period_costs, with the lots of all days.
BridgeDraw(o, state, l) ==
  LET used == Min({state.need, state.left[l]})
  IN  IF lot[l].day > out[o].day \/ state.left[l] = 0
      THEN state
      ELSE [need |-> state.need - used, left |-> [state.left EXCEPT ![l] = @ - used],
            cost |-> state.cost + used * UnitCost[l]]

BridgeSupply(o, left) ==
  LET after[set \in SUBSET Lots] ==
        IF set = {}
        THEN [need |-> out[o].units, left |-> left, cost |-> 0]
        ELSE LET l == Latest(lot, set) IN BridgeDraw(o, after[set \ {l}], l)
  IN  after

\* The outer loop, over all events until the end of the period.
BridgeServe(p, state, o) ==
  LET next == BridgeSupply(o, state.left)[Own(Lots, o)]
      sold(row) ==
        [units |-> row.units + out[o].units - next.need, cost |-> row.cost + next.cost,
         complete |-> row.complete /\ next.need = 0]
  IN  [left |-> next.left,
       open |-> IF next.need # 0 THEN state.open \cup {out[o].sku} ELSE state.open,
       costs |-> IF p.start <= out[o].day
                 THEN [state.costs EXCEPT ![out[o].sku] = sold(@)]
                 ELSE state.costs]

BridgeCosts(p) ==
  LET after[set \in SUBSET Outbounds] ==
        IF set = {}
        THEN [left |-> [l \in Lots |-> lot[l].units], open |-> {},
              costs |-> [s \in Skus |-> [units |-> 0, cost |-> 0, complete |-> TRUE]]]
        ELSE LET o == Latest(out, set) IN BridgeServe(p, after[set \ {o}], o)
  IN  after

\* _fifo_period_costs: a SKU with an event that is not covered is not complete.
PeriodCosts(p) ==
  LET last == BridgeCosts(p)[Shipped(p.end)]
      found == {out[o].sku : o \in InPeriod(p)}
  IN  [s \in found |-> [last.costs[s] EXCEPT !.complete = @ /\ s \notin last.open]]

-----------------------------------------------------------------------------
FifoInit ==
  /\ lot = [l \in Lots |-> CHOOSE row \in Rows : TRUE]
  /\ out = [o \in Outbounds |-> CHOOSE row \in Rows : TRUE]
  /\ period = [start |-> 1, end |-> 1]
  /\ answer = Untold

\* The rows of a version, and a period of an analysis.
Read ==
  /\ answer = Untold
  /\ period' \in Periods
  /\ lot' \in [Lots -> Rows]
  /\ out' \in [Outbounds -> Rows]
  /\ answer' = Asked

Calculate ==
  /\ answer = Asked
  /\ answer' = Calculator(period)
  /\ UNCHANGED <<lot, out, period>>

FifoNext == Read \/ Calculate
FifoSpec == FifoInit /\ [][FifoNext]_fifoVars
-----------------------------------------------------------------------------
(***************************************************************************)
(* Properties                                                              *)
(***************************************************************************)
Told == answer \notin {Untold, Asked}
Units(rows, set) == SumFunctionOnSet([i \in set |-> rows[i].units], set)
DrawnFrom(l, events) ==
  SumFunctionOnSet([o \in events |-> answer.allocated.drawn[o][l]], events)
SoFar(o) == {e \in Outbounds : ~Before(out, o, e)}

\* What a SKU lacks at the worst moment: nothing that comes later makes up for it.
Short(s, end) ==
  Max({0} \cup
      {Units(out, {o \in Shipped(d) : out[o].sku = s})
         - Units(lot, {l \in Held(d) : lot[l].sku = s}) : d \in 1..end})

\* The calculator draws on a lot only when the older ones of its SKU are used up, and
\* never on one that had not come yet; every unit goes to one event or is left; and
\* what is not covered is what was lacking, day by day.
OldestFirst ==
  Told =>
    /\ \A o \in Outbounds, l \in Lots :
         answer.allocated.drawn[o][l] > 0 =>
           /\ o \in Shipped(period.end)
           /\ lot[l].sku = out[o].sku /\ lot[l].day <= out[o].day
           /\ \A m \in Lots :
                lot[m].sku = lot[l].sku /\ Before(lot, m, l) =>
                  DrawnFrom(m, SoFar(o)) = lot[m].units
    /\ \A l \in Lots :
         answer.allocated.left[l] + DrawnFrom(l, Outbounds) = lot[l].units
    /\ \A o \in Outbounds : SumFunction(answer.allocated.drawn[o]) <= out[o].units
    /\ answer.allocated.uncovered =
         SumFunction([s \in Skus |-> Short(s, period.end)])

\* The bridge finds the cost of each SKU that the calculator has in its total, and
\* a cost is unknown to both or to none, if the period has all events; and rows of
\* later days change nothing in what was told of an earlier period.
PeriodCostsAgree ==
  Told =>
    LET costs == PeriodCosts(period)
        complete == \A s \in DOMAIN costs : costs[s].complete
    IN  /\ answer.cogs # Untold =>
             /\ complete
             /\ answer.cogs = SumFunction([s \in DOMAIN costs |-> costs[s].cost])
        /\ InPeriod(period) = Shipped(period.end) /\ DOMAIN costs # {}
             /\ Held(period.end) # {} /\ complete
             => answer.cogs # Untold
        /\ \A d \in 1..(period.end - 1) : \A o \in Shipped(d), l \in Lots :
             Allocated(d).drawn[o][l] = answer.allocated.drawn[o][l]

\* Stock is used and valued oldest first, whoever asks and for which period
\* (fifo_cost_aging_calculator.py:67-122, profit_bridge_service.py:548-606).
CostsFollowLots == OldestFirst /\ PeriodCostsAgree
=============================================================================
