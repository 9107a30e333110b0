---------------------------- MODULE ProfitBridge ----------------------------
(***************************************************************************)
(* Why the contribution profit of two periods differs: build_profit_bridge *)
(* over what ProfitBridgeService makes of the rows of each period, and the *)
(* profit that calculate_operating_profit makes of the same rows.          *)
(*                                                                         *)
(* Amounts are whole cents.  What is per unit is counted in parts of a     *)
(* cent, Parts to the cent, where Parts is a multiple of every quantity it *)
(* is divided by: a division is then exact, as it is in the code for the   *)
(* quantities of the small instances, and only _money rounds.              *)
(***************************************************************************)
EXTENDS Integers, FiniteSets, Functions

CONSTANTS
  SkuIds,       \* numbers, as their ids sort
  Lines,      \* what a period may have of a SKU: units, revenue, cogs, shipped
  Drivers,    \* the other drivers: advertising, refunds, ..., fx
  Effects,    \* of a driver on the profit of a period, signed
  Parts,      \* parts of a cent
  Tolerance,  \* CENT, in cents
  Unknown,    \* the value None
  NoRows      \* a period without rows of a SKU

\* The drivers that are computed from the lines of the SKUs.
Valued == {"volume", "price_discount", "mix", "cogs"}

ASSUME BridgeAssumption ==
  /\ SkuIds \subseteq Nat /\ Parts \in Nat \ {0} /\ Tolerance \in Nat
  /\ IsFiniteSet(SkuIds) /\ IsFiniteSet(Drivers) /\ Drivers \cap Valued = {}
  /\ Effects \subseteq Int \cup {Unknown} /\ Unknown \notin Int
  /\ \A line \in Lines :
       /\ DOMAIN line = {"units", "revenue", "cogs", "shipped"}
       /\ {line.units, line.revenue, line.shipped} \subseteq Nat
       /\ line.cogs \in Nat \cup {Unknown}
       /\ line.units # 0 => Parts % line.units = 0

VARIABLES
  base,    \* the baseline period
  now,     \* the current period
  bridge   \* what is answered

bridgeVars == <<base, now, bridge>>

PeriodData ==
  [lines : [SkuIds -> Lines \cup {NoRows}], effects : [Drivers -> Effects]]

Nothing == [lines |-> [s \in SkuIds |-> NoRows], effects |-> [d \in Drivers |-> Unknown]]

Sold(p) == {s \in SkuIds : p.lines[s] # NoRows}
Known(values) == Unknown \notin values

\* Each of these is unknown if one of its parts is.
Minus(a, b) == IF Known({a, b}) THEN a - b ELSE Unknown
Total(amounts) == IF Known(Range(amounts)) THEN SumFunction(amounts) ELSE Unknown

\* _money: to the cent, half a cent away from zero.
Money(x) ==
  LET cents(y) == (2 * y + Parts) \div (2 * Parts)
  IN  IF x = Unknown THEN Unknown ELSE IF x < 0 THEN -cents(-x) ELSE cents(x)

-----------------------------------------------------------------------------
(***************************************************************************)
(* A period                                                                *)
(***************************************************************************)

\* calculate_operating_profit: all the revenue less all the cost.
Contribution(p) ==
  LET sold == Total([s \in Sold(p) |-> Minus(p.lines[s].revenue, p.lines[s].cogs)])
      rest == Total(p.effects)
  IN  IF Sold(p) # {} /\ Known({sold, rest}) THEN sold + rest ELSE Unknown

\* _profit_period: the cost of a SKU counts only if what was shipped is what was sold.
Sku(line) ==
  LET each(amount) == IF line.units = 0 THEN Unknown ELSE (Parts * amount) \div line.units
  IN  [units |-> line.units,
       revenue |-> each(line.revenue),
       cogs |-> IF line.cogs = Unknown \/ line.shipped # line.units
                THEN Unknown ELSE each(line.cogs)]

-----------------------------------------------------------------------------
(***************************************************************************)
(* The bridge                                                              *)
(***************************************************************************)
Margin(sku) == Minus(sku.revenue, sku.cogs)
References == {s \in Sold(base) : Margin(Sku(base.lines[s])) # Unknown}

\* _nearest_baseline: the nearest price, the first id among equals.
Nearest(sku) ==
  LET distance(s) ==
        LET d == Sku(base.lines[s]).revenue - sku.revenue IN IF d < 0 THEN -d ELSE d
  IN  CHOOSE s \in References :
        \A t \in References \ {s} :
          distance(s) < distance(t) \/ (distance(s) = distance(t) /\ s < t)

\* A SKU without a baseline sold nothing, at the price of another one.
Base(s) ==
  IF s \in Sold(base) THEN Sku(base.lines[s])
  ELSE LET sku == Sku(now.lines[s]) IN
       IF sku.revenue = Unknown \/ References = {}
       THEN [units |-> 0, revenue |-> Unknown, cogs |-> Unknown]
       ELSE [Sku(base.lines[Nearest(sku)]) EXCEPT !.units = 0]

\* One that is not sold any more keeps its price.
Now(s) == IF s \in Sold(now) THEN Sku(now.lines[s]) ELSE [Base(s) EXCEPT !.units = 0]

Aligned == Sold(base) \cup Sold(now)
UnitsOf(row(_)) == SumFunction([s \in Aligned |-> row(s).units])

\* The margin of a unit of the baseline, over all SKUs.
WeightedMargin ==
  LET margin(s) == IF Base(s).units = 0 THEN 0
                   ELSE IF Margin(Base(s)) = Unknown THEN Unknown
                   ELSE Base(s).units * Margin(Base(s))
      all == Total([s \in Aligned |-> margin(s)])
  IN  IF UnitsOf(Base) = 0 \/ all = Unknown THEN Unknown ELSE all \div UnitsOf(Base)

Change(s) == Now(s).units - Base(s).units
Unpriced == {s \in Aligned : Margin(Base(s)) = Unknown}
MarginsMissing == WeightedMargin = Unknown \/ \E s \in Unpriced : Change(s) # 0

\* A SKU that is listed and sold nothing in either period has no margin to look up.
LookupFails == ~MarginsMissing /\ Unpriced # {}

Volume ==
  IF MarginsMissing THEN Unknown
  ELSE Money((UnitsOf(Now) - UnitsOf(Base)) * WeightedMargin)
Mix ==
  IF MarginsMissing THEN Unknown
  ELSE Money(Total([s \in Aligned |-> Change(s) * (Margin(Base(s)) - WeightedMargin)]))

SkuChange_OldUnits(field, sign) ==   \* mutant: at the quantities of the baseline
  LET part(s) == LET change == Minus(Now(s)[field], Base(s)[field])
                 IN  IF change = Unknown THEN Unknown ELSE sign * Base(s).units * change
  IN  Money(Total([s \in {s \in Aligned : Now(s).units # 0} |-> part(s)]))

\* _sku_change, at the quantities of the current period.
SkuChange(field, sign) ==
  LET part(s) == LET change == Minus(Now(s)[field], Base(s)[field])
                 IN  IF change = Unknown THEN Unknown ELSE sign * Now(s).units * change
  IN  Money(Total([s \in {s \in Aligned : Now(s).units # 0} |-> part(s)]))

\* The twelfth, the residual, is what they leave.
Amount(d) ==
  CASE d = "volume" -> Volume
    [] d = "price_discount" -> SkuChange("revenue", 1)
    [] d = "mix" -> Mix
    [] d = "cogs" -> SkuChange("cogs", -1)
    [] OTHER -> Minus(now.effects[d], base.effects[d])

Built ==
  LET names == Valued \cup Drivers
      amounts == [d \in names |-> Amount(d)]
      change == Minus(Contribution(now), Contribution(base))
      told == {d \in names : amounts[d] # Unknown}
      residual == Minus(change, SumFunctionOnSet(amounts, told))
  IN  [result |-> "built", amounts |-> amounts, change |-> change, residual |-> residual,
       reconciled |-> change # Unknown /\ told = names
                        /\ residual \in -Tolerance..Tolerance]

-----------------------------------------------------------------------------
NoBridge == [result |-> "none"]
Requested == [result |-> "requested"]
Failed == [result |-> "failed"]

BridgeInit == base = Nothing /\ now = Nothing /\ bridge = NoBridge

\* Both periods are read from one version; one without sales has no rows.
ReadPeriods ==
  /\ bridge = NoBridge
  /\ base' \in PeriodData
  /\ now' \in PeriodData
  /\ bridge' = Requested

BuildBridge ==
  /\ bridge = Requested
  /\ bridge' = IF LookupFails THEN Failed ELSE Built
  /\ UNCHANGED <<base, now>>

BridgeNext == ReadPeriods \/ BuildBridge
BridgeSpec == BridgeInit /\ [][BridgeNext]_bridgeVars
-----------------------------------------------------------------------------
(***************************************************************************)
(* Properties                                                              *)
(***************************************************************************)

\* No line has cost or revenue without a unit sold, to which the bridge is blind.
Plain(p) ==
  \A s \in Sold(p) :
    p.lines[s].units = 0 => p.lines[s].revenue = 0 /\ p.lines[s].cogs = 0

Complete ==
  /\ bridge.result = "built" /\ bridge.change # Unknown
  /\ \A d \in DOMAIN bridge.amounts : bridge.amounts[d] # Unknown
  /\ Plain(base) /\ Plain(now)

\* The drivers explain the whole change, of SKUs that are new or gone as well, at
\* whatever price these are assumed to have had: if no driver is unknown, nothing
\* is left but what the rounding of four of them comes to.
ResidualIsRounding ==
  Complete => bridge.residual \in -2..2

\* Two periods have a bridge, whatever of it is unknown: a SKU whose baseline has no
\* unit values leaves its amount in the residual, and does not stop the others.
BridgeIsBuilt == bridge # Failed
=============================================================================
