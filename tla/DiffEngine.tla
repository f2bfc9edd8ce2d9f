------------------------------- MODULE DiffEngine -------------------------------
(****************************************************************************)
(* internal/reconcile: the comparison of what the system recorded with what *)
(* the customer reported, slot by slot, a slot being a device on a day.     *)
(* A side is a function from the slots to what aggregate makes of its       *)
(* inputs: whether there was one, and the sum of the hours.                 *)
(*                                                                          *)
(* Hours are decimals with any number of digits.  Finitely many of them are *)
(* integers in a unit that is fine enough, and they are counted in one of   *)
(* which Scale make 0.0001 hours, the place the summary is rounded to.      *)
(****************************************************************************)
EXTENDS Integers, FiniteSets, FiniteSetsExt

CONSTANTS
  Slots,  \* devices on days
  Scale   \* units of hours in 0.0001 hours

ASSUME SlotsAssumption == IsFiniteSet(Slots)
ASSUME ScaleAssumption == Scale \in Nat \ {0}

PairKind == {"matched", "over_reported", "under_reported", "system_only", "customer_only"}

(* inputs is a set of records with a slot, hours and whatever makes it      *)
(* different from the others.                                               *)
aggregate(inputs) ==
  [s \in Slots |->
     LET there == {e \in inputs : e.slot = s} IN
     [present |-> there # {}, hours |-> MapThenSumSet(LAMBDA e : e.hours, there)]]

(* Mutant: a day without hours counts as not reported.                      *)
KindByHours(system, customer, s) ==
  LET delta == customer[s].hours - system[s].hours IN
  CASE system[s].hours = 0 -> "customer_only"
    [] system[s].hours # 0 /\ customer[s].hours = 0 -> "system_only"
    [] OTHER -> IF delta = 0 THEN "matched"
                ELSE IF delta > 0 THEN "over_reported" ELSE "under_reported"

Kind(system, customer, s) ==
  LET delta == customer[s].hours - system[s].hours IN
  CASE ~system[s].present -> "customer_only"
    [] system[s].present /\ ~customer[s].present -> "system_only"
    [] OTHER -> IF delta = 0 THEN "matched"
                ELSE IF delta > 0 THEN "over_reported" ELSE "under_reported"

(* A side that is absent has no hours.                                      *)
Delta(system, customer, s) == customer[s].hours - system[s].hours

(* Round(4) of decimal: the nearest multiple of 0.0001, of two the one      *)
(* farther from zero.                                                       *)
Round4(x) ==
  LET up(n) == Scale * ((2 * n + Scale) \div (2 * Scale))
  IN IF x >= 0 THEN up(x) ELSE -up(-x)

(* Mutant: each delta is rounded, and then they are added up.               *)
DiffRoundsEach(systemIn, customerIn) ==
  LET system == aggregate(systemIn)
      customer == aggregate(customerIn)
      keys == {s \in Slots : system[s].present \/ customer[s].present}
  IN [pairs |-> [s \in keys |-> [kind |-> Kind(system, customer, s),
                                 delta |-> Delta(system, customer, s)]],
      total_delta |-> MapThenSumSet(LAMBDA s : Round4(Delta(system, customer, s)), keys),
      has_conflict |-> \E s \in keys :
        Kind(system, customer, s) \in {"over_reported", "under_reported"}]

(* The diff of two lists of inputs, with its summary: the total is rounded, *)
(* the deltas of the pairs are not.                                         *)
Diff(systemIn, customerIn) ==
  LET system == aggregate(systemIn)
      customer == aggregate(customerIn)
      keys == {s \in Slots : system[s].present \/ customer[s].present}
  IN [pairs |-> [s \in keys |-> [kind |-> Kind(system, customer, s),
                                 delta |-> Delta(system, customer, s)]],
      total_delta |-> Round4(MapThenSumSet(LAMBDA s : Delta(system, customer, s), keys)),
      has_conflict |-> \E s \in keys :
        Kind(system, customer, s) \in {"over_reported", "under_reported"}]
================================================================================
