---------------------------- MODULE MCFiberNode ----------------------------
(* A small instance of invoices and payments for TLC. *)
EXTENDS FiberNode, TLC

Decimal(units, scale) == [units |-> units, scale |-> scale]

\* "0.5", "1.50" (the cap of a payment, written differently), "10" (above it,
\* with fewer digits), "15" (beyond the range of base units, which only an
\* invoice gets to) and "0.005" (finer than the asset).
MCRequested == {Decimal(5, 1), Decimal(150, 2), Decimal(10, 0), Decimal(15, 0), Decimal(5, 3)}

MCCap        == "pay" :> Decimal(15, 1) @@ "create" :> Decimal(20, 0)
\* Two invoices of "10" do not fit one day.
MCDailyLimit == "pay" :> Decimal(2000, 2) @@ "create" :> Decimal(18, 0)

CallSymmetry == Permutations(Calls)
=============================================================================
