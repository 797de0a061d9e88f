------------------------------- MODULE MCBoot -------------------------------
(* Machines of nine pages, some in the firmware's hands; with a region array *)
(* of five entries, some final maps are longer than the array.              *)
EXTENDS Boot

Machine(services, reserved) ==
    [p \in 0 .. 8 |-> IF p \in services THEN "services"
                      ELSE IF p \in reserved THEN "reserved" ELSE "conventional"]

MCMachines == {Machine({}, {}), Machine({4}, {8}), Machine({3}, {1}), Machine(0 .. 8, {})}
=============================================================================
