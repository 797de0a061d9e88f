------------------------------ MODULE MCStartup ------------------------------
(* A link of the kernel whose addresses reach into every descriptor field. *)
EXTENDS Startup

MCHandlerAddress ==
    [divide_error |-> {4, 17, 33}, breakpoint |-> {5, 17, 33}, invalid_opcode |-> {4, 18, 33},
     double_fault |-> {4, 17, 34}, general_protection |-> {15, 16, 32},
     page_fault |-> {4, 31, 46}, timer |-> {6, 17}, keyboard |-> {6, 18},
     unhandled_irq |-> {7, 33}]
MCTssAddress == {4, 23, 24, 31, 32, 46}
=============================================================================
