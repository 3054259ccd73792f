------------------------ MODULE MCDashboardSession ------------------------
(* DashboardSession over two possible contents of a round.  They differ in *)
(* a zone and its only finding, of a network found in the other zone too;  *)
(* two findings are at one place, and all signal categories occur.         *)
EXTENDS DashboardSession

CONSTANTS n1, n2, n3

Finding(zone, network, place, signal) ==
    [zone |-> zone, network |-> network, place |-> place, signal |-> signal]

Three == <<Finding(1, n1, 1, "weak"), Finding(1, n2, 1, "medium"), Finding(1, n3, 2, "strong")>>
MCContents ==
    {[zones |-> {1, 2}, findings |-> Three \o <<Finding(2, n1, 3, "weak")>>],
     [zones |-> {1}, findings |-> Three]}

MCStagedFilters == {[zones |-> {2}, signals |-> {}], [zones |-> {}, signals |-> {"weak"}]}
===========================================================================
