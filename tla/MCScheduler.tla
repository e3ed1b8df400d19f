---------------------------- MODULE MCScheduler ----------------------------
(* TLC instance of Scheduler: two versions of one unit and another unit, one *)
(* of the requests possibly bad; and requests of two, three and no items.    *)
EXTENDS Scheduler, TLC

CONSTANTS c1, c2, c3

MCWorkload ==
    [units : {c1 :> <<1>> @@ c2 :> <<1>> @@ c3 :> <<2>>}, bad : {{}, {c1}, {c3}}, safe : BOOLEAN, slots : {1, 2}]
        \cup [units : {c1 :> <<1, 2>> @@ c2 :> <<2>> @@ c3 :> <<3>>}, bad : {{}, {c2}}, safe : {TRUE}, slots : {1, 2}]
        \cup [units : {c1 :> <<1, 2, 3, 4>> @@ c2 :> <<>> @@ c3 :> <<3>>}, bad : {{}}, safe : {TRUE}, slots : {1, 2}]
=============================================================================
