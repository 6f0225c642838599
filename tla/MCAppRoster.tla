---------------------------- MODULE MCAppRoster ----------------------------
(* Small instances of AppRoster: a box with nothing paired, one with an       *)
(* owner, and one with an owner, its watch and a second phone.                *)
EXTENDS AppRoster, TLC

Row(role, parent) == [role |-> role, epoch |-> 1, parent |-> parent]
Nobody == [d \in Devices |-> NoRow]

MCHouseholds ==
    {Nobody,
     [Nobody EXCEPT !["p"] = Row("owner", NoOne), !["q"] = Row("viewer", NoOne),
                    !["w"] = Row("watch", "p")]}
OnePhone == {Nobody, [Nobody EXCEPT !["p"] = Row("owner", NoOne)]}
=============================================================================
