------------------------------- MODULE MCApps -------------------------------
(* Apps with two releases of one app and one of another.                    *)
EXTENDS Apps

Three      == {"a1", "a2", "b1"}
AppOfThree == [r \in Three |-> IF r = "b1" THEN "b" ELSE "a"]
Tasks3 == [a1 |-> {"x"}, a2 |-> {"x", "y"}, b1 |-> {"z"}]
Updated == {<<"a1", "a2">>}
NoneOrUpdated == Updated \cup {<<None, None>>}
=============================================================================
