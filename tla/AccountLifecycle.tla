-------------------------- MODULE AccountLifecycle --------------------------
(***************************************************************************)
(* What the service promises about one account id and its account_deleted  *)
(* message: no account disappears before the message is handed to the      *)
(* writer of the broker, and one that disappeared does not return under    *)
(* its id. An announced account may stay: the announcement comes before    *)
(* the commit, which may fail. The writer waits for no acknowledgement, so *)
(* nothing is promised of what the broker has.                             *)
(***************************************************************************)
CONSTANT AccountID

VARIABLE phase   \* phase[a]: where account a stands

(* "unborn"    : no row ever had this id                                    *)
(* "active"    : the row is there and no deletion of it was handed over     *)
(* "announced" : the row is there and a deletion of it was handed over      *)
(* "deleted"   : the row is gone                                            *)
Phase == {"unborn", "active", "announced", "deleted"}

Moves == {<<"unborn", "active">>, <<"active", "announced">>,
          <<"announced", "deleted">>}

Init == phase = [a \in AccountID |-> "unborn"]

Next == /\ phase' \in [AccountID -> Phase]
        /\ \A a \in AccountID : \/ phase'[a] = phase[a]
                                \/ <<phase[a], phase'[a]>> \in Moves

Spec == Init /\ [][Next]_phase
=============================================================================
