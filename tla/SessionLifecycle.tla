------------------------- MODULE SessionLifecycle -------------------------
(***************************************************************************)
(* What the sessions part of the service promises about one session id,   *)
(* whatever requests and background goroutines run at the same time.      *)
(* An id is issued once, its key may come and go while some write of it   *)
(* is under way, and once the key is gone with no write under way the     *)
(* session is over for good.                                              *)
(***************************************************************************)
CONSTANT SessionID

VARIABLE phase   \* phase[s]: where session s stands

(* "unissued" : uuid.NewString has not returned this id yet                *)
(* "pending"  : the key is absent but some goroutine is about to SET it    *)
(* "live"     : the key is present                                         *)
(* "ended"    : the key is absent and nobody is about to SET it            *)
Phase == {"unissued", "pending", "live", "ended"}

(* The phase changes that may happen to a session in one step. "ended" has *)
(* no successor.                                                           *)
Moves == {<<"unissued", "pending">>, <<"pending", "live">>,
          <<"pending", "ended">>, <<"live", "pending">>, <<"live", "ended">>}

Init == phase = [s \in SessionID |-> "unissued"]

Next == /\ phase' \in [SessionID -> Phase]
        /\ \A s \in SessionID :
              \/ phase'[s] = phase[s]
              \/ <<phase[s], phase'[s]>> \in Moves

Spec == Init /\ [][Next]_phase
===========================================================================
