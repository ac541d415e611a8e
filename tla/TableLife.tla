----------------------------- MODULE TableLife -----------------------------
(***************************************************************************)
(* The life of one table, as everybody who can see it may rely on it: it   *)
(* fills and empties seat by seat while it is open, locks with its last    *)
(* seat, and is played or cancelled with the seats it then has.  It is     *)
(* played at most once, and what is decided stays so unless somebody had   *)
(* asked, before, that it be cancelled.                                    *)
(***************************************************************************)
EXTENDS Integers, FiniteSets

CONSTANTS Players, TeamSize, None

Teams == {"A", "B"}

VARIABLES
  status,   \* None before the table is opened
  seats,    \* the side each player sits on, or None
  asked     \* somebody who saw the table undecided is about to cancel it

vars == <<status, seats, asked>>

On(team, s) == {p \in Players : s[p] = team}
Fits(s) == \A team \in Teams : Cardinality(On(team, s)) <= TeamSize
Full(s) == \A team \in Teams : Cardinality(On(team, s)) = TeamSize

Init ==
  /\ status \in {None, "PENDING"}
  /\ seats \in [Players -> Teams \cup {None}]
  /\ Fits(seats) /\ ~Full(seats)
  /\ ~asked

(* Somebody sits down or gets up.                                          *)
Move ==
  /\ status \in {None, "PENDING"}
  /\ \E p \in Players, side \in Teams \cup {None} :
       seats' = [seats EXCEPT ![p] = side]
  /\ Fits(seats')
  /\ status' = IF Full(seats') THEN "LOCKED" ELSE "PENDING"
  /\ UNCHANGED asked

Undecided == status \in {"PENDING", "LOCKED"}

Ask ==
  /\ Undecided
  /\ asked' = TRUE
  /\ UNCHANGED <<status, seats>>

(* The requests that asked have died.                                      *)
Forget ==
  /\ asked' = FALSE
  /\ UNCHANGED <<status, seats>>

Cancel ==
  /\ Undecided \/ asked
  /\ status' = "CANCELLED"
  /\ asked' => asked
  /\ UNCHANGED seats

Finish ==
  /\ status = "LOCKED"
  /\ status' = "FINISHED"
  /\ UNCHANGED <<seats, asked>>

Next == Move \/ Ask \/ Forget \/ Cancel \/ Finish
Spec == Init /\ [][Next]_vars
=============================================================================
