--------------------------- MODULE TableSessions ---------------------------
(***************************************************************************)
(* The handlers of one table as the database sees them: every request has  *)
(* a session of its own, reads at READ COMMITTED, and holds the match row  *)
(* (SELECT ... FOR UPDATE) from the moment it reads it until it commits or *)
(* rolls back.  What a session has loaded stays in its identity map: a     *)
(* second select of the same row, locking or not, does not refresh it.     *)
(* That matters to cancel_match alone, whose router loads the match before *)
(* cancel_and_refund locks it.                                             *)
(*                                                                         *)
(* One stake is the unit of money here, rake is left at its default of 0.  *)
(***************************************************************************)
EXTENDS Integers, FiniteSets

CONSTANTS
  Users,
  Sessions,   \* requests being served at once
  Groups,     \* who queues together: a party, or a player alone
  Creator,    \* who opened the table
  Size,       \* team_size
  None

Teams == {"A", "B"}
Undecided == {"PENDING", "LOCKED", "LIVE"}
Statuses == Undecided \cup {"FINISHED", "CANCELLED"}

ASSUME SessionAssumption ==
  /\ IsFiniteSet(Users) /\ Creator \in Users
  /\ Groups \subseteq SUBSET Users
  /\ Size \in Nat \ {0}
  /\ None \notin Users \cup Sessions \cup Teams \cup Statuses

VARIABLES
  status,   \* of the match row, as committed
  seat,     \* the side each user's committed seat is on, or None
  net,      \* what the table has brought each user so far, in stakes
  lock,     \* the session holding the match row
  pc,       \* how far each session's request is
  req,      \* the request: what is asked, for whom, and on which side
  view,     \* the status in the session's identity map, or None
  rows      \* the seats the session read

tableVars == <<status, seat, net>>
vars == <<status, seat, net, lock, pc, req, view, rows>>

SeatMaps == [Users -> Teams \cup {None}]
Requests ==
  [op : {"join"}, who : Groups, team : Teams]
    \cup [op : {"leave", "cancel"}, who : Groups, team : {None}]
    \cup [op : {"aborted", "settle", "live"}, who : {{}}, team : {None}]
NoRequest == [op |-> "none", who |-> {}, team |-> None]
NoSeats == [u \in Users |-> None]

TypeOK ==
  /\ status \in Statuses
  /\ seat \in SeatMaps
  /\ net \in [Users -> Int]
  /\ lock \in Sessions \cup {None}
  /\ pc \in [Sessions -> {"idle", "loaded", "ready", "locked", "read"}]
  /\ req \in [Sessions -> Requests \cup {NoRequest}]
  /\ view \in [Sessions -> Statuses \cup {None}]
  /\ rows \in [Sessions -> SeatMaps]

Seated(m) == {u \in Users : m[u] # None}
Side(m, team) == {u \in Users : m[u] = team}
Full(m) == \A team \in Teams : Cardinality(Side(m, team)) = Size

(* The table was just opened: its creator's group is on side A.            *)
Init ==
  /\ status = "PENDING"
  /\ \E g \in Groups :
       /\ Creator \in g /\ Cardinality(g) <= Size
       /\ seat = [u \in Users |-> IF u \in g THEN "A" ELSE None]
       /\ net = [u \in Users |-> IF u \in g THEN -1 ELSE 0]
  /\ lock = None
  /\ pc = [s \in Sessions |-> "idle"]
  /\ req = [s \in Sessions |-> NoRequest]
  /\ view = [s \in Sessions |-> None]
  /\ rows = [s \in Sessions |-> NoSeats]

Goto(s, label) == pc' = [pc EXCEPT ![s] = label]

----------------------------------------------------------------------------
(* A request arrives.  cancel_match (op "cancel") loads the match first;   *)
(* FACEIT's webhook reporting an abort (op "aborted") does not.            *)
Begin(s, r) ==
  /\ pc[s] = "idle"
  /\ req' = [req EXCEPT ![s] = r]
  /\ IF r.op = "cancel"
       THEN view' = [view EXCEPT ![s] = status] /\ Goto(s, "loaded")
       ELSE UNCHANGED view /\ Goto(s, "ready")
  /\ UNCHANGED <<tableVars, lock, rows>>

(* is_participant, a read of its own *)
CheckParticipant(s) ==
  /\ pc[s] = "loaded"
  /\ req[s].who \cap Seated(seat) # {}
  /\ Goto(s, "ready")
  /\ UNCHANGED <<tableVars, lock, req, view, rows>>

(* SELECT ... FOR UPDATE waits for the row and returns its latest version, *)
(* but an object the session already has keeps its attributes.             *)
Acquire_Unlocked(s) ==
  /\ pc[s] = "ready"
  /\ lock' = s
  /\ view' = [view EXCEPT ![s] = IF @ = None THEN status ELSE @]
  /\ Goto(s, "locked")
  /\ UNCHANGED <<tableVars, req, rows>>
Acquire(s) ==
  /\ pc[s] = "ready"
  /\ lock = None
  /\ lock' = s
  /\ view' = [view EXCEPT ![s] = IF @ = None THEN status ELSE @]
  /\ Goto(s, "locked")
  /\ UNCHANGED <<tableVars, req, rows>>

ReadSeats(s) ==
  /\ pc[s] = "locked"
  /\ rows' = [rows EXCEPT ![s] = seat]
  /\ Goto(s, "read")
  /\ UNCHANGED <<tableVars, lock, req, view>>

(* The session closes: its lock and its identity map are gone.             *)
Close(s) ==
  /\ Goto(s, "idle")
  /\ lock' = IF lock = s THEN None ELSE lock
  /\ req' = [req EXCEPT ![s] = NoRequest]
  /\ view' = [view EXCEPT ![s] = None]
  /\ rows' = [rows EXCEPT ![s] = NoSeats]

----------------------------------------------------------------------------
(* The handlers' decisions, their writes and their commit.                 *)

HasRoom_PlusOne(m, team, need) == Cardinality(Side(m, team)) <= Size
HasRoom(m, team, need) == Cardinality(Side(m, team)) + need <= Size

Join(s) ==
  LET who  == req[s].who
      team == req[s].team
      new(m) == [u \in Users |-> IF u \in who THEN team ELSE m[u]]
  IN  /\ pc[s] = "read" /\ req[s].op = "join"
      /\ view[s] = "PENDING"
      /\ who \cap Seated(rows[s]) = {}
      /\ HasRoom(rows[s], team, Cardinality(who))
      /\ seat' = new(seat)
      /\ status' = IF Full(new(rows[s])) THEN "LOCKED" ELSE status
      /\ net' = [u \in Users |-> IF u \in who THEN net[u] - 1 ELSE net[u]]
      /\ Close(s)

(* The creator leaving is a cancellation.                                  *)
Leave(s) ==
  LET who == req[s].who
  IN  /\ pc[s] = "read" /\ req[s].op = "leave"
      /\ view[s] = "PENDING"
      /\ Creator \notin who
      /\ who # {} /\ who \subseteq Seated(rows[s])
      /\ seat' = [u \in Users |-> IF u \in who THEN None ELSE seat[u]]
      /\ net' = [u \in Users |-> IF u \in who THEN net[u] + 1 ELSE net[u]]
      /\ UNCHANGED status
      /\ Close(s)

Cancels(s) ==
  \/ req[s].op \in {"cancel", "aborted"}
  \/ req[s].op = "leave" /\ Creator \in req[s].who /\ view[s] = "PENDING"

Cancel(s) ==
  /\ pc[s] = "read" /\ Cancels(s)
  /\ view[s] \in Undecided
  /\ net' = [u \in Users |-> IF u \in Seated(rows[s]) THEN net[u] + 1 ELSE net[u]]
  /\ status' = "CANCELLED"
  /\ UNCHANGED seat
  /\ Close(s)

(* FACEIT names a player of the winning side.                              *)
MaySettle_NotFinished(s) == view[s] # "FINISHED"
MaySettle(s) == view[s] \in {"LOCKED", "LIVE"}

Settle(s) ==
  /\ pc[s] = "read" /\ req[s].op = "settle"
  /\ MaySettle(s)
  /\ \E u \in Seated(rows[s]) :
       LET winners == Side(rows[s], rows[s][u])
       IN  net' = [v \in Users |-> IF v \in winners THEN net[v] + 2 ELSE net[v]]
  /\ status' = "FINISHED"
  /\ UNCHANGED seat
  /\ Close(s)

MarkLive(s) ==
  /\ pc[s] = "read" /\ req[s].op = "live"
  /\ view[s] = "LOCKED"
  /\ status' = "LIVE"
  /\ UNCHANGED <<seat, net>>
  /\ Close(s)

(* The request is refused, fails or dies: nothing it did is kept.          *)
Rollback(s) ==
  /\ pc[s] # "idle"
  /\ Close(s)
  /\ UNCHANGED tableVars

Next ==
  \E s \in Sessions :
    \/ \E r \in Requests : Begin(s, r)
    \/ CheckParticipant(s)
    \/ Acquire(s)
    \/ ReadSeats(s)
    \/ Join(s) \/ Leave(s) \/ Cancel(s) \/ Settle(s) \/ MarkLive(s)
    \/ Rollback(s)

Spec == Init /\ [][Next]_vars

----------------------------------------------------------------------------
(* What the row lock buys: the sessions past it are one at most, the seats  *)
(* that one has read are the committed ones, and so is the status it acts  *)
(* on, unless its router had loaded the match before (cancel_match).       *)
ReadsAreCurrent ==
  \A s \in Sessions :
    /\ pc[s] \in {"locked", "read"} <=> lock = s
    /\ pc[s] = "read" => rows[s] = seat
    /\ lock = s /\ req[s].op # "cancel" => view[s] = status

(* "Two players must not be able to claim the last seat", nor two parties  *)
(* the last two: a side never holds more than team_size seats.             *)
SeatsFit == \A team \in Teams : Cardinality(Side(seat, team)) <= Size

(* However requests interleave, the table is locked by the join that takes *)
(* the last seat and only then: a played table is full, an open one is not.*)
LockedMeansFull ==
  /\ status \in {"LOCKED", "LIVE", "FINISHED"} => Full(seat)
  /\ status = "PENDING" => ~Full(seat)

(* "A seat can never exist without money behind it": while the table is    *)
(* undecided, each seated user is one stake down and nobody else is.       *)
StakesTaken ==
  status \in Undecided =>
    \A u \in Users : net[u] = IF seat[u] = None THEN 0 ELSE -1

(* Seats change while the table is open and at no other time.              *)
SeatsFrozen == [][status # "PENDING" => UNCHANGED seat]_vars

(* A side is paid once, and only for a table that was locked: a late or    *)
(* repeated result cannot pay a table that is finished or was cancelled.   *)
PaidOnlyOnce ==
  [][status' = "FINISHED" /\ net' # net => status \in {"LOCKED", "LIVE"}]_vars

(* "Refund every seated stake and mark CANCELLED. Idempotent-safe": what a *)
(* finished or cancelled table paid out is final.                          *)
TerminalIsFinal ==
  [][status \notin Undecided => UNCHANGED <<status, net>>]_vars

=============================================================================
