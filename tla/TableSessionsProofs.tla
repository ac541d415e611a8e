------------------------ MODULE TableSessionsProofs ------------------------
(***************************************************************************)
(* Theorems about TableSessions for any number of users, groups, sessions  *)
(* and seats.  The argument is the one the row lock is there for: a        *)
(* session past the lock is alone there, so what it read is what it writes *)
(* over (ReadsAreCurrent), and then every handler can be checked as if it  *)
(* ran by itself.                                                          *)
(***************************************************************************)
EXTENDS TableSessions, FiniteSetTheorems, TLAPS

(* Before it takes the lock a session has no match in its identity map,    *)
(* unless it serves cancel_match.                                          *)
NotReadYet ==
  \A s \in Sessions :
    /\ pc[s] = "idle" => view[s] = None
    /\ pc[s] \in {"loaded", "ready"} /\ req[s].op # "cancel" => view[s] = None

(* The inductive invariant: the properties lean on each other, since the   *)
(* seats are counted to lock the table and the status guards the stakes.   *)
IInv ==
  /\ TypeOK
  /\ NotReadYet
  /\ ReadsAreCurrent
  /\ SeatsFit
  /\ LockedMeansFull
  /\ StakesTaken

----------------------------------------------------------------------------
(* Seat maps                                                               *)

(* A side is a finite set of users.                                        *)
LEMMA SideType ==
  ASSUME NEW m, NEW team
  PROVE  IsFiniteSet(Side(m, team)) /\ Cardinality(Side(m, team)) \in Nat
<1>1. Side(m, team) \subseteq Users  BY DEF Side
<1>2. IsFiniteSet(Side(m, team))  BY <1>1, FS_Subset, SessionAssumption
<1>. QED  BY <1>2, FS_CardinalityType

(* What a request can be about.                                            *)
LEMMA RequestType ==
  ASSUME NEW r \in Requests
  PROVE  /\ r.who \subseteq Users
         /\ IsFiniteSet(r.who) /\ Cardinality(r.who) \in Nat
         /\ r.op = "join" => r.team \in Teams
<1>1. r.who \subseteq Users  BY SessionAssumption DEF Requests
<1>2. IsFiniteSet(r.who)  BY <1>1, FS_Subset, SessionAssumption
<1>3. r.op = "join" => r.team \in Teams  BY DEF Requests
<1>. QED  BY <1>1, <1>2, <1>3, FS_CardinalityType

(* A group that fits a side, none of it seated, leaves no side too full.   *)
LEMMA JoinKeepsSidesFit ==
  ASSUME NEW m \in SeatMaps, NEW who \in SUBSET Users, NEW team \in Teams,
         IsFiniteSet(who), Cardinality(who) \in Nat,
         who \cap Seated(m) = {},
         HasRoom(m, team, Cardinality(who)),
         \A t \in Teams : Cardinality(Side(m, t)) <= Size,
         NEW n, n = [u \in Users |-> IF u \in who THEN team ELSE m[u]]
  PROVE  /\ n \in SeatMaps
         /\ \A t \in Teams : Cardinality(Side(n, t)) <= Size
<1>1. n \in SeatMaps  BY DEF SeatMaps
<1>2. ASSUME NEW t \in Teams  PROVE  Cardinality(Side(n, t)) <= Size
  <2>1. CASE t = team
    <3>1. Side(n, t) = Side(m, t) \cup who  BY <2>1 DEF Side, SeatMaps
    <3>2. Side(m, t) \cap who = {}
      BY SessionAssumption DEF Side, Seated, Teams
    <3>3. Cardinality(Side(n, t)) = Cardinality(Side(m, t)) + Cardinality(who)
      BY <3>1, <3>2, SideType, FS_Union, FS_EmptySet
    <3>. QED  BY <3>3, <2>1 DEF HasRoom
  <2>2. CASE t # team
    <3>1. Side(n, t) \subseteq Side(m, t)  BY <2>2 DEF Side
    <3>2. Cardinality(Side(n, t)) <= Cardinality(Side(m, t))
      BY <3>1, SideType, FS_Subset
    <3>3. Cardinality(Side(m, t)) <= Size  OBVIOUS
    <3>. QED  BY <3>2, <3>3, SideType, SessionAssumption
  <2>. QED  BY <2>1, <2>2
<1>. QED  BY <1>1, <1>2

(* A seated group that leaves opens a seat and fills none.                 *)
LEMMA LeaveOpensSeat ==
  ASSUME NEW m \in SeatMaps, NEW who \in SUBSET Users,
         who # {}, who \subseteq Seated(m),
         \A t \in Teams : Cardinality(Side(m, t)) <= Size,
         NEW n, n = [u \in Users |-> IF u \in who THEN None ELSE m[u]]
  PROVE  /\ n \in SeatMaps
         /\ \A t \in Teams : Cardinality(Side(n, t)) <= Size
         /\ ~Full(n)
<1>1. n \in SeatMaps  BY DEF SeatMaps
<1>2. ASSUME NEW t \in Teams
      PROVE  /\ Side(n, t) \subseteq Side(m, t)
             /\ Cardinality(Side(n, t)) <= Cardinality(Side(m, t))
             /\ Cardinality(Side(n, t)) <= Size
  <2>1. None # t  BY SessionAssumption DEF Teams
  <2>2. Side(n, t) \subseteq Side(m, t)  BY <2>1 DEF Side
  <2>3. Cardinality(Side(n, t)) <= Cardinality(Side(m, t))
    BY <2>2, SideType, FS_Subset
  <2>4. Cardinality(Side(m, t)) <= Size  OBVIOUS
  <2>. QED  BY <2>2, <2>3, <2>4, SideType, SessionAssumption
<1>3. PICK u \in who : TRUE  OBVIOUS
<1>4. m[u] \in Teams /\ u \in Users  BY <1>3 DEF Seated, SeatMaps
<1>5. u \in Side(m, m[u]) /\ u \notin Side(n, m[u])
  <2>1. None # m[u]  BY <1>4, SessionAssumption DEF Teams
  <2>. QED  BY <1>3, <1>4, <2>1 DEF Side
<1>6. Cardinality(Side(n, m[u])) # Cardinality(Side(m, m[u]))
  BY <1>2, <1>4, <1>5, SideType, FS_Subset
<1>7. Cardinality(Side(n, m[u])) # Size
  <2>1. Cardinality(Side(m, m[u])) <= Size  BY <1>4
  <2>. QED  BY <1>2, <1>4, <1>6, <2>1, SideType, SessionAssumption
<1>. QED  BY <1>1, <1>2, <1>4, <1>7 DEF Full

----------------------------------------------------------------------------
(* The inductive invariant                                                 *)

(* An open table has its creator's group on side A and nobody on side B.   *)
LEMMA InitInv == Init => IInv
<1>. SUFFICES ASSUME Init PROVE IInv  OBVIOUS
<1>1. PICK g \in Groups :
        /\ Cardinality(g) <= Size
        /\ seat = [u \in Users |-> IF u \in g THEN "A" ELSE None]
        /\ net = [u \in Users |-> IF u \in g THEN -1 ELSE 0]
  BY DEF Init
<1>2. g \subseteq Users  BY SessionAssumption
<1>3. None \notin Teams /\ None \notin Sessions  BY SessionAssumption
<1>4. TypeOK
  <2>1. seat \in SeatMaps  BY <1>1 DEF SeatMaps, Teams
  <2>2. net \in [Users -> Int]  BY <1>1
  <2>3. NoSeats \in SeatMaps  BY DEF NoSeats, SeatMaps
  <2>. QED  BY <2>1, <2>2, <2>3 DEF Init, TypeOK, Statuses, Undecided
<1>5. NotReadYet /\ ReadsAreCurrent
  BY <1>3 DEF Init, NotReadYet, ReadsAreCurrent, NoRequest
<1>6. Side(seat, "A") = g /\ Side(seat, "B") = {}
  BY <1>1, <1>2, <1>3 DEF Side, Teams
<1>7. Cardinality(Side(seat, "B")) = 0  BY <1>6, FS_EmptySet
<1>8. SeatsFit
  BY <1>1, <1>6, <1>7, SessionAssumption DEF SeatsFit, Teams
<1>9. LockedMeansFull
  <2>1. ~Full(seat)  BY <1>7, SessionAssumption DEF Full, Teams
  <2>. QED  BY <2>1 DEF Init, LockedMeansFull
<1>10. StakesTaken
  BY <1>1, <1>3 DEF StakesTaken, Teams
<1>. QED  BY <1>4, <1>5, <1>8, <1>9, <1>10 DEF IInv

(* A session that closes leaves the other sessions' reads as they were.    *)
LEMMA CloseType ==
  ASSUME TypeOK, NEW s \in Sessions, Close(s)
  PROVE  /\ lock' \in Sessions \cup {None}
         /\ pc' \in [Sessions -> {"idle", "loaded", "ready", "locked", "read"}]
         /\ req' \in [Sessions -> Requests \cup {NoRequest}]
         /\ view' \in [Sessions -> Statuses \cup {None}]
         /\ rows' \in [Sessions -> SeatMaps]
<1>1. NoSeats \in SeatMaps  BY DEF NoSeats, SeatMaps
<1>. QED  BY <1>1 DEF TypeOK, Close, Goto

LEMMA CloseKeepsReads ==
  ASSUME TypeOK, NotReadYet, ReadsAreCurrent, NEW s \in Sessions, Close(s),
         lock = s \/ UNCHANGED tableVars
  PROVE  NotReadYet' /\ ReadsAreCurrent'
<1>1. NotReadYet'  BY DEF TypeOK, NotReadYet, Close, Goto
<1>2. ASSUME NEW x \in Sessions
      PROVE  /\ pc'[x] \in {"locked", "read"} <=> lock' = x
             /\ pc'[x] = "read" => rows'[x] = seat'
             /\ lock' = x /\ req'[x].op # "cancel" => view'[x] = status'
  <2>1. None # x  BY SessionAssumption
  <2>2. CASE x = s
    BY <2>1, <2>2 DEF TypeOK, ReadsAreCurrent, Close, Goto
  <2>3. CASE x # s
    BY <2>1, <2>3 DEF TypeOK, ReadsAreCurrent, Close, Goto, tableVars
  <2>. QED  BY <2>2, <2>3
<1>. QED  BY <1>1, <1>2 DEF ReadsAreCurrent

(* The steps up to the decision change nothing of the table.               *)
LEMMA ReadingKeepsInv ==
  ASSUME IInv, NEW s \in Sessions,
         \/ \E r \in Requests : Begin(s, r)
         \/ CheckParticipant(s) \/ Acquire(s) \/ ReadSeats(s) \/ Rollback(s)
  PROVE  IInv'
<1>. USE DEF IInv
<1>0. None \notin Sessions  BY SessionAssumption
<1>1. UNCHANGED tableVars
  BY DEF Begin, CheckParticipant, Acquire, ReadSeats, Rollback
<1>2. SeatsFit' /\ LockedMeansFull' /\ StakesTaken'
  BY <1>1 DEF tableVars, SeatsFit, LockedMeansFull, StakesTaken, Full, Side
<1>3. TypeOK' /\ NotReadYet' /\ ReadsAreCurrent'
  <2>1. CASE \E r \in Requests : Begin(s, r)
    <3>1. PICK r \in Requests : Begin(s, r)  BY <2>1
    <3>2. TypeOK'  BY <3>1, <1>1 DEF TypeOK, Begin, Goto, tableVars
    <3>3. NotReadYet'  BY <3>1 DEF TypeOK, NotReadYet, Begin, Goto
    <3>4. ReadsAreCurrent'
      BY <3>1, <1>0, <1>1 DEF TypeOK, ReadsAreCurrent, Begin, Goto, tableVars
    <3>. QED  BY <3>2, <3>3, <3>4
  <2>2. CASE CheckParticipant(s)
    <3>1. TypeOK'  BY <2>2, <1>1 DEF TypeOK, CheckParticipant, Goto, tableVars
    <3>2. NotReadYet'  BY <2>2 DEF TypeOK, NotReadYet, CheckParticipant, Goto
    <3>3. ReadsAreCurrent'
      BY <2>2, <1>0, <1>1
      DEF TypeOK, ReadsAreCurrent, CheckParticipant, Goto, tableVars
    <3>. QED  BY <3>1, <3>2, <3>3
  <2>3. CASE Acquire(s)
    <3>1. TypeOK'  BY <2>3, <1>1 DEF TypeOK, Acquire, Goto, tableVars
    <3>2. NotReadYet'  BY <2>3 DEF TypeOK, NotReadYet, Acquire, Goto
    <3>3. ReadsAreCurrent'
      BY <2>3, <1>0, <1>1
      DEF TypeOK, NotReadYet, ReadsAreCurrent, Acquire, Goto, tableVars
    <3>. QED  BY <3>1, <3>2, <3>3
  <2>4. CASE ReadSeats(s)
    <3>1. TypeOK'  BY <2>4, <1>1 DEF TypeOK, ReadSeats, Goto, tableVars
    <3>2. NotReadYet'  BY <2>4 DEF TypeOK, NotReadYet, ReadSeats, Goto
    <3>3. ReadsAreCurrent'
      BY <2>4, <1>0, <1>1 DEF TypeOK, ReadsAreCurrent, ReadSeats, Goto, tableVars
    <3>. QED  BY <3>1, <3>2, <3>3
  <2>5. CASE Rollback(s)
    <3>1. Close(s)  BY <2>5 DEF Rollback
    <3>2. TypeOK'  BY <3>1, <1>1, CloseType DEF TypeOK, tableVars
    <3>. QED  BY <3>1, <3>2, <1>1, CloseKeepsReads
  <2>. QED  BY <2>1, <2>2, <2>3, <2>4, <2>5
<1>. QED  BY <1>2, <1>3

(* What a session that has read the seats knows of the table.              *)
LEMMA DecidesOnCurrent ==
  ASSUME IInv, NEW s \in Sessions, pc[s] = "read"
  PROVE  /\ lock = s
         /\ rows[s] = seat
         /\ req[s].op # "cancel" => view[s] = status
BY DEF IInv, ReadsAreCurrent

(* A join takes one stake per seat, and locks the table if it fills it.    *)
LEMMA JoinKeepsInv ==
  ASSUME IInv, NEW s \in Sessions, Join(s)
  PROVE  IInv'
<1>. DEFINE who == req[s].who
            team == req[s].team
            need == Cardinality(who)
<1>1. pc[s] = "read" /\ req[s].op = "join" /\ Close(s)  BY DEF Join
<1>2. lock = s /\ rows[s] = seat /\ view[s] = status
  BY <1>1, DecidesOnCurrent
<1>3. status = "PENDING"  BY <1>2 DEF Join
<1>4. req[s] \in Requests  BY <1>1 DEF IInv, TypeOK, NoRequest
<1>5. who \in SUBSET Users /\ IsFiniteSet(who) /\ need \in Nat /\ team \in Teams
  BY <1>1, <1>4, RequestType
<1>6. who \cap Seated(seat) = {} /\ HasRoom(seat, team, need)
  BY <1>2 DEF Join
<1>7. seat' = [u \in Users |-> IF u \in who THEN team ELSE seat[u]]
  BY DEF Join
<1>8. status' = IF Full(seat') THEN "LOCKED" ELSE status
  BY <1>2, <1>7 DEF Join
<1>9. net' = [u \in Users |-> IF u \in who THEN net[u] - 1 ELSE net[u]]
  BY DEF Join
<1>10. seat \in SeatMaps /\ net \in [Users -> Int]  BY DEF IInv, TypeOK
<1>11. seat' \in SeatMaps /\ SeatsFit'
  <2>1. \A t \in Teams : Cardinality(Side(seat, t)) <= Size
    BY DEF IInv, SeatsFit
  <2>2. /\ seat' \in SeatMaps
        /\ \A t \in Teams : Cardinality(Side(seat', t)) <= Size
    BY <2>1, <1>5, <1>6, <1>7, <1>10, JoinKeepsSidesFit
  <2>. QED  BY <2>2 DEF SeatsFit, Side
<1>12. TypeOK'
  BY <1>1, <1>3, <1>8, <1>9, <1>10, <1>11, CloseType
  DEF IInv, TypeOK, Statuses, Undecided
<1>13. NotReadYet' /\ ReadsAreCurrent'
  BY <1>1, <1>2, CloseKeepsReads DEF IInv
<1>14. LockedMeansFull'
  <2>1. Full(seat)' <=> Full(seat')  BY DEF Full, Side
  <2>. QED  BY <2>1, <1>3, <1>8 DEF LockedMeansFull
<1>15. StakesTaken'
  <2>1. \A u \in Users : net[u] = IF seat[u] = None THEN 0 ELSE -1
    BY <1>3 DEF IInv, StakesTaken, Undecided
  <2>2. \A u \in who : seat[u] = None  BY <1>5, <1>6 DEF Seated
  <2>3. None # team  BY <1>5, SessionAssumption
  <2>. QED
    BY <2>1, <2>2, <2>3, <1>5, <1>7, <1>9 DEF StakesTaken
<1>. QED  BY <1>11, <1>12, <1>13, <1>14, <1>15 DEF IInv

(* A group that leaves takes its stakes back, and the table stays open.    *)
LEMMA LeaveKeepsInv ==
  ASSUME IInv, NEW s \in Sessions, Leave(s)
  PROVE  IInv'
<1>. DEFINE who == req[s].who
<1>1. pc[s] = "read" /\ req[s].op = "leave" /\ Close(s)  BY DEF Leave
<1>2. lock = s /\ rows[s] = seat /\ view[s] = status
  BY <1>1, DecidesOnCurrent
<1>3. status = "PENDING" /\ status' = status  BY <1>2 DEF Leave
<1>4. who \in SUBSET Users /\ who # {} /\ who \subseteq Seated(seat)
  BY <1>2 DEF Leave, Seated
<1>5. seat' = [u \in Users |-> IF u \in who THEN None ELSE seat[u]]
  BY DEF Leave
<1>6. net' = [u \in Users |-> IF u \in who THEN net[u] + 1 ELSE net[u]]
  BY DEF Leave
<1>7. seat \in SeatMaps /\ net \in [Users -> Int]  BY DEF IInv, TypeOK
<1>8. seat' \in SeatMaps /\ SeatsFit' /\ ~Full(seat')
  <2>1. \A t \in Teams : Cardinality(Side(seat, t)) <= Size
    BY DEF IInv, SeatsFit
  <2>2. /\ seat' \in SeatMaps
        /\ \A t \in Teams : Cardinality(Side(seat', t)) <= Size
        /\ ~Full(seat')
    BY <2>1, <1>4, <1>5, <1>7, LeaveOpensSeat
  <2>. QED  BY <2>2 DEF SeatsFit, Side
<1>9. TypeOK'
  BY <1>1, <1>3, <1>6, <1>7, <1>8, CloseType DEF IInv, TypeOK
<1>10. NotReadYet' /\ ReadsAreCurrent'
  BY <1>1, <1>2, CloseKeepsReads DEF IInv
<1>11. LockedMeansFull'
  <2>1. Full(seat)' <=> Full(seat')  BY DEF Full, Side
  <2>. QED  BY <2>1, <1>3, <1>8 DEF LockedMeansFull
<1>12. StakesTaken'
  <2>1. \A u \in Users : net[u] = IF seat[u] = None THEN 0 ELSE -1
    BY <1>3 DEF IInv, StakesTaken, Undecided
  <2>2. \A u \in who : seat[u] # None  BY <1>4 DEF Seated
  <2>. QED  BY <2>1, <2>2, <1>4, <1>5, <1>6, <1>7 DEF StakesTaken
<1>. QED  BY <1>8, <1>9, <1>10, <1>11, <1>12 DEF IInv

(* A table that is called off, paid or reported live keeps its seats; only *)
(* a locked one is paid or goes live, and that one is full.                *)
LEMMA SeatsStayKeepsInv ==
  ASSUME IInv, NEW s \in Sessions, Cancel(s) \/ Settle(s) \/ MarkLive(s)
  PROVE  IInv'
<1>1. pc[s] = "read" /\ Close(s) /\ seat' = seat
  BY DEF Cancel, Settle, MarkLive
<1>2. lock = s /\ rows[s] = seat /\ (req[s].op # "cancel" => view[s] = status)
  BY <1>1, DecidesOnCurrent
<1>3. NotReadYet' /\ ReadsAreCurrent'
  BY <1>1, <1>2, CloseKeepsReads DEF IInv
<1>4. SeatsFit'  BY <1>1 DEF IInv, SeatsFit, Side
<1>5. Full(seat)' <=> Full(seat)  BY <1>1 DEF Full, Side
<1>6. TypeOK' /\ LockedMeansFull' /\ StakesTaken'
  <2>1. net \in [Users -> Int]  BY DEF IInv, TypeOK
  <2>2. CASE Cancel(s)
    <3>1. status' = "CANCELLED" /\ net' \in [Users -> Int]
      BY <2>1, <2>2 DEF Cancel
    <3>. QED
      BY <3>1, <1>1, CloseType
      DEF IInv, TypeOK, Statuses, LockedMeansFull, StakesTaken, Undecided
  <2>3. CASE Settle(s)
    <3>1. status' = "FINISHED" /\ net' \in [Users -> Int]
      BY <2>1, <2>3 DEF Settle
    <3>2. status \in {"LOCKED", "LIVE"}
      BY <2>3, <1>2 DEF Settle, MaySettle
    <3>3. LockedMeansFull'
      BY <3>1, <3>2, <1>5 DEF IInv, LockedMeansFull
    <3>. QED
      BY <3>1, <3>3, <1>1, CloseType
      DEF IInv, TypeOK, Statuses, StakesTaken, Undecided
  <2>4. CASE MarkLive(s)
    <3>1. status = "LOCKED" /\ status' = "LIVE" /\ net' = net
      BY <2>4, <1>2 DEF MarkLive
    <3>2. LockedMeansFull'
      BY <3>1, <1>5 DEF IInv, LockedMeansFull
    <3>3. StakesTaken'
      BY <3>1, <1>1 DEF IInv, StakesTaken, Undecided
    <3>. QED
      BY <3>1, <3>2, <3>3, <1>1, CloseType DEF IInv, TypeOK, Statuses, Undecided
  <2>. QED  BY <2>2, <2>3, <2>4
<1>. QED  BY <1>3, <1>4, <1>6 DEF IInv

(* A step that changes nothing.                                            *)
LEMMA StutterKeepsInv == IInv /\ UNCHANGED vars => IInv'
BY DEF IInv, vars, tableVars, TypeOK, NotReadYet, ReadsAreCurrent, SeatsFit,
       LockedMeansFull, StakesTaken, Full, Side

LEMMA NextKeepsInv == IInv /\ [Next]_vars => IInv'
<1>1. ASSUME IInv, NEW s \in Sessions,
             \/ \E r \in Requests : Begin(s, r)
             \/ CheckParticipant(s) \/ Acquire(s) \/ ReadSeats(s)
             \/ Join(s) \/ Leave(s) \/ Cancel(s) \/ Settle(s) \/ MarkLive(s)
             \/ Rollback(s)
      PROVE  IInv'
  BY <1>1, ReadingKeepsInv, JoinKeepsInv, LeaveKeepsInv, SeatsStayKeepsInv
<1>. QED  BY <1>1, StutterKeepsInv DEF Next

----------------------------------------------------------------------------
(* The theorems                                                            *)

(* Whatever requests are served at once, the conjuncts of IInv hold.       *)
THEOREM Invariance == Spec => []IInv
BY InitInv, NextKeepsInv, PTL DEF Spec

(* Every variable of the sessions and of the table keeps its type.         *)
THEOREM TypeCorrect == Spec => []TypeOK
<1>1. IInv => TypeOK  BY DEF IInv
<1>. QED  BY <1>1, Invariance, PTL

(* Sessions decide one at a time, on the committed rows (the FOR UPDATE of *)
(* join_table, leave_table, settle_finished and mark_live).                *)
THEOREM LockSerialises == Spec => []ReadsAreCurrent
<1>1. IInv => ReadsAreCurrent  BY DEF IInv
<1>. QED  BY <1>1, Invariance, PTL

(* No last seat is sold twice.                                             *)
THEOREM SidesFit == Spec => []SeatsFit
<1>1. IInv => SeatsFit  BY DEF IInv
<1>. QED  BY <1>1, Invariance, PTL

(* A table is locked, live or finished only when full, open only when not. *)
THEOREM LockedIsFull == Spec => []LockedMeansFull
<1>1. IInv => LockedMeansFull  BY DEF IInv
<1>. QED  BY <1>1, Invariance, PTL

(* Undecided tables hold one stake of every seated user, and no other.     *)
THEOREM StakesEscrowed == Spec => []StakesTaken
<1>1. IInv => StakesTaken  BY DEF IInv
<1>. QED  BY <1>1, Invariance, PTL

(* Whoever joins or leaves does so at an open table.                       *)
THEOREM SeatsFreeze == Spec => SeatsFrozen
<1>1. IInv /\ [Next]_vars => [status # "PENDING" => UNCHANGED seat]_vars
  <2>. SUFFICES ASSUME IInv, Next, status # "PENDING"  PROVE UNCHANGED seat
    OBVIOUS
  <2>1. PICK s \in Sessions :
          \/ \E r \in Requests : Begin(s, r)
          \/ CheckParticipant(s) \/ Acquire(s) \/ ReadSeats(s)
          \/ Join(s) \/ Leave(s) \/ Cancel(s) \/ Settle(s) \/ MarkLive(s)
          \/ Rollback(s)
    BY DEF Next
  <2>2. ~Join(s) /\ ~Leave(s)  BY DecidesOnCurrent DEF Join, Leave
  <2>. QED
    BY <2>1, <2>2 DEF Begin, CheckParticipant, Acquire, ReadSeats, Cancel,
                      Settle, MarkLive, Rollback, tableVars
<1>. QED  BY <1>1, Invariance, PTL DEF Spec, SeatsFrozen

(* A result pays a side of a table that is locked or live and of no other: *)
(* settle_finished is idempotent under concurrency.                        *)
THEOREM PaidOnce == Spec => PaidOnlyOnce
<1>1. IInv /\ [Next]_vars =>
        [status' = "FINISHED" /\ net' # net => status \in {"LOCKED", "LIVE"}]_vars
  <2>. SUFFICES ASSUME IInv, Next, status' = "FINISHED", net' # net
                PROVE  status \in {"LOCKED", "LIVE"}
    OBVIOUS
  <2>1. PICK s \in Sessions :
          \/ \E r \in Requests : Begin(s, r)
          \/ CheckParticipant(s) \/ Acquire(s) \/ ReadSeats(s)
          \/ Join(s) \/ Leave(s) \/ Cancel(s) \/ Settle(s) \/ MarkLive(s)
          \/ Rollback(s)
    BY DEF Next
  <2>2. ~Join(s) /\ ~Leave(s)  BY DecidesOnCurrent DEF Join, Leave
  <2>3. Settle(s)
    BY <2>1, <2>2 DEF Begin, CheckParticipant, Acquire, ReadSeats, Cancel,
                      MarkLive, Rollback, tableVars
  <2>4. view[s] = status  BY <2>3, DecidesOnCurrent DEF Settle
  <2>. QED  BY <2>3, <2>4 DEF Settle, MaySettle
<1>. QED  BY <1>1, Invariance, PTL DEF Spec, PaidOnlyOnce
=============================================================================
