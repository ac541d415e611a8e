--------------------------- MODULE DemoSimProofs ---------------------------
(***************************************************************************)
(* Theorems about DemoSim, for any people, tables, restarts and money of   *)
(* the bots: every table implements TableLife, and a simulation never      *)
(* sends for a bot it does not have.                                       *)
(***************************************************************************)
EXTENDS DemoSim, FiniteSetTheorems, TLAPS

SeatMaps == [Players -> Teams \cup {None}]
Side(m, team) == {p \in Players : m[p] = team}

----------------------------------------------------------------------------
(* Seat maps                                                               *)

(* There are finitely many players.                                        *)
LEMMA PlayersFinite == IsFiniteSet(Players)
<1>1. IsFiniteSet({Bot(i) : i \in Slots})
  <2>1. IsFiniteSet(0 .. 9)
    <3>1. 0 \in Int /\ 9 \in Int
      OBVIOUS
    <3> QED BY ONLY <3>1, FS_Interval
  <2>2. IsFiniteSet(Slots)
    BY <2>1, FS_Subset DEF Slots
  <2> DEFINE f == [i \in Slots |-> Bot(i)]
  <2>3. f \in Surjection(Slots, {Bot(i) : i \in Slots})
    BY DEF Surjection
  <2> QED BY <2>2, <2>3, FS_Surjection
<1>2. ASSUME NEW t \in Seeded PROVE IsFiniteSet(Hosts(t))
  <2>1. TeamSize[t] \in Int
    BY DemoAssumption
  <2>2. IsFiniteSet(1 .. TeamSize[t])
    BY <2>1, FS_Interval
  <2> DEFINE f == [i \in 1 .. TeamSize[t] |-> Host(t, i)]
  <2>3. f \in Surjection(1 .. TeamSize[t], Hosts(t))
    BY DEF Surjection, Hosts
  <2> QED BY <2>2, <2>3, FS_Surjection
<1>3. IsFiniteSet({Hosts(t) : t \in Seeded})
  <2>1. IsFiniteSet(Seeded)
    BY DemoAssumption, FS_Subset
  <2> DEFINE f == [t \in Seeded |-> Hosts(t)]
  <2>2. f \in Surjection(Seeded, {Hosts(t) : t \in Seeded})
    BY DEF Surjection
  <2> QED BY <2>1, <2>2, FS_Surjection
<1>4. IsFiniteSet(UNION {Hosts(t) : t \in Seeded})
  BY <1>2, <1>3, FS_UNION
<1> QED BY <1>1, <1>4, DemoAssumption, FS_Union DEF Players

(* A side is a finite set of players.                                      *)
LEMMA SideType ==
  ASSUME NEW m, NEW team
  PROVE  IsFiniteSet(Side(m, team)) /\ Cardinality(Side(m, team)) \in Nat
BY PlayersFinite, FS_Subset, FS_CardinalityType DEF Side

(* Who takes a seat adds one to that side, and changes no other.           *)
LEMMA SitCounts ==
  ASSUME NEW m \in SeatMaps, NEW p \in Players, NEW team \in Teams, m[p] = None
  PROVE  LET n == [m EXCEPT ![p] = team]
         IN  /\ n \in SeatMaps
             /\ Cardinality(Side(n, team)) = Cardinality(Side(m, team)) + 1
             /\ \A o \in Teams \ {team} : Side(n, o) = Side(m, o)
<1> DEFINE n == [m EXCEPT ![p] = team]
<1>1. Side(n, team) = Side(m, team) \cup {p} /\ p \notin Side(m, team)
  BY NoneAssumption DEF Side, SeatMaps
<1>2. Cardinality(Side(n, team)) = Cardinality(Side(m, team)) + 1
  BY <1>1, SideType, FS_AddElement
<1>3. n \in SeatMaps /\ \A o \in Teams \ {team} : Side(n, o) = Side(m, o)
  BY NoneAssumption DEF Side, SeatMaps
<1> QED BY <1>2, <1>3

(* Who gives a seat up takes one from that side, and changes no other.     *)
LEMMA LeaveCounts ==
  ASSUME NEW m \in SeatMaps, NEW p \in Players, m[p] # None
  PROVE  LET n == [m EXCEPT ![p] = None]
         IN  /\ n \in SeatMaps /\ m[p] \in Teams
             /\ Cardinality(Side(n, m[p])) = Cardinality(Side(m, m[p])) - 1
             /\ \A o \in Teams \ {m[p]} : Side(n, o) = Side(m, o)
<1> DEFINE n == [m EXCEPT ![p] = None]
<1>1. m[p] \in Teams /\ n \in SeatMaps
  BY DEF SeatMaps
<1>2. Side(n, m[p]) = Side(m, m[p]) \ {p} /\ p \in Side(m, m[p])
  BY NoneAssumption DEF Side, SeatMaps
<1>3. Cardinality(Side(n, m[p])) = Cardinality(Side(m, m[p])) - 1
  BY <1>2, SideType, FS_RemoveElement
<1>4. \A o \in Teams \ {m[p]} : Side(n, o) = Side(m, o)
  BY NoneAssumption DEF Side, SeatMaps
<1> QED BY <1>1, <1>3, <1>4

(* The hosts of a standing table take one side of it.                      *)
LEMMA HostsCount ==
  ASSUME NEW t \in Seeded
  PROVE  Cardinality(Hosts(t)) = TeamSize[t]
<1>1. TeamSize[t] \in Nat
  BY DemoAssumption
<1> DEFINE h == [i \in 1 .. TeamSize[t] |-> Host(t, i)]
<1>2. h \in Bijection(1 .. TeamSize[t], Hosts(t))
  BY DEF Bijection, Injection, Surjection, IsInjective, Hosts, Host
<1>3. ExistsBijection(1 .. TeamSize[t], Hosts(t))
  BY <1>2 DEF ExistsBijection
<1> QED BY <1>1, <1>3, FS_CountingElements
----------------------------------------------------------------------------
(* Tables                                                                  *)

(* No side has more than its seats; nobody sits before a table is opened.  *)
Seating ==
  /\ seats \in [TableIds -> SeatMaps]
  /\ status \in [TableIds -> {None, "PENDING", "LOCKED", "FINISHED", "CANCELLED"}]
  /\ \A t \in TableIds :
       /\ \A team \in Teams : Cardinality(Side(seats[t], team)) <= TeamSize[t]
       /\ status[t] = None => \A p \in Players : seats[t][p] = None

(* Free seats, in terms of sides.                                          *)
LEMMA FreeSeats ==
  ASSUME NEW t, NEW team
  PROVE  Free(t, team) = TeamSize[t] - Cardinality(Side(seats[t], team))
BY DEF Free, On, Side

(* A table where nobody sits has room on either side.                      *)
LEMMA OpenSeats ==
  ASSUME NEW t \in TableIds, NEW team \in Teams, \A p \in Players : seats[t][p] = None
  PROVE  Free(t, team) > 0
<1>1. Side(seats[t], team) = {}
  BY NoneAssumption DEF Side
<1>2. Cardinality(Side(seats[t], team)) = 0
  BY <1>1, FS_EmptySet
<1>3. TeamSize[t] \in 1 .. 5
  BY DemoAssumption
<1> QED BY <1>2, <1>3, FreeSeats

(* What TableLife says of a seat map, in terms of its sides.               *)
LEMMA LifeSeats ==
  ASSUME NEW t, NEW m
  PROVE  /\ Life(t)!Fits(m) <=> \A team \in Teams : Cardinality(Side(m, team)) <= TeamSize[t]
         /\ Life(t)!Full(m) <=> \A team \in Teams : Cardinality(Side(m, team)) = TeamSize[t]
<1>1. \A S : Life(t)!Cardinality(S) = Cardinality(S)
  BY Zenon DEF Life!Cardinality, Cardinality
<1> QED BY <1>1 DEF Life!Fits, Life!Full, Life!On, Life!Teams, Side, Teams

(* Who has asked, when no cancel comes or goes.                            *)
LEMMA AskedKept ==
  ASSUME cancelling' = cancelling
  PROVE  \A o \in TableIds : Asked(o)' = Asked(o)
BY DEF Asked

(* Sitting down where there is room is a move of the table's life.         *)
LEMMA SitMoves ==
  ASSUME NEW t \in TableIds, NEW p \in Players, NEW team \in Teams, Seating,
         status[t] \in {None, "PENDING"}, seats[t][p] = None, Free(t, team) > 0,
         Sit(t, p, team),
         cancelling' = cancelling
  PROVE  Seating' /\ Life(t)!Move
<1> DEFINE m == seats[t]
           n == [m EXCEPT ![p] = team]
           last == Free(t, team) = 1 /\ \A side \in Teams \ {team} : Free(t, side) = 0
<1>1. m \in SeatMaps
  BY DEF Seating
<1>2. /\ n \in SeatMaps
      /\ Cardinality(Side(n, team)) = Cardinality(Side(m, team)) + 1
      /\ \A o \in Teams \ {team} : Side(n, o) = Side(m, o)
  BY <1>1, SitCounts
<1>3. /\ seats' = [seats EXCEPT ![t] = n]
      /\ seats'[t] = n
      /\ status' = [status EXCEPT ![t] = IF last THEN "LOCKED" ELSE "PENDING"]
  BY DEF Sit, Seating
<1>4. \A o \in Teams : /\ Cardinality(Side(m, o)) <= TeamSize[t]
                       /\ Cardinality(Side(m, o)) \in Nat
                       /\ Free(t, o) = TeamSize[t] - Cardinality(Side(m, o))
  BY SideType, FreeSeats DEF Seating
<1>5. TeamSize[t] \in Nat
  BY DemoAssumption
<1> HIDE DEF m, n
<1>6. \A o \in Teams : Cardinality(Side(n, o)) <= TeamSize[t]
  <2>1. Cardinality(Side(n, team)) <= TeamSize[t]
    BY <1>2, <1>4, <1>5
  <2> QED BY <1>2, <1>4, <2>1
<1>7. last <=> \A o \in Teams : Cardinality(Side(n, o)) = TeamSize[t]
  <2>1. Free(t, team) = 1 <=> Cardinality(Side(n, team)) = TeamSize[t]
    BY <1>2, <1>4, <1>5
  <2>2. \A o \in Teams \ {team} : Free(t, o) = 0 <=> Cardinality(Side(n, o)) = TeamSize[t]
    BY <1>2, <1>4, <1>5
  <2> QED BY <2>1, <2>2
<1>8. Seating'
  <2>1. seats' \in [TableIds -> SeatMaps] /\ \A o \in TableIds \ {t} : seats'[o] = seats[o]
    BY <1>2, <1>3 DEF Seating
  <2>2. /\ status' \in [TableIds -> {None, "PENDING", "LOCKED", "FINISHED", "CANCELLED"}]
        /\ status'[t] # None /\ \A o \in TableIds \ {t} : status'[o] = status[o]
    BY <1>3, NoneAssumption DEF Seating
  <2> QED BY <1>3, <1>6, <2>1, <2>2 DEF Seating
<1>9. Life(t)!Move
  <2>1. seats'[t] = [seats[t] EXCEPT ![p] = team] /\ team \in Teams \cup {None}
    BY <1>3 DEF n, m
  <2>2. Life(t)!Fits(seats'[t])
    BY <1>3, <1>6, LifeSeats
  <2>3. status'[t] = IF Life(t)!Full(seats'[t]) THEN "LOCKED" ELSE "PENDING"
    BY <1>3, <1>7, LifeSeats DEF Seating
  <2> QED BY <2>1, <2>2, <2>3, AskedKept DEF Life!Move, Life!Teams, Teams
<1> QED BY <1>8, <1>9

(* Getting up from an open table is a move of its life, too.               *)
LEMMA LeaveMoves ==
  ASSUME NEW t \in TableIds, NEW p \in Players, Seating,
         status[t] = "PENDING", seats[t][p] # None,
         seats' = [seats EXCEPT ![t][p] = None], status' = status,
         cancelling' = cancelling
  PROVE  Seating' /\ Life(t)!Move
<1> DEFINE m == seats[t]
           n == [m EXCEPT ![p] = None]
           side == m[p]
<1>1. m \in SeatMaps
  BY DEF Seating
<1>2. /\ n \in SeatMaps /\ side \in Teams
      /\ Cardinality(Side(n, side)) = Cardinality(Side(m, side)) - 1
      /\ \A o \in Teams \ {side} : Side(n, o) = Side(m, o)
  BY <1>1, LeaveCounts
<1>3. seats' = [seats EXCEPT ![t] = n] /\ seats'[t] = n
  BY DEF Seating
<1>4. \A o \in Teams : /\ Cardinality(Side(m, o)) <= TeamSize[t]
                       /\ Cardinality(Side(m, o)) \in Nat
  BY SideType DEF Seating
<1>5. TeamSize[t] \in Nat
  BY DemoAssumption
<1> HIDE DEF m, n, side
<1>6. Cardinality(Side(n, side)) < TeamSize[t]
  BY <1>2, <1>4, <1>5
<1>7. \A o \in Teams : Cardinality(Side(n, o)) <= TeamSize[t]
  BY <1>2, <1>4, <1>5, <1>6
<1>8. Seating'
  <2>1. seats' \in [TableIds -> SeatMaps] /\ \A o \in TableIds \ {t} : seats'[o] = seats[o]
    BY <1>2, <1>3 DEF Seating
  <2>2. \A o \in TableIds, team \in Teams : Cardinality(Side(seats'[o], team)) <= TeamSize[o]
    BY <1>3, <1>7, <2>1 DEF Seating
  <2>3. status'[t] # None
    BY NoneAssumption
  <2> QED BY <2>1, <2>2, <2>3 DEF Seating
<1>9. Life(t)!Move
  <2>1. seats'[t] = [seats[t] EXCEPT ![p] = None]
    BY <1>3 DEF n, m
  <2>2. Life(t)!Fits(seats'[t])
    BY <1>3, <1>7, LifeSeats
  <2>3. ~Life(t)!Full(seats'[t])
    BY <1>2, <1>3, <1>5, <1>6, LifeSeats, SideType
  <2> QED BY <2>1, <2>2, <2>3, AskedKept DEF Life!Move, Life!Teams
<1> QED BY <1>8, <1>9

(* One table lives on, and the others are as they were.                    *)
LifeGoesOn == \A t \in TableIds : [Life(t)!Next]_<<status[t], seats[t], Asked(t)>>

LEMMA OneLives ==
  ASSUME NEW t \in TableIds, Life(t)!Next,
         \A o \in TableIds \ {t} : status'[o] = status[o] /\ seats'[o] = seats[o],
         \A o \in TableIds \ {t} : Asked(o)' = Asked(o)
  PROVE  LifeGoesOn
BY DEF LifeGoesOn

(* A cancel that comes or goes is one of its own table's.                  *)
LEMMA AskedElsewhere ==
  ASSUME NEW h \in Humans, NEW t \in TableIds,
         cancelling' \in {cancelling \cup {<<h, t>>}, cancelling \ {<<h, t>>}}
  PROVE  \A o \in TableIds \ {t} : Asked(o)' = Asked(o)
BY DEF Asked

(* A status that is set at an end of the table's life.                     *)
LEMMA EndLives ==
  ASSUME NEW t \in TableIds, NEW end \in {"CANCELLED", "FINISHED"}, Seating,
         end = "FINISHED" => status[t] = "LOCKED" /\ Asked(t)' = Asked(t),
         end = "CANCELLED" => (status[t] \in {"PENDING", "LOCKED"} \/ Asked(t)) /\ (Asked(t)' => Asked(t)),
         \A o \in TableIds \ {t} : Asked(o)' = Asked(o),
         status' = [status EXCEPT ![t] = end], seats' = seats
  PROVE  Seating' /\ LifeGoesOn
<1>1. status'[t] = end /\ \A o \in TableIds \ {t} : status'[o] = status[o]
  BY DEF Seating
<1>2. Seating'
  <2>1. status' \in [TableIds -> {None, "PENDING", "LOCKED", "FINISHED", "CANCELLED"}]
    BY DEF Seating
  <2> QED BY <1>1, <2>1, NoneAssumption DEF Seating
<1>3. Life(t)!Next
  BY <1>1 DEF Life!Next, Life!Cancel, Life!Finish, Life!Undecided
<1> QED BY <1>1, <1>2, <1>3, OneLives

(* Who sits down lets every table live on.                                 *)
LEMMA SitLives ==
  ASSUME NEW t \in TableIds, NEW p \in Players, NEW team \in Teams, Seating,
         status[t] \in {None, "PENDING"}, seats[t][p] = None, Free(t, team) > 0,
         Sit(t, p, team), cancelling' = cancelling
  PROVE  Seating' /\ LifeGoesOn
<1>1. Seating' /\ Life(t)!Next
  BY SitMoves DEF Life!Next
<1>2. \A o \in TableIds \ {t} : status'[o] = status[o] /\ seats'[o] = seats[o]
  BY DEF Sit, Seating
<1> QED BY <1>1, <1>2, OneLives, AskedKept

----------------------------------------------------------------------------
(* Simulations                                                             *)

(* A simulation has a slot for every seat it still has to fill, and one    *)
(* that wants a bot has a seat for it.                                     *)
Provides(t, s) ==
  s # None =>
    /\ s.at = "asleep" => s.slot = 0
    /\ s.slot + s.need["A"] + s.need["B"] <= 2 * TeamSize[t]
    /\ s.at \in {"creating", "paying", "joining"} => \E team \in Teams : s.need[team] > 0

IInv ==
  /\ TypeOK
  /\ Seating
  /\ \A t \in TableIds : Provides(t, sim[t])

(* So it never sends for a bot that there is not.                          *)
LEMMA SlotThere ==
  ASSUME NEW t \in TableIds, TypeOK, Provides(t, sim[t]), sim[t] # None, SeatsLeft(t)
  PROVE  /\ sim[t].slot \in Slots /\ Bot(sim[t].slot) \in Players
         /\ NextTeam(t) \in Teams /\ sim[t].need[NextTeam(t)] > 0
<1>1. sim[t].slot \in Nat /\ sim[t].need["A"] \in Nat /\ sim[t].need["B"] \in Nat
  BY DEF TypeOK, Simulations, Teams
<1>2. NextTeam(t) \in Teams /\ sim[t].need[NextTeam(t)] > 0
  BY <1>1 DEF SeatsLeft, NextTeam, Teams
<1>3. TeamSize[t] \in 1 .. 5
  BY DemoAssumption
<1>4. sim[t].slot < 2 * TeamSize[t]
  BY <1>1, <1>2, <1>3 DEF Provides, NextTeam, Teams
<1>5. sim[t].slot \in Slots
  BY <1>1, <1>3, <1>4 DEF Slots
<1> QED BY <1>2, <1>5 DEF Players

(* A standing table starts with its hosts on side A.                       *)
LEMMA InitInv == Init => IInv /\ \A t \in TableIds : Life(t)!Init
<1> SUFFICES ASSUME Init PROVE IInv /\ \A t \in TableIds : Life(t)!Init
  OBVIOUS
<1>1. ASSUME NEW t \in Seeded PROVE Hosts(t) \subseteq Players
  BY DEF Players
<1>2. seats \in [TableIds -> SeatMaps]
  BY DEF Init, SeatMaps, Teams
<1>3. ASSUME NEW t \in TableIds
      PROVE  /\ Cardinality(Side(seats[t], "A")) <= TeamSize[t]
             /\ Cardinality(Side(seats[t], "B")) = 0
             /\ t \notin Seeded => \A p \in Players : seats[t][p] = None
  <2>1. None \notin Teams
    BY NoneAssumption
  <2>2. Side(seats[t], "B") = {}
    BY <2>1 DEF Init, Side, Teams
  <2>3. Side(seats[t], "A") = IF t \in Seeded THEN Hosts(t) ELSE {}
    BY <1>1, <2>1 DEF Init, Side, Teams
  <2>4. TeamSize[t] \in 1 .. 5
    BY DemoAssumption
  <2>5. Cardinality(Side(seats[t], "A")) <= TeamSize[t]
    <3>1. CASE t \in Seeded
      BY <2>3, <2>4, <3>1, HostsCount
    <3>2. CASE t \notin Seeded
      BY <2>3, <2>4, <3>2, FS_EmptySet
    <3> QED BY <3>1, <3>2
  <2>6. t \notin Seeded => \A p \in Players : seats[t][p] = None
    BY DEF Init
  <2> QED BY <2>2, <2>5, <2>6, FS_EmptySet
<1>4. Seating
  <2>1. \A t \in TableIds : TeamSize[t] \in 1 .. 5
    BY DemoAssumption
  <2>2. \A t \in TableIds, team \in Teams : Cardinality(Side(seats[t], team)) <= TeamSize[t]
    BY <1>3, <2>1 DEF Teams
  <2>3. status \in [TableIds -> {None, "PENDING", "LOCKED", "FINISHED", "CANCELLED"}]
    BY DEF Init
  <2>4. \A t \in TableIds : status[t] = None => t \notin Seeded
    BY NoneAssumption DEF Init
  <2> QED BY <1>2, <1>3, <2>2, <2>3, <2>4 DEF Seating
<1>5. TypeOK
  <2>1. \A t \in Seeded : Host(t, 1) \in Players
    BY <1>1, DemoAssumption DEF Hosts
  <2>2. creator \in [TableIds -> Players \cup {None}]
    BY <2>1 DEF Init
  <2> QED BY <1>4, <2>2, DemoAssumption DEF Init, TypeOK, Seating, SeatMaps
<1>6. \A t \in TableIds : Provides(t, sim[t])
  BY DEF Init, Provides
<1>7. ASSUME NEW t \in TableIds PROVE Life(t)!Init
  <2>1. TeamSize[t] \in 1 .. 5
    BY DemoAssumption
  <2>2. Life(t)!Fits(seats[t])
    BY <1>4, LifeSeats DEF Seating
  <2>3. ~Life(t)!Full(seats[t])
    BY <1>3, <2>1, LifeSeats DEF Teams
  <2>4. seats[t] \in [Players -> Life(t)!Teams \cup {None}]
    BY <1>2 DEF SeatMaps, Teams, Life!Teams
  <2>5. status[t] \in {None, "PENDING"}
    BY DEF Init
  <2>6. ~Asked(t)
    BY DEF Init, Asked
  <2> QED BY <2>2, <2>3, <2>4, <2>5, <2>6 DEF Life!Init
<1> QED BY <1>4, <1>5, <1>6, <1>7 DEF IInv

----------------------------------------------------------------------------
(* Every step                                                              *)

(* Whoever acts, a table that changes moves or ends.                       *)
LEMMA StepLives == IInv /\ [Next]_vars => Seating' /\ LifeGoesOn
<1> SUFFICES ASSUME IInv, [Next]_vars PROVE Seating' /\ LifeGoesOn
  OBVIOUS
<1> USE DEF IInv
<1>1. CASE UNCHANGED <<status, seats, cancelling>>
  BY <1>1, AskedKept DEF Seating, LifeGoesOn
<1>2. Humans \subseteq Players
  BY DEF Players
<1>3. ASSUME NEW h \in Humans, NEW t \in TableIds, CreateTable(h, t)
      PROVE  Seating' /\ LifeGoesOn
  <2>1. status[t] = None /\ \A p \in Players : seats[t][p] = None
    BY <1>3 DEF CreateTable, Seating
  <2>2. Free(t, "A") > 0 /\ "A" \in Teams
    BY <2>1, OpenSeats DEF Teams
  <2> QED BY <1>2, <1>3, <2>1, <2>2, SitLives DEF CreateTable
<1>4. ASSUME NEW h \in Humans, NEW t \in TableIds, NEW team \in Teams, JoinTable(h, t, team)
      PROVE  Seating' /\ LifeGoesOn
  BY <1>2, <1>4, SitLives DEF JoinTable, MayJoin
<1>5. ASSUME NEW h \in Humans, NEW t \in TableIds, LeaveTable(h, t)
      PROVE  Seating' /\ LifeGoesOn
  <2>1. CASE creator[t] = h
    BY <1>5, <2>1, EndLives, AskedKept DEF LeaveTable, Cancel
  <2>2. CASE creator[t] # h
    <3>1. /\ status[t] = "PENDING" /\ seats[t][h] # None
          /\ seats' = [seats EXCEPT ![t][h] = None] /\ status' = status
          /\ cancelling' = cancelling
      BY <1>5, <2>2 DEF LeaveTable
    <3>2. Seating' /\ Life(t)!Next
      BY <1>2, <3>1, LeaveMoves DEF Life!Next
    <3>3. \A o \in TableIds \ {t} : status'[o] = status[o] /\ seats'[o] = seats[o]
      BY <3>1 DEF Seating
    <3> QED BY <3>1, <3>2, <3>3, OneLives, AskedKept
  <2> QED BY <2>1, <2>2
<1>6. ASSUME NEW h \in Humans, NEW t \in TableIds, CancelMatch(h, t)
      PROVE  Seating' /\ LifeGoesOn
  <2>1. Asked(t) /\ (Asked(t)' => Asked(t))
    BY <1>6 DEF CancelMatch, Asked
  <2>2. \A o \in TableIds \ {t} : Asked(o)' = Asked(o)
    BY <1>6, AskedElsewhere DEF CancelMatch
  <2> QED BY <1>6, <2>1, <2>2, EndLives DEF CancelMatch, Cancel
<1>12. ASSUME NEW h \in Humans, NEW t \in TableIds, LoadForCancel(h, t)
      PROVE  Seating' /\ LifeGoesOn
  <2>1. Asked(t)' /\ \A o \in TableIds \ {t} : Asked(o)' = Asked(o)
    BY <1>12, AskedElsewhere DEF LoadForCancel, Asked
  <2>2. status' = status /\ seats' = seats /\ status[t] \in {"PENDING", "LOCKED"}
    BY <1>12 DEF LoadForCancel, MayCancel
  <2>3. Life(t)!Next
    BY <2>1, <2>2 DEF Life!Next, Life!Ask, Life!Undecided
  <2>4. Seating'
    BY <2>2 DEF Seating
  <2> QED BY <2>1, <2>2, <2>3, <2>4, OneLives
<1>7. ASSUME NEW t \in TableIds, SeatBot(t)
      PROVE  Seating' /\ LifeGoesOn
  <2> DEFINE slot == sim[t].slot
             team == NextTeam(t)
  <2>1. sim[t] # None /\ SeatsLeft(t)
    BY <1>7 DEF SeatBot, At, Provides, SeatsLeft
  <2>2. Bot(slot) \in Players /\ team \in Teams
    BY <2>1, SlotThere
  <2>3. CASE MayJoin(t, Bot(slot), team) /\ CanPay(slot)
    BY <1>7, <2>2, <2>3, SitLives DEF SeatBot, MayJoin
  <2>4. CASE ~(MayJoin(t, Bot(slot), team) /\ CanPay(slot))
    BY <1>1, <1>7, <2>4 DEF SeatBot
  <2> QED BY <2>3, <2>4
<1>8. ASSUME NEW t \in TableIds, Settle(t)
      PROVE  Seating' /\ LifeGoesOn
  <2>1. CASE status' = status
    BY <1>1, <1>8, <2>1 DEF Settle
  <2>2. CASE status' # status
    BY <1>8, <2>2, EndLives, AskedKept DEF Settle, MaySettle
  <2> QED BY <2>1, <2>2
<1>9. ASSUME NEW t \in TableIds, \/ CountSeats(t) \/ FindBot(t) \/ CreateBot(t)
                                \/ TopUp(t) \/ PlayMatch(t) \/ PickWinner(t)
      PROVE  Seating' /\ LifeGoesOn
  BY <1>1, <1>9 DEF CountSeats, FindBot, CreateBot, TopUp, PlayMatch, PickWinner, tableVars
<1>10. CASE Restart
  <2>1. status' = status /\ seats' = seats /\ \A o \in TableIds : ~Asked(o)'
    BY <1>10 DEF Restart, Asked
  <2>2. \A o \in TableIds : Life(o)!Next
    BY <2>1 DEF Life!Next, Life!Forget
  <2> QED BY <2>1, <2>2 DEF Seating, LifeGoesOn
<1>11. CASE UNCHANGED vars
  BY <1>1, <1>11 DEF vars, tableVars
<1> QED BY <1>3, <1>4, <1>5, <1>6, <1>7, <1>8, <1>9, <1>10, <1>11, <1>12 DEF Next

(* What a step leaves of the simulations.                                  *)
Simulating ==
  /\ sim \in [TableIds -> Simulations \cup {None}]
  /\ \A t \in TableIds : Provides(t, sim[t])

(* One simulation changes, for one that can still fill its seats.          *)
LEMMA OneSimulates ==
  ASSUME NEW t \in TableIds, NEW s \in Simulations \cup {None}, Simulating,
         Provides(t, s), sim' = [sim EXCEPT ![t] = s]
  PROVE  Simulating'
<1>1. sim' \in [TableIds -> Simulations \cup {None}]
  BY DEF Simulating
<1>2. sim'[t] = s /\ \A o \in TableIds \ {t} : sim'[o] = sim[o]
  BY DEF Simulating
<1>3. \A o \in TableIds : Provides(o, sim'[o])
  BY <1>2 DEF Simulating
<1> QED BY <1>1, <1>3 DEF Simulating, Provides

(* A new simulation has its slots before it.                               *)
LEMMA ScheduleSimulates ==
  ASSUME NEW t \in TableIds, Simulating, Schedule(t)
  PROVE  Simulating'
<1>1. CASE sim[t] # None
  BY <1>1 DEF Schedule, Simulating, Provides
<1>2. CASE sim[t] = None
  <2>1. NewSimulation \in Simulations
    BY DEF NewSimulation, Simulations, Stages, Teams
  <2>2. Provides(t, NewSimulation)
    BY DemoAssumption DEF Provides, NewSimulation, Teams
  <2> QED BY <1>2, <2>1, <2>2, OneSimulates DEF Schedule
<1> QED BY <1>1, <1>2

(* A simulation that goes on to another stage, or ends.                    *)
LEMMA GoOnSimulates ==
  ASSUME NEW t \in TableIds, Simulating, sim[t] # None,
         NEW stage \in Stages \ {"asleep"}, NEW seen \in Nat, NEW winner \in Players \cup {None},
         stage \in {"creating", "paying", "joining"} => SeatsLeft(t),
         sim' = [sim EXCEPT ![t] = [sim[t] EXCEPT !.at = stage, !.seen = seen, !.winner = winner]]
  PROVE  Simulating'
<1> DEFINE s == [sim[t] EXCEPT !.at = stage, !.seen = seen, !.winner = winner]
<1>1. sim[t] \in Simulations
  BY DEF Simulating
<1>2. s \in Simulations /\ s.need = sim[t].need /\ s.slot = sim[t].slot /\ s.at = stage
  BY <1>1 DEF Simulations
<1>3. Provides(t, s)
  BY <1>2 DEF Simulating, Provides, SeatsLeft
<1> QED BY <1>2, <1>3, OneSimulates

(* A simulation that ends wants nothing.                                   *)
LEMMA FailSimulates ==
  ASSUME NEW t \in TableIds, Simulating, Fail(t)
  PROVE  Simulating'
BY OneSimulates DEF Fail, Become, Provides

(* The seats it counts are as many as it may need bots for.                *)
LEMMA CountSimulates ==
  ASSUME NEW t \in TableIds, Seating, Simulating, CountSeats(t)
  PROVE  Simulating'
<1> DEFINE s == [sim[t] EXCEPT !.at = "filling", !.need = Need(t)]
<1>1. sim[t] \in Simulations /\ sim[t].slot = 0 /\ sim' = [sim EXCEPT ![t] = s]
  BY DEF CountSeats, At, Become, Simulating, Provides
<1>2. \A team \in Teams : Free(t, team) \in 0 .. TeamSize[t]
  <2>1. TeamSize[t] \in 1 .. 5
    BY DemoAssumption
  <2> QED BY <2>1, FreeSeats, SideType DEF Seating
<1>3. s \in Simulations /\ s.slot = 0 /\ s.at = "filling" /\ s.need = Need(t)
  <2>1. Need(t) \in [Teams -> Nat]
    BY <1>2, DemoAssumption DEF Need
  <2> QED BY <1>1, <2>1 DEF Simulations, Stages
<1>4. Provides(t, s)
  <2>1. TeamSize[t] \in 1 .. 5
    BY DemoAssumption
  <2> QED BY <1>2, <1>3, <2>1 DEF Provides, Need, Teams
<1> QED BY <1>1, <1>3, <1>4, OneSimulates

(* A seat less to fill, a slot more used.                                  *)
LEMMA SeatSimulates ==
  ASSUME NEW t \in TableIds, TypeOK, Simulating, SeatBot(t)
  PROVE  Simulating'
<1> DEFINE team == NextTeam(t)
           s == [sim[t] EXCEPT !.at = "filling", !.need[team] = @ - 1,
                               !.slot = NextSlot(sim[t].slot)]
<1>1. sim[t] # None /\ sim[t] \in Simulations /\ SeatsLeft(t) /\ Provides(t, sim[t])
  BY DEF SeatBot, At, Simulating, Provides, SeatsLeft
<1>2. team \in Teams /\ sim[t].need[team] > 0
  BY <1>1, SlotThere
<1>3. CASE Fail(t)
  BY <1>3, FailSimulates
<1>4. CASE Become(t, s)
  <2>1. /\ sim[t].need \in [Teams -> Nat] /\ sim[t].slot \in Nat
        /\ s.need = [sim[t].need EXCEPT ![team] = @ - 1]
        /\ s.slot = sim[t].slot + 1 /\ s.at = "filling"
    BY <1>1 DEF Simulations, NextSlot
  <2>2. s.need \in [Teams -> Nat]
    BY <1>2, <2>1
  <2>3. s \in Simulations
    <3>1. \A need \in [Teams -> Nat], slot \in Nat :
            [sim[t] EXCEPT !.at = "filling", !.need = need, !.slot = slot] \in Simulations
      BY <1>1 DEF Simulations, Stages
    <3>2. s = [sim[t] EXCEPT !.at = "filling", !.need = [sim[t].need EXCEPT ![team] = @ - 1],
                             !.slot = sim[t].slot + 1]
      BY <1>1 DEF Simulations, NextSlot
    <3>3. [sim[t].need EXCEPT ![team] = @ - 1] \in [Teams -> Nat] /\ sim[t].slot + 1 \in Nat
      BY <2>1, <2>2
    <3> HIDE DEF s, team
    <3> QED BY <3>1, <3>2, <3>3
  <2>4. s.need["A"] + s.need["B"] = sim[t].need["A"] + sim[t].need["B"] - 1
    BY <1>2, <2>1 DEF Teams
  <2>5. TeamSize[t] \in 1 .. 5
    BY DemoAssumption
  <2>6. Provides(t, s)
    BY <1>1, <2>1, <2>2, <2>4, <2>5 DEF Provides, Teams
  <2> QED BY <1>4, <2>3, <2>6, OneSimulates DEF Become
<1> QED BY <1>3, <1>4 DEF SeatBot

(* Every step keeps the invariant: seats by StepLives, simulations by the  *)
(* lemmas above, and what is left is types.                                *)
LEMMA StepTyped == IInv /\ [Next]_vars => IInv'
<1> SUFFICES ASSUME IInv, [Next]_vars PROVE IInv'
  OBVIOUS
<1> DEFINE Money == bots' \subseteq Slots /\ balance' \in [Slots -> Nat]
           Others == /\ creator' \in [TableIds -> Players \cup {None}]
                     /\ cancelling' \subseteq Humans \X TableIds
                     /\ upset' \subseteq TableIds /\ restarts' \in 0 .. MaxRestarts
<1>1. Seating' /\ LifeGoesOn
  BY StepLives
<1>2. Simulating /\ TypeOK /\ Seating
  BY DEF IInv, TypeOK, Simulating
<1>3. BotBalance \in Nat /\ MaxRestarts \in Nat
  BY DemoAssumption
<1>4. Humans \subseteq Players /\ Humans \cap {None} = {}
  BY NoneAssumption DEF Players
<1>5. Simulating' /\ Money /\ Others => IInv'
  BY <1>1 DEF IInv, TypeOK, Seating, SeatMaps, Simulating
<1>6. ASSUME NEW h \in Humans, NEW t \in TableIds,
             CreateTable(h, t) \/ \E team \in Teams : JoinTable(h, t, team)
      PROVE  IInv'
  <2>1. Simulating'
    BY <1>2, <1>6, ScheduleSimulates DEF CreateTable, JoinTable
  <2> QED BY <1>2, <1>4, <1>5, <1>6, <2>1 DEF CreateTable, JoinTable, Upset, TypeOK, botVars
<1>7. ASSUME NEW h \in Humans, NEW t \in TableIds, 
             LeaveTable(h, t) \/ LoadForCancel(h, t) \/ CancelMatch(h, t)
      PROVE  IInv'
  <2>1. Simulating'
    BY <1>2, <1>7 DEF LeaveTable, LoadForCancel, CancelMatch, Simulating, Provides
  <2>2. Others
    BY <1>2, <1>7 DEF LeaveTable, LoadForCancel, CancelMatch, Upset, TypeOK
  <2>3. Money
    <3>1. CASE UNCHANGED botVars
      BY <1>2, <3>1 DEF botVars, TypeOK
    <3>2. CASE Cancel(t)
      <4>1. \A i \in Slots : balance[i] \in Nat /\ balance[i] + 1 \in Nat
        BY <1>2 DEF TypeOK
      <4> QED BY <1>2, <3>2, <4>1 DEF Cancel, TypeOK
    <3> QED BY <1>7, <3>1, <3>2 DEF LeaveTable, LoadForCancel, CancelMatch
  <2> QED BY <1>5, <2>1, <2>2, <2>3
<1>8. ASSUME NEW t \in TableIds, CountSeats(t) PROVE IInv'
  BY <1>2, <1>5, <1>8, CountSimulates DEF CountSeats, TypeOK, botVars, tableVars
<1>9. ASSUME NEW t \in TableIds, NEW stage, At(t, stage)
      PROVE  /\ sim[t] \in Simulations /\ sim[t] # None
             /\ stage \in {"creating", "paying", "joining"} => SeatsLeft(t)
             /\ stage \in {"creating", "paying", "joining"} \/ SeatsLeft(t) =>
                  sim[t].slot \in Slots
  <2>1. sim[t] \in Simulations /\ sim[t] # None /\ Provides(t, sim[t])
    BY <1>2, <1>9 DEF At, Simulating
  <2>2. stage \in {"creating", "paying", "joining"} => SeatsLeft(t)
    BY <1>9, <2>1 DEF At, Provides, SeatsLeft
  <2> QED BY <1>2, <2>1, <2>2, SlotThere
<1>10. ASSUME NEW t \in TableIds, FindBot(t) PROVE IInv'
  <2> DEFINE slot == sim[t].slot
  <2>1. sim[t] \in Simulations /\ sim[t] # None /\ SeatsLeft(t) /\ slot \in Slots
    BY <1>9, <1>10 DEF FindBot
  <2>2. balance[slot] \in Nat /\ sim[t].seen \in Nat /\ sim[t].winner \in Players \cup {None}
    BY <1>2, <2>1 DEF TypeOK, Simulations
  <2>3. Simulating'
    <3>1. CASE slot \in bots
      <4>1. sim' = [sim EXCEPT ![t] = [sim[t] EXCEPT !.at = "paying", !.seen = balance[slot],
                                                    !.winner = sim[t].winner]]
        BY <1>10, <2>1, <3>1 DEF FindBot, Become, Simulations
      <4> QED BY <1>2, <2>1, <2>2, <4>1, GoOnSimulates DEF Stages
    <3>2. CASE slot \notin bots
      <4>1. sim' = [sim EXCEPT ![t] = [sim[t] EXCEPT !.at = "creating", !.seen = sim[t].seen,
                                                    !.winner = sim[t].winner]]
        BY <1>10, <2>1, <3>2 DEF FindBot, GoOn, Become, Simulations
      <4> QED BY <1>2, <2>1, <2>2, <4>1, GoOnSimulates DEF Stages
    <3> QED BY <3>1, <3>2
  <2> QED BY <1>2, <1>5, <1>10, <2>3 DEF FindBot, TypeOK, botVars, tableVars
<1>11. ASSUME NEW t \in TableIds, CreateBot(t) PROVE IInv'
  <2> DEFINE slot == sim[t].slot
  <2>1. sim[t] \in Simulations /\ sim[t] # None /\ SeatsLeft(t) /\ slot \in Slots
    BY <1>9, <1>11 DEF CreateBot
  <2>2. Simulating'
    <3>1. CASE slot \in bots
      BY <1>2, <1>11, <3>1, FailSimulates DEF CreateBot
    <3>2. CASE slot \notin bots
      <4>1. sim[t].winner \in Players \cup {None}
        BY <2>1 DEF Simulations
      <4>2. sim' = [sim EXCEPT ![t] = [sim[t] EXCEPT !.at = "paying", !.seen = BotBalance,
                                                    !.winner = sim[t].winner]]
        BY <1>11, <2>1, <3>2 DEF CreateBot, Become, Simulations
      <4> QED BY <1>2, <1>3, <2>1, <4>1, <4>2, GoOnSimulates DEF Stages
    <3> QED BY <3>1, <3>2
  <2>3. Money
    BY <1>2, <1>3, <1>11, <2>1 DEF CreateBot, TypeOK, botVars
  <2>4. Others
    BY <1>2, <1>11 DEF CreateBot, TypeOK, tableVars, botVars, Sharing
  <2> QED BY <1>5, <2>2, <2>3, <2>4
<1>12. ASSUME NEW t \in TableIds, TopUp(t) PROVE IInv'
  <2>1. sim[t] \in Simulations /\ sim[t] # None /\ SeatsLeft(t) /\ sim[t].slot \in Slots
    BY <1>9, <1>12 DEF TopUp
  <2>2. Simulating'
    <3>1. sim[t].seen \in Nat /\ sim[t].winner \in Players \cup {None}
      BY <2>1 DEF Simulations
    <3>2. sim' = [sim EXCEPT ![t] = [sim[t] EXCEPT !.at = "joining", !.seen = sim[t].seen,
                                                  !.winner = sim[t].winner]]
      BY <1>12, <2>1 DEF TopUp, GoOn, Become, Simulations
    <3> QED BY <1>2, <2>1, <3>1, <3>2, GoOnSimulates DEF Stages
  <2>3. Money
    BY <1>2, <1>3, <1>12, <2>1 DEF TopUp, TypeOK
  <2> QED BY <1>2, <1>5, <1>12, <2>2, <2>3 DEF TopUp, TypeOK, tableVars
<1>13. ASSUME NEW t \in TableIds, SeatBot(t) PROVE IInv'
  <2>1. sim[t].slot \in Slots
    BY <1>9, <1>13 DEF SeatBot
  <2>2. balance[sim[t].slot] \in Nat
    BY <1>2, <2>1 DEF TypeOK
  <2>3. Money
    <3>1. CASE balance' = balance
      BY <1>2, <1>13, <3>1 DEF SeatBot, TypeOK
    <3>2. CASE balance' # balance
      <4>1. /\ balance[sim[t].slot] >= 1 /\ bots' = bots
            /\ balance' = [balance EXCEPT ![sim[t].slot] = @ - 1]
        BY <1>13, <3>2 DEF SeatBot, CanPay
      <4> QED BY <1>2, <2>1, <2>2, <4>1 DEF TypeOK
    <3> QED BY <3>1, <3>2
  <2>4. Others
    BY <1>2, <1>13 DEF SeatBot, TypeOK, Sharing
  <2> QED BY <1>2, <1>5, <1>13, <2>3, <2>4, SeatSimulates
<1>14. ASSUME NEW t \in TableIds, PlayMatch(t) \/ PickWinner(t) PROVE IInv'
  <2>1. sim[t] \in Simulations /\ sim[t] # None
    BY <1>9, <1>14 DEF PlayMatch, PickWinner
  <2>2. sim[t].seen \in Nat /\ sim[t].winner \in Players \cup {None}
    BY <2>1 DEF Simulations
  <2>3. Simulating'
    <3>1. CASE PlayMatch(t)
      <4>1. sim' = [sim EXCEPT ![t] = [sim[t] EXCEPT !.at = "playing", !.seen = sim[t].seen,
                                                    !.winner = sim[t].winner]]
        BY <2>1, <3>1 DEF PlayMatch, GoOn, Become, Simulations
      <4>2. "playing" \in Stages \ {"asleep", "creating", "paying", "joining"}
        BY DEF Stages
      <4> QED BY <1>2, <2>1, <2>2, <4>1, <4>2, GoOnSimulates
    <3>2. ASSUME NEW p \in Players,
                 Become(t, [sim[t] EXCEPT !.at = "reporting", !.winner = p])
          PROVE  Simulating'
      <4>1. sim' = [sim EXCEPT ![t] = [sim[t] EXCEPT !.at = "reporting", !.seen = sim[t].seen,
                                                    !.winner = p]]
        BY <2>1, <3>2 DEF Become, Simulations
      <4>2. "reporting" \in Stages \ {"asleep", "creating", "paying", "joining"}
        BY DEF Stages
      <4> QED BY <1>2, <2>1, <2>2, <3>2, <4>1, <4>2, GoOnSimulates
    <3> QED BY <1>2, <1>14, <3>1, <3>2, FailSimulates DEF PickWinner, On
  <2> QED BY <1>2, <1>5, <1>14, <2>3 DEF PlayMatch, PickWinner, TypeOK, tableVars, botVars
<1>15. ASSUME NEW t \in TableIds, Settle(t) PROVE IInv'
  <2>1. Simulating'
    BY <1>2, <1>15, FailSimulates DEF Settle, Fail
  <2>2. \A i \in Slots : balance[i] \in Nat /\ balance[i] + 2 \in Nat
    BY <1>2 DEF TypeOK
  <2>3. Money
    BY <1>2, <1>15, <2>2 DEF Settle, TypeOK
  <2> QED BY <1>2, <1>5, <1>15, <2>1, <2>3 DEF Settle, TypeOK
<1>16. CASE Restart
  <2>1. Simulating'
    BY <1>16 DEF Restart, Simulating, Provides
  <2> QED BY <1>2, <1>3, <1>5, <1>16, <2>1 DEF Restart, TypeOK, tableVars, botVars
<1>17. CASE UNCHANGED vars
  BY <1>2, <1>5, <1>17 DEF vars, tableVars, botVars, TypeOK, Simulating, Provides
<1> QED BY <1>6, <1>7, <1>8, <1>10, <1>11, <1>12, <1>13, <1>14, <1>15, <1>16, <1>17 DEF Next

----------------------------------------------------------------------------

(* Every variable keeps its type: among others, no bot's balance is ever   *)
(* negative, and no simulation sends for a bot beyond the slots.           *)
THEOREM TypeCorrect == Spec => []TypeOK
<1>1. Init => IInv
  BY InitInv
<1>2. IInv => TypeOK
  BY DEF IInv
<1> QED BY <1>1, <1>2, StepTyped, PTL DEF Spec

(* Every table of the simulations and people implements TableLife.         *)
THEOREM TablesLive == Spec => LifeKept
<1>1. Init => IInv /\ \A t \in TableIds : Life(t)!Init
  BY InitInv
<1>2. IInv /\ [Next]_vars => IInv'
  BY StepTyped
<1>3. IInv /\ [Next]_vars => [\A t \in TableIds : [Life(t)!Next]_<<status[t], seats[t], Asked(t)>>]_tableVars
  BY StepLives DEF LifeGoesOn
<1> QED BY <1>1, <1>2, <1>3, PTL DEF Spec, LifeKept
=============================================================================
