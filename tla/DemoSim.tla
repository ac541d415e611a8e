------------------------------ MODULE DemoSim ------------------------------
(***************************************************************************)
(* Demo mode: simulations that fill the seats of a table with bots and     *)
(* settle it, beside people who open, join, leave and cancel tables.  A    *)
(* simulation is a task of the server process: it sleeps, counts the free  *)
(* seats, seats a bot in each, one transaction after another, sleeps and   *)
(* reports a winner; whatever fails ends it.  The bots are the same ones   *)
(* at every table.                                                         *)
(*                                                                         *)
(* People act in one step each, under the lock of the table's row          *)
(* (TableSessions), but for cancel_match, which loads the table before the *)
(* lock and then acts on the status it loaded.  People always have the     *)
(* stake.  Every stake is 1.                                               *)
(***************************************************************************)
EXTENDS Integers, FiniteSets

CONSTANTS
  Humans,
  TableIds,
  TeamSize,      \* per table
  Seeded,        \* the tables seed_open_tables has opened at startup
  BotBalance,    \* BOT_BALANCE, in stakes
  Reserve,       \* a bot with less is given BotBalance
  MaxRestarts,   \* bound on restarts of the server process
  MaxCancels,    \* bound on the cancels under way at once
  None

ASSUME DemoAssumption ==
  /\ IsFiniteSet(Humans) /\ IsFiniteSet(TableIds) /\ Seeded \subseteq TableIds
  /\ TeamSize \in [TableIds -> 1 .. 5]   \* allowed_team_sizes
  /\ Reserve \in Nat \ {0} /\ BotBalance \in Nat /\ BotBalance >= Reserve
  /\ MaxRestarts \in Nat /\ MaxCancels \in Nat

Teams == {"A", "B"}

(* One bot per seat to fill; the standing tables have hosts of their own.  *)
Slots == {i \in 0 .. 9 : \E t \in TableIds : i < 2 * TeamSize[t]}
Bot(slot) == <<"bot", slot>>
Host(t, i) == <<"host", t, i>>
Hosts(t) == {Host(t, i) : i \in 1 .. TeamSize[t]}
Players == Humans \cup {Bot(i) : i \in Slots} \cup UNION {Hosts(t) : t \in Seeded}

ASSUME NoneAssumption ==
  /\ None \notin Players
  /\ None \notin Teams \cup {"PENDING", "LOCKED", "FINISHED", "CANCELLED"}

VARIABLES
  status,    \* per table; None before it is opened
  seats,     \* per table: the side each player sits on, or None
  creator,   \* per table
  cancelling,  \* <<h, t>>: h's cancel_match has loaded the undecided table t
  sim,       \* per table: its simulation (the table is in _running), or None
  bots,      \* the slots whose bot has a user row
  balance,   \* what those bots have
  upset,     \* tables that others changed under their simulation (see Upset)
  restarts

tableVars == <<status, seats, creator, cancelling>>
botVars == <<bots, balance>>
vars == <<tableVars, sim, botVars, upset, restarts>>

Stages == {"asleep", "filling", "creating", "paying", "joining", "playing", "reporting"}
Simulations ==
  [at : Stages, need : [Teams -> Nat], slot : Nat, seen : Nat, winner : Players \cup {None}]

TypeOK ==
  /\ status \in [TableIds -> {None, "PENDING", "LOCKED", "FINISHED", "CANCELLED"}]
  /\ seats \in [TableIds -> [Players -> Teams \cup {None}]]
  /\ creator \in [TableIds -> Players \cup {None}]
  /\ cancelling \subseteq Humans \X TableIds
  /\ sim \in [TableIds -> Simulations \cup {None}]
  /\ bots \subseteq Slots
  /\ balance \in [Slots -> Nat]
  /\ upset \subseteq TableIds
  /\ restarts \in 0 .. MaxRestarts

On(t, team) == {p \in Players : seats[t][p] = team}
Free(t, team) == TeamSize[t] - Cardinality(On(t, team))
Decided(t) == status[t] \in {"FINISHED", "CANCELLED"}

(* A standing table has its A side taken by hosts, and no simulation.      *)
Init ==
  /\ status = [t \in TableIds |-> IF t \in Seeded THEN "PENDING" ELSE None]
  /\ seats = [t \in TableIds |-> [p \in Players |->
               IF t \in Seeded /\ p \in Hosts(t) THEN "A" ELSE None]]
  /\ creator = [t \in TableIds |-> IF t \in Seeded THEN Host(t, 1) ELSE None]
  /\ cancelling = {}
  /\ sim = [t \in TableIds |-> None]
  /\ bots = {}
  /\ balance = [i \in Slots |-> 0]
  /\ upset = {}
  /\ restarts = 0

----------------------------------------------------------------------------
(* The tables                                                              *)

Sit(t, p, team) ==
  LET last == Free(t, team) = 1 /\ \A side \in Teams \ {team} : Free(t, side) = 0
  IN  /\ seats' = [seats EXCEPT ![t][p] = team]
      /\ status' = [status EXCEPT ![t] = IF last THEN "LOCKED" ELSE "PENDING"]

MayJoin(t, p, team) ==
  /\ status[t] = "PENDING"
  /\ seats[t][p] = None
  /\ Free(t, team) > 0

(* One simulation per table: a table in _running is not scheduled again.   *)
NewSimulation == [at |-> "asleep", need |-> [team \in Teams |-> 0], slot |-> 0,
                  seen |-> 0, winner |-> None]
Schedule(t) == sim' = IF sim[t] = None THEN [sim EXCEPT ![t] = NewSimulation] ELSE sim

(* A person's commit upsets a simulation that has counted the seats.       *)
Upset(t) ==
  upset' = IF sim[t] # None /\ sim[t].at # "asleep" THEN upset \cup {t} ELSE upset

CreateTable(h, t) ==
  /\ status[t] = None
  /\ Sit(t, h, "A")
  /\ creator' = [creator EXCEPT ![t] = h]
  /\ Schedule(t)
  /\ UNCHANGED <<cancelling, botVars, upset, restarts>>

JoinTable(h, t, team) ==
  /\ MayJoin(t, h, team)
  /\ Sit(t, h, team)
  /\ Schedule(t) /\ Upset(t)
  /\ UNCHANGED <<creator, cancelling, botVars, restarts>>

(* Whoever sits gets the stake back, bots too.                             *)
Cancel(t) ==
  /\ status' = [status EXCEPT ![t] = "CANCELLED"]
  /\ balance' = [i \in Slots |->
       IF seats[t][Bot(i)] # None THEN balance[i] + 1 ELSE balance[i]]
  /\ UNCHANGED <<seats, bots>>

LeaveTable(h, t) ==
  /\ status[t] = "PENDING" /\ seats[t][h] # None
  /\ IF creator[t] = h
       THEN Cancel(t)
       ELSE seats' = [seats EXCEPT ![t][h] = None] /\ UNCHANGED <<status, botVars>>
  /\ Upset(t)
  /\ UNCHANGED <<creator, cancelling, sim, restarts>>

MayCancel(t) == status[t] \in {"PENDING", "LOCKED"}

(* cancel_match loads the table and looks for the participant; a table     *)
(* loaded as decided is left alone.                                        *)
LoadForCancel(h, t) ==
  /\ seats[t][h] # None
  /\ MayCancel(t)
  /\ Cardinality(cancelling) < MaxCancels
  /\ cancelling' = cancelling \cup {<<h, t>>}
  /\ UNCHANGED <<status, seats, creator, sim, botVars, upset, restarts>>

(* The lock does not refresh what the session has loaded.                  *)
CancelMatch(h, t) ==
  /\ <<h, t>> \in cancelling
  /\ cancelling' = cancelling \ {<<h, t>>}
  /\ Cancel(t)
  /\ Upset(t)
  /\ UNCHANGED <<creator, sim, restarts>>

----------------------------------------------------------------------------
(* A simulation                                                            *)

At(t, stage) == sim[t] # None /\ sim[t].at = stage
Become(t, s) == sim' = [sim EXCEPT ![t] = s]
GoOn(t, stage) == Become(t, [sim[t] EXCEPT !.at = stage])

(* An exception is logged, and the table leaves _running.                  *)
Fail(t) == Become(t, None)

Need_Whole(t) == [team \in Teams |-> TeamSize[t]]
Need(t) == [team \in Teams |-> Free(t, team)]

(* It wakes up and counts the free seats.                                  *)
CountSeats(t) ==
  /\ At(t, "asleep")
  /\ Become(t, [sim[t] EXCEPT !.at = "filling", !.need = Need(t)])
  /\ UNCHANGED <<tableVars, botVars, upset, restarts>>

NextTeam(t) == IF sim[t].need["A"] > 0 THEN "A" ELSE "B"
SeatsLeft(t) == \E team \in Teams : sim[t].need[team] > 0

(* get_or_create_bot loads the row of the slot's bot, if there is one.     *)
FindBot(t) ==
  LET slot == sim[t].slot
  IN  /\ At(t, "filling") /\ SeatsLeft(t)
      /\ IF slot \in bots
           THEN Become(t, [sim[t] EXCEPT !.at = "paying", !.seen = balance[slot]])
           ELSE GoOn(t, "creating")
      /\ UNCHANGED <<tableVars, botVars, upset, restarts>>

(* Others that want this bot now: its row is changed under their hands.    *)
Sharing(t, stages) ==
  {o \in TableIds \ {t} : sim[o] # None /\ sim[o].slot = sim[t].slot /\ sim[o].at \in stages}

(* faceit_id is unique: the second insert fails.                           *)
CreateBot(t) ==
  LET slot == sim[t].slot
  IN  /\ At(t, "creating")
      /\ IF slot \in bots
           THEN Fail(t) /\ UNCHANGED <<botVars, upset>>
           ELSE /\ bots' = bots \cup {slot}
                /\ balance' = [balance EXCEPT ![slot] = BotBalance]
                /\ upset' = upset \cup Sharing(t, {"creating"})
                /\ Become(t, [sim[t] EXCEPT !.at = "paying", !.seen = BotBalance])
      /\ UNCHANGED <<tableVars, restarts>>

(* "Keep the bot solvent", by what was loaded before the row's lock.       *)
TopUp(t) ==
  /\ At(t, "paying")
  /\ balance' = IF sim[t].seen < Reserve
                  THEN [balance EXCEPT ![sim[t].slot] = BotBalance] ELSE balance
  /\ GoOn(t, "joining")
  /\ UNCHANGED <<tableVars, bots, upset, restarts>>

NextSlot_Same(slot) == slot
NextSlot(slot) == slot + 1

CanPay_Always(slot) == TRUE
CanPay(slot) == balance[slot] >= 1

(* join_table, for the bot.                                                *)
SeatBot(t) ==
  LET slot == sim[t].slot
      team == NextTeam(t)
  IN  /\ At(t, "joining")
      /\ IF MayJoin(t, Bot(slot), team) /\ CanPay(slot)
           THEN /\ Sit(t, Bot(slot), team)
                /\ balance' = [balance EXCEPT ![slot] = @ - 1]
                /\ upset' = upset \cup Sharing(t, {"paying", "joining"})
                /\ Become(t, [sim[t] EXCEPT !.at = "filling", !.need[team] = @ - 1,
                                            !.slot = NextSlot(slot)])
           ELSE Fail(t) /\ UNCHANGED <<status, seats, balance, upset>>
      /\ UNCHANGED <<creator, cancelling, bots, restarts>>

PlayMatch(t) ==
  /\ At(t, "filling") /\ ~SeatsLeft(t)
  /\ GoOn(t, "playing")
  /\ UNCHANGED <<tableVars, botVars, upset, restarts>>

(* The dice choose a side; its first seat is the reported winner.          *)
PickWinner(t) ==
  /\ At(t, "playing")
  /\ \E team \in Teams :
       IF On(t, team) = {}
         THEN Fail(t)
         ELSE \E p \in On(t, team) :
                Become(t, [sim[t] EXCEPT !.at = "reporting", !.winner = p])
  /\ UNCHANGED <<tableVars, botVars, upset, restarts>>

MaySettle_Open(t) == status[t] \in {"PENDING", "LOCKED"}
MaySettle(t) == status[t] = "LOCKED"

(* settle_finished: every winner is paid twice the stake; the simulation   *)
(* ends, with an exception or without.                                     *)
Settle(t) ==
  LET team == seats[t][sim[t].winner]
  IN  /\ At(t, "reporting")
      /\ IF MaySettle(t) /\ team # None
           THEN /\ status' = [status EXCEPT ![t] = "FINISHED"]
                /\ balance' = [i \in Slots |->
                     IF seats[t][Bot(i)] = team THEN balance[i] + 2 ELSE balance[i]]
           ELSE UNCHANGED <<status, balance>>
      /\ Become(t, None)
      /\ UNCHANGED <<seats, creator, cancelling, bots, upset, restarts>>

Simulate(t) ==
  \/ CountSeats(t) \/ FindBot(t) \/ CreateBot(t) \/ TopUp(t) \/ SeatBot(t)
  \/ PlayMatch(t) \/ PickWinner(t) \/ Settle(t)

(* The process ends and starts again: its tasks, _running and the requests *)
(* under way are gone, and nothing schedules the tasks anew.               *)
Restart ==
  /\ restarts < MaxRestarts
  /\ restarts' = restarts + 1
  /\ upset' = upset \cup {t \in TableIds : sim[t] # None}
  /\ sim' = [t \in TableIds |-> None]
  /\ cancelling' = {}
  /\ UNCHANGED <<status, seats, creator, botVars>>

Next ==
  \/ \E h \in Humans, t \in TableIds :
       \/ CreateTable(h, t)
       \/ \E team \in Teams : JoinTable(h, t, team)
       \/ LeaveTable(h, t) \/ LoadForCancel(h, t) \/ CancelMatch(h, t)
  \/ \E t \in TableIds :
       \/ CountSeats(t) \/ FindBot(t) \/ CreateBot(t) \/ TopUp(t) \/ SeatBot(t)
       \/ PlayMatch(t) \/ PickWinner(t) \/ Settle(t)
  \/ Restart

(* The event loop runs the tasks it has; people need not do anything.      *)
Fairness == \A t \in TableIds : WF_vars(Simulate(t))

Spec == Init /\ [][Next]_vars /\ Fairness

----------------------------------------------------------------------------
(* "Opening or joining a table brings in bots for every unfilled seat,     *)
(* then it auto-settles": a simulation plays its table out, whoever joins  *)
(* or leaves before it counts the seats and however many other tables are  *)
(* filling, unless others change the table after the count, take or create *)
(* the bot it is about to use, or end the process.                         *)
PlaysOut == \A t \in TableIds : sim[t] # None ~> (Decided(t) \/ t \in upset)

(* Whatever simulations and people do to a table at the same time, it      *)
(* lives a table's life: never overfull, locked by its last seat alone,    *)
(* played once, and cancelled after it was played only by a request that   *)
(* had loaded the table undecided.                                         *)
Asked(t) == \E h \in Humans : <<h, t>> \in cancelling
Life(t) == INSTANCE TableLife WITH
  TeamSize <- TeamSize[t], status <- status[t], seats <- seats[t], asked <- Asked(t)
LifeKept ==
  /\ \A t \in TableIds : Life(t)!Init
  /\ [][\A t \in TableIds : [Life(t)!Next]_<<status[t], seats[t], Asked(t)>>]_tableVars
=============================================================================
