# A TLA+ model of the wagering platform

The repository is a web application for wagers on FACEIT matches: users deposit
money, take seats at a *table* (a match that is filling), play it on FACEIT, and
the side that wins is paid. This directory models its server (`src/app`), checks
the model with TLC and proves part of it with TLAPS.

## 1. The system

| Component | Source (`src/app/`) | State | Operations |
|---|---|---|---|
| Ledger | `services/ledger.py` | `users.balance`, `principal`, `rollover_requirement`, transaction rows | lock_user, credit, debit, raise/burn rollover, split_withdrawal |
| Wallet | `routers/wallet.py`, `services/payed.py` | the DEPOSIT row of a checkout; a withdrawal between its two commits | deposit, withdraw (demo and real) |
| Payed webhook | `routers/webhook.py` | `webhook:seen:*` markers in Redis | credit a deposit |
| Parties | `services/party_service.py` | parties, members, pool, entitlements, log rows | create, join, leave/disband, kick, split mode, contribute, reclaim, distribute, allocate |
| Tables | `services/match_service.py`, `routers/match.py` | matches, seats | open, join, leave, cancel, settle, mark_live |
| FACEIT webhook | `routers/webhook.py`, `services/faceit.py` | markers, `faceit_match_id` | finished, cancelled, live |
| Sessions | `database.py`, `security.py` | row locks, identity maps | select for update, commit, rollback |
| Demo | `services/demo.py` | bots, running simulations | fill seats, settle |
| Code exchange, rate limit, geofencing | `auth_code.py`, `ratelimit.py`, `middleware/`, `services/geo.py` | Redis keys with a time to live | store/consume, count, look up |
| Frontend | `../frontend` | a page's copy of what the API said | polling, buttons |

**How they meet.** A table takes a seat's stake from the user's balance, or from
a party's pool when the leader queues a party of two or more; the pool is made of
*entitlements*, one per member, and each seat remembers who funded it
(`contributed`, `party_id`, `party_split`). A refund goes back where the stake
came from, or to the user when the party or the membership is gone. Settling pays
each winner in proportion to what their seat funded, into the pool if the seat
was taken under LEADER mode. Every stake of a decided table burns its owner's
rollover, and only a user with no rollover left may withdraw. A table that fills
is committed as LOCKED before FACEIT is called; FACEIT's webhooks then decide it.

**What is hard.** Requests run concurrently, each in its own database session, and
meet at row locks; a session's identity map is not refreshed by a later select,
locking or not (`expire_on_commit=False`). A withdrawal and a table's last join
commit, call another company, and commit again. Webhooks are repeated, reordered
and lost. Seats outlive the party and the memberships that funded them. Money is
split in cents over uneven weights. `PROJECT.json` lists each hazard at its line.

**What correctness means, per component.** Ledger and wallet: nothing is credited
before it is paid, no fee is kept of a payout that is given back, and what the
provider holds is all that is owed. Parties: the pool is the sum of the entitlements,
and nobody's money reaches another but by the leader's gift, which carries the
wagering requirement. Tables: a locked table is full and funded, a stake is returned
once or played for once, the creator is seated while the table is open. Webhooks: a
result lands, once. Sessions: what a handler decides on is what is committed.

**Where the code falls short of it.** Three places contradict a comment or document
and are shown by runs of their own (`findings`, section 3). Others only leave a gap:
a payment reported by two kinds of notice is credited twice, a refused payout writes
back an old balance and may have been sent, a row loaded before its lock is written
over a newer one, an exchange deletes whatever key of Redis its string names. The
models do all of this. Where a property would be false for such a gap alone, the gap
is measured by a history variable (`drift` of `Wallet`, `lost` of `PartySessions`,
`taken` of `RateLimit`, `strayed` of `AuthCodes`, `cut` of `FaceitEvents`, `upset` of
`DemoSim`, `hurt` of `Requests`), and the property says that nothing else is wrong.
No handler reads these variables.

## 2. The modules

| Module | Models | State and actions |
|---|---|---|
| `Money` | the arithmetic: rounding, rake, fee, rollover, `allocate()` | none: operators, in cents |
| `MoneyProofs` | lemmas about sums, percentages and `allocate()` | |
| `Splits` | walks every input of the arithmetic up to a bound | one input at a time |
| `SplitsProofs` | theorems about the arithmetic, for any input | |
| `Wallet` | user rows, deposits, withdrawals, Payed webhook | one action per stretch of a handler between two commits |
| `Parties` | EXTENDS `Wallet`: parties, pools, entitlements | one action per operation of `party_service` |
| `Tables` | EXTENDS `Parties`: tables and seats; the whole platform | one action per operation of `match_service`, with the FACEIT call's answer an action of its own |
| `TablesProofs` | theorems about `Wallet`, `Parties` and `Tables`, the whole platform | |
| `Holdings` | the abstract specification `Tables` implements | what each user owns, in whatever pocket |
| `TableSessions` | the handlers of one table as concurrent sessions | begin, take the row lock, read the seats, decide and commit, or roll back |
| `TableSessionsProofs` | theorems about `TableSessions` | |
| `PartySessions` | the handlers of one party's money as concurrent sessions | the selects of each handler in their order, row by row and lock by lock, then its decision |
| `PartySessionsProofs` | theorems about `PartySessions` | |
| `FaceitEvents` | the FACEIT call and webhook of one locked table | deliver, mark, resolve, decide, die; a marker goes |
| `FaceitEventsProofs` | theorems about `FaceitEvents` | |
| `DemoSim` | demo mode: the simulations of several tables, the bots they share, and people beside them | one action per person's request, two for a cancel; a simulation counts, finds, creates, tops up and seats a bot, plays, picks, settles |
| `TableLife` | the abstract specification every table of `DemoSim` implements | move, ask for a cancel, cancel, finish |
| `DemoSimProofs` | theorems about `DemoSim` | |
| `Requests` | what the three modules below share: requests on several instances, settings, Redis keys that expire, Redis commands that raise | |
| `Geofence` | `GeofencingMiddleware` and `geo.lookup` | look in the cache, ask, cache, set the expiry |
| `RateLimit` | `rate_limit_ok` | count, open the window; an exchange takes the counter |
| `AuthCodes` | `store_auth_code`, `consume_auth_code` | store, take from Redis, take from memory |
| `Edge` | the composition of the three, with instances that die and time that passes | arrive, handle, die, elapse |
| `EdgeProofs` | theorems about `Edge` | |
| `MC*` | constants and symmetry for TLC | |

Operators, variables and labels keep the code's names where TLA+ lets them. In
`Wallet`, `Parties` and `Tables` what a handler does up to a commit is one step:
its row locks make it so for requests that do not overlap on a row.
`TableSessions` takes the step apart for the match row, where the handlers'
mutual exclusion is decided; `PartySessions` does so for the user, member and party
rows, where a handler may have loaded a row before it has the lock. Operators with a suffix after an underscore
(`Fits_AnySide`, `Acquire_Unlocked`) are what a plausible mistake in the code
would make of the operator after them; nothing uses them but the check that every
property notices such a mistake.

`Edge` is one step per Redis command, since between two commands another instance
may do anything. A command may raise, whether Redis has carried it out or not; what
the code does next depends on which one it was (`Crash`, `Hit`, `StoreCode`). A
request meets the geofence first and then its handler: the guest log-in behind the
rate limit, a log-in that stores a one-time code, or the exchange of one.
The string of an exchange is the client's: a code that was issued, or the key of a
counter, which GETDEL deletes like any other (`Names`, `TakeCounter`).

`DemoSim` is one step per transaction of a simulation and one per request of a
person; the lock on the table's row makes those steps whole (`TableSessions`), but for
`cancel_match`, which loads the table's status before the lock and acts on it after
(`LoadForCancel`, `CancelMatch`).

`Wallet` keeps a withdrawal's user row across the provider call. When the call is
refused the session writes its columns back as they were, whatever others have
committed meanwhile (`WrittenSince`), and the payout may have been carried out
(`PayedError` is also raised for an answer without an id); when the call ends in
anything else nothing is written. `drift` adds up what these leave open, and what a
second success notice credits again.

**The abstract specifications.** `Holdings` knows of each user only what they own
(balance, entitlement and stakes together), what they still owe in wagers, what is
on its way out and what is at stake. Its actions are deposit, withdraw, arrive,
gift, bet and result; a payout that is refused arrives by restoring the holdings of
when it was asked for. `Tables!HoldingsKept` states that every step of the platform
is one of these or leaves all holdings alone: that refunds, kicks, disbands, pools
and mode changes move nobody's money but between their own pockets.

`TableLife` is what everybody who can see a table may rely on: it fills and empties
seat by seat while it is open, no side beyond its size, locks with its last seat and
with no other, and is played at most once, or cancelled, with the seats it then has.
What is decided stays so, unless somebody who had seen the table undecided is yet to
cancel it (`asked`). `DemoSim!LifeKept` states that each table implements it, however
simulations and people meet there.

## 3. The runs

| Run | Shows | Instance |
|---|---|---|
| `splits` | `allocate()` is exact, within each weight and proportional; a withdrawal's fee is on profit only, and withdrawing in parts takes what withdrawing at once does but for the rounding | totals to 12, three weights to 6 |
| `wallet` | claims and uncredited payments are what the provider holds, to the cent, but for the drift | 2 users, a payment that two kinds of notice report, repeated or lost, markers that go, payouts accepted, refused or unanswered |
| `tables` | conservation, pool = entitlements, sides funded, locked = full, creator seated, party seats together, `Holdings` implemented | 4 users, a party of up to two, one 2v2 table, Postgres, demo mode |
| `tables_solo` | conservation and `Holdings` at two 1v1 tables with real payouts in flight whose owners play on, and FACEIT calls that fail or come late | 3 users, 2 stakes |
| `table_sessions` | the row lock's guarantees under every interleaving | 3 requests at once, 2 solo players and a duo, 2v2 |
| `party_sessions` | but for what copies loaded before their lock overwrite, pool = entitlements and nothing paid in, out or at stake is lost; no balance below zero; sessions never all wait for one another | 2 requests at once, a party of 2, its seats at one table, amounts of 1 cent |
| `faceit_events` | a table is decided once and, if its id was stored and FACEIT ends the match, eventually, unless the report names no seated winner or its handler died with the marker set | 2 deliveries in hand, 2 repeats, 2 deaths, Redis on and off, markers that go |
| `demo_sim` | a simulation plays its table out unless somebody changes what it counted on; every table implements `TableLife`; the bots' money suffices | 2 tables, one of them a seeded 2v2, 2 people, one cancel under way, bots with the stake of one seat, 1 restart |
| `edge` | nobody passes a closed geofence unverified; the limit holds exactly, afresh for each time the counter was taken; a code is in one place, in two if its SET strayed; keys expire | 3 requests, 2 instances, 1 fault: a command that raises or an instance that dies |

Three further runs end in a violation, each a place where the code does not do what
a comment or document of it says (`findings` in `PROJECT.json`):

| Run | What it shows |
|---|---|
| `tables_disband` | on Postgres a leader cannot disband a party that has a log row |
| `table_sessions_final` | `cancel_match` refunds a table that another request has already finished or cancelled |
| `party_sessions_overlap` | of two contributions of one member that overlap, the second computes the entitlement from a row read before the lock |

**Bounds, and why they are enough.** Every interesting distribution of money needs
a funder and a free rider on one side and someone to play against: four users, one
party, one table. Stakes are one or two cents, so every rounding case of the splits
happens. `MaxCustody` caps deposits. One withdrawal per user is in flight
(`BeginWithdraw`). Second credits and stale refunds could go on for ever, so the
states beyond a drift of `MaxDrift` (two cents) are not continued, in `wallet` neither
those with more than `MaxBalance` on a balance: enough for a payment to be credited
twice, for a refund to undo a match or a credit and for a payout to be both sent and
refunded. `wallet` takes one payment with two success pairs; a second payment adds
only one more of the same.

In `PartySessions` a session loads a row once, so a row it has loaded *before* it holds the lock (the caller's user row in
`get_current_user`, the member row in `membership()`, all members in `members_of()`,
the party in `leave_table`) is as old as that select when it is written. What a commit
then overwrites is added to `lost`, for the rows in `Early` alone; `Owed` is what the
rows would hold had nothing been overwritten, and `PoolAddsUp` and `MoneyAddsUp` say
that it adds up. So a lost update on any row that is loaded under its lock is an error
of the run. `party_sessions_overlap` is the same instance and asks for the committed
pool itself. `Followed` does not continue a run beyond its first lost update, nor
where the party's users have more than at first (`Rich`). The party has two members
who stay, and its seats are all the table has; rake is nought, amounts and the stake
are one cent, and `MaxMoney` caps deposits and winnings: enough for two requests to
want every row in every order, while the splits themselves are the business of
`splits` and `tables`. A buy-in takes no part in what lost updates have put below zero
(`Queue`).

In `FaceitEvents` a handler that dies with Redis on leaves its marker, the retried
event is skipped, and the result is lost for as long as the marker lasts. That is the
code's behaviour, listed as a hazard; such events are kept in `cut`, and `ResultLands`
excepts them, as it does reports whose winner is missing or not seated. A
participant's own cancel is left out, as what it does to a decided table is the
finding of `table_sessions_final`.

`CreatorIsSeated` is checked on Postgres; on SQLite a disbanded party's id is given out
again, and a member of the new party can take the creator's seat off an open table.

In `DemoSim` every stake is one, people always have it, and a bot has one or two, so
that bots run out while they sit at the other table. One 2v2 and one 1v1 make two
simulations share bots in every order; a third table adds states and nothing new.
One cancel is under way at a time (`MaxCancels`). After a restart `seed_open_tables`
may open further tables; the ones of the start stand for them.

In `edge` every command may be the one that fails (`MaxFaults` is one). Three
requests are two of a kind and what they meet: two lookups beside a third request
that uses their result, a limit of one exceeded, a log-in and two exchanges. The
settings are failing closed with Redis and failing open without it. There is one
address, as the keys of two never meet, and no local one, which only skips the
geofence; the proofs are for any. `FirstOnI1` has the first request arrive at
instance `i1`, which is no restriction as the instances differ in name alone.
`TwoLookups` leaves out states in which all three are inside the geofence, and
`CodesOrCounters` runs that have both a log-in and requests on a counter, which share no
key. An exchange
names a code that was issued or the key of a counter; other strings find nothing, or a
hash that GETDEL refuses, or a match id that Postgres has too, or a marker of a webhook,
which is `MarkerGone` of the modules that read them.

Symmetry is over users, tables, references and sessions, which the specifications
only compare; no run that checks liveness uses it.

**Fairness.** In `FaceitEvents` FACEIT repeats an event until it is
acknowledged (its documented behaviour, and why the handler has a marker), and the
server goes on with the handlers it has started. Nothing makes FACEIT play the
match, or the join's call succeed. In `DemoSim` the event loop runs the tasks it
has (weak fairness of `Simulate(t)`, each step of which is enabled until it is
taken); people need not do anything. The other runs check safety alone.

Deadlock is not checked where the bounded system really stops (tables decided,
deposits used up). In `table_sessions` and `party_sessions` it is: a
request can always be refused.

## 4. The proofs

`TableSessionsProofs`, for any finite set of users, any groups, any number of
sessions and any team size. The assumptions are `SessionAssumption` of the module.
The properties are not inductive on their own: that a join keeps a side within its
size needs the seats the session has read to be the committed ones, which needs the
session to hold the lock, and that a stake is taken once needs the status to be
current. The inductive invariant `IInv` is the conjunction

1. `TypeOK`;
2. `NotReadYet`: before the lock, only `cancel_match` has a match in its identity map;
3. `ReadsAreCurrent`: one session at a time is past the lock, and its reads are current;
4. `SeatsFit`, `LockedMeansFull`, `StakesTaken`.

One lemma per kind of step: reading, joining, leaving, and the decisions that leave
the seats alone. The counting is in two lemmas on seat maps, `JoinKeepsSidesFit` and
`LeaveOpensSeat`, from the library's theorems on cardinality. `SeatsFrozen` and
`PaidOnlyOnce` follow from the same invariant step by step.

`FaceitEventsProofs`, for any number of deliveries in hand, repeats and deaths, with
markers that stay or go. `DecidedOnce` is inductive together with two facts: every delivery in hand is of an
event FACEIT sent, and FACEIT sends "finished" or "aborted" when the match is, so
never both.

`EdgeProofs`, for any instances, addresses, settings and limit, and any number of
requests and faults. `PassedIsVerified` rests on `GeoInv`: what a lookup has found or
the cache holds and calls good comes from one that cleared the address, so that
neither an overlapping lookup nor a half-known result lets a request pass.
`CodesUsedOnce` rests on `CodeInv`: a code that waits anywhere has been issued, a
request is at stages of its own kind only, an exchange names an issued code or none,
and the places a code is in (Redis, one instance's memory, the answer to one exchange)
are one at most, or two if its SET was carried out and raised. Every step moves a code
from one place to another (`PlacesMove`) or takes it out of one (`PlacesShrink`).

`KeysGetExpiry` rests on `KeysInv`: a key that is there has an expiry, was touched by a
failure, or belongs to a request that is just about to set it; no two keys are one.

`LimitIsKept` rests on `LimitInv`. Between a window's first hit and the answer to its
EXPIRE that request is let in and not yet on the list, so what is counted are the
requests let in with the one that opens the window (`Entered`). There are never more of
them than the counter or the limit says, with one limit more for each time the counter
was taken, and at least the smaller of the two while no
command on the counter has failed; the window cannot close before it is opened, as the
counter has no expiry until then.

`DemoSimProofs`, for any people, number of bots, tables, restarts, cancels under way and
money of bots, and sizes of one to five a side (the code accepts 1, 2 and 5). `TablesLive` shows
that every table implements `TableLife`, by a refinement step per action. Its
invariant is `TypeOK` with two facts on every table: `Seating`, no side has more than
its seats; and `Provides`, the bots a simulation has gone through and the seats it
still means to fill come to no more than the table's seats. The second is why the
search for a bot never runs past the slots, and so needed for `TypeCorrect` too.

### Sums and shares

The money modules add up over users, parties and tables with the folds of the
community modules. `MoneyProofs` first shows what such a sum is (`SumUnfolds`), with
no induction: if a fact about sums fails for some finite set, it fails for a smallest
one (`MinimalSubset`, from the library's theorem that strict inclusion of finite sets
is well-founded), and taking one element out of that gives a smaller. The same
argument carries every lemma: a sum does not depend on the order, one changed entry
changes it by as much, parts add up to the whole. From these come the facts about
`allocate()`: the shares add up to the total (`AllocationGives`), nobody's share is
more than a cent from the exact one, there always is an allocation, and keys of weight
zero make no difference. `SplitsProofs` states the five properties of the `splits` run
for every amount, percentage and list of weights.

### The wallet, parties and tables

The specifications are those the runs check, for any finite sets of users, payments
and tables, any number of parties, any amounts, sizes, wagers and percentages, demo
mode or not, SQLite or Postgres unless said otherwise. The assumptions are the ones
named in the modules; `RowAssumption` and `SeatAssumption` only say that the constant
for "no row" is not a row.

`WalletInv` (types; a payout on its way is part of the balance it was taken from;
only what was checked out is paid, and only what was paid is credited; fees cover
those of payouts on their way; in demo mode the provider is not involved) is
inductive. `Unbacked`, all claims on the provider and payments nobody has credited,
less what it holds and the drift, is what every step leaves as it is (`Backs`), and
from that comes `WalletBooksBalance`: for any kinds of success notices, with Redis or
without, and with refunds that write an old row back.

`SystemInv` is `WalletInv`, with `PartyInv` (types, `PoolIsEntitlements`,
`PartiesAreWhole`, and that an id Postgres has yet to hand out is nobody's) and
`TableInv`. The three are proved together, because a handler of a table writes rows of
all three. `SidesAreFunded` is not inductive: seats are given up party by party, so
`Funded` says that what a party's seats have paid beyond the wager adds up to
nothing on each side, and a seat outside any party has paid the wager exactly. `Opened` and
`Locks` tie status, size, pot and rake to the seats. On Postgres there is also `Led`:
a party with seats at a table is logged, exists, and has its leader among them, and
whoever opened the table with a party still leads it; `CreatorIsSeated` and
`PartySeatsMoveTogether` follow from it, and fail without it. `TableStep` is what one
handler of a table comes to: the invariants, the other tables left alone, and either
`Bets` (everybody keeps what they had, in their pockets or at stake) or `Settles` (the
pot less the rake goes to the winning side by `allocate()`).

`HoldingsAreKept`, the refinement, has one step per kind: a wallet step is a deposit,
a withdrawal, its end or a stutter; a party step is a gift or a stutter; a table step
is a bet or a result. `MoneyIsConserved` adds up the same steps: `Overdraft`, which is
`Unbacked` with pools, stakes and rakes, stays nothing.

One hypothesis beside the assumptions: `~Sqlite` for `Led` and what follows, since
SQLite, as the code opens it, does not check the foreign key that keeps a party with a
log. Custody may go below zero where payouts are sent and refunded, so it is an
integer, and so is the drift.

### A party's rows under concurrent sessions

`PartySessionsProofs`, for any party, leader, number of sessions, amounts and stake.
`NoneAssumption` only says that the constant for "no request" and "no seats" is neither.

`SomebodyGoesOn` needs no further hypothesis. `PlanInv` says that what a session has
still to select is the rest of its handler's plan, and that it has locked exactly the
rows its plan has locked so far. Every plan locks the table's row before the party's
and that before a user's (`PlanRises`); only settling locks more than one user, and it
has the table's row then. So of a ring of sessions that wait for one another, one that
waits for a user's row would have to be settling, and so would the one it waits for,
which has the table's row as well (`WaitsRising`, `NobodyStands`).

`PoolStaysOwned`, `NoUpdateIsLost` and `SessionsTyped` come from `BooksInv`, without any
hypothesis on how requests overlap. `CopyInv` says what the locks achieve: a session
has loaded what its plan has selected so far, and each of its copies is what is
committed, but for the rows its plan loads before their lock (`Early`), where the copy
may be any earlier value that is not below zero. The other rows are loaded under the
lock that guards them, and nobody else commits to such a row; every row a decision
writes is loaded and locked by its plan (`PlanCovers`, `Ready`). A decision therefore
adds its amounts to `Owed`, the rows with what was overwritten of them, and one lemma
per decision shows that what it adds balances: the shares of a buy-in are the whole
stake, because `allocate()` hands out all of it (`AllocationGives`).

### Only model-checked

Liveness (`ResultLands`, `PlaysOut`), which is out of the prover's reach, as is `ENABLED`
(`LeaderCanDisband`).

## 5. Not modelled

The Redis copy of a match's state (nothing reads it), signatures, tokens, payload
shapes, timestamps, log texts, serializers, the read-only endpoints and the frontend.
Of a log-in, the writes of `_upsert_user` to the user's own row. Of the geofence,
countries, regions and the reading of proxy headers: they only make the bit that
blocks, and the address. Not modelled yet: sessions that overlap while a party's
membership changes, or on several tables at once.

## 6. Plan

Done, in this order: `Money` and `Splits`, `Wallet`, `Parties`, `Tables` with
`Holdings`, `TableSessions` and its proofs, `FaceitEvents` and its proofs,
`PartySessions`, `DemoSim` with `TableLife`, `Edge` and its parts and proofs, the
proofs about `Money`, `Wallet`, `Parties` and `Tables`, and those about `PartySessions`.

Next, modelling:

1. `PartySessions` further: members who join, leave and are kicked while others
   hold their rows, and several tables settled at once, whose players' rows are
   locked in different orders (the deadlocks the database then breaks).
2. The lobby's polling against a table's life, if the frontend proves worth it.

Next, proofs: an abstract specification of `TableSessions` and `PartySessions`, one
atomic handler after another, and that the sessions implement it; and the same for
`Tables`, one table at a time, against `TableLife`.
