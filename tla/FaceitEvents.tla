---------------------------- MODULE FaceitEvents ----------------------------
(***************************************************************************)
(* One table from the moment it locks: the tail of join_table that creates *)
(* the FACEIT match and stores its id, and the webhook through which       *)
(* FACEIT reports what becomes of it.  FACEIT (external) repeats an event  *)
(* until the webhook answers 2xx, may deliver one more than once, and      *)
(* delivers events in any order.  Each delivery is handled in three steps, *)
(* the seen marker, the lookup of the match and the update under its row   *)
(* lock, and deliveries overlap.                                           *)
(*                                                                         *)
(* Left out: a participant's own cancel (TableSessions).                   *)
(***************************************************************************)
EXTENDS Integers

CONSTANTS
  Handlers,     \* deliveries handled at once
  MaxRepeats,   \* bound on deliveries of events already acknowledged
  MaxDeaths,    \* bound on handlers that die midway
  None

LiveEvents == {"configuring", "ongoing"}
Events == LiveEvents \cup {"finished", "aborted"}
Deliveries == [event : Events, step : {"marked", "found"}]

ASSUME EventsAssumption ==
  /\ MaxRepeats \in Nat /\ MaxDeaths \in Nat
  /\ None \notin Deliveries

VARIABLES
  redis,     \* settings.redis_enabled
  status,    \* of the match row
  call,      \* the FACEIT call of the join that locked the table
  linked,    \* match.faceit_match_id is committed
  faceit,    \* the match at FACEIT
  winner,    \* who its report of the end names: a seated player, nobody, a stranger
  sent,      \* events FACEIT has to report
  acked,     \* ... and has had a 2xx answer to
  seen,      \* events with a webhook:seen marker
  handler,   \* per delivery being handled: [event, step], or None
  decided,   \* how often stakes were paid out or refunded
  cut,       \* history: events whose handler died after setting the marker
  repeats, deaths

faceitVars == <<faceit, winner, sent>>
vars == <<redis, status, call, linked, faceitVars, acked, seen, handler,
          decided, cut, repeats, deaths>>

TypeOK ==
  /\ redis \in BOOLEAN
  /\ status \in {"LOCKED", "LIVE", "FINISHED", "CANCELLED"}
  /\ call \in {"none", "made", "over"}
  /\ linked \in BOOLEAN
  /\ faceit \in {"none", "configuring", "ongoing", "finished", "aborted"}
  /\ winner \in {"seated", "nobody", "stranger"}
  /\ sent \subseteq Events /\ cut \subseteq Events /\ acked \subseteq sent /\ seen \subseteq sent
  /\ handler \in [Handlers -> Deliveries \cup {None}]
  /\ decided \in Nat /\ repeats \in 0 .. MaxRepeats /\ deaths \in 0 .. MaxDeaths

(* The join has committed LOCKED and is about to call FACEIT.              *)
Init ==
  /\ redis \in BOOLEAN
  /\ status = "LOCKED" /\ call = "none" /\ linked = FALSE
  /\ faceit = "none" /\ winner = "seated" /\ sent = {} /\ acked = {} /\ seen = {}
  /\ handler = [h \in Handlers |-> None]
  /\ decided = 0 /\ cut = {} /\ repeats = 0 /\ deaths = 0

----------------------------------------------------------------------------
(* The join's FACEIT call                                                  *)

(* External: FACEIT creates the match, and reports it from there on.       *)
CreateMatch ==
  /\ call = "none"
  /\ call' = "made"
  /\ faceit' = "configuring" /\ sent' = {"configuring"}
  /\ UNCHANGED <<redis, status, linked, winner, acked, seen, handler, decided, cut,
                 repeats, deaths>>

StoreFaceitId ==
  /\ call = "made"
  /\ call' = "over" /\ linked' = TRUE
  /\ UNCHANGED <<redis, status, faceitVars, acked, seen, handler, decided, cut,
                 repeats, deaths>>

(* The call fails, before or after FACEIT has created the match: the table *)
(* stays LOCKED and has no id to be reported under.                        *)
CallFails ==
  /\ call \in {"none", "made"}
  /\ call' = "over"
  /\ UNCHANGED <<redis, status, linked, faceitVars, acked, seen, handler, decided, cut,
                 repeats, deaths>>

(* External: the match goes on.  Bound: the id is stored, or the call has  *)
(* failed, before the match starts to be played.                           *)
Advance(from, to) ==
  /\ call = "over"
  /\ faceit \in from
  /\ faceit' = to /\ sent' = sent \cup {to}
  /\ UNCHANGED <<redis, status, call, linked, acked, seen, handler, decided, cut,
                 repeats, deaths>>

Play == Advance({"configuring"}, "ongoing") /\ UNCHANGED winner
Finish == Advance({"ongoing"}, "finished") /\ winner' \in {"seated", "nobody", "stranger"}
Abort == Advance({"configuring", "ongoing"}, "aborted") /\ UNCHANGED winner

----------------------------------------------------------------------------
(* The webhook                                                             *)

(* SET NX: with Redis on, an event seen before is acknowledged and ignored.*)
Receive(h, e) ==
  /\ handler[h] = None
  /\ IF redis /\ e \in seen
       THEN acked' = acked \cup {e} /\ UNCHANGED <<seen, handler>>
       ELSE /\ seen' = IF redis THEN seen \cup {e} ELSE seen
            /\ handler' = [handler EXCEPT ![h] = [event |-> e, step |-> "marked"]]
            /\ UNCHANGED acked
  /\ UNCHANGED <<redis, status, call, linked, faceitVars, decided, cut, deaths>>

Deliver(h, e) == e \in sent \ acked /\ Receive(h, e) /\ UNCHANGED repeats

Repeat(h, e) ==
  /\ e \in acked /\ repeats < MaxRepeats
  /\ Receive(h, e)
  /\ repeats' = repeats + 1

Forget(h) == handler' = [handler EXCEPT ![h] = None]
Answer(h) ==
  /\ Forget(h)
  /\ acked' = acked \cup {handler[h].event}

At(h, step) == handler[h] # None /\ handler[h].step = step

(* An id no match has yet is answered 200 "unknown_match".                 *)
Resolve(h) ==
  /\ At(h, "marked")
  /\ IF linked
       THEN handler' = [handler EXCEPT ![h].step = "found"] /\ UNCHANGED acked
       ELSE Answer(h)
  /\ UNCHANGED <<redis, status, call, linked, faceitVars, seen, decided, cut,
                 repeats, deaths>>

(* A week is over, or an exchange of log-in codes has named the marker.    *)
MarkerGone(e) ==
  /\ e \in seen
  /\ seen' = seen \ {e}
  /\ UNCHANGED <<redis, status, call, linked, faceitVars, acked, handler, decided, cut,
                 repeats, deaths>>

MayDecide_NotOpposite(e) ==
  status # (IF e = "finished" THEN "CANCELLED" ELSE "FINISHED")
MayDecide_LiveOnly(e) == status = "LIVE"
MayDecide(e) ==
  \* settle_finished takes a locked table too: "ongoing" may never have come
  status \in {"LOCKED", "LIVE"}

(* A report that names no winner is acknowledged and dropped.              *)
Usable(e) == e = "finished" => winner # "nobody"

(* A result for a cancelled table, or a winner who is not seated, is       *)
(* answered 409.                                                           *)
Conflict(e) ==
  /\ e = "finished" /\ Usable(e)
  /\ status = "CANCELLED" \/ (status # "FINISHED" /\ winner = "stranger")

Decide(h) ==
  /\ At(h, "found") /\ handler[h].event \in {"finished", "aborted"}
  /\ IF MayDecide(handler[h].event) /\ Usable(handler[h].event)
           /\ ~Conflict(handler[h].event)
       THEN /\ status' = IF handler[h].event = "finished" THEN "FINISHED" ELSE "CANCELLED"
            /\ decided' = decided + 1
       ELSE UNCHANGED <<status, decided>>
  /\ IF Conflict(handler[h].event) THEN Forget(h) /\ UNCHANGED acked ELSE Answer(h)
  /\ UNCHANGED <<redis, call, linked, faceitVars, seen, cut, repeats, deaths>>

MayGoLive_Always == TRUE
MayGoLive == status = "LOCKED"

GoLive(h) ==
  /\ At(h, "found") /\ handler[h].event \in LiveEvents
  /\ status' = IF MayGoLive THEN "LIVE" ELSE status
  /\ Answer(h)
  /\ UNCHANGED <<redis, call, linked, faceitVars, seen, decided, cut, repeats, deaths>>

(* The handler dies or the database fails it: no 2xx answer.  The marker   *)
(* outlives the handler, and the event is ignored when it comes again.     *)
Die(h) ==
  /\ deaths < MaxDeaths
  /\ handler[h] # None
  /\ Forget(h)
  /\ deaths' = deaths + 1
  /\ cut' = IF redis THEN cut \cup {handler[h].event} ELSE cut
  /\ UNCHANGED <<redis, status, call, linked, faceitVars, acked, seen, decided, repeats>>

Handle(h) == Resolve(h) \/ Decide(h) \/ GoLive(h)

Next ==
  \/ CreateMatch \/ StoreFaceitId \/ CallFails
  \/ Play \/ Finish \/ Abort
  \/ \E e \in Events : MarkerGone(e)
  \/ \E h \in Handlers :
       \/ \E e \in Events : Deliver(h, e) \/ Repeat(h, e)
       \/ Resolve(h) \/ Decide(h) \/ GoLive(h) \/ Die(h)

(* FACEIT keeps delivering what is not acknowledged, and the server runs   *)
(* the handlers it has started.  FACEIT need not play the match.           *)
Fairness ==
  /\ \A e \in Events : WF_vars(\E h \in Handlers : Deliver(h, e))
  /\ \A h \in Handlers : WF_vars(Handle(h))

Spec == Init /\ [][Next]_vars /\ Fairness

----------------------------------------------------------------------------
(* "Webhooks are idempotent": however events are repeated, reordered or    *)
(* handled twice at once, with a marker or without, stakes are paid out or *)
(* refunded once, by what FACEIT says became of the match.                 *)
DecidedOnce ==
  /\ decided <= 1
  /\ decided = 1 <=> status \in {"FINISHED", "CANCELLED"}
  /\ status = "FINISHED" => faceit = "finished"
  /\ status = "CANCELLED" => faceit = "aborted"

(* A late or repeated "ongoing" does not bring a decided table back.       *)
DecidedIsFinal ==
  [][status \notin {"LOCKED", "LIVE"} => status' = status]_vars

(* A match whose id was stored and that FACEIT aborted, or played and      *)
(* reported with its winner, is refunded or paid in the end, also when its *)
(* "ongoing" was dropped or is late, unless a handler died with the report *)
(* after marking it as seen.                                               *)
ResultLands ==
  linked /\ faceit \in {"finished", "aborted"} ~>
    \/ status = (IF faceit = "finished" THEN "FINISHED" ELSE "CANCELLED")
    \/ faceit \in cut
    \/ faceit = "finished" /\ winner # "seated"

=============================================================================
