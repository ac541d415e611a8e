------------------------- MODULE FaceitEventsProofs -------------------------
(***************************************************************************)
(* Theorems about FaceitEvents for any number of deliveries handled at     *)
(* once, repeated or cut short.  What carries them: the webhook acts only  *)
(* on what FACEIT has sent, FACEIT sends one of "finished" and "aborted",  *)
(* and the guards on the status let the first of them through alone.       *)
(***************************************************************************)
EXTENDS FaceitEvents, TLAPS

(* Every delivery in hand is of an event that FACEIT sent.                 *)
HandledWasSent ==
  \A h \in Handlers : handler[h] # None => handler[h].event \in sent

(* FACEIT reports nothing before the match exists, and "finished" or       *)
(* "aborted" when it is, so never both.                                    *)
ReportsAreTrue ==
  /\ call = "none" => faceit = "none"
  /\ faceit = "none" => sent = {}
  /\ "finished" \in sent => faceit = "finished"
  /\ "aborted" \in sent => faceit = "aborted"

IInv == TypeOK /\ HandledWasSent /\ ReportsAreTrue /\ DecidedOnce

----------------------------------------------------------------------------
(* The join has locked the table and told FACEIT nothing yet.              *)
LEMMA InitInv == Init => IInv
<1>. SUFFICES ASSUME Init PROVE IInv  OBVIOUS
<1>1. repeats \in 0 .. MaxRepeats /\ deaths \in 0 .. MaxDeaths /\ decided \in Nat
  BY EventsAssumption DEF Init
<1>2. TypeOK  BY <1>1 DEF Init, TypeOK
<1>3. HandledWasSent  BY DEF Init, HandledWasSent
<1>4. ReportsAreTrue /\ DecidedOnce  BY DEF Init, ReportsAreTrue, DecidedOnce
<1>. QED  BY <1>2, <1>3, <1>4 DEF IInv

(* The FACEIT call and the match at FACEIT.                                *)
LEMMA FaceitKeepsInv ==
  ASSUME IInv, CreateMatch \/ StoreFaceitId \/ CallFails \/ Play \/ Finish \/ Abort
  PROVE  IInv'
<1>1. /\ sent \subseteq sent' /\ sent' \subseteq Events
      /\ UNCHANGED <<redis, status, acked, seen, handler, decided, cut, repeats, deaths>>
      /\ winner' \in {"seated", "nobody", "stranger"}
      /\ call' \in {"none", "made", "over"} /\ linked' \in BOOLEAN
      /\ faceit' \in {"none", "configuring", "ongoing", "finished", "aborted"}
  BY DEF IInv, TypeOK, ReportsAreTrue, Events, LiveEvents, faceitVars, CreateMatch,
         StoreFaceitId, CallFails, Play, Finish, Abort, Advance
<1>2. TypeOK'  BY <1>1 DEF IInv, TypeOK
<1>3. HandledWasSent'  BY <1>1 DEF IInv, HandledWasSent
<1>4. ReportsAreTrue'
  BY DEF IInv, ReportsAreTrue, faceitVars, CreateMatch, StoreFaceitId, CallFails,
         Play, Finish, Abort, Advance
<1>5. DecidedOnce'
  BY <1>1 DEF IInv, DecidedOnce, TypeOK, ReportsAreTrue, faceitVars, CreateMatch,
              StoreFaceitId, CallFails, Play, Finish, Abort, Advance
<1>. QED  BY <1>2, <1>3, <1>4, <1>5 DEF IInv

(* A delivery that is received, ignored, dropped or dies decides nothing.  *)
LEMMA DeliveryKeepsInv ==
  ASSUME IInv, NEW h \in Handlers,
         \/ \E e \in Events : Deliver(h, e) \/ Repeat(h, e)
         \/ Resolve(h) \/ Die(h)
  PROVE  IInv'
<1>. USE DEF IInv
<1>1. UNCHANGED <<redis, status, call, linked, faceit, winner, sent, decided>>
  BY DEF Deliver, Repeat, Receive, Resolve, Die, faceitVars
<1>2. ReportsAreTrue' /\ DecidedOnce'
  BY <1>1 DEF ReportsAreTrue, DecidedOnce
<1>3. CASE \E e \in Events : Deliver(h, e) \/ Repeat(h, e)
  <2>1. PICK e \in Events : Deliver(h, e) \/ Repeat(h, e)  BY <1>3
  <2>2. e \in sent  BY <2>1 DEF Deliver, Repeat, TypeOK
  <2>3. Receive(h, e)  BY <2>1 DEF Deliver, Repeat
  <2>4. repeats' \in 0 .. MaxRepeats
    BY <2>1, EventsAssumption DEF Deliver, Repeat, TypeOK
  <2>5. [event |-> e, step |-> "marked"] \in Deliveries  BY DEF Deliveries
  <2>6. TypeOK'
    BY <1>1, <2>2, <2>3, <2>4, <2>5 DEF TypeOK, Receive
  <2>7. HandledWasSent'
    BY <1>1, <2>2, <2>3 DEF TypeOK, HandledWasSent, Receive
  <2>. QED  BY <1>2, <2>6, <2>7
<1>4. CASE Resolve(h)
  <2>1. handler[h] \in Deliveries /\ handler[h].event \in sent
    BY <1>4 DEF TypeOK, HandledWasSent, Resolve, At
  <2>2. [handler[h] EXCEPT !.step = "found"] \in Deliveries
    BY <2>1 DEF Deliveries
  <2>3. TypeOK'
    BY <1>1, <1>4, <2>1, <2>2 DEF TypeOK, Resolve, Answer, Forget
  <2>4. HandledWasSent'
    BY <1>1, <1>4, <2>1, EventsAssumption
    DEF TypeOK, HandledWasSent, Resolve, Answer, Forget, Deliveries
  <2>. QED  BY <1>2, <2>3, <2>4
<1>5. CASE Die(h)
  <2>1. TypeOK'  BY <1>1, <1>5, EventsAssumption DEF TypeOK, Die, Forget, Deliveries
  <2>2. HandledWasSent'  BY <1>1, <1>5 DEF TypeOK, HandledWasSent, Die, Forget
  <2>. QED  BY <1>2, <2>1, <2>2
<1>. QED  BY <1>3, <1>4, <1>5

(* Decisions are by what FACEIT reported, and only the first one counts.   *)
LEMMA DecisionKeepsInv ==
  ASSUME IInv, NEW h \in Handlers, Decide(h) \/ GoLive(h)
  PROVE  IInv'
<1>. USE DEF IInv
<1>1. handler[h] \in Deliveries /\ handler[h].event \in sent
  BY DEF TypeOK, HandledWasSent, Decide, GoLive, At
<1>2. /\ UNCHANGED <<redis, call, linked, faceit, winner, sent, seen, cut, repeats, deaths>>
      /\ handler' = [handler EXCEPT ![h] = None]
      /\ acked' \subseteq sent
  BY <1>1 DEF TypeOK, Decide, GoLive, Answer, Forget, faceitVars
<1>3. HandledWasSent' /\ ReportsAreTrue'
  BY <1>2 DEF TypeOK, HandledWasSent, ReportsAreTrue
<1>4. decided' \in Nat /\ status' \in {"LOCKED", "LIVE", "FINISHED", "CANCELLED"}
  BY DEF TypeOK, Decide, GoLive
<1>5. TypeOK'  BY <1>2, <1>4 DEF TypeOK
<1>6. DecidedOnce'
  <2>1. CASE Decide(h)
    BY <1>1, <1>2, <2>1
    DEF TypeOK, ReportsAreTrue, DecidedOnce, Decide, MayDecide
  <2>2. CASE GoLive(h)
    BY <1>2, <2>2 DEF TypeOK, DecidedOnce, GoLive, MayGoLive
  <2>. QED  BY <2>1, <2>2
<1>. QED  BY <1>3, <1>5, <1>6

(* Nobody reads a marker that is gone, and the others are as they were.    *)
LEMMA MarkerKeepsInv ==
  ASSUME IInv, NEW e \in Events, MarkerGone(e)
  PROVE  IInv'
BY DEF IInv, TypeOK, HandledWasSent, ReportsAreTrue, DecidedOnce, MarkerGone, faceitVars

LEMMA StutterKeepsInv == IInv /\ UNCHANGED vars => IInv'
BY DEF IInv, vars, faceitVars, TypeOK, HandledWasSent, ReportsAreTrue, DecidedOnce

LEMMA NextKeepsInv == IInv /\ [Next]_vars => IInv'
BY FaceitKeepsInv, DeliveryKeepsInv, DecisionKeepsInv, MarkerKeepsInv, StutterKeepsInv
DEF Next

----------------------------------------------------------------------------
(* Whatever is delivered, repeated or cut short, IInv holds.               *)
THEOREM Invariance == Spec => []IInv
BY InitInv, NextKeepsInv, PTL DEF Spec

(* The webhook pays or refunds a table once, as FACEIT reported it, with   *)
(* the marker of Redis or without.                                         *)
THEOREM WebhookDecidesOnce == Spec => []DecidedOnce
<1>1. IInv => DecidedOnce  BY DEF IInv
<1>. QED  BY <1>1, Invariance, PTL

(* No event changes the status of a table that is paid or refunded.        *)
THEOREM DecisionIsFinal == Spec => DecidedIsFinal
<1>1. [Next]_vars => [status \notin {"LOCKED", "LIVE"} => status' = status]_vars
  <2>. SUFFICES ASSUME Next, status \notin {"LOCKED", "LIVE"}  PROVE status' = status
    OBVIOUS
  <2>. QED
    BY DEF Next, CreateMatch, StoreFaceitId, CallFails, Play, Finish, Abort, Advance,
           Deliver, Repeat, Receive, Resolve, MarkerGone, Decide, GoLive, Die, MayDecide,
           MayGoLive
<1>. QED  BY <1>1, PTL DEF Spec, DecidedIsFinal
=============================================================================
