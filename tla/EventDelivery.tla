---------------------------- MODULE EventDelivery ----------------------------
(***************************************************************************)
(* What the event bus promises of each event: once published it is tried   *)
(* at most Limit times until it is closed, and closed only when a try has  *)
(* handled it or every try has been used and it was given up.  A closed    *)
(* event is not tried again; tries already begun may still end.  Events    *)
(* may move together: giving one up can send another.                      *)
(***************************************************************************)
EXTENDS Naturals

CONSTANTS Events, Limit

VARIABLES
    stage,    \* how far each event is
    tries,    \* how often each event was tried
    handled,  \* events a try has handled
    givenUp   \* events given up

DeliveryInit ==
    /\ stage = [e \in Events |-> "unsent"]
    /\ tries = [e \in Events |-> 0]
    /\ handled = {}
    /\ givenUp = {}

Event(e) == [stage |-> stage[e], tries |-> tries[e],
             handled |-> handled \cap {e}, givenUp |-> givenUp \cap {e}]

Send(e) ==
    /\ stage[e] = "unsent"
    /\ Event(e)' = [Event(e) EXCEPT !.stage = "open"]

Try(e) ==
    /\ stage[e] = "open"
    /\ tries[e] < Limit
    /\ Event(e)' = [Event(e) EXCEPT !.tries = @ + 1]

Handle(e) ==
    /\ tries[e] > 0
    /\ Event(e)' = [Event(e) EXCEPT !.handled = {e}]

GiveUp(e) ==
    /\ tries[e] = Limit
    /\ Event(e)' = [Event(e) EXCEPT !.givenUp = {e}]

Close(e) ==
    /\ stage[e] = "open"
    /\ e \in handled \cup givenUp
    /\ Event(e)' = [Event(e) EXCEPT !.stage = "closed"]

EventNext(e) == Send(e) \/ Try(e) \/ Handle(e) \/ GiveUp(e) \/ Close(e)

DeliveryNext == \A e \in Events : EventNext(e) \/ UNCHANGED Event(e)

DeliverySpec == DeliveryInit /\ [][DeliveryNext]_<<stage, tries, handled, givenUp>>
=============================================================================
