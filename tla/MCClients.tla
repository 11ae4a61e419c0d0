------------------------------ MODULE MCClients -------------------------------
(* Scenarios of Clients for model checking.                                *)
EXTENDS Clients

(* A page that is not shown a screen: readings, actions, subscriptions and *)
(* reconnections overlap.                                                  *)
Updating ==
  [client |-> "page", start |-> "created", calls |-> 2, subscriptions |-> 3,
   viewers |-> 0, events |-> 0, stream |-> 1, faults |-> {"request", "stream"},
   moves |-> {JoinSession, DenyView}]

(* A viewer starts while another one does.                                 *)
Viewing ==
  [client |-> "page", start |-> "viewing", calls |-> 1, subscriptions |-> 2,
   viewers |-> 2, events |-> 0, stream |-> 1, faults |-> {}, moves |-> HostActions]

(* One viewer, and input.                                                  *)
Typing ==
  [Viewing EXCEPT !.viewers = 1, !.events = 2, !.faults = {"request"}]

Polling ==
  [Updating EXCEPT !.client = "window", !.faults = {"request", "reply"}, !.moves = {}]

AllScenarios == {Updating, Viewing, Typing, Polling}
=============================================================================
