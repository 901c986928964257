------------------------------- MODULE RunLog -------------------------------
(* What the event store of a hosted run promises to the service above it,     *)
(* whatever the database does in between: one log, to which the whole batch  *)
(* of a request is appended at once, at the version the request was made at, *)
(* and at most one batch per command.  An attempt is one delivery of a       *)
(* request to the service; the same request may be delivered many times.     *)
EXTENDS Naturals, Sequences

CONSTANTS Attempts, Requests, NoRequest

VARIABLES
  log,      \* the events of the run, in order
  asked,    \* asked[a]: the request that attempt a delivers
  outcome   \* outcome[a]: "open", "accepted" or "refused"

vars == <<log, asked, outcome>>

Init ==
  /\ log = << >>
  /\ asked = [a \in Attempts |-> NoRequest]
  /\ outcome = [a \in Attempts |-> "open"]

EventsOf(a) == {i \in DOMAIN log : log[i].attempt = a}
EventsFor(command) == {i \in DOMAIN log : log[i].command = command}

Ask(a, r) ==
  /\ asked[a] = NoRequest
  /\ asked' = [asked EXCEPT ![a] = r]
  /\ UNCHANGED <<log, outcome>>

(* The batch goes in as a whole, behind the events the request was made on.  *)
Apply(a, width) ==
  LET r == asked[a] IN
    /\ r # NoRequest
    /\ outcome[a] = "open"
    /\ Len(log) = r.version
    /\ EventsFor(r.command) = {}
    /\ log' = log \o [i \in 1..width |->
                       [attempt |-> a, command |-> r.command, body |-> r.body]]
    /\ outcome' \in {outcome, [outcome EXCEPT ![a] = "accepted"]}
    /\ UNCHANGED asked

(* An answer of success may come late, or to another delivery of the request. *)
Accept(a) ==
  /\ asked[a] # NoRequest
  /\ outcome[a] = "open"
  /\ \E i \in EventsFor(asked[a].command) : log[i].body = asked[a].body
  /\ outcome' = [outcome EXCEPT ![a] = "accepted"]
  /\ UNCHANGED <<log, asked>>

(* A refused attempt has left nothing behind. *)
Refuse(a) ==
  /\ asked[a] # NoRequest
  /\ outcome[a] = "open"
  /\ EventsOf(a) = {}
  /\ outcome' = [outcome EXCEPT ![a] = "refused"]
  /\ UNCHANGED <<log, asked>>

CONSTANT MaxWidth   \* bound: the most events of one batch

Next ==
  \E a \in Attempts :
    \/ \E r \in Requests : Ask(a, r)
    \/ \E width \in 1..MaxWidth : Apply(a, width)
    \/ Accept(a)
    \/ Refuse(a)

Spec == Init /\ [][Next]_vars
=============================================================================
