----------------------------- MODULE TurnStream -----------------------------
(***************************************************************************)
(* Viewing a turn over server-sent events (timechain_web/webapp.py).       *)
(*                                                                         *)
(* A turn belongs to the server: _drive_turn buffers its events, numbered  *)
(* from 1, and any number of followers replay the buffer and then follow   *)
(* it.  A browser tab is a viewer: its EventSource reconnects by itself,   *)
(* with the URL it was opened with and the last id it received, and only   *)
(* stops on `done` or on an HTTP error.  Every tab claims its own session  *)
(* token, and the last claim holds the session.                            *)
(*                                                                         *)
(* What an endpoint does before its first await is one step; the browser   *)
(* (static/index.html) and the network are external.  The content of an    *)
(* event is its kind: "data", "error" (the turn raised) or "done".         *)
(***************************************************************************)
EXTENDS Naturals, Sequences, SequencesExt, FiniteSets

CONSTANTS
    Tabs,        \* browser tabs and scripts, each with its own token
    NoTab,       \* no session is claimed
    Inputs,      \* texts a user sends
    MaxRuns,     \* bound on the turns started
    MaxMessages, \* bound on the messages sent
    MaxData,     \* bound on the events before the last of a turn
    MaxBlips,    \* bound on lost connections
    MaxVisits,   \* bound on pages opened
    MaxRestarts  \* bound on restarts of the server

ASSUME ConstantsAssumption ==
    /\ NoTab \notin Tabs /\ Inputs # {}
    /\ MaxRuns \in Nat /\ MaxMessages \in Nat /\ MaxData \in Nat
    /\ MaxBlips \in Nat /\ MaxVisits \in Nat /\ MaxRestarts \in Nat

VARIABLES
    runs,     \* every TurnRun so far: input, events, done, and the message
              \* it was started for
    active,   \* state.active_turn: the number of a run, or 0 for None
    owner,    \* the tab whose token is state.active_token
    tab,      \* each page and its stream
    messages, \* messages sent so far
    blips, visits, restarts

vars == <<runs, active, owner, tab, messages, blips, visits, restarts>>

Kinds == {"data", "error", "done"}
Events == Seq(Kinds)

\* at: "away", no page; "claimed", the page is loading; "idle"; "connecting",
\* the EventSource (re)sends its request; "open", it is subscribed; "posting",
\* POST /api/turn has not returned.  url is "input" or "attach".  run and pos
\* are the server's follower (its i), wire what it sent and the tab has not
\* received, got what the tab received since the EventSource was opened.
SomeInput == CHOOSE i \in Inputs : TRUE

Closed == [at |-> "away", url |-> "input", input |-> SomeInput, message |-> 0,
           run |-> 0, pos |-> 0, wire |-> <<>>, got |-> <<>>]

Streaming == {"connecting", "open"}

Init ==
    /\ runs = <<>>
    /\ active = 0
    /\ owner = NoTab
    /\ tab = [t \in Tabs |-> Closed]
    /\ messages = 0 /\ blips = 0 /\ visits = 0 /\ restarts = 0

-----------------------------------------------------------------------------
(* The server's side of one turn.                                           *)

Running == active # 0 /\ ~runs[active].done

Emitted(r) == runs[r].events
Ending(r) == Emitted(r) # <<>> /\ Last(Emitted(r)) \in {"error", "done"}

\* _start_turn, for a message of tab t; its follower starts at event `after`.
StartTurn(input, message) ==
    /\ Len(runs) < MaxRuns
    /\ runs' = Append(runs, [input |-> input, message |-> message,
                             events |-> <<>>, done |-> FALSE])
    /\ active' = Len(runs) + 1

\* _drive_turn: one event of _turn_events goes into the buffer; the turn may
\* raise at any point, which becomes an event of its own.
DriveEvent ==
    /\ Running /\ ~Ending(active)
    /\ \E kind \in Kinds :
          /\ kind = "data" => Len(Emitted(active)) < MaxData
          /\ runs' = [runs EXCEPT ![active].events = Append(@, kind)]
    /\ UNCHANGED <<active, owner, tab, messages, blips, visits, restarts>>

DriveEnd ==
    /\ Running /\ Ending(active)
    /\ runs' = [runs EXCEPT ![active].done = TRUE]
    /\ UNCHANGED <<active, owner, tab, messages, blips, visits, restarts>>

-----------------------------------------------------------------------------
(* A tab's page.                                                            *)

\* session_claim: a page opened or reloaded gets a token of its own, which
\* bumps any other.
OpenPage(t) ==
    /\ tab[t].at \in {"away", "idle"}
    /\ visits < MaxVisits
    /\ visits' = visits + 1
    /\ owner' = t
    /\ tab' = [tab EXCEPT ![t] = [Closed EXCEPT !.at = "claimed"]]
    /\ UNCHANGED <<runs, active, messages, blips, restarts>>

\* turn_active: the page attaches to a turn that is still running.
Probe(t) ==
    /\ tab[t].at = "claimed"
    /\ tab' = [tab EXCEPT ![t] =
                 IF owner = t /\ Running
                   THEN [@ EXCEPT !.at = "connecting", !.url = "attach"]
                   ELSE [@ EXCEPT !.at = "idle"]]
    /\ UNCHANGED <<runs, active, owner, messages, blips, visits, restarts>>

\* The next text; which one comes first makes no difference.
NextInput == IF messages = 0 THEN {SomeInput} ELSE Inputs

\* runTurn: the user sends a message (never while a stream is unresolved).
SendMessage(t) ==
    /\ tab[t].at = "idle"
    /\ messages < MaxMessages
    /\ messages' = messages + 1
    /\ \E i \in NextInput :
          tab' = [tab EXCEPT ![t] =
                    [Closed EXCEPT !.at = "connecting", !.input = i,
                                   !.message = messages + 1]]
    /\ UNCHANGED <<runs, active, owner, blips, visits, restarts>>

\* POST /api/turn: 409 while a turn runs, else start one and drain it.
PostTurn(t) ==
    /\ tab[t].at = "idle" /\ owner = t
    /\ ~Running
    /\ messages < MaxMessages
    /\ messages' = messages + 1
    /\ \E i \in NextInput :
          /\ StartTurn(i, messages + 1)
          /\ tab' = [tab EXCEPT ![t] =
                       [Closed EXCEPT !.at = "posting", !.input = i,
                          !.message = messages + 1, !.run = Len(runs) + 1]]
    /\ UNCHANGED <<owner, blips, visits, restarts>>

PostReturns(t) ==
    /\ tab[t].at = "posting"
    /\ runs[tab[t].run].done
    /\ tab' = [tab EXCEPT ![t] = [Closed EXCEPT !.at = "idle"]]
    /\ UNCHANGED <<runs, active, owner, messages, blips, visits, restarts>>

\* The user leaves the page in the middle of a turn; only its follower goes
\* away with it.
Leave(t) ==
    /\ tab[t].at \in Streaming \cup {"posting"}
    /\ tab' = [tab EXCEPT ![t] = Closed]
    /\ UNCHANGED <<runs, active, owner, messages, blips, visits, restarts>>

-----------------------------------------------------------------------------
(* GET /api/turn/stream.                                                    *)

\* Mutant: the id after the last received.
LastSeqNext(s) == IF s.got = <<>> THEN 0 ELSE Last(s.got).id + 1

\* _last_event_seq: the id the EventSource received last, 0 before the first.
LastSeq(s) == IF s.got = <<>> THEN 0 ELSE Last(s.got).id

\* Mutant: a reconnect replays the turn from its first event.
FollowAgain(s, r, after) ==
    [s EXCEPT !.at = "open", !.run = r, !.pos = 0, !.wire = <<>>]

\* _follow_turn(run, after): replay from the event after the last received.
Follow(s, r, after) ==
    [s EXCEPT !.at = "open", !.run = r, !.pos = after, !.wire = <<>>]

\* An HTTP error closes the EventSource for good, and the page resolves.
Refused(s) == [Closed EXCEPT !.at = "idle"]

\* turn_stream's choice for request s, whose session is checked first.
Attaches(s) ==
    /\ active # 0
    /\ \/ s.url = "attach"
       \/ s.input = runs[active].input /\ (Running \/ LastSeq(s) # 0)

Starts(s) == s.url = "input" /\ ~Running /\ LastSeq(s) = 0

Connect(t) ==
    LET s == tab[t] IN
    /\ s.at = "connecting"
    /\ \/ /\ owner = t /\ Attaches(s)
          /\ tab' = [tab EXCEPT ![t] = Follow(s, active, LastSeq(s))]
          /\ UNCHANGED <<runs, active>>
       \/ /\ owner = t /\ Starts(s)
          /\ StartTurn(s.input, s.message)
          /\ tab' = [tab EXCEPT ![t] = Follow(s, Len(runs) + 1, 0)]
       \/ /\ owner # t \/ (~Attaches(s) /\ ~Starts(s))
          /\ tab' = [tab EXCEPT ![t] = Refused(s)]
          /\ UNCHANGED <<runs, active>>
    /\ UNCHANGED <<owner, messages, blips, visits, restarts>>

\* _follow_turn yields its next event ...
Send(t) ==
    LET s == tab[t] IN
    /\ s.at = "open"
    /\ s.pos < Len(Emitted(s.run))
    /\ tab' = [tab EXCEPT
                 ![t].pos = s.pos + 1,
                 ![t].wire = Append(@, [run |-> s.run, id |-> s.pos + 1])]
    /\ UNCHANGED <<runs, active, owner, messages, blips, visits, restarts>>

\* ... which the browser receives; it closes the EventSource on `done`.
Receive(t) ==
    LET s == tab[t]
        e == Head(s.wire) IN
    /\ s.at = "open" /\ s.wire # <<>>
    /\ tab' = [tab EXCEPT ![t] =
                 IF Emitted(e.run)[e.id] = "done"
                   THEN [Closed EXCEPT !.at = "idle"]
                   ELSE [s EXCEPT !.wire = Tail(@), !.got = Append(@, e)]]
    /\ UNCHANGED <<runs, active, owner, messages, blips, visits, restarts>>

\* The follower of a run that is done returns: the response ends, and an
\* EventSource that has not seen `done` reconnects.
StreamEnds(t) ==
    LET s == tab[t] IN
    /\ s.at = "open" /\ s.wire = <<>>
    /\ runs[s.run].done /\ s.pos >= Len(Emitted(s.run))
    /\ tab' = [tab EXCEPT ![t].at = "connecting"]
    /\ UNCHANGED <<runs, active, owner, messages, blips, visits, restarts>>

\* The connection is lost, with what is on the wire.
Blip(t) ==
    /\ tab[t].at = "open"
    /\ blips < MaxBlips
    /\ blips' = blips + 1
    /\ tab' = [tab EXCEPT ![t].at = "connecting", ![t].wire = <<>>]
    /\ UNCHANGED <<runs, active, owner, messages, visits, restarts>>

\* lifespan: the running turn is cancelled (its events end without `done`),
\* and the new process knows neither it nor any token.
Restart ==
    /\ restarts < MaxRestarts
    /\ restarts' = restarts + 1
    /\ runs' = IF Running THEN [runs EXCEPT ![active].done = TRUE] ELSE runs
    /\ active' = 0
    /\ owner' = NoTab
    /\ tab' = [t \in Tabs |->
                 IF tab[t].at = "open"
                   THEN [tab[t] EXCEPT !.at = "connecting", !.wire = <<>>]
                   ELSE IF tab[t].at = "posting" THEN Refused(tab[t])
                   ELSE tab[t]]
    /\ UNCHANGED <<messages, blips, visits>>

Drive == DriveEvent \/ DriveEnd

\* What the server and a browser do by themselves.
Follows(t) ==
    Probe(t) \/ Connect(t) \/ Send(t) \/ Receive(t) \/ StreamEnds(t)
    \/ PostReturns(t)

Next ==
    \/ Drive
    \/ Restart
    \/ \E t \in Tabs :
          OpenPage(t) \/ SendMessage(t) \/ PostTurn(t) \/ Leave(t)
          \/ Blip(t) \/ Follows(t)

Spec == Init /\ [][Next]_vars

\* The event loop runs: the driver goes on, and so does each follower.
Fairness == WF_vars(Drive) /\ \A t \in Tabs : WF_vars(Follows(t))

FairSpec == Spec /\ Fairness

-----------------------------------------------------------------------------
(* What the endpoints promise their viewers.                                *)

TypeOK ==
    /\ runs \in Seq([input: Inputs, message: 1..MaxMessages,
                     events: Events, done: BOOLEAN])
    /\ active \in 0..Len(runs)
    /\ owner \in Tabs \cup {NoTab}
    /\ \A t \in Tabs :
          /\ tab[t].at \in {"away", "claimed", "idle", "posting"} \cup Streaming
          /\ tab[t].url \in {"input", "attach"}
          /\ tab[t].input \in Inputs
          /\ tab[t].message \in 0..MaxMessages
          /\ tab[t].run \in 0..Len(runs)
          /\ tab[t].pos \in 0..(MaxData + 1)
          /\ tab[t].wire \in Seq([run: 1..Len(runs), id: 1..(MaxData + 1)])
          /\ tab[t].got \in Seq([run: 1..Len(runs), id: 1..(MaxData + 1)])

\* Through reconnects, a page shows the events of one run without a gap or a
\* repetition, and that run answers the text it sent: ids are numbered per
\* run, and a Last-Event-ID does not say of which.
FollowsOneRun ==
    \A t \in Tabs :
        LET shown == tab[t].got \o tab[t].wire IN
        \A k \in 1..Len(shown) :
            /\ shown[k] = [run |-> shown[1].run, id |-> k]
            /\ tab[t].url = "input" =>
                  runs[shown[k].run].input = tab[t].input

\* A message is answered once: a reconnect never starts a turn.
MessageRunsOnce ==
    \A r, q \in 1..Len(runs) : runs[r].message = runs[q].message => r = q

Finished(s) == s.run # 0 /\ "done" \in Range(Emitted(s.run))

\* A page that follows a turn that came to its end is told so, however often
\* its connection was lost and whoever else watched: its composer is freed
\* (or it is moved to another run, see MessageRunsOnce).
SeesTheEnd ==
    \A t \in Tabs :
        (tab[t].at \in Streaming /\ Finished(tab[t]))
            ~> (tab[t].at \notin Streaming \/ ~Finished(tab[t]))
=============================================================================
