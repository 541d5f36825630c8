-------------------------- MODULE TurnStream_proofs --------------------------
(***************************************************************************)
(* Theorems about viewing a turn.                                          *)
(*                                                                         *)
(* An id does not name its run, so what makes a page show one run is the   *)
(* session: only its holder starts runs, hence while a page holds it, the  *)
(* run it follows, or followed before its connection was lost, is the one  *)
(* the server has (PageInv, the last conjunct under Following).  A page    *)
(* that lost the session keeps what it got and is refused when it          *)
(* reconnects.                                                             *)
(***************************************************************************)
EXTENDS TurnStream, TLAPS

Runs == [input: Inputs, message: 1..MaxMessages, events: Events, done: BOOLEAN]

EventIds == [run: Nat, id: Nat]

Pages == [at: {"away", "claimed", "idle", "posting"} \cup Streaming,
          url: {"input", "attach"}, input: Inputs, message: 0..MaxMessages,
          run: Nat, pos: 0..(MaxData + 1),
          wire: Seq(EventIds), got: Seq(EventIds)]

Typed ==
    /\ runs \in Seq(Runs)
    /\ active \in 0..Len(runs)
    /\ owner \in Tabs \cup {NoTab}
    /\ messages \in 0..MaxMessages
    /\ tab \in [Tabs -> Pages]

RunInv(r) ==
    /\ Len(runs[r].events) <= MaxData + 1
    /\ Len(runs[r].events) <= MaxData \/ Ending(r)

\* A page that follows a run, or will say of which one it wants the rest.
Following(s) == s.at = "open" \/ s.got # <<>>

PageInv(t) ==
    LET s == tab[t] IN
    /\ s.run <= Len(runs)
    /\ s.at \notin Streaming => s.got = <<>>
    /\ s.at # "open" => s.wire = <<>>
    /\ s.at \in Streaming /\ s.url = "input" => s.message >= 1
    /\ s.at = "open" => s.pos = Len(s.got) + Len(s.wire)
                        /\ s.pos <= Len(runs[s.run].events)
    /\ Following(s) =>
        /\ s.run >= 1
        /\ Len(s.got) <= Len(runs[s.run].events)
        /\ s.url = "input" => runs[s.run].input = s.input
        /\ owner = t => active = s.run
    /\ \A k \in 1..Len(s.got) : s.got[k] = [run |-> s.run, id |-> k]
    /\ \A k \in 1..Len(s.wire) : s.wire[k] = [run |-> s.run, id |-> Len(s.got) + k]

RunsInv  == \A r \in 1..Len(runs) : RunInv(r)
PagesInv == \A t \in Tabs : PageInv(t)

IInv == Typed /\ RunsInv /\ PagesInv

-----------------------------------------------------------------------------
LEMMA SeqByElements ==
    \A S, T, q : q \in Seq(S) /\ (\A k \in 1..Len(q) : q[k] \in T) => q \in Seq(T)
<1> SUFFICES ASSUME NEW S, NEW T, NEW q \in Seq(S), \A k \in 1..Len(q) : q[k] \in T
             PROVE  q \in Seq(T)
  OBVIOUS
<1>1. q = [k \in 1..Len(q) |-> q[k]] /\ Len(q) \in Nat
  OBVIOUS
<1> QED BY <1>1

LEMMA ConcatIs ==
    ASSUME NEW S, NEW p \in Seq(S), NEW q \in Seq(S), NEW k \in 1..Len(p \o q)
    PROVE  \/ k \in 1..Len(p) /\ (p \o q)[k] = p[k]
           \/ k - Len(p) \in 1..Len(q) /\ (p \o q)[k] = q[k - Len(p)]
OBVIOUS

LEMMA ConcatLen ==
    ASSUME NEW S, NEW p \in Seq(S), NEW q \in Seq(S)
    PROVE  /\ Len(p \o q) = Len(p) + Len(q) /\ Len(p) \in Nat /\ Len(q) \in Nat
           /\ p = <<>> <=> Len(p) = 0
           /\ q = <<>> <=> Len(q) = 0
OBVIOUS

LEMMA SomeInputTyped == SomeInput \in Inputs
BY ConstantsAssumption DEF SomeInput

LEMMA ClosedTyped ==
    /\ Closed \in Pages
    /\ Closed.at = "away" /\ Closed.run = 0 /\ Closed.wire = <<>> /\ Closed.got = <<>>
BY SomeInputTyped, ConstantsAssumption DEF Closed, Pages, EventIds

LEMMA InitHolds == Init => IInv
<1> SUFFICES ASSUME Init PROVE IInv
  OBVIOUS
<1>1. Typed
  BY ClosedTyped, ConstantsAssumption DEF Init, Typed
<1>2. RunsInv
  BY DEF Init, RunsInv
<1>3. ASSUME NEW t \in Tabs PROVE PageInv(t)
  <2>1. tab[t] = Closed
    BY DEF Init
  <2>2. tab[t].at = "away" /\ tab[t].run = 0 /\ tab[t].wire = <<>> /\ tab[t].got = <<>>
    BY <2>1, ClosedTyped
  <2>3. Len(runs) = 0
    BY DEF Init
  <2> QED BY <2>2, <2>3 DEF PageInv, Following, Streaming
<1> QED BY <1>1, <1>2, <1>3 DEF IInv, PagesInv

\* A page that has received nothing, nor is about to.
LEMMA FreshPage ==
    ASSUME NEW t \in Tabs, tab'[t].at # "open", tab'[t].run <= Len(runs'),
           tab'[t].got = <<>>, tab'[t].wire = <<>>,
           tab'[t].at \in Streaming /\ tab'[t].url = "input" => tab'[t].message >= 1
    PROVE  PageInv(t)'
BY DEF PageInv, Following, Streaming

\* The other pages, when a page takes a step of its own.
LEMMA OtherPages ==
    ASSUME PagesInv, tab \in [Tabs -> Pages], NEW t \in Tabs, NEW s,
           tab' = [tab EXCEPT ![t] = s],
           runs' = runs, active' = active, owner' \in {owner, t},
           PageInv(t)'
    PROVE  PagesInv'
<1> SUFFICES ASSUME NEW u \in Tabs, u # t PROVE PageInv(u)'
  BY DEF PagesInv
<1>1. tab'[u] = tab[u]
  OBVIOUS
<1>2. owner' = u => owner = u
  OBVIOUS
<1> QED BY <1>1, <1>2, ZenonT(40) DEF PagesInv, PageInv, Following

-----------------------------------------------------------------------------
(* The turn: its buffer only grows, so what followers have of it stays.     *)

LEMMA DriveEventKeeps == IInv /\ DriveEvent => IInv'
<1> SUFFICES ASSUME IInv, DriveEvent PROVE IInv'
  OBVIOUS
<1> USE DEF IInv, Typed
<1> DEFINE old == runs[active].events
<1>1. PICK kind \in Kinds :
         /\ kind = "data" => Len(old) < MaxData
         /\ runs' = [runs EXCEPT ![active].events = Append(@, kind)]
  BY DEF DriveEvent, Emitted
<1>2. active \in 1..Len(runs) /\ ~Ending(active)
  BY DEF DriveEvent, Running
<1>3. runs[active] \in Runs /\ old \in Seq(Kinds)
  <2>1. runs[active] \in Runs
    BY <1>2
  <2> QED BY <2>1 DEF Runs, Events
<1>4. /\ runs' \in Seq(Runs) /\ Len(runs') = Len(runs)
      /\ runs'[active].events = Append(old, kind)
      /\ \A r \in 1..Len(runs) : r # active => runs'[r] = runs[r]
      /\ \A r \in 1..Len(runs) : runs'[r].input = runs[r].input
  <2>1. runs' = [runs EXCEPT ![active] = [runs[active] EXCEPT !.events = Append(old, kind)]]
    BY <1>1
  <2>2. [runs[active] EXCEPT !.events = Append(old, kind)] \in Runs
    <3>1. Append(old, kind) \in Seq(Kinds)
      BY <1>3
    <3> QED BY <1>3, <3>1 DEF Runs, Events
  <2> QED BY <1>2, <1>3, <2>1, <2>2 DEF Runs
<1>5. Len(Append(old, kind)) = Len(old) + 1 /\ Append(old, kind)[Len(old) + 1] = kind
  BY <1>3
<1>6. RunsInv'
  <2> SUFFICES ASSUME NEW r \in 1..Len(runs) PROVE RunInv(r)'
    BY <1>4 DEF RunsInv
  <2>1. CASE r = active
    <3>1. Len(old) <= MaxData
      BY <1>2 DEF RunsInv, RunInv
    <3>2. kind = "data" \/ Ending(active)'
      BY <1>3, <1>4, <1>5 DEF Ending, Emitted, Last, Kinds, DriveEvent
    <3>3. Len(old) \in Nat
      BY <1>3
    <3> QED BY <1>1, <1>4, <1>5, <2>1, <3>1, <3>2, <3>3, ConstantsAssumption DEF RunInv, DriveEvent
  <2>2. CASE r # active
    BY <1>4, <2>2 DEF RunsInv, RunInv, Ending, Emitted
  <2> QED BY <2>1, <2>2
<1>7. PagesInv'
  <2> SUFFICES ASSUME NEW t \in Tabs PROVE PageInv(t)'
    BY DEF PagesInv
  <2>1. PageInv(t) /\ tab' = tab /\ owner' = owner /\ active' = active
    BY DEF PagesInv, DriveEvent
  <2>2. ASSUME NEW r \in 1..Len(runs)
        PROVE  /\ Len(runs[r].events) <= Len(runs'[r].events)
               /\ Len(runs[r].events) \in Nat /\ Len(runs'[r].events) \in Nat
    <3>1. runs[r] \in Runs /\ runs'[r] \in Runs
      BY <1>4
    <3>2. runs[r].events \in Seq(Kinds) /\ runs'[r].events \in Seq(Kinds)
      BY <3>1 DEF Runs, Events
    <3>3. Len(runs[r].events) \in Nat /\ Len(runs'[r].events) \in Nat
      BY <3>2
    <3> QED BY <1>3, <1>4, <1>5, <3>3
  <2>3. /\ tab[t] \in Pages /\ Len(tab[t].got) \in Nat /\ Len(tab[t].wire) \in Nat
        /\ tab[t].pos \in Nat /\ tab[t].run \in Nat
    BY ConstantsAssumption, SMTT(30) DEF Pages
  <2>4. tab[t].at = "open" \/ tab[t].got # <<>> => tab[t].run \in 1..Len(runs)
    BY <2>1, <2>3 DEF PageInv, Following
  <2>5. Len(runs') = Len(runs) /\ tab'[t] = tab[t]
    BY <1>4, <2>1
  <2>6. CASE ~Following(tab[t])
    BY <2>1, <2>5, <2>6 DEF PageInv, Following
  <2>7. CASE Following(tab[t])
    <3> DEFINE e == runs[tab[t].run].events
               f == runs'[tab[t].run].events
    <3>1. Len(e) <= Len(f) /\ Len(e) \in Nat /\ Len(f) \in Nat
      BY <2>2, <2>4, <2>7 DEF Following
    <3>2. runs'[tab[t].run].input = runs[tab[t].run].input
      BY <1>4, <2>4, <2>7 DEF Following
    <3>. HIDE DEF e, f
    <3>5. \A n \in Nat : n <= Len(e) => n <= Len(f)
      BY <3>1
    <3>3. Len(tab[t].got) <= Len(e) => Len(tab[t].got) <= Len(f)
      BY <2>3, <3>5
    <3>4. tab[t].pos <= Len(e) => tab[t].pos <= Len(f)
      BY <2>3, <3>5
    <3>. USE DEF e, f
    <3> QED BY <2>1, <2>5, <2>7, <3>2, <3>3, <3>4 DEF PageInv, Following
  <2> QED BY <2>6, <2>7
<1> QED BY <1>4, <1>6, <1>7 DEF DriveEvent

\* What ends a turn leaves its events.
LEMMA EndingKeeps ==
    ASSUME IInv, Running, runs' = [runs EXCEPT ![active].done = TRUE]
    PROVE  /\ runs' \in Seq(Runs) /\ Len(runs') = Len(runs)
           /\ \A r \in 1..Len(runs) : runs'[r].events = runs[r].events
                                      /\ runs'[r].input = runs[r].input
<1> USE DEF IInv, Typed
<1>1. active \in 1..Len(runs) /\ runs[active] \in Runs
  BY DEF Running
<1>2. [runs[active] EXCEPT !.done = TRUE] \in Runs
  BY <1>1 DEF Runs
<1>3. runs' = [runs EXCEPT ![active] = [runs[active] EXCEPT !.done = TRUE]]
  OBVIOUS
<1> QED BY <1>1, <1>2, <1>3 DEF Runs

LEMMA SameEvents ==
    ASSUME IInv, runs' \in Seq(Runs), Len(runs') = Len(runs),
           \A r \in 1..Len(runs) : runs'[r].events = runs[r].events
                                   /\ runs'[r].input = runs[r].input
    PROVE  /\ RunsInv'
           /\ \A t \in Tabs : tab'[t] = tab[t] /\ (owner' = t => owner = t /\ active' = active)
                => PageInv(t)'
<1> USE DEF IInv, Typed
<1>1. RunsInv'
  BY DEF RunsInv, RunInv, Ending, Emitted
<1>2. ASSUME NEW t \in Tabs, tab'[t] = tab[t], owner' = t => owner = t /\ active' = active
      PROVE  PageInv(t)'
  <2>1. PageInv(t) /\ tab[t].run \in Nat
    BY DEF PagesInv, Pages
  <2>2. Following(tab[t]) => tab[t].run \in 1..Len(runs)
    BY <2>1 DEF PageInv
  <2> QED BY <1>2, <2>1, <2>2 DEF PageInv, Following
<1> QED BY <1>1, <1>2

LEMMA DriveEndKeeps == IInv /\ DriveEnd => IInv'
<1> SUFFICES ASSUME IInv, DriveEnd PROVE IInv'
  OBVIOUS
<1>1. /\ runs' \in Seq(Runs) /\ Len(runs') = Len(runs)
      /\ \A r \in 1..Len(runs) : runs'[r].events = runs[r].events
                                 /\ runs'[r].input = runs[r].input
  BY EndingKeeps DEF DriveEnd
<1>2. RunsInv' /\ PagesInv'
  BY <1>1, SameEvents DEF DriveEnd, PagesInv
<1> QED BY <1>1, <1>2 DEF IInv, Typed, DriveEnd

\* A restart ends the running turn; every follower is gone, and the session.
LEMMA RestartKeeps == IInv /\ Restart => IInv'
<1> SUFFICES ASSUME IInv, Restart PROVE IInv'
  OBVIOUS
<1> USE DEF IInv, Typed
<1>1. /\ runs' \in Seq(Runs) /\ Len(runs') = Len(runs)
      /\ \A r \in 1..Len(runs) : runs'[r].events = runs[r].events
                                 /\ runs'[r].input = runs[r].input
  BY EndingKeeps DEF Restart
<1>2. RunsInv'
  BY <1>1, SameEvents
<1>3. active' = 0 /\ owner' = NoTab /\ messages' = messages
  BY DEF Restart
<1>4. ASSUME NEW t \in Tabs
      PROVE  tab'[t] \in Pages /\ PageInv(t)'
  <2>1. tab[t] \in Pages /\ PageInv(t)
    BY DEF PagesInv
  <2>2. owner' # t
    BY <1>3, ConstantsAssumption
  <2>3. CASE tab[t].at = "open"
    <3>1. tab'[t] = [tab[t] EXCEPT !.at = "connecting", !.wire = <<>>]
      BY <2>3 DEF Restart
    <3>2. tab'[t] \in Pages
      <4>1. <<>> \in Seq(EventIds)
        OBVIOUS
      <4> QED BY <2>1, <3>1, <4>1 DEF Pages, Streaming
    <3>3. /\ tab'[t].at = "connecting" /\ tab'[t].wire = <<>> /\ tab'[t].url = tab[t].url
          /\ tab'[t].got = tab[t].got /\ tab'[t].run = tab[t].run
          /\ tab'[t].message = tab[t].message /\ tab'[t].input = tab[t].input
      BY <2>1, <3>1 DEF Pages
    <3>4. tab[t].run \in 1..Len(runs)
      BY <2>1, <2>3 DEF PageInv, Following, Pages
    <3> QED BY <1>1, <2>1, <2>2, <2>3, <3>2, <3>3, <3>4 DEF PageInv, Following, Streaming
  <2>4. CASE tab[t].at = "posting"
    <3>1. tab'[t] = [Closed EXCEPT !.at = "idle"]
      BY <2>4 DEF Restart, Refused
    <3>2. tab'[t] \in Pages /\ tab'[t].at = "idle" /\ tab'[t].got = <<>>
          /\ tab'[t].wire = <<>> /\ tab'[t].run = 0
      BY ClosedTyped, <3>1 DEF Pages
    <3> QED BY <1>1, <3>2, FreshPage DEF Streaming
  <2>5. CASE tab[t].at \notin {"open", "posting"}
    <3>1. tab'[t] = tab[t]
      BY <2>5 DEF Restart
    <3> QED BY <1>1, <2>1, <2>2, <3>1, SameEvents
  <2> QED BY <2>3, <2>4, <2>5
<1>5. tab' \in [Tabs -> Pages]
  <2>1. tab' = [t \in Tabs |-> tab'[t]]
    BY DEF Restart
  <2> QED BY <1>4, <2>1
<1> QED BY <1>1, <1>2, <1>3, <1>4, <1>5 DEF PagesInv

-----------------------------------------------------------------------------
(* A page's own steps.                                                      *)

LEMMA OpenPageKeeps == \A t \in Tabs : IInv /\ OpenPage(t) => IInv'
<1> SUFFICES ASSUME NEW t \in Tabs, IInv, OpenPage(t) PROVE IInv'
  OBVIOUS
<1> DEFINE s == [Closed EXCEPT !.at = "claimed"]
<1>1. s \in Pages /\ s.at = "claimed" /\ s.got = <<>> /\ s.wire = <<>> /\ s.run = 0
  BY ClosedTyped DEF Pages
<1>2. tab' = [tab EXCEPT ![t] = s] /\ tab'[t] = s /\ runs' = runs /\ active' = active
      /\ owner' = t /\ messages' = messages
  BY DEF OpenPage, IInv, Typed
<1>3. Typed'
  BY <1>1, <1>2 DEF IInv, Typed
<1>4. RunsInv'
  BY <1>2 DEF IInv, RunsInv, RunInv, Ending, Emitted
<1>5. PageInv(t)'
  BY <1>1, <1>2, FreshPage DEF Streaming, IInv, Typed
<1>6. PagesInv'
  BY <1>2, <1>5, OtherPages DEF IInv, Typed
<1> QED BY <1>3, <1>4, <1>6 DEF IInv

\* A step that replaces a page and leaves the server alone.
LEMMA PageStep ==
    ASSUME IInv, NEW t \in Tabs, NEW s \in Pages, tab' = [tab EXCEPT ![t] = s],
           runs' = runs, active' = active, owner' = owner, messages' \in 0..MaxMessages,
           tab'[t] = s => PageInv(t)'
    PROVE  IInv'
<1>1. tab'[t] = s
  BY DEF IInv, Typed
<1>2. Typed'
  BY DEF IInv, Typed
<1>3. RunsInv'
  BY DEF IInv, RunsInv, RunInv, Ending, Emitted
<1>4. PagesInv'
  BY <1>1, OtherPages DEF IInv, Typed
<1> QED BY <1>2, <1>3, <1>4 DEF IInv

LEMMA FreshStep ==
    ASSUME IInv, NEW t \in Tabs, NEW s \in Pages, tab' = [tab EXCEPT ![t] = s],
           runs' = runs, active' = active, owner' = owner, messages' \in 0..MaxMessages,
           s.at # "open", s.run <= Len(runs), s.got = <<>>, s.wire = <<>>,
           s.at \in Streaming /\ s.url = "input" => s.message >= 1
    PROVE  IInv'
BY FreshPage, PageStep

LEMMA ProbeKeeps == \A t \in Tabs : IInv /\ Probe(t) => IInv'
<1> SUFFICES ASSUME NEW t \in Tabs, IInv, Probe(t) PROVE IInv'
  OBVIOUS
<1>1. tab[t] \in Pages /\ PageInv(t)
  BY DEF IInv, Typed, PagesInv
<1>2. tab[t].got = <<>> /\ tab[t].wire = <<>> /\ tab[t].run <= Len(runs)
  BY <1>1 DEF Probe, PageInv, Streaming
<1>3. runs' = runs /\ active' = active /\ owner' = owner /\ messages' \in 0..MaxMessages
  BY DEF Probe, IInv, Typed
<1>4. CASE owner = t /\ Running
  <2> DEFINE s == [tab[t] EXCEPT !.at = "connecting", !.url = "attach"]
  <2>1. s \in Pages
    BY <1>1 DEF Pages, Streaming
  <2>2. s.at = "connecting" /\ s.url = "attach" /\ s.got = <<>> /\ s.wire = <<>>
        /\ s.run <= Len(runs)
    BY <1>1, <1>2 DEF Pages
  <2>3. tab' = [tab EXCEPT ![t] = s]
    BY <1>4 DEF Probe
  <2> HIDE DEF s
  <2> QED BY <1>3, <2>1, <2>2, <2>3, FreshStep
<1>5. CASE ~(owner = t /\ Running)
  <2> DEFINE s == [tab[t] EXCEPT !.at = "idle"]
  <2>1. s \in Pages
    BY <1>1 DEF Pages, Streaming
  <2>2. s.at = "idle" /\ s.got = <<>> /\ s.wire = <<>> /\ s.run <= Len(runs)
    BY <1>1, <1>2 DEF Pages
  <2>3. tab' = [tab EXCEPT ![t] = s]
    BY <1>5 DEF Probe
  <2> HIDE DEF s
  <2> QED BY <1>3, <2>1, <2>2, <2>3, FreshStep DEF Streaming
<1> QED BY <1>4, <1>5

LEMMA SendMessageKeeps == \A t \in Tabs : IInv /\ SendMessage(t) => IInv'
<1> SUFFICES ASSUME NEW t \in Tabs, IInv, SendMessage(t) PROVE IInv'
  OBVIOUS
<1>1. messages + 1 \in 0..MaxMessages /\ messages + 1 >= 1
  BY ConstantsAssumption DEF IInv, Typed, SendMessage
<1>2. PICK i \in Inputs :
        tab' = [tab EXCEPT ![t] = [Closed EXCEPT !.at = "connecting", !.input = i,
                                                 !.message = messages + 1]]
  BY SomeInputTyped DEF SendMessage, NextInput
<1> DEFINE s == [Closed EXCEPT !.at = "connecting", !.input = i, !.message = messages + 1]
<1>3. s \in Pages
  BY <1>1, ClosedTyped DEF Pages, Streaming
<1>4. s.at = "connecting" /\ s.message = messages + 1 /\ s.got = <<>> /\ s.wire = <<>>
      /\ s.run = 0
  BY ClosedTyped DEF Pages
<1>5. 0 <= Len(runs) /\ runs' = runs /\ active' = active /\ owner' = owner
      /\ messages' = messages + 1
  BY DEF SendMessage, IInv, Typed
<1>6. tab' = [tab EXCEPT ![t] = s]
  BY <1>2
<1> HIDE DEF s
<1> QED BY <1>1, <1>3, <1>4, <1>5, <1>6, FreshStep

LEMMA PostReturnsKeeps == \A t \in Tabs : IInv /\ PostReturns(t) => IInv'
<1> SUFFICES ASSUME NEW t \in Tabs, IInv, PostReturns(t) PROVE IInv'
  OBVIOUS
<1> DEFINE s == [Closed EXCEPT !.at = "idle"]
<1>1. s \in Pages /\ s.at = "idle" /\ s.got = <<>> /\ s.wire = <<>> /\ s.run = 0
  BY ClosedTyped DEF Pages
<1>2. tab' = [tab EXCEPT ![t] = s] /\ runs' = runs /\ active' = active /\ owner' = owner
      /\ messages' \in 0..MaxMessages /\ 0 <= Len(runs)
  BY DEF PostReturns, IInv, Typed
<1> HIDE DEF s
<1> QED BY <1>1, <1>2, FreshStep DEF Streaming

LEMMA LeaveKeeps == \A t \in Tabs : IInv /\ Leave(t) => IInv'
<1> SUFFICES ASSUME NEW t \in Tabs, IInv, Leave(t) PROVE IInv'
  OBVIOUS
<1>1. tab' = [tab EXCEPT ![t] = Closed] /\ runs' = runs /\ active' = active
      /\ owner' = owner /\ messages' \in 0..MaxMessages /\ 0 <= Len(runs)
  BY DEF Leave, IInv, Typed
<1> QED BY <1>1, ClosedTyped, FreshStep DEF Streaming

-----------------------------------------------------------------------------
(* A run is started for the page that holds the session.                    *)

LEMMA StartTurnKeeps ==
    ASSUME IInv, NEW t \in Tabs, owner = t, owner' = t,
           NEW input \in Inputs, NEW message \in 1..MaxMessages,
           StartTurn(input, message), NEW s \in Pages, tab' = [tab EXCEPT ![t] = s]
    PROVE  /\ runs' \in Seq(Runs) /\ Len(runs') = Len(runs) + 1 /\ Len(runs) \in Nat
           /\ active' = Len(runs) + 1 /\ runs'[active'].input = input
           /\ runs'[active'].events = <<>>
           /\ RunsInv'
           /\ \A u \in Tabs \ {t} : PageInv(u)'
<1> USE DEF IInv, Typed
<1> DEFINE r0 == [input |-> input, message |-> message, events |-> <<>>, done |-> FALSE]
<1>1. r0 \in Runs
  BY DEF Runs, Events
<1>2. runs' = Append(runs, r0) /\ active' = Len(runs) + 1
  BY DEF StartTurn
<1>3. /\ runs' \in Seq(Runs) /\ Len(runs') = Len(runs) + 1 /\ Len(runs) \in Nat
      /\ runs'[Len(runs) + 1] = r0
      /\ \A r \in 1..Len(runs) : runs'[r] = runs[r]
  BY <1>1, <1>2
<1>4. RunsInv'
  <2> SUFFICES ASSUME NEW r \in 1..(Len(runs) + 1) PROVE RunInv(r)'
    BY <1>3 DEF RunsInv
  <2>1. CASE r = Len(runs) + 1
    <3>1. Len(runs'[r].events) = 0
      BY <1>3, <2>1
    <3> QED BY <3>1, ConstantsAssumption DEF RunInv
  <2>2. CASE r \in 1..Len(runs)
    BY <1>3, <2>2 DEF RunsInv, RunInv, Ending, Emitted
  <2> QED BY <1>3, <2>1, <2>2
<1>5. ASSUME NEW u \in Tabs \ {t} PROVE PageInv(u)'
  <2>1. PageInv(u) /\ tab'[u] = tab[u] /\ tab[u].run \in Nat /\ owner' # u
    BY DEF PagesInv, Pages
  <2>2. Following(tab[u]) => tab[u].run \in 1..Len(runs)
    BY <2>1 DEF PageInv
  <2>3. tab'[u].run <= Len(runs')
    BY <1>3, <2>1 DEF PageInv
  <2> QED BY <1>3, <2>1, <2>2, <2>3 DEF PageInv, Following
<1> QED BY <1>2, <1>3, <1>4, <1>5

LEMMA PostTurnKeeps == \A t \in Tabs : IInv /\ PostTurn(t) => IInv'
<1> SUFFICES ASSUME NEW t \in Tabs, IInv, PostTurn(t) PROVE IInv'
  OBVIOUS
<1>1. messages + 1 \in 1..MaxMessages /\ messages' = messages + 1 /\ Len(runs) + 1 \in Nat
  BY ConstantsAssumption DEF IInv, Typed, PostTurn
<1>2. PICK i \in Inputs :
        /\ StartTurn(i, messages + 1)
        /\ tab' = [tab EXCEPT ![t] = [Closed EXCEPT !.at = "posting", !.input = i,
                                 !.message = messages + 1, !.run = Len(runs) + 1]]
  BY SomeInputTyped DEF PostTurn, NextInput
<1> DEFINE s == [Closed EXCEPT !.at = "posting", !.input = i,
                               !.message = messages + 1, !.run = Len(runs) + 1]
<1>3. s \in Pages
  <2>1. messages + 1 \in 0..MaxMessages
    BY <1>1
  <2> QED BY <1>1, <2>1, ClosedTyped DEF Pages, Streaming
<1>4. s.at = "posting" /\ s.got = <<>> /\ s.wire = <<>> /\ s.run = Len(runs) + 1
  BY ClosedTyped DEF Pages
<1>5. tab' = [tab EXCEPT ![t] = s] /\ owner = t /\ owner' = t
  BY <1>2 DEF PostTurn
<1> HIDE DEF s
<1>6. /\ runs' \in Seq(Runs) /\ Len(runs') = Len(runs) + 1 /\ Len(runs) \in Nat
      /\ active' = Len(runs) + 1 /\ RunsInv'
      /\ \A u \in Tabs \ {t} : PageInv(u)'
  BY <1>1, <1>2, <1>3, <1>5, StartTurnKeeps
<1>7. tab'[t] = s /\ tab' \in [Tabs -> Pages]
  BY <1>3, <1>5 DEF IInv, Typed
<1>8. PageInv(t)'
  BY <1>4, <1>6, <1>7, FreshPage DEF Streaming
<1> QED BY <1>1, <1>5, <1>6, <1>7, <1>8 DEF IInv, Typed, PagesInv

LEMMA LastSeqIs ==
    ASSUME IInv, NEW t \in Tabs
    PROVE  LastSeq(tab[t]) = Len(tab[t].got) /\ Len(tab[t].got) \in Nat
<1>1. tab[t].got \in Seq(EventIds) /\ PageInv(t)
  BY DEF IInv, Typed, PagesInv, Pages
<1>2. CASE tab[t].got = <<>>
  BY <1>2 DEF LastSeq
<1>3. CASE tab[t].got # <<>>
  <2>1. Len(tab[t].got) \in 1..Len(tab[t].got)
    BY <1>1, <1>3
  <2>2. tab[t].got[Len(tab[t].got)] = [run |-> tab[t].run, id |-> Len(tab[t].got)]
    BY <1>1, <2>1 DEF PageInv
  <2>3. LastSeq(tab[t]) = tab[t].got[Len(tab[t].got)].id
    BY <1>3 DEF LastSeq, Last
  <2> QED BY <2>2, <2>3
<1> QED BY <1>1, <1>2, <1>3

LEMMA ConnectKeeps == \A t \in Tabs : IInv /\ Connect(t) => IInv'
<1> SUFFICES ASSUME NEW t \in Tabs, IInv, Connect(t) PROVE IInv'
  OBVIOUS
<1> DEFINE s == tab[t]
<1>1. s \in Pages /\ PageInv(t)
  BY DEF IInv, Typed, PagesInv
<1>2. /\ s.at = "connecting" /\ s.wire = <<>> /\ s.got \in Seq(EventIds)
      /\ owner' = owner /\ messages' \in 0..MaxMessages /\ LastSeq(s) = Len(s.got)
      /\ Len(s.got) \in Nat
  BY <1>1, LastSeqIs DEF Connect, PageInv, Pages, IInv, Typed
<1>3. CASE /\ owner = t /\ Attaches(s)
           /\ tab' = [tab EXCEPT ![t] = Follow(s, active, LastSeq(s))]
           /\ UNCHANGED <<runs, active>>
  <2> DEFINE n == Len(s.got)
             f == [s EXCEPT !.at = "open", !.run = active, !.pos = n, !.wire = <<>>]
  <2>1. active \in 1..Len(runs) /\ active \in Nat
    BY <1>3 DEF Attaches, IInv, Typed
  <2>2. runs[active].events \in Seq(Kinds) /\ Len(runs[active].events) \in 0..(MaxData + 1)
    <3>1. runs[active] \in Runs
      BY <2>1 DEF IInv, Typed
    <3>2. runs[active].events \in Seq(Kinds)
      BY <3>1 DEF Runs, Events
    <3> QED BY <2>1, <3>2, ConstantsAssumption DEF IInv, RunsInv, RunInv
  <2>3. s.got # <<>> => s.run = active
    BY <1>1, <1>3 DEF PageInv, Following
  <2>4. n <= Len(runs[active].events)
    BY <1>1, <1>2, <2>2, <2>3 DEF PageInv, Following
  <2>5. n \in 0..(MaxData + 1)
    BY <1>2, <2>2, <2>4, ConstantsAssumption
  <2>6. f \in Pages
    <3>1. <<>> \in Seq(EventIds)
      OBVIOUS
    <3> HIDE DEF n
    <3> QED BY <1>1, <2>1, <2>5, <3>1 DEF Pages, Streaming
  <2>7. /\ f.at = "open" /\ f.run = active /\ f.pos = n /\ f.wire = <<>>
        /\ f.got = s.got /\ f.url = s.url /\ f.input = s.input /\ f.message = s.message
    BY <1>1 DEF Pages
  <2>8. tab' = [tab EXCEPT ![t] = f] /\ runs' = runs /\ active' = active
    BY <1>2, <1>3 DEF Follow
  <2>9. ASSUME tab'[t] = f PROVE PageInv(t)'
    <3>1. f.url = "input" => runs[active].input = f.input /\ f.message >= 1
      BY <1>1, <1>2, <1>3, <2>7 DEF PageInv, Streaming, Attaches
    <3>2. \A k \in 1..Len(f.got) : f.got[k] = [run |-> f.run, id |-> k]
      BY <1>1, <1>2, <2>3, <2>7 DEF PageInv
    <3>3. f.run <= Len(runs) /\ f.run >= 1
      BY <2>1, <2>7
    <3>4. f.pos = Len(f.got) + Len(f.wire) /\ f.pos <= Len(runs[f.run].events)
          /\ Len(f.got) <= Len(runs[f.run].events) /\ Len(f.wire) = 0
      BY <1>2, <2>4, <2>7
    <3>5. \A k \in 1..Len(f.wire) : f.wire[k] = [run |-> f.run, id |-> Len(f.got) + k]
      BY <3>4
    <3>6. f.at = "open" /\ f.run = active
      BY <2>7
    <3> HIDE DEF f, n
    <3>7. /\ tab'[t].run <= Len(runs')
          /\ tab'[t].at = "open"
          /\ tab'[t].pos = Len(tab'[t].got) + Len(tab'[t].wire)
          /\ tab'[t].pos <= Len(runs'[tab'[t].run].events)
          /\ tab'[t].run >= 1 /\ Len(tab'[t].got) <= Len(runs'[tab'[t].run].events)
          /\ tab'[t].url = "input" => /\ runs'[tab'[t].run].input = tab'[t].input
                                     /\ tab'[t].message >= 1
          /\ active' = tab'[t].run
      BY <2>8, <2>9, <3>1, <3>3, <3>4, <3>6
    <3> QED BY <2>9, <3>2, <3>5, <3>7 DEF PageInv, Streaming, Following
  <2> HIDE DEF f
  <2> QED BY <1>2, <2>6, <2>8, <2>9, PageStep
<1>4. CASE /\ owner = t /\ Starts(s)
           /\ StartTurn(s.input, s.message)
           /\ tab' = [tab EXCEPT ![t] = Follow(s, Len(runs) + 1, 0)]
  <2> DEFINE f == [s EXCEPT !.at = "open", !.run = Len(runs) + 1, !.pos = 0, !.wire = <<>>]
  <2>1. s.got = <<>> /\ s.url = "input"
    <3>1. s.url = "input" /\ LastSeq(s) = 0
      BY <1>4 DEF Starts
    <3>2. Len(s.got) = 0
      BY <1>2, <3>1
    <3> QED BY <1>2, <3>1, <3>2
  <2>2. s.input \in Inputs /\ s.message \in 1..MaxMessages
    BY <1>1, <1>2, <2>1, ConstantsAssumption DEF PageInv, Streaming, Pages
  <2>3. Len(runs) + 1 \in Nat
    BY DEF IInv, Typed
  <2>4. f \in Pages
    <3>1. <<>> \in Seq(EventIds) /\ 0 \in 0..(MaxData + 1)
      BY ConstantsAssumption
    <3> QED BY <1>1, <2>3, <3>1 DEF Pages, Streaming
  <2>5. /\ f.at = "open" /\ f.run = Len(runs) + 1 /\ f.pos = 0 /\ f.wire = <<>>
        /\ f.got = <<>> /\ f.url = s.url /\ f.input = s.input /\ f.message = s.message
    BY <1>1, <2>1 DEF Pages
  <2>6. tab' = [tab EXCEPT ![t] = f]
    BY <1>4 DEF Follow
  <2> HIDE DEF f
  <2>7. /\ runs' \in Seq(Runs) /\ Len(runs') = Len(runs) + 1 /\ Len(runs) \in Nat
        /\ active' = Len(runs) + 1 /\ runs'[active'].input = s.input
        /\ runs'[active'].events = <<>>
        /\ RunsInv'
        /\ \A u \in Tabs \ {t} : PageInv(u)'
    BY <1>2, <1>4, <2>2, <2>4, <2>6, StartTurnKeeps
  <2>8. tab'[t] = f /\ tab' \in [Tabs -> Pages]
    BY <2>4, <2>6 DEF IInv, Typed
  <2>9. PageInv(t)'
    <3>1. f.message >= 1 /\ f.input = s.input
      BY <2>2, <2>5
    <3>2. /\ tab'[t].run <= Len(runs') /\ tab'[t].at = "open" /\ tab'[t].run >= 1
          /\ tab'[t].got = <<>> /\ tab'[t].wire = <<>> /\ tab'[t].pos = 0
          /\ runs'[tab'[t].run].events = <<>> /\ active' = tab'[t].run
          /\ tab'[t].message >= 1 /\ runs'[tab'[t].run].input = tab'[t].input
      BY <2>5, <2>7, <2>8, <3>1
    <3>3. Len(tab'[t].got) = 0 /\ Len(tab'[t].wire) = 0 /\ Len(runs'[tab'[t].run].events) = 0
      BY <3>2
    <3> QED BY <3>2, <3>3 DEF PageInv, Streaming, Following
  <2> QED BY <1>2, <1>4, <2>7, <2>8, <2>9 DEF IInv, Typed, PagesInv
<1>5. CASE tab' = [tab EXCEPT ![t] = Refused(s)] /\ UNCHANGED <<runs, active>>
  <2> DEFINE f == [Closed EXCEPT !.at = "idle"]
  <2>1. f \in Pages /\ f.at = "idle" /\ f.got = <<>> /\ f.wire = <<>> /\ f.run = 0
    BY ClosedTyped DEF Pages
  <2>2. tab' = [tab EXCEPT ![t] = f] /\ 0 <= Len(runs)
    BY <1>5 DEF Refused, IInv, Typed
  <2> HIDE DEF f
  <2> QED BY <1>2, <1>5, <2>1, <2>2, FreshStep DEF Streaming
<1> QED BY <1>3, <1>4, <1>5 DEF Connect

-----------------------------------------------------------------------------
(* A stream: sent in order, received in order, resumed where it was lost.   *)

\* A page that is open follows a run that exists, whose events it counts.
LEMMA OpenFacts ==
    ASSUME IInv, NEW t \in Tabs, tab[t].at = "open"
    PROVE  /\ tab[t] \in Pages /\ PageInv(t) /\ tab[t].run \in 1..Len(runs)
           /\ tab[t].got \in Seq(EventIds) /\ tab[t].wire \in Seq(EventIds)
           /\ tab[t].pos \in Nat /\ tab[t].run \in Nat
           /\ runs[tab[t].run].events \in Seq(Kinds)
           /\ Len(runs[tab[t].run].events) <= MaxData + 1
<1>1. tab[t] \in Pages /\ PageInv(t)
  BY DEF IInv, Typed, PagesInv
<1>2. /\ tab[t].got \in Seq(EventIds) /\ tab[t].wire \in Seq(EventIds)
      /\ tab[t].pos \in Nat /\ tab[t].run \in Nat
  BY <1>1, ConstantsAssumption DEF Pages
<1>3. tab[t].run \in 1..Len(runs)
  BY <1>1, <1>2 DEF PageInv, Following
<1>4. runs[tab[t].run] \in Runs /\ RunInv(tab[t].run)
  BY <1>3 DEF IInv, Typed, RunsInv
<1> QED BY <1>1, <1>2, <1>3, <1>4 DEF Runs, Events, RunInv

LEMMA SendKeeps == \A t \in Tabs : IInv /\ Send(t) => IInv'
<1> SUFFICES ASSUME NEW t \in Tabs, IInv, Send(t) PROVE IInv'
  OBVIOUS
<1> DEFINE s == tab[t]
           e == [run |-> s.run, id |-> s.pos + 1]
           w == Append(s.wire, e)
           f == [s EXCEPT !.pos = s.pos + 1, !.wire = w]
<1>1. /\ s.at = "open" /\ s.pos < Len(runs[s.run].events)
      /\ runs' = runs /\ active' = active /\ owner' = owner /\ messages' \in 0..MaxMessages
  BY DEF Send, Emitted, IInv, Typed
<1>2. /\ s \in Pages /\ PageInv(t) /\ s.run \in 1..Len(runs)
      /\ s.got \in Seq(EventIds) /\ s.wire \in Seq(EventIds)
      /\ s.pos \in Nat /\ s.run \in Nat
      /\ Len(runs[s.run].events) \in Nat
      /\ Len(runs[s.run].events) <= MaxData + 1
  BY <1>1, OpenFacts
<1>3. e \in EventIds
  BY <1>2 DEF EventIds
<1>4. /\ w \in Seq(EventIds) /\ Len(w) = Len(s.wire) + 1 /\ w[Len(s.wire) + 1] = e
      /\ \A k \in 1..Len(s.wire) : w[k] = s.wire[k]
  BY <1>2, <1>3
<1>5. s.pos + 1 \in 0..(MaxData + 1) /\ s.pos + 1 <= Len(runs[s.run].events)
  <2>1. \A p, n, m \in Nat : p < n /\ n <= m + 1 => p + 1 \in 0..(m + 1) /\ p + 1 <= n
    OBVIOUS
  <2>2. MaxData \in Nat
    BY ConstantsAssumption
  <2> QED BY <1>1, <1>2, <2>1, <2>2
<1>6. f \in Pages
  <2> HIDE DEF w
  <2> QED BY <1>2, <1>4, <1>5 DEF Pages
<1>7. /\ f.at = "open" /\ f.pos = s.pos + 1 /\ f.wire = w /\ f.got = s.got
      /\ f.run = s.run /\ f.url = s.url /\ f.input = s.input /\ f.message = s.message
  BY <1>1, <1>2 DEF Pages
<1>8. tab' = [tab EXCEPT ![t] = f]
  BY <1>1 DEF Send
<1>9. s.pos = Len(s.got) + Len(s.wire) /\ Len(s.got) \in Nat /\ Len(s.wire) \in Nat
  <2>1. s.pos = Len(s.got) + Len(s.wire)
    BY <1>1, <1>2 DEF PageInv
  <2> QED BY <1>2, <2>1
<1> DEFINE a == Len(s.got)
           b == Len(s.wire)
<1>12. s.pos + 1 = a + (b + 1) /\ a \in Nat /\ b \in Nat
  <2> HIDE DEF a, b
  <2>1. s.pos = a + b /\ a \in Nat /\ b \in Nat
    BY <1>9 DEF a, b
  <2> QED BY <2>1
<1>10. \A k \in 1..Len(w) : w[k] = [run |-> s.run, id |-> Len(s.got) + k]
  <2> SUFFICES ASSUME NEW k \in 1..(Len(s.wire) + 1)
               PROVE  w[k] = [run |-> s.run, id |-> Len(s.got) + k]
    BY <1>4
  <2>1. CASE k = Len(s.wire) + 1
    <3>1. s.pos + 1 = Len(s.got) + k
      BY <1>12, <2>1
    <3> QED BY <1>4, <2>1, <3>1
  <2>2. CASE k \in 1..Len(s.wire)
    BY <1>2, <1>4, <2>2 DEF PageInv
  <2> QED BY <1>9, <2>1, <2>2
<1>11. ASSUME tab'[t] = f PROVE PageInv(t)'
  <2>1. s.pos + 1 = Len(s.got) + Len(w)
    BY <1>4, <1>12
  <2> HIDE DEF f, w
  <2> QED BY <1>1, <1>2, <1>5, <1>7, <1>10, <1>11, <2>1 DEF PageInv, Following, Streaming
<1> HIDE DEF f
<1> QED BY <1>1, <1>6, <1>8, <1>11, PageStep

LEMMA ReceiveKeeps == \A t \in Tabs : IInv /\ Receive(t) => IInv'
<1> SUFFICES ASSUME NEW t \in Tabs, IInv, Receive(t) PROVE IInv'
  OBVIOUS
<1> DEFINE s == tab[t]
           e == Head(s.wire)
           w == Tail(s.wire)
           g == Append(s.got, e)
           f == [s EXCEPT !.wire = w, !.got = g]
<1>1. /\ s.at = "open" /\ s.wire # <<>>
      /\ runs' = runs /\ active' = active /\ owner' = owner /\ messages' \in 0..MaxMessages
  BY DEF Receive, IInv, Typed
<1>2. /\ s \in Pages /\ PageInv(t) /\ s.run \in 1..Len(runs)
      /\ s.got \in Seq(EventIds) /\ s.wire \in Seq(EventIds)
      /\ s.pos \in Nat /\ s.run \in Nat
      /\ Len(runs[s.run].events) \in Nat
  BY <1>1, OpenFacts, SMTT(30)
<1>3. CASE tab' = [tab EXCEPT ![t] = [Closed EXCEPT !.at = "idle"]]
  <2> DEFINE c == [Closed EXCEPT !.at = "idle"]
  <2>1. c \in Pages /\ c.at = "idle" /\ c.got = <<>> /\ c.wire = <<>> /\ c.run = 0
    BY ClosedTyped DEF Pages
  <2>2. tab' = [tab EXCEPT ![t] = c] /\ 0 <= Len(runs)
    BY <1>3 DEF IInv, Typed
  <2> HIDE DEF c
  <2> QED BY <1>1, <2>1, <2>2, FreshStep DEF Streaming
<1>4. CASE tab' = [tab EXCEPT ![t] = f]
  <2>1. /\ Len(s.wire) \in Nat \ {0} /\ Len(s.got) \in Nat
        /\ e = s.wire[1] /\ e \in EventIds
    BY <1>1, <1>2
  <2>2. /\ w \in Seq(EventIds) /\ Len(w) = Len(s.wire) - 1
        /\ \A k \in 1..Len(w) : w[k] = s.wire[k + 1]
    BY <1>1, <1>2
  <2>3. /\ g \in Seq(EventIds) /\ Len(g) = Len(s.got) + 1 /\ g[Len(s.got) + 1] = e
        /\ \A k \in 1..Len(s.got) : g[k] = s.got[k]
    <3> HIDE DEF e
    <3> QED BY <1>2, <2>1
  <2>4. e = [run |-> s.run, id |-> Len(s.got) + 1]
    <3>1. 1 \in 1..Len(s.wire)
      BY <2>1
    <3> QED BY <1>2, <2>1, <3>1 DEF PageInv
  <2> HIDE DEF w, g, e
  <2>5. f \in Pages
    BY <1>2, <2>2, <2>3 DEF Pages
  <2>6. /\ f.at = "open" /\ f.pos = s.pos /\ f.wire = w /\ f.got = g
        /\ f.run = s.run /\ f.url = s.url /\ f.input = s.input /\ f.message = s.message
    BY <1>1, <1>2 DEF Pages
  <2>7. s.pos = Len(s.got) + Len(s.wire) /\ s.pos <= Len(runs[s.run].events)
    BY <1>1, <1>2 DEF PageInv
  <2>8. s.pos = Len(g) + Len(w) /\ Len(g) <= Len(runs[s.run].events)
    <3> DEFINE a == Len(s.got)
               b == Len(s.wire)
               n == Len(runs[s.run].events)
    <3>1. a \in Nat /\ b \in Nat \ {0} /\ n \in Nat /\ s.pos \in Nat
      BY <1>2, <2>1
    <3>2. s.pos = a + b /\ s.pos <= n /\ Len(g) = a + 1 /\ Len(w) = b - 1
      BY <2>2, <2>3, <2>7
    <3> HIDE DEF a, b, n
    <3>3. a + 1 + (b - 1) = a + b /\ (a + b <= n => a + 1 <= n)
      BY <3>1
    <3>4. s.pos = Len(g) + Len(w) /\ Len(g) <= n
      BY <3>2, <3>3
    <3> QED BY <3>4 DEF n
  <2>9. \A k \in 1..Len(g) : g[k] = [run |-> s.run, id |-> k]
    <3> SUFFICES ASSUME NEW k \in 1..(Len(s.got) + 1) PROVE g[k] = [run |-> s.run, id |-> k]
      BY <2>3
    <3>1. CASE k = Len(s.got) + 1
      BY <2>3, <2>4, <3>1
    <3>2. CASE k \in 1..Len(s.got)
      BY <1>2, <2>3, <3>2 DEF PageInv
    <3> QED BY <2>1, <3>1, <3>2
  <2>10. \A k \in 1..Len(w) : w[k] = [run |-> s.run, id |-> Len(g) + k]
    <3> SUFFICES ASSUME NEW k \in 1..Len(w)
                 PROVE  w[k] = [run |-> s.run, id |-> Len(g) + k]
      OBVIOUS
    <3>1. k + 1 \in 1..Len(s.wire) /\ Len(s.got) + (k + 1) = Len(g) + k
      <4> DEFINE a == Len(s.got)
                 b == Len(s.wire)
      <4>1. a \in Nat /\ b \in Nat /\ Len(g) = a + 1 /\ Len(w) = b - 1
        BY <2>1, <2>2, <2>3
      <4> HIDE DEF a, b
      <4>2. k + 1 \in 1..b /\ a + (k + 1) = a + 1 + k
        BY <4>1
      <4> QED BY <4>1, <4>2 DEF a, b
    <3>2. s.wire[k + 1] = [run |-> s.run, id |-> Len(s.got) + (k + 1)]
      BY <1>2, <3>1 DEF PageInv
    <3> QED BY <2>2, <3>1, <3>2
  <2>11. ASSUME tab'[t] = f PROVE PageInv(t)'
    <3> HIDE DEF f
    <3> QED BY <1>1, <1>2, <2>6, <2>7, <2>8, <2>9, <2>10, <2>11
            DEF PageInv, Following, Streaming
  <2> HIDE DEF f
  <2> QED BY <1>1, <1>4, <2>5, <2>11, PageStep
<1> QED BY <1>3, <1>4 DEF Receive

\* What is lost is on the wire; what was received, and of which run, stays.
LEMMA Disconnects ==
    ASSUME IInv, NEW t \in Tabs, tab[t].at = "open",
           tab' = [tab EXCEPT ![t] = [tab[t] EXCEPT !.at = "connecting", !.wire = <<>>]],
           runs' = runs, active' = active, owner' = owner, messages' = messages
    PROVE  IInv'
<1> DEFINE s == tab[t]
           f == [s EXCEPT !.at = "connecting", !.wire = <<>>]
<1>1. /\ s \in Pages /\ PageInv(t) /\ s.run \in 1..Len(runs)
      /\ s.got \in Seq(EventIds)
  BY OpenFacts
<1>2. f \in Pages
  <2>1. <<>> \in Seq(EventIds)
    OBVIOUS
  <2> QED BY <1>1, <2>1 DEF Pages, Streaming
<1>3. /\ f.at = "connecting" /\ f.wire = <<>> /\ f.got = s.got
      /\ f.run = s.run /\ f.url = s.url /\ f.input = s.input /\ f.message = s.message
  BY <1>1 DEF Pages
<1>4. tab' = [tab EXCEPT ![t] = f] /\ messages' \in 0..MaxMessages
  BY DEF IInv, Typed
<1> HIDE DEF f
<1>5. ASSUME tab'[t] = f PROVE PageInv(t)'
  <2>1. Len(f.wire) = 0 /\ Len(f.got) = Len(s.got)
    BY <1>3
  <2>2. runs' = runs /\ active' = active /\ owner' = owner /\ tab'[t] = f
    BY <1>5
  <2>3. Following(s)
    BY DEF Following
  <2>4. \A k \in 1..Len(f.wire) : f.wire[k] = [run |-> f.run, id |-> Len(f.got) + k]
    BY <2>1
  <2> HIDE DEF s
  <2>5. /\ s.run <= Len(runs) /\ s.run >= 1 /\ Len(s.got) <= Len(runs[s.run].events)
        /\ s.url = "input" => runs[s.run].input = s.input
        /\ owner = t => active = s.run
        /\ \A k \in 1..Len(s.got) : s.got[k] = [run |-> s.run, id |-> k]
        /\ s.url = "input" => s.message >= 1
    BY <1>1, <2>3 DEF s, PageInv, Streaming
  <2> QED BY <1>3, <2>2, <2>4, <2>5, ZenonT(40) DEF PageInv, Streaming
<1> QED BY <1>2, <1>4, <1>5, PageStep

LEMMA BlipKeeps == \A t \in Tabs : IInv /\ Blip(t) => IInv'
<1> SUFFICES ASSUME NEW t \in Tabs, IInv, Blip(t) PROVE IInv'
  OBVIOUS
<1>1. tab' = [tab EXCEPT ![t] = [tab[t] EXCEPT !.at = "connecting", !.wire = <<>>]]
  BY DEF Blip
<1> QED BY <1>1, Disconnects DEF Blip

LEMMA StreamEndsKeeps == \A t \in Tabs : IInv /\ StreamEnds(t) => IInv'
<1> SUFFICES ASSUME NEW t \in Tabs, IInv, StreamEnds(t) PROVE IInv'
  OBVIOUS
<1>1. tab[t] \in Pages /\ tab[t].at = "open" /\ tab[t].wire = <<>>
  BY DEF StreamEnds, IInv, Typed
<1>2. [tab[t] EXCEPT !.at = "connecting"]
        = [tab[t] EXCEPT !.at = "connecting", !.wire = <<>>]
  BY <1>1 DEF Pages
<1>3. tab' = [tab EXCEPT ![t] = [tab[t] EXCEPT !.at = "connecting"]]
  BY DEF StreamEnds
<1> QED BY <1>1, <1>2, <1>3, Disconnects DEF StreamEnds

-----------------------------------------------------------------------------
LEMMA NextKeeps == IInv /\ [Next]_vars => IInv'
<1> SUFFICES ASSUME IInv, [Next]_vars PROVE IInv'
  OBVIOUS
<1>1. CASE Drive
  BY <1>1, DriveEventKeeps, DriveEndKeeps DEF Drive
<1>2. CASE Restart
  BY <1>2, RestartKeeps
<1>3. ASSUME NEW t \in Tabs,
             OpenPage(t) \/ SendMessage(t) \/ PostTurn(t) \/ Leave(t) \/ Blip(t) \/ Follows(t)
      PROVE  IInv'
  <2>1. CASE Follows(t)
    BY <2>1, ProbeKeeps, ConnectKeeps, SendKeeps, ReceiveKeeps, StreamEndsKeeps,
       PostReturnsKeeps DEF Follows
  <2> QED BY <1>3, <2>1, OpenPageKeeps, SendMessageKeeps, PostTurnKeeps, LeaveKeeps, BlipKeeps
<1>4. CASE UNCHANGED vars
  BY <1>4 DEF vars, IInv, Typed, RunsInv, RunInv, Ending, Emitted, PagesInv, PageInv, Following
<1> QED BY <1>1, <1>2, <1>3, <1>4 DEF Next

\* What is shown is what was received, then what is on the wire.
LEMMA ShownIs ==
    ASSUME IInv, NEW t \in Tabs,
           NEW k \in 1..Len(tab[t].got \o tab[t].wire)
    PROVE  /\ (tab[t].got \o tab[t].wire)[k] = [run |-> tab[t].run, id |-> k]
           /\ tab[t].run \in 1..Len(runs)
           /\ tab[t].url = "input" => runs[tab[t].run].input = tab[t].input
<1> DEFINE s == tab[t]
<1>1. s \in Pages /\ PageInv(t)
  BY DEF IInv, Typed, PagesInv
<1>2. s.got \in Seq(EventIds) /\ s.wire \in Seq(EventIds) /\ s.run \in Nat
  BY <1>1 DEF Pages
<1>3. (s.got \o s.wire)[k] = [run |-> s.run, id |-> k]
  <2>1. CASE k \in 1..Len(s.got) /\ (s.got \o s.wire)[k] = s.got[k]
    BY <1>1, <2>1 DEF PageInv
  <2>2. CASE k - Len(s.got) \in 1..Len(s.wire)
             /\ (s.got \o s.wire)[k] = s.wire[k - Len(s.got)]
    <3>1. Len(s.got) + (k - Len(s.got)) = k
      <4>1. Len(s.got) \in Nat /\ k \in Int
        BY <1>2
      <4> QED BY <4>1
    <3> QED BY <1>1, <2>2, <3>1 DEF PageInv
  <2> QED BY <1>2, <2>1, <2>2, ConcatIs
<1>4. Following(s)
  <2>1. s.got # <<>> \/ s.wire # <<>>
    <3>1. CASE s.got = <<>> /\ s.wire = <<>>
      BY <1>2, <3>1, ConcatLen
    <3> QED BY <3>1
  <2> QED BY <1>1, <2>1 DEF PageInv, Following
<1> QED BY <1>1, <1>2, <1>3, <1>4 DEF PageInv

LEMMA TypesFollow == IInv => TypeOK
<1> SUFFICES ASSUME IInv PROVE TypeOK
  OBVIOUS
<1>1. ASSUME NEW t \in Tabs
      PROVE  /\ tab[t].at \in {"away", "claimed", "idle", "posting"} \cup Streaming
             /\ tab[t].url \in {"input", "attach"}
             /\ tab[t].input \in Inputs
             /\ tab[t].message \in 0..MaxMessages
             /\ tab[t].run \in 0..Len(runs)
             /\ tab[t].pos \in 0..(MaxData + 1)
             /\ tab[t].wire \in Seq([run: 1..Len(runs), id: 1..(MaxData + 1)])
             /\ tab[t].got \in Seq([run: 1..Len(runs), id: 1..(MaxData + 1)])
  <2> DEFINE s == tab[t]
             I == [run: 1..Len(runs), id: 1..(MaxData + 1)]
  <2>1. s \in Pages /\ PageInv(t) /\ Len(runs) \in Nat
    BY DEF IInv, Typed, PagesInv
  <2>2. s.got \in Seq(EventIds) /\ s.wire \in Seq(EventIds) /\ s.run \in Nat /\ s.pos \in Nat
    BY <2>1, ConstantsAssumption DEF Pages
  <2>3. Following(s) => /\ s.run \in 1..Len(runs)
                       /\ Len(runs[s.run].events) \in Nat
                       /\ Len(runs[s.run].events) <= MaxData + 1
    <3> SUFFICES ASSUME Following(s) PROVE /\ s.run \in 1..Len(runs)
                       /\ Len(runs[s.run].events) \in Nat
                       /\ Len(runs[s.run].events) <= MaxData + 1
      OBVIOUS
    <3>1. s.run \in 1..Len(runs)
      BY <2>1, <2>2 DEF PageInv
    <3>2. runs[s.run] \in Runs /\ RunInv(s.run)
      BY <3>1 DEF IInv, Typed, RunsInv
    <3> QED BY <3>1, <3>2 DEF Runs, Events, RunInv
  <2>4. \A k \in 1..Len(s.got) : s.got[k] \in I
    <3> SUFFICES ASSUME NEW k \in 1..Len(s.got) PROVE s.got[k] \in I
      OBVIOUS
    <3>1. Following(s)
      BY <2>2 DEF Following
    <3>2. k \in 1..(MaxData + 1)
      <4> DEFINE n == Len(runs[s.run].events)
                 a == Len(s.got)
      <4>1. a <= n /\ n <= MaxData + 1 /\ n \in Nat /\ a \in Nat /\ MaxData \in Nat
        BY <2>1, <2>2, <2>3, <3>1, ConstantsAssumption DEF PageInv
      <4> HIDE DEF n, a
      <4>2. k \in 1..a
        BY DEF a
      <4> QED BY <4>1, <4>2
    <3>3. s.run \in 1..Len(runs) /\ s.got[k] = [run |-> s.run, id |-> k]
      BY <2>1, <2>3, <3>1 DEF PageInv
    <3> QED BY <3>2, <3>3
  <2>5. \A k \in 1..Len(s.wire) : s.wire[k] \in I
    <3> SUFFICES ASSUME NEW k \in 1..Len(s.wire) PROVE s.wire[k] \in I
      OBVIOUS
    <3>1. s.at = "open"
      BY <2>1, <2>2 DEF PageInv
    <3>2. s.pos = Len(s.got) + Len(s.wire) /\ s.pos <= Len(runs[s.run].events)
          /\ Following(s)
      BY <2>1, <3>1 DEF PageInv, Following
    <3>3. Len(s.got) + k \in 1..(MaxData + 1)
      <4> DEFINE n == Len(runs[s.run].events)
                 a == Len(s.got)
                 b == Len(s.wire)
      <4>1. /\ s.pos = a + b /\ s.pos <= n /\ n <= MaxData + 1
            /\ n \in Nat /\ a \in Nat /\ b \in Nat /\ MaxData \in Nat /\ s.pos \in Nat
        <5>1. a \in Nat /\ b \in Nat /\ MaxData \in Nat /\ s.pos \in Nat
          BY <2>2, ConstantsAssumption
        <5>2. n \in Nat /\ n <= MaxData + 1
          BY <2>3, <3>2
        <5> QED BY <3>2, <5>1, <5>2
      <4> HIDE DEF n, a, b
      <4>2. k \in 1..b
        BY DEF b
      <4>3. a + k \in 1..(MaxData + 1)
        BY <4>1, <4>2
      <4> QED BY <4>3 DEF a
    <3>4. s.run \in 1..Len(runs) /\ s.wire[k] = [run |-> s.run, id |-> Len(s.got) + k]
      BY <2>1, <2>3, <3>2 DEF PageInv
    <3> QED BY <3>3, <3>4
  <2>6. s.got \in Seq(I) /\ s.wire \in Seq(I)
    <3> DEFINE g == s.got
               w == s.wire
    <3>1. g \in Seq(EventIds) /\ \A k \in 1..Len(g) : g[k] \in I
      BY <2>2, <2>4
    <3>2. w \in Seq(EventIds) /\ \A k \in 1..Len(w) : w[k] \in I
      BY <2>2, <2>5
    <3> HIDE DEF I, g, w
    <3>3. g \in Seq(I) /\ w \in Seq(I)
      BY <3>1, <3>2, SeqByElements
    <3> QED BY <3>3 DEF g, w
  <2>7. s.run \in 0..Len(runs)
    BY <2>1, <2>2 DEF PageInv
  <2> QED BY <2>1, <2>6, <2>7 DEF Pages
<1> QED BY <1>1 DEF TypeOK, IInv, Typed, Runs

LEMMA OneRunFollows == IInv => FollowsOneRun
<1> SUFFICES ASSUME IInv, NEW t \in Tabs, NEW k \in 1..Len(tab[t].got \o tab[t].wire)
             PROVE  /\ (tab[t].got \o tab[t].wire)[k]
                         = [run |-> (tab[t].got \o tab[t].wire)[1].run, id |-> k]
                    /\ tab[t].url = "input" =>
                         runs[(tab[t].got \o tab[t].wire)[k].run].input = tab[t].input
  BY DEF FollowsOneRun
<1>1. tab[t].got \in Seq(EventIds) /\ tab[t].wire \in Seq(EventIds)
  <2>1. tab[t] \in Pages
    BY DEF IInv, Typed
  <2> QED BY <2>1 DEF Pages
<1>2. \A p, q \in Seq(EventIds) : \A j \in 1..Len(p \o q) : 1 \in 1..Len(p \o q)
  OBVIOUS
<1>3. 1 \in 1..Len(tab[t].got \o tab[t].wire)
  BY <1>1, <1>2
<1>4. (tab[t].got \o tab[t].wire)[1] = [run |-> tab[t].run, id |-> 1]
  BY <1>3, ShownIs
<1>5. /\ (tab[t].got \o tab[t].wire)[k] = [run |-> tab[t].run, id |-> k]
      /\ tab[t].url = "input" => runs[tab[t].run].input = tab[t].input
  BY ShownIs
<1>6. (tab[t].got \o tab[t].wire)[1].run = tab[t].run
  BY <1>4
<1>7. (tab[t].got \o tab[t].wire)[k].run = tab[t].run
  BY <1>5
<1> QED BY <1>5, <1>6, <1>7

\* The records, the pages and the session are what the program makes of them.
THEOREM TypeCorrect == Spec => []TypeOK
BY InitHolds, NextKeeps, TypesFollow, PTL DEF Spec

\* Through lost connections, reloads, other tabs and restarts, a page shows the
\* events of one run, in order, none twice, and of its own text.
THEOREM ShowsOneRun == Spec => []FollowsOneRun
BY InitHolds, NextKeeps, OneRunFollows, PTL DEF Spec
=============================================================================
