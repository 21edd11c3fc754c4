------------------------------- MODULE Driver -------------------------------
(***************************************************************************)
(* The Python run loops (python/raptorbt/strategy): one strategy object    *)
(* over the engine's schedule.                                             *)
(*                                                                         *)
(* Handlers never call the engine.  They queue commands and intents, and   *)
(* the runner drains the queues at fixed stages of each event: clock,      *)
(* composite bars, data handler, commands, engine step, dispatch of the    *)
(* step's events.  `agenda` holds the stages an event still has before it. *)
(* The engine is abstract here: any order may fill, in part or whole, be   *)
(* rejected or rest, with the events kernel_orders.rs gives for each.      *)
(***************************************************************************)
EXTENDS Integers, Sequences, FiniteSets, SequencesExt

CONSTANTS
  Symbols,      \* instruments of the run
  Runs,         \* runs to explore: the session's schedule (a sequence of
                \* [symbol, kind, ts]), the timers on_start may set, and how
                \* many orders, cancels, intents and timers handlers may ask for
  NoTime        \* no stop

\* A schedule does not go back in time (seal merges by timestamp), and a timer
\* set in on_start counts from 0 in positive intervals (Clock.set_timer).
ASSUME RunsAssumption ==
  \A r \in Runs :
    /\ r.tape \in Seq([symbol : Symbols, kind : {"bar", "trade", "quote"}, ts : Nat])
    /\ \A k, l \in DOMAIN r.tape : k < l => r.tape[k].ts <= r.tape[l].ts
    /\ r.started \subseteq [next : Nat \ {0}, every : Nat \ {0}, stop : Nat \cup {NoTime}]

VARIABLES
  run,          \* the run explored
  cursor,       \* the event being handled
  agenda,       \* stages left for it
  due,          \* TimeEvents of this event's clock advance, not yet handled
  commands,     \* Strategy::_pending_commands
  intents,      \* Strategy::_pending_orders
  asked,        \* how many cancels, intents and timers were asked for
  idMap,        \* client id -> instrument of the engine's order
  clocks,       \* per symbol: Clock
  cache,        \* client id -> OrderRecord.status
  orders,       \* engine: client id -> [symbol, status]
  worked,       \* engine: orders the current step has treated
  opener,       \* engine: per symbol, the order that opened the position, Signal or Flat
  queued,       \* engine: per kernel, pending_events
  events,       \* the step's events, not yet dispatched
  preceded,     \* dispatch_events: order_fill_preceded
  \* history
  fills,        \* fills the engine made
  told,         \* on_order_filled calls
  fired,        \* per symbol: TimeEvents handled
  routed        \* orders by [asked at, went to]

queues == <<commands, intents, asked>>
engine == <<orders, worked, opener, queued, fills>>
strategyView == <<cache, told, preceded>>
vars == <<run, cursor, agenda, due, queues, idMap, clocks, strategyView, engine, events,
          fired, routed>>

Tape == run.tape
Current == Tape[cursor]
Signal == -1
Flat == -2
Ended == {"Filled", "Canceled", "Rejected"}

\* The order of an event's stages.  A print may complete a primary bar, whose
\* handler runs first; quotes and books drain commands but no intents.
MutAgenda(kind, completes) ==
  CASE kind # "quote" -> <<"time", "composite", "data", "apply", "step", "dispatch">>
    [] kind = "quote" -> <<"time", "data", "step", "dispatch">>

Agenda(kind, completes) ==
  CASE kind = "bar" \/ (kind = "trade" /\ ~completes) ->
         <<"time", "composite", "data", "apply", "step", "dispatch">>
    [] kind = "trade" /\ completes ->
         <<"time", "data", "apply", "composite", "data", "apply", "step", "dispatch">>
    [] kind = "quote" -> <<"time", "data", "apply", "step", "dispatch">>

Stage == IF agenda = <<>> THEN "idle" ELSE Head(agenda)
EndStage == agenda' = Tail(agenda)

-----------------------------------------------------------------------------
(* Clock *)

\* A timer's first point after ts, every missed one skipped.
MutSkip(t, ts) == t.next + t.every
Skip(t, ts) == t.next + t.every * ((ts - t.next) \div t.every + 1)

Lapsed(t) == t.stop # NoTime /\ t.next > t.stop

\* _advance: what is due, in scheduled order, and what the clock becomes.
DueAlerts(c, ts) == {[name |-> "alert", at |-> a] : a \in {a \in c.alerts : a <= ts}}
DueTimers(c, ts) ==
  {[name |-> "timer", at |-> t.next] : t \in {t \in c.timer : ~Lapsed(t) /\ t.next <= ts}}

Advanced(c, ts) ==
  [now    |-> ts,
   alerts |-> {a \in c.alerts : a > ts},
   timer  |-> {t \in {IF t.next <= ts THEN [t EXCEPT !.next = Skip(t, ts)] ELSE t :
                        t \in {t \in c.timer : ~Lapsed(t)}} : ~Lapsed(t)}]

InScheduledOrder(e, f) ==
  e.at < f.at \/ (e.at = f.at /\ e.name = "alert" /\ f.name = "timer")

-----------------------------------------------------------------------------
(* Init: on_start has run, and every symbol has a copy of its clock *)

Init ==
  /\ run \in Runs
  /\ cursor = 0 /\ agenda = <<>> /\ due = {}
  /\ commands = <<>> /\ intents = <<>> /\ asked = [cancels |-> 0, intents |-> 0, timers |-> 0]
  /\ idMap = [c \in {} |-> c]
  /\ \E started \in SUBSET run.started :
       /\ \A t, u \in started : t = u
       /\ clocks = [s \in Symbols |-> [now |-> 0, alerts |-> {}, timer |-> started]]
  /\ cache = [c \in {} |-> c] /\ told = 0 /\ preceded = FALSE
  /\ orders = [c \in {} |-> c] /\ worked = {} /\ opener = [s \in Symbols |-> Flat]
  /\ queued = [s \in Symbols |-> <<>>] /\ events = <<>> /\ fills = 0
  /\ fired = [s \in Symbols |-> <<>>] /\ routed = {}

\* The loop takes the next scheduled event; its clock advances first.
NextEvent ==
  /\ Stage = "idle" /\ cursor < Len(Tape)
  /\ cursor' = cursor + 1
  /\ LET e == Tape[cursor + 1]  c == clocks[e.symbol] IN
     /\ \E completes \in BOOLEAN : agenda' = Agenda(e.kind, completes)
     /\ due' = DueAlerts(c, e.ts) \cup DueTimers(c, e.ts)
     /\ clocks' = [clocks EXCEPT ![e.symbol] = Advanced(c, e.ts)]
  /\ worked' = {} /\ preceded' = FALSE
  /\ UNCHANGED <<run, queues, idMap, cache, told, orders, opener, queued, fills, events,
                 fired, routed>>

-----------------------------------------------------------------------------
(* What a handler may do, once per call *)

SubmitsQueued == {commands[k].client : k \in {k \in DOMAIN commands : commands[k].op = "submit"}}
NewClient == Cardinality(DOMAIN idMap \cup SubmitsQueued)

Command(op, client, parent, bracket) ==
  [op |-> op, client |-> client, parent |-> parent, bracket |-> bracket,
   asked |-> Current.symbol, hook |-> Stage = "dispatch"]

SubmitOrder(parent) ==
  /\ NewClient < run.orders
  /\ commands' = Append(commands, Command("submit", NewClient, parent, FALSE))
  /\ UNCHANGED <<intents, asked, clocks>>

\* submit_bracket, with one leg: a child queued right behind its parent.
SubmitBracket ==
  /\ NewClient + 1 < run.orders
  /\ commands' = commands \o <<Command("submit", NewClient, {}, FALSE),
                               Command("submit", NewClient + 1, {NewClient}, TRUE)>>
  /\ UNCHANGED <<intents, asked, clocks>>

CancelOrder(c) ==
  /\ asked.cancels < run.cancels
  /\ asked' = [asked EXCEPT !.cancels = @ + 1]
  /\ commands' = Append(commands, Command("cancel", c, {}, FALSE))
  /\ UNCHANGED <<intents, clocks>>

Intend(intent) ==
  /\ asked.intents < run.intents /\ \A k \in DOMAIN intents : intents[k].what # intent
  /\ intents' = Append(intents, [what |-> intent, asked |-> Current.symbol])
  /\ asked' = [asked EXCEPT !.intents = @ + 1]
  /\ UNCHANGED <<commands, clocks>>

\* set_time_alert, and set_timer with its default start.
Scheduled(c, after, isAlert) ==
  IF isAlert THEN [c EXCEPT !.alerts = c.alerts \cup {c.now + after}]
  ELSE [c EXCEPT !.timer = {[next |-> c.now + after, every |-> after, stop |-> NoTime]}]

SetTimer(after, isAlert) ==
  /\ asked.timers < run.timers
  /\ asked' = [asked EXCEPT !.timers = asked.timers + 1]
  /\ clocks' = [clocks EXCEPT ![Current.symbol] =
                  Scheduled(clocks[Current.symbol], after, isAlert)]
  /\ UNCHANGED <<commands, intents>>

Handler ==
  \/ UNCHANGED <<queues, clocks>>
  \/ SubmitOrder({}) \/ \E c \in DOMAIN idMap : SubmitOrder({c})
  \/ SubmitBracket
  \/ \E c \in 0..(NewClient - 1) : CancelOrder(c)
  \/ \E intent \in {"enter", "close"} : Intend(intent)
  \/ \E after \in 1..2, isAlert \in BOOLEAN : SetTimer(after, isAlert)

-----------------------------------------------------------------------------
(* Stages *)

OnTimeEvent ==
  /\ Stage = "time"
  /\ \E t \in due :
       /\ \A u \in due \ {t} : InScheduledOrder(t, u)
       /\ due' = due \ {t}
       /\ fired' = [fired EXCEPT ![Current.symbol] =
                      Append(@, [name |-> t.name, at |-> t.at, ts |-> Current.ts, event |-> cursor])]
  /\ Handler
  /\ UNCHANGED <<run, cursor, agenda, idMap, strategyView, engine, events, routed>>

EndTime ==
  /\ Stage = "time" /\ due = {} /\ EndStage
  /\ UNCHANGED <<run, cursor, due, queues, idMap, clocks, strategyView, engine, events,
                 fired, routed>>

\* on_composite_bar; on_bar, on_trade_tick or on_quote.
OnData ==
  /\ Stage \in {"composite", "data"} /\ EndStage
  /\ Handler
  /\ UNCHANGED <<run, cursor, due, idMap, strategyView, engine, events, fired, routed>>

\* A child goes where its parent is; anything else raises and ends the run.
Routable(cmd) ==
  \A p \in cmd.parent : p \in DOMAIN idMap /\ idMap[p] = Current.symbol

Register(cmd, rests) ==
  /\ orders' = [c \in DOMAIN orders \cup {cmd.client} |->
                  IF c = cmd.client
                  THEN [symbol |-> Current.symbol, parent |-> cmd.parent,
                        late |-> \E p \in cmd.parent : orders[p].status = "Filled",
                        status |-> IF rests THEN "Accepted" ELSE "Submitted"]
                  ELSE orders[c]]
  /\ queued' = IF rests
               THEN [queued EXCEPT ![Current.symbol] =
                       Append(@, [kind |-> "Accepted", client |-> cmd.client])]
               ELSE queued

Route(cmd) == [what |-> "order", asked |-> cmd.asked, to |-> Current.symbol, hook |-> cmd.hook]

MutApplySubmit(cmd) ==
  /\ cmd.op = "submit" /\ Routable(cmd)
  /\ \E rests \in (IF cmd.parent = {} THEN BOOLEAN ELSE {FALSE}) :
       /\ Register(cmd, rests)
       /\ idMap' = IF rests
                   THEN [c \in DOMAIN idMap \cup {cmd.client} |->
                           IF c = cmd.client THEN Current.symbol ELSE idMap[c]]
                   ELSE idMap
  /\ routed' = routed \cup {Route(cmd)}
  /\ UNCHANGED <<opener, worked, fills>>

\* apply_commands of a submit: the order goes to the instrument of the event
\* being handled.  It is acknowledged at once unless it waits for its parent
\* or is a plain market order.
ApplySubmit(cmd) ==
  /\ cmd.op = "submit" /\ Routable(cmd)
  /\ idMap' = [c \in DOMAIN idMap \cup {cmd.client} |->
                 IF c = cmd.client THEN Current.symbol ELSE idMap[c]]
  /\ \E rests \in (IF cmd.parent = {} THEN BOOLEAN ELSE {FALSE}) : Register(cmd, rests)
  /\ routed' = routed \cup {Route(cmd)}
  /\ UNCHANGED <<opener, worked, fills>>

\* A cancel of an id the runner does not know, or of an ended order, is nothing.
ApplyCancel(cmd) ==
  /\ cmd.op = "cancel"
  /\ IF cmd.client \in DOMAIN idMap /\ orders[cmd.client].status \notin Ended
     THEN /\ orders' = [orders EXCEPT ![cmd.client].status = "Canceled"]
          /\ queued' = [queued EXCEPT ![idMap[cmd.client]] =
                          Append(@, [kind |-> "Canceled", client |-> cmd.client])]
     ELSE UNCHANGED <<orders, queued>>
  /\ UNCHANGED <<idMap, opener, worked, fills, routed>>

ApplyCommand ==
  /\ Stage = "apply" /\ commands # <<>>
  /\ commands' = Tail(commands)
  /\ ApplySubmit(Head(commands)) \/ ApplyCancel(Head(commands))
  /\ UNCHANGED <<run, cursor, agenda, due, intents, asked, clocks, strategyView, events,
                 fired>>

EndApply ==
  /\ Stage = "apply" /\ commands = <<>> /\ EndStage
  /\ UNCHANGED <<run, cursor, due, queues, idMap, clocks, strategyView, engine, events,
                 fired, routed>>
-----------------------------------------------------------------------------
(* The engine's step *)

Notice(kind, c) == [kind |-> kind, client |-> c]
PositionEvent(entered) == <<Notice(IF entered THEN "Entered" ELSE "Exited", Signal)>>

Stepping == Stage = "step" /\ Current.kind # "quote"
StepUnchanged ==
  UNCHANGED <<run, cursor, agenda, due, queues, idMap, clocks, strategyView, queued, fired,
              routed>>

Intended(intent) == \E k \in DOMAIN intents : intents[k].what = intent

\* A stop, a target or the drained close intent: before any order.
EngineExit ==
  /\ Stepping /\ worked = {} /\ opener[Current.symbol] # Flat
  /\ opener' = [opener EXCEPT ![Current.symbol] = Flat]
  /\ events' = events \o PositionEvent(FALSE)
  /\ fills' = fills + 1
  /\ StepUnchanged /\ UNCHANGED <<orders, worked>>

Workable(c) ==
  /\ c \in DOMAIN orders \ worked
  /\ orders[c].symbol = Current.symbol /\ orders[c].status \notin Ended
  /\ \A p \in orders[c].parent : orders[p].status = "Filled"

\* A plain market order is acknowledged when the step takes it.
Acknowledgment(c) ==
  IF orders[c].status = "Submitted" /\ orders[c].parent = {}
  THEN <<Notice("Accepted", c)>> ELSE <<>>

Children(c) ==
  {k \in DOMAIN orders : orders[k].parent = {c} /\ orders[k].status = "Submitted"}

\* A slice opens, adds to what the order itself opened, or closes; the
\* completing one lets the order's children start.  A child submitted after
\* its parent filled was never acknowledged, and its status stays.
EngineFill(c, done) ==
  /\ Stepping /\ Workable(c)
  /\ LET enters == opener[Current.symbol] \in {Flat, c}
         starts == IF done THEN Children(c) ELSE {}
         to     == IF orders[c].late THEN orders[c].status
                   ELSE IF done THEN "Filled" ELSE "PartiallyFilled" IN
     /\ orders' = [k \in DOMAIN orders |->
                     IF k = c THEN [orders[k] EXCEPT !.status = to]
                     ELSE IF k \in starts THEN [orders[k] EXCEPT !.status = "Accepted"]
                     ELSE orders[k]]
     /\ \E o \in (IF enters THEN {c} ELSE IF done THEN {Flat} ELSE {opener[Current.symbol]}) :
          opener' = [opener EXCEPT ![Current.symbol] = o]
     /\ events' = events \o Acknowledgment(c) \o <<Notice("Filled", c)>> \o PositionEvent(enters)
                    \o SetToSeq({Notice("Accepted", k) : k \in starts})
  /\ worked' = worked \cup {c}
  /\ fills' = fills + 1
  /\ StepUnchanged

EngineReject(c) ==
  /\ Stepping /\ Workable(c)
  /\ orders' = [orders EXCEPT ![c].status = "Rejected"]
  /\ worked' = worked \cup {c}
  /\ events' = events \o Acknowledgment(c) \o <<Notice("Rejected", c)>>
  /\ StepUnchanged /\ UNCHANGED <<opener, fills>>

\* A child whose parent ended without filling is canceled.
EngineOrphan(c) ==
  /\ Stepping /\ c \in DOMAIN orders \ worked
  /\ orders[c].symbol = Current.symbol /\ orders[c].status \notin Ended
  /\ \E p \in orders[c].parent : orders[p].status \in Ended \ {"Filled"}
  /\ orders' = [orders EXCEPT ![c].status = "Canceled"]
  /\ worked' = worked \cup {c}
  /\ events' = Append(events, Notice("Canceled", c))
  /\ StepUnchanged /\ UNCHANGED <<opener, fills>>

EngineEnter ==
  /\ Stepping /\ Intended("enter") /\ Signal \notin worked
  /\ worked' = worked \cup {Signal}
  /\ \/ /\ opener[Current.symbol] = Flat
        /\ opener' = [opener EXCEPT ![Current.symbol] = Signal]
        /\ events' = events \o PositionEvent(TRUE) /\ fills' = fills + 1
     \/ /\ events' = Append(events, Notice("EntryRejected", Signal))
        /\ UNCHANGED <<opener, fills>>
  /\ StepUnchanged /\ UNCHANGED orders

\* apply_current returns what was pending and what the step made.  The drained
\* intents went into it, except on a quote, where they stay queued.
EndStep ==
  /\ Stage = "step" /\ EndStage
  /\ events' = queued[Current.symbol] \o events
  /\ queued' = [queued EXCEPT ![Current.symbol] = <<>>]
  /\ IF Current.kind = "quote" THEN UNCHANGED <<intents, routed>>
     ELSE /\ intents' = <<>>
          /\ routed' = routed \cup
               {[what |-> "intent", asked |-> intents[k].asked, to |-> Current.symbol,
                 hook |-> FALSE] : k \in DOMAIN intents}
  /\ UNCHANGED <<run, cursor, due, commands, asked, idMap, clocks, strategyView, orders,
                 worked, opener, fills, fired>>

-----------------------------------------------------------------------------
(* dispatch_events *)

MutPrecededAfter(kind) == IF kind = "Filled" THEN TRUE ELSE preceded

\* Position events clear the flag; every order event sets it anew.
PrecededAfter(kind) ==
  CASE kind \in {"Entered", "Exited"} -> FALSE
    [] kind = "EntryRejected" -> preceded
    [] OTHER -> kind = "Filled"

MutObserved(event) ==
  [c \in DOMAIN cache \cup {event.client} |-> IF c \in DOMAIN cache THEN cache[c] ELSE event.kind]

\* Cache._observe: the record takes the status the event names.
Observed(event) ==
  [c \in DOMAIN cache \cup {event.client} |-> IF c = event.client THEN event.kind ELSE cache[c]]

DispatchEvent ==
  /\ Stage = "dispatch" /\ events # <<>>
  /\ LET event == Head(events) IN
     /\ cache' = IF event.client # Signal THEN Observed(event) ELSE cache
     /\ told' = IF event.kind = "Filled" \/ (event.kind \in {"Entered", "Exited"} /\ ~preceded)
                THEN told + 1 ELSE told
     /\ preceded' = PrecededAfter(event.kind)
  /\ events' = Tail(events)
  /\ Handler
  /\ UNCHANGED <<run, cursor, agenda, due, idMap, engine, fired, routed>>

EndDispatch ==
  /\ Stage = "dispatch" /\ events = <<>> /\ EndStage
  /\ UNCHANGED <<run, cursor, due, queues, idMap, clocks, strategyView, engine, events,
                 fired, routed>>

-----------------------------------------------------------------------------
Next ==
  \/ NextEvent \/ OnTimeEvent \/ EndTime \/ OnData
  \/ ApplyCommand \/ EndApply
  \/ EngineExit \/ EngineEnter \/ EndStep
  \/ \E c \in DOMAIN orders :
       EngineReject(c) \/ EngineOrphan(c) \/ \E done \in BOOLEAN : EngineFill(c, done)
  \/ DispatchEvent \/ EndDispatch

Spec == Init /\ [][Next]_vars

-----------------------------------------------------------------------------
(* Properties *)

\* on_order_filled is called once for every fill, whether an order, an intent
\* or a stop made it: the position event behind an order's fill is the same
\* fill (dispatch_events, order_fill_preceded).
FillsToldOnce == Stage = "idle" => told = fills

\* What the cache shows of an order.
Shown(status) == IF status = "PartiallyFilled" THEN "Filled" ELSE status

\* Between events the cache, folded from events alone, shows what the engine
\* holds, except of orders whose events still wait for their own instrument's
\* next event (Cache._observe).
CacheMirrorsEngine ==
  Stage = "idle" =>
    \A c \in DOMAIN orders :
      ~orders[c].late /\ (\A k \in DOMAIN queued[orders[c].symbol] :
                             queued[orders[c].symbol][k].client # c)
      => IF orders[c].status = "Submitted" THEN c \notin DOMAIN cache
         ELSE c \in DOMAIN cache /\ cache[c] = Shown(orders[c].status)

\* Per symbol: scheduled points are handled in order and never early, a timer
\* once per event whatever the gap, each point once; and nothing scheduled is
\* in the past once the clock has advanced (Clock._advance).
ClockKeepsTime ==
  \A s \in Symbols :
    LET f == fired[s] IN
    /\ \A i \in DOMAIN f : f[i].at <= f[i].ts
    /\ \A i, j \in DOMAIN f :
         i < j => /\ f[i].event = f[j].event => f[i].at <= f[j].at
                  /\ f[i].name = f[j].name => f[i].at < f[j].at
                  /\ f[i].name = "timer" /\ f[j].name = "timer" => f[i].event < f[j].event
    /\ \A t \in clocks[s].timer : t.next > clocks[s].now
    /\ \A a \in clocks[s].alerts : a > clocks[s].now

\* A bracket queued in one call is never torn: when a leg's turn comes its
\* parent is known to the runner, on the same instrument (apply_commands).
BracketsStayWhole ==
  Stage = "apply" /\ commands # <<>> /\ Head(commands).bracket => Routable(Head(commands))

\* An order asked for by a data or time handler goes to the instrument of
\* that handler's event (apply_commands).
DataHandlersRouteHome ==
  \A r \in routed : r.what = "order" /\ ~r.hook => r.to = r.asked

-----------------------------------------------------------------------------
(* What the sources say and the code does not do *)

\* strategy/base.py: without symbol= "the portfolio runner defaults it to the
\* symbol whose bar is being processed".  Whichever handler asks, the order or
\* intent goes to the symbol being handled when it asked.
HandlersRouteHome == \A r \in routed : r.to = r.asked
=============================================================================
