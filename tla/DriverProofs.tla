---------------------------- MODULE DriverProofs ----------------------------
(***************************************************************************)
(* Proofs about the Python run loops, for every schedule, every number of  *)
(* instruments and whatever the handlers and the engine do.                *)
(***************************************************************************)
EXTENDS Driver, SequenceTheorems, FiniteSetTheorems, TLAPS

-----------------------------------------------------------------------------
(* Types *)

StageNames == {"time", "composite", "data", "apply", "step", "dispatch"}
TimerType == [next : Nat, every : Nat \ {0}, stop : Nat \cup {NoTime}]
ClockType == [now : Nat, alerts : SUBSET Nat, timer : SUBSET TimerType]
TimeEventType == [name : {"alert", "timer"}, at : Nat]
CommandType ==
  [op : {"submit", "cancel"}, client : Nat, parent : SUBSET Nat, bracket : BOOLEAN,
   asked : Symbols, hook : BOOLEAN]
Statuses == {"Submitted", "Accepted", "PartiallyFilled"} \cup Ended
OrderType == [symbol : Symbols, parent : SUBSET Nat, late : BOOLEAN, status : Statuses]
OrderKinds == {"Accepted", "Filled", "Canceled", "Rejected"}
Kinds == OrderKinds \cup {"Entered", "Exited", "EntryRejected"}
NoticeType == [kind : Kinds, client : Nat \cup {Signal}]
EventType == [symbol : Symbols, kind : {"bar", "trade", "quote"}, ts : Nat]

ScheduleTypes ==
  /\ run \in Runs
  /\ cursor \in 0..Len(Tape)
  /\ agenda # <<>> => cursor # 0

\* What is left of an event's agenda: the clock first, an "apply" after every
\* stage whose handler may ask for orders, the step and its dispatch last.
AgendaOK ==
  /\ agenda \in Seq(StageNames)
  /\ \A j \in DOMAIN agenda :
       /\ agenda[j] = "time" => j = 1
       /\ agenda[j] \in {"time", "composite", "data"} =>
            \E l \in DOMAIN agenda : j < l /\ agenda[l] = "apply"
       /\ agenda[j] \in {"apply", "composite", "data"} =>
            \E l \in DOMAIN agenda : j < l /\ agenda[l] = "step"
       /\ agenda[j] = "step" => j + 1 = Len(agenda) /\ agenda[j + 1] = "dispatch"
       /\ agenda[j] = "dispatch" => j = Len(agenda)
  /\ agenda # <<>> => agenda[Len(agenda)] = "dispatch"

CommandTypes == commands \in Seq(CommandType)

ClockTypes ==
  /\ clocks \in [Symbols -> ClockType]
  /\ due \subseteq TimeEventType
  /\ due # {} => Stage = "time"

\* The runner's map and the engine's orders have the same clients.
OrderTypes ==
  /\ IsFiniteSet(DOMAIN idMap) /\ DOMAIN idMap \subseteq Nat
  /\ idMap \in [DOMAIN idMap -> Symbols]
  /\ orders \in [DOMAIN idMap -> OrderType]

NoticeTypes ==
  /\ queued \in [Symbols -> Seq(NoticeType)]
  /\ events \in Seq(NoticeType)
  /\ events # <<>> => Stage \in {"step", "dispatch"}

CountTypes == fills \in Nat /\ told \in Nat /\ preceded \in BOOLEAN

TypeInv ==
  /\ ScheduleTypes /\ AgendaOK /\ CommandTypes /\ ClockTypes /\ OrderTypes /\ NoticeTypes
  /\ CountTypes

-----------------------------------------------------------------------------
(* The schedule and its stages *)

\* The event being handled is one of the schedule's.
LEMMA CurrentIsTyped ==
  ASSUME ScheduleTypes
  PROVE  /\ Tape \in Seq(EventType)
         /\ agenda # <<>> => Current \in EventType
         /\ cursor < Len(Tape) => Tape[cursor + 1] \in EventType
<1>1. Tape \in Seq(EventType)
  BY RunsAssumption DEF ScheduleTypes, Tape, EventType
<1>2. QED BY <1>1 DEF ScheduleTypes, Current

LEMMA AgendaIsWhole ==
  ASSUME NEW kind \in {"bar", "trade", "quote"}, NEW completes \in BOOLEAN,
         agenda' = Agenda(kind, completes)
  PROVE  AgendaOK' /\ agenda' # <<>>
<1>1. CASE agenda' = <<"time", "composite", "data", "apply", "step", "dispatch">>
  BY <1>1 DEF AgendaOK, StageNames
<1>2. CASE agenda' = <<"time", "data", "apply", "composite", "data", "apply", "step", "dispatch">>
  BY <1>2 DEF AgendaOK, StageNames
<1>3. CASE agenda' = <<"time", "data", "apply", "step", "dispatch">>
  BY <1>3 DEF AgendaOK, StageNames
<1>4. QED BY <1>1, <1>2, <1>3 DEF Agenda

LEMMA StageNamed ==
  ASSUME AgendaOK
  PROVE  /\ Stage \in StageNames \cup {"idle"}
         /\ Stage = "idle" <=> agenda = <<>>
         /\ agenda # <<>> => 1 \in DOMAIN agenda /\ Stage = agenda[1]
         /\ Stage \in {"time", "composite", "data"} => \E l \in DOMAIN agenda : agenda[l] = "apply"
<1>1. CASE agenda = <<>>
  BY <1>1 DEF Stage
<1>2. CASE agenda # <<>>
  <2>1. Stage = agenda[1] /\ 1 \in DOMAIN agenda
    BY <1>2 DEF AgendaOK, Stage
  <2>2. agenda[1] \in StageNames
    BY <2>1 DEF AgendaOK
  <2>3. Stage # "idle"
    BY <2>1, <2>2 DEF StageNames
  <2>4. Stage \in {"time", "composite", "data"} => \E l \in DOMAIN agenda : agenda[l] = "apply"
    BY <2>1 DEF AgendaOK
  <2>5. QED BY <1>2, <2>1, <2>2, <2>3, <2>4
<1>3. QED BY <1>1, <1>2

LEMMA AgendaShortens == ASSUME AgendaOK, agenda # <<>>, EndStage PROVE AgendaOK'
<1>1. agenda \in Seq(StageNames) /\ Len(agenda) \in Nat \ {0} /\ DOMAIN agenda = 1..Len(agenda)
  BY DEF AgendaOK
<1>2. agenda' \in Seq(StageNames) /\ Len(agenda') = Len(agenda) - 1
  BY <1>1, HeadTailProperties DEF EndStage
<1>3. \A j \in 1..Len(agenda') : agenda'[j] = agenda[j + 1]
  BY <1>1, HeadTailProperties DEF EndStage
<1>4. DOMAIN agenda' = 1..Len(agenda')
  BY <1>2
<1>5. ASSUME NEW j \in DOMAIN agenda'
      PROVE  /\ agenda'[j] # "time"
             /\ agenda'[j] = "step" => j + 1 = Len(agenda') /\ agenda'[j + 1] = "dispatch"
             /\ agenda'[j] = "dispatch" => j = Len(agenda')
  <2>1. j + 1 \in DOMAIN agenda /\ agenda'[j] = agenda[j + 1] /\ j + 1 # 1
    BY <1>1, <1>2, <1>3, <1>4
  <2>2. /\ agenda[j + 1] = "step" => /\ (j + 1) + 1 = Len(agenda)
                                      /\ agenda[(j + 1) + 1] = "dispatch"
        /\ agenda[j + 1] = "dispatch" => j + 1 = Len(agenda)
        /\ agenda[j + 1] # "time"
    BY <2>1 DEF AgendaOK
  <2>3. j \in 1..Len(agenda')
    BY <1>4
  <2>4. j + 1 \in 1..Len(agenda') => agenda'[j + 1] = agenda[(j + 1) + 1]
    BY <1>3
  <2>5. QED BY <2>1, <2>2, <2>3, <2>4, <1>1, <1>2
<1>6. ASSUME NEW j \in DOMAIN agenda', NEW next \in StageNames,
             \E l \in DOMAIN agenda : j + 1 < l /\ agenda[l] = next
      PROVE  \E l \in DOMAIN agenda' : j < l /\ agenda'[l] = next
  <2>1. PICK l \in DOMAIN agenda : j + 1 < l /\ agenda[l] = next
    BY <1>6
  <2>2. l - 1 \in DOMAIN agenda' /\ j < l - 1 /\ agenda'[l - 1] = next
    BY <2>1, <1>1, <1>2, <1>3, <1>4
  <2>3. QED BY <2>2
<1>7. ASSUME NEW j \in DOMAIN agenda'
      PROVE  /\ agenda'[j] \in {"time", "composite", "data"} =>
                  \E l \in DOMAIN agenda' : j < l /\ agenda'[l] = "apply"
             /\ agenda'[j] \in {"apply", "composite", "data"} =>
                  \E l \in DOMAIN agenda' : j < l /\ agenda'[l] = "step"
  <2>1. j + 1 \in DOMAIN agenda /\ agenda'[j] = agenda[j + 1]
    BY <1>1, <1>2, <1>3, <1>4
  <2>2. "apply" \in StageNames /\ "step" \in StageNames
    BY DEF StageNames
  <2>3. QED BY <2>1, <2>2, <1>6 DEF AgendaOK
<1>8. agenda' # <<>> => agenda'[Len(agenda')] = "dispatch"
  BY <1>1, <1>2, <1>3 DEF AgendaOK
<1>9. QED BY <1>2, <1>5, <1>7, <1>8 DEF AgendaOK

LEMMA StageEnds ==
  ASSUME AgendaOK, EndStage, Stage # "idle"
  PROVE  /\ AgendaOK'
         /\ agenda # <<>>
         /\ Stage = "step" => Stage' = "dispatch"
         /\ Stage = "dispatch" => Stage' = "idle"
         /\ Stage # "dispatch" => Stage' # "idle"
         /\ Stage # "step" => Stage' # "dispatch"
<1>1. agenda # <<>> /\ Stage = agenda[1] /\ 1 \in DOMAIN agenda
  BY StageNamed
<1>2. AgendaOK'
  BY <1>1, AgendaShortens
<1>3. Stage = "step" => Stage' = "dispatch"
  BY <1>1 DEF AgendaOK, EndStage, Stage
<1>4. Stage = "dispatch" => Stage' = "idle"
  BY <1>1 DEF AgendaOK, EndStage, Stage
<1>5. Stage # "dispatch" => agenda' # <<>>
  <2>1. agenda \in Seq(StageNames) /\ agenda[Len(agenda)] = "dispatch"
    BY <1>1 DEF AgendaOK
  <2>2. Stage # "dispatch" => Len(agenda) # 1
    BY <1>1, <2>1
  <2>3. Len(agenda) # 1 => Tail(agenda) # <<>>
    <3>1. Len(Tail(agenda)) = Len(agenda) - 1 /\ Len(agenda) \in Nat
      BY <1>1, <2>1, HeadTailProperties
    <3>2. Len(<<>>) = 0
      OBVIOUS
    <3>3. Tail(agenda) = <<>> => Len(Tail(agenda)) = 0
      BY <3>2, Zenon
    <3>4. QED BY <3>1, <3>3
  <2>4. QED BY <2>2, <2>3 DEF EndStage
<1>6. Stage # "dispatch" => Stage' # "idle"
  <2>1. SUFFICES ASSUME agenda' # <<>> PROVE Stage' # "idle"
    BY <1>5
  <2>2. 1 \in DOMAIN agenda' /\ Stage' = agenda'[1] /\ agenda'[1] \in StageNames
    BY <1>2, <2>1 DEF AgendaOK, Stage
  <2>3. QED BY <2>2 DEF StageNames
<1>7. ASSUME Stage # "step", Stage' = "dispatch" PROVE FALSE
  <2>1. /\ 1 \in DOMAIN agenda' /\ agenda'[1] = "dispatch" /\ agenda \in Seq(StageNames)
        /\ agenda' = Tail(agenda)
    BY <1>2, <1>7 DEF AgendaOK, Stage, EndStage
  <2>2. 2 \in DOMAIN agenda /\ agenda[2] = "dispatch"
    BY <2>1
  <2>3. Len(agenda) = 2
    BY <2>2 DEF AgendaOK
  <2>4. agenda[1] \in StageNames \ {"step", "dispatch"}
    BY <1>1, <1>4, <1>7, <2>1
  <2>5. PICK l \in DOMAIN agenda : 1 < l /\ agenda[l] \in {"apply", "step"}
    BY <1>1, <2>4 DEF AgendaOK, StageNames
  <2>6. l = 2
    BY <2>1, <2>3, <2>5
  <2>7. QED BY <2>2, <2>5, <2>6
<1>8. QED BY <1>1, <1>2, <1>3, <1>4, <1>6, <1>7

\* What every step does to the schedule and the agenda.
LEMMA StepOfSchedule ==
  ASSUME TypeInv, [Next]_vars
  PROVE  ScheduleTypes' /\ AgendaOK'
<1> USE DEF TypeInv
<1>1. CASE NextEvent
  <2>1. cursor < Len(Tape) /\ Tape[cursor + 1] \in EventType /\ cursor \in Nat
    BY <1>1, CurrentIsTyped DEF NextEvent, ScheduleTypes
  <2>2. AgendaOK' /\ agenda' # <<>>
    BY <1>1, <2>1, AgendaIsWhole DEF NextEvent, EventType
  <2>3. ScheduleTypes'
    BY <1>1, <2>1 DEF NextEvent, ScheduleTypes, Tape
  <2>4. QED BY <2>2, <2>3
<1>2. ASSUME EndStage, Stage # "idle", UNCHANGED <<run, cursor>>
      PROVE  ScheduleTypes' /\ AgendaOK'
  BY <1>2, StageEnds DEF ScheduleTypes, Tape
<1>3. ASSUME UNCHANGED <<run, cursor, agenda>>
      PROVE  ScheduleTypes' /\ AgendaOK'
  BY <1>3 DEF ScheduleTypes, AgendaOK, Tape
<1>4. CASE EndTime \/ OnData \/ EndApply \/ EndStep \/ EndDispatch
  BY <1>4, <1>2 DEF EndTime, OnData, EndApply, EndStep, EndDispatch
<1>5. CASE OnTimeEvent \/ ApplyCommand \/ EngineExit \/ EngineEnter \/ DispatchEvent
  BY <1>5, <1>3 DEF OnTimeEvent, ApplyCommand, EngineExit, EngineEnter, DispatchEvent,
     StepUnchanged
<1>6. ASSUME NEW c \in DOMAIN orders, NEW done \in BOOLEAN,
             EngineReject(c) \/ EngineOrphan(c) \/ EngineFill(c, done)
      PROVE  ScheduleTypes' /\ AgendaOK'
  BY <1>6, <1>3 DEF EngineReject, EngineOrphan, EngineFill, StepUnchanged
<1>7. CASE UNCHANGED vars
  BY <1>7, <1>3 DEF vars
<1>8. QED BY <1>1, <1>4, <1>5, <1>6, <1>7 DEF Next

-----------------------------------------------------------------------------
(* Handlers *)

LEMMA NewClientIsTyped ==
  ASSUME OrderTypes, CommandTypes
  PROVE  NewClient \in Nat /\ SubmitsQueued \subseteq Nat /\ IsFiniteSet(SubmitsQueued)
<1> DEFINE submits == {k \in DOMAIN commands : commands[k].op = "submit"}
<1>1. IsFiniteSet(DOMAIN commands)
  BY LenProperties, FS_Interval DEF CommandTypes
<1>2. IsFiniteSet(submits)
  BY <1>1, FS_Subset
<1> DEFINE client == [k \in submits |-> commands[k].client]
<1>3. client \in Surjection(submits, SubmitsQueued)
  BY DEF Surjection, SubmitsQueued
<1>4. IsFiniteSet(SubmitsQueued)
  BY <1>2, <1>3, FS_Surjection
<1>5. SubmitsQueued \subseteq Nat
  <2>1. \A k \in DOMAIN commands : commands[k] \in CommandType
    BY DEF CommandTypes
  <2>2. QED BY <2>1 DEF SubmitsQueued, CommandType
<1>6. NewClient \in Nat
  BY <1>4, FS_Union, FS_CardinalityType DEF NewClient, OrderTypes
<1>7. QED BY <1>4, <1>5, <1>6

\* A bracket's child, right behind the parent queued with it.
Follows(child, lead) ==
  child.op = "submit" /\ lead.op = "submit" /\ child.parent = {lead.client}

\* Commands a handler queues: asked at the event being handled, of orders with
\* the next free ids, and a bracket's child is second, behind its parent.
Queues(new) ==
  /\ new \in Seq(CommandType) /\ commands' = commands \o new
  /\ \A k \in DOMAIN new :
       /\ new[k].asked = Current.symbol
       /\ new[k].hook <=> Stage = "dispatch"
       /\ new[k].bracket => k = 2 /\ Follows(new[2], new[1])
  /\ \/ \A k \in DOMAIN new : new[k].op # "submit"
     \/ \A k \in DOMAIN new : new[k].op = "submit" /\ new[k].client = NewClient + k - 1

LEMMA QueuesOne ==
  ASSUME NEW cmd \in CommandType, cmd.asked = Current.symbol, cmd.hook <=> Stage = "dispatch",
         ~cmd.bracket, cmd.op = "submit" => cmd.client = NewClient, NewClient \in Nat,
         commands' = Append(commands, cmd), CommandTypes
  PROVE  Queues(<<cmd>>)
<1>1. <<cmd>> \in Seq(CommandType) /\ DOMAIN <<cmd>> = {1} /\ <<cmd>>[1] = cmd
  OBVIOUS
<1>2. commands' = commands \o <<cmd>>
  BY DEF CommandTypes
<1>3. NewClient + 1 - 1 = NewClient
  OBVIOUS
<1>4. QED BY <1>1, <1>2, <1>3 DEF Queues

LEMMA QueuesTwo ==
  ASSUME NEW lead \in CommandType, NEW child \in CommandType, Follows(child, lead),
         lead.asked = Current.symbol, lead.hook <=> Stage = "dispatch", ~lead.bracket,
         child.asked = Current.symbol, child.hook <=> Stage = "dispatch",
         NewClient \in Nat, lead.client = NewClient, child.client = NewClient + 1,
         commands' = commands \o <<lead, child>>
  PROVE  Queues(<<lead, child>>)
<1>1. /\ <<lead, child>> \in Seq(CommandType) /\ DOMAIN <<lead, child>> = {1, 2}
      /\ <<lead, child>>[1] = lead /\ <<lead, child>>[2] = child
  OBVIOUS
<1>2. NewClient + 1 - 1 = NewClient /\ NewClient + 2 - 1 = NewClient + 1
  OBVIOUS
<1>3. QED BY <1>1, <1>2 DEF Queues, Follows

LEMMA HandlerQueues ==
  ASSUME TypeInv, agenda # <<>>, Handler
  PROVE  \E new : Queues(new)
<1>1. NewClient \in Nat /\ CommandTypes /\ Current.symbol \in Symbols
  BY NewClientIsTyped, CurrentIsTyped DEF TypeInv, EventType
<1>2. (Stage = "dispatch") \in BOOLEAN
  OBVIOUS
<1>3. ASSUME UNCHANGED commands PROVE \E new : Queues(new)
  <2>1. Queues(<<>>)
    BY <1>1, <1>3 DEF Queues, CommandTypes
  <2>2. QED BY <2>1
<1>4. ASSUME NEW op \in {"submit", "cancel"}, NEW c \in Nat, NEW parent \in SUBSET Nat,
             op = "submit" => c = NewClient,
             commands' = Append(commands, Command(op, c, parent, FALSE))
      PROVE  \E new : Queues(new)
  <2> DEFINE cmd == Command(op, c, parent, FALSE)
  <2>1. /\ cmd \in CommandType /\ ~cmd.bracket /\ cmd.asked = Current.symbol
        /\ cmd.hook <=> Stage = "dispatch"
        /\ cmd.op = "submit" => cmd.client = NewClient
    BY <1>1, <1>2, <1>4 DEF Command, CommandType
  <2>2. commands' = Append(commands, cmd)
    BY <1>4
  <2> HIDE DEF cmd
  <2>3. QED BY <1>1, <2>1, <2>2, QueuesOne
<1>5. ASSUME SubmitBracket PROVE \E new : Queues(new)
  <2> DEFINE lead == Command("submit", NewClient, {}, FALSE)
             child == Command("submit", NewClient + 1, {NewClient}, TRUE)
  <2> DEFINE none == {}
  <2>1. /\ lead \in CommandType /\ ~lead.bracket /\ lead.asked = Current.symbol
        /\ lead.hook <=> Stage = "dispatch"
    <3>1. none \in SUBSET Nat
      OBVIOUS
    <3> HIDE DEF none
    <3>2. Command("submit", NewClient, none, FALSE) \in CommandType
      BY <1>1, <1>2, <3>1 DEF Command, CommandType
    <3>3. QED BY <3>2 DEF none, Command
  <2>2. /\ child \in CommandType /\ child.asked = Current.symbol
        /\ child.hook <=> Stage = "dispatch"
    <3> DEFINE next == NewClient + 1
               parent == {NewClient}
    <3>1. next \in Nat /\ parent \in SUBSET Nat
      BY <1>1
    <3> HIDE DEF next, parent
    <3>2. Command("submit", next, parent, TRUE) \in CommandType
      BY <1>1, <1>2, <3>1 DEF Command, CommandType
    <3>3. QED BY <3>2 DEF next, parent, Command
  <2>3. Follows(child, lead) /\ lead.client = NewClient /\ child.client = NewClient + 1
    BY DEF Follows, Command
  <2>4. commands' = commands \o <<lead, child>>
    BY <1>5 DEF SubmitBracket
  <2> HIDE DEF lead, child
  <2>5. QED BY <1>1, <2>1, <2>2, <2>3, <2>4, QueuesTwo
<1>6. ASSUME NEW parent \in SUBSET Nat, SubmitOrder(parent) PROVE \E new : Queues(new)
  BY <1>1, <1>4, <1>6 DEF SubmitOrder
<1>7. ASSUME NEW c \in 0..(NewClient - 1), CancelOrder(c) PROVE \E new : Queues(new)
  <2>1. c \in Nat /\ {} \in SUBSET Nat
    BY <1>1, <1>7
  <2>2. commands' = Append(commands, Command("cancel", c, {}, FALSE))
    BY <1>7 DEF CancelOrder
  <2>3. QED BY <2>1, <2>2, <1>4
<1>8. ASSUME NEW intent, Intend(intent) PROVE \E new : Queues(new)
  BY <1>3, <1>8 DEF Intend
<1>9. ASSUME NEW after, NEW isAlert, SetTimer(after, isAlert) PROVE \E new : Queues(new)
  BY <1>3, <1>9 DEF SetTimer
<1>10. DOMAIN idMap \subseteq Nat
  BY DEF TypeInv, OrderTypes
<1>11. QED BY <1>3, <1>5, <1>6, <1>7, <1>8, <1>9, <1>10 DEF Handler, queues

\* A handler may set an alert or replace the timer of the instrument being
\* handled, at a point still ahead of that clock.
LEMMA HandlerSetsClock ==
  ASSUME TypeInv, agenda # <<>>, Handler
  PROVE  \/ UNCHANGED clocks
         \/ \E c \in ClockType :
              /\ clocks' = [clocks EXCEPT ![Current.symbol] = c]
              /\ c.now = clocks[Current.symbol].now
              /\ \A a \in c.alerts : a \in clocks[Current.symbol].alerts \/ a > c.now
              /\ \/ c.timer = clocks[Current.symbol].timer
                 \/ \E t \in TimerType : t.next > c.now /\ c.timer = {t}
<1>1. CASE \E after \in 1..2, isAlert \in BOOLEAN : SetTimer(after, isAlert)
  <2>1. PICK after \in 1..2, isAlert \in BOOLEAN : SetTimer(after, isAlert)
    BY <1>1
  <2> DEFINE old == clocks[Current.symbol]
             c == Scheduled(old, after, isAlert)
  <2>2. Current.symbol \in Symbols /\ old \in ClockType
    BY CurrentIsTyped DEF TypeInv, EventType, ClockTypes
  <2>3. CASE isAlert
    <3>1. c \in ClockType /\ c.now = old.now /\ c.alerts = old.alerts \cup {old.now + after}
          /\ c.timer = old.timer
      BY <2>2, <2>3 DEF Scheduled, ClockType
    <3>2. c.now + after > c.now
      BY <2>2, <3>1 DEF ClockType
    <3>3. clocks' = [clocks EXCEPT ![Current.symbol] = c]
      BY <2>1 DEF SetTimer
    <3> HIDE DEF c
    <3>4. \A a \in c.alerts : a \in clocks[Current.symbol].alerts \/ a > c.now
      BY <3>1, <3>2
    <3>5. QED BY <3>1, <3>3, <3>4
  <2>4. CASE ~isAlert
    <3> DEFINE t == [next |-> old.now + after, every |-> after, stop |-> NoTime]
    <3>1. t \in TimerType /\ t.next > old.now
      BY <2>2 DEF TimerType, ClockType
    <3>2. c \in ClockType /\ c.now = old.now /\ c.alerts = old.alerts /\ c.timer = {t}
      BY <2>2, <2>4, <3>1 DEF Scheduled, ClockType
    <3>3. QED BY <2>1, <3>1, <3>2 DEF SetTimer
  <2>5. QED BY <2>3, <2>4
<1>2. CASE ~ \E after \in 1..2, isAlert \in BOOLEAN : SetTimer(after, isAlert)
  BY <1>2 DEF Handler, SubmitOrder, SubmitBracket, CancelOrder, Intend
<1>3. QED BY <1>1, <1>2

-----------------------------------------------------------------------------
(* The steps by what they run *)

Handling == OnTimeEvent \/ OnData \/ DispatchEvent
Ending == EndTime \/ EndApply \/ EndStep \/ EndDispatch
Engine ==
  \/ EngineExit \/ EngineEnter
  \/ \E c \in DOMAIN orders :
       EngineReject(c) \/ EngineOrphan(c) \/ \E done \in BOOLEAN : EngineFill(c, done)

LEMMA StepsByKind ==
  ASSUME [Next]_vars
  PROVE  NextEvent \/ Handling \/ ApplyCommand \/ Engine \/ Ending \/ UNCHANGED vars
BY DEF Next, Handling, Ending, Engine

LEMMA HandlingRuns ==
  ASSUME AgendaOK, Handling
  PROVE  /\ Handler /\ agenda # <<>> /\ Stage \in {"time", "composite", "data", "dispatch"}
         /\ UNCHANGED <<run, cursor, idMap, engine, routed>>
BY StageNamed DEF Handling, OnTimeEvent, OnData, DispatchEvent

LEMMA EngineRuns ==
  ASSUME AgendaOK, Engine
  PROVE  /\ agenda # <<>> /\ Stage = "step" /\ StepUnchanged
         /\ DOMAIN orders' = DOMAIN orders
BY StageNamed DEF Engine, EngineExit, EngineEnter, EngineReject, EngineOrphan, EngineFill, Stepping

LEMMA EndingRuns ==
  ASSUME AgendaOK, Ending
  PROVE  /\ agenda # <<>> /\ Stage \in {"time", "apply", "step", "dispatch"} /\ EndStage
         /\ UNCHANGED <<run, cursor, due, commands, idMap, clocks, strategyView, orders, worked,
                        opener, fills, fired>>
BY StageNamed DEF Ending, EndTime, EndApply, EndStep, EndDispatch, queues, engine

-----------------------------------------------------------------------------
(* Type correctness, part by part *)

LEMMA StepOfCommands ==
  ASSUME TypeInv, [Next]_vars
  PROVE  CommandTypes'
<1> USE DEF TypeInv
<1>1. CASE NextEvent
  BY <1>1 DEF NextEvent, queues, CommandTypes
<1>2. CASE Handling
  <2>1. PICK new : Queues(new)
    BY <1>2, HandlingRuns, HandlerQueues
  <2>2. QED BY <2>1 DEF Queues, CommandTypes
<1>3. CASE ApplyCommand
  BY <1>3, HeadTailProperties DEF ApplyCommand, CommandTypes
<1>4. CASE Engine
  BY <1>4, EngineRuns DEF StepUnchanged, queues, CommandTypes
<1>5. CASE Ending
  BY <1>5, EndingRuns DEF CommandTypes
<1>6. CASE UNCHANGED vars
  BY <1>6 DEF vars, queues, CommandTypes
<1>7. QED BY <1>1, <1>2, <1>3, <1>4, <1>5, <1>6, StepsByKind

\* A repeating timer's next point is after the time its clock moved to.
LEMMA SkipsAhead ==
  ASSUME NEW t \in TimerType, NEW ts \in Nat, t.next <= ts
  PROVE  Skip(t, ts) \in Nat /\ Skip(t, ts) > ts
BY DEF Skip, TimerType

LEMMA AdvancedTimer ==
  ASSUME NEW c \in ClockType, NEW ts \in Nat, NEW t \in Advanced(c, ts).timer
  PROVE  /\ t \in TimerType /\ t.next > ts
         /\ \E u \in c.timer : t = IF u.next <= ts THEN [u EXCEPT !.next = Skip(u, ts)] ELSE u
<1>1. PICK u \in c.timer : t = IF u.next <= ts THEN [u EXCEPT !.next = Skip(u, ts)] ELSE u
  BY DEF Advanced
<1>2. u \in TimerType
  BY DEF ClockType
<1>3. CASE u.next <= ts
  <2>1. Skip(u, ts) \in Nat /\ Skip(u, ts) > ts
    BY <1>2, <1>3, SkipsAhead
  <2>2. t \in TimerType /\ t.next = Skip(u, ts)
    BY <1>1, <1>2, <1>3, <2>1 DEF TimerType
  <2>3. QED BY <1>1, <2>1, <2>2
<1>4. CASE ~(u.next <= ts)
  BY <1>1, <1>2, <1>4 DEF TimerType
<1>5. QED BY <1>3, <1>4

LEMMA AdvancedIsTyped ==
  ASSUME NEW c \in ClockType, NEW ts \in Nat
  PROVE  /\ Advanced(c, ts) \in ClockType
         /\ DueAlerts(c, ts) \cup DueTimers(c, ts) \subseteq TimeEventType
<1>1. Advanced(c, ts).timer \subseteq TimerType
  BY AdvancedTimer
<1>2. Advanced(c, ts) \in ClockType
  BY <1>1 DEF Advanced, ClockType
<1>3. DueAlerts(c, ts) \subseteq TimeEventType
  BY DEF DueAlerts, TimeEventType, ClockType
<1>4. DueTimers(c, ts) \subseteq TimeEventType
  BY DEF DueTimers, TimeEventType, ClockType, TimerType
<1>5. QED BY <1>2, <1>3, <1>4

LEMMA StepOfClocks ==
  ASSUME TypeInv, [Next]_vars
  PROVE  ClockTypes'
<1> USE DEF TypeInv
<1>1. CASE NextEvent
  <2> DEFINE e == Tape[cursor + 1]
             c == clocks[e.symbol]
  <2>1. e \in EventType
    BY <1>1, CurrentIsTyped DEF NextEvent
  <2>2. c \in ClockType /\ e.ts \in Nat
    BY <2>1 DEF EventType, ClockTypes
  <2>3. Advanced(c, e.ts) \in ClockType
    BY <2>2, AdvancedIsTyped
  <2>4. due' \subseteq TimeEventType
    BY <1>1, <2>2, AdvancedIsTyped DEF NextEvent
  <2>5. clocks' \in [Symbols -> ClockType]
    BY <1>1, <2>3 DEF NextEvent, ClockTypes
  <2>6. Stage' = "time"
    BY <1>1, <2>1 DEF NextEvent, Stage, Agenda, EventType
  <2>7. QED BY <2>4, <2>5, <2>6 DEF ClockTypes
<1>2. CASE Handling
  <2>1. Handler /\ agenda # <<>>
    BY <1>2, HandlingRuns
  <2>2. clocks' \in [Symbols -> ClockType]
    BY <2>1, HandlerSetsClock DEF ClockTypes
  <2>3. due' \subseteq due /\ (due' # {} => UNCHANGED agenda \/ due = {} \/ Stage # "time")
    BY <1>2 DEF Handling, OnTimeEvent, OnData, DispatchEvent
  <2>4. QED BY <2>2, <2>3 DEF ClockTypes, Stage
<1>3. CASE ApplyCommand
  BY <1>3 DEF ApplyCommand, ClockTypes, Stage
<1>4. CASE Engine
  BY <1>4, EngineRuns DEF StepUnchanged, ClockTypes, Stage
<1>5. CASE Ending
  <2>1. due = {}
    BY <1>5, EndingRuns DEF ClockTypes, Ending, EndTime, EndApply, EndStep, EndDispatch
  <2>2. QED BY <1>5, <2>1, EndingRuns DEF ClockTypes
<1>6. CASE UNCHANGED vars
  BY <1>6 DEF vars, ClockTypes, Stage
<1>7. QED BY <1>1, <1>2, <1>3, <1>4, <1>5, <1>6, StepsByKind

LEMMA MovedIsTyped ==
  ASSUME NEW o \in OrderType, NEW status \in Statuses
  PROVE  [o EXCEPT !.status = status] \in OrderType
BY DEF OrderType

\* One order takes a status, the others keep theirs.
LEMMA MovingOne ==
  ASSUME OrderTypes, UNCHANGED idMap, NEW c \in DOMAIN orders, NEW status \in Statuses,
         orders' = [orders EXCEPT ![c].status = status]
  PROVE  OrderTypes'
<1>1. orders' = [orders EXCEPT ![c] = [orders[c] EXCEPT !.status = status]]
  OBVIOUS
<1>2. [orders[c] EXCEPT !.status = status] \in OrderType
  BY MovedIsTyped DEF OrderTypes
<1>3. QED BY <1>1, <1>2 DEF OrderTypes

LEMMA StepOfOrders ==
  ASSUME TypeInv, [Next]_vars
  PROVE  OrderTypes'
<1> USE DEF TypeInv
<1>1. ASSUME UNCHANGED <<idMap, orders>> PROVE OrderTypes'
  BY <1>1 DEF OrderTypes
<1>2. CASE NextEvent \/ Handling \/ Ending \/ UNCHANGED vars
  BY <1>2, <1>1, HandlingRuns, EndingRuns DEF NextEvent, vars, engine
<1>3. CASE ApplyCommand
  <2> DEFINE cmd == Head(commands)
  <2>1. cmd \in CommandType /\ Current.symbol \in Symbols
    BY <1>3, HeadTailProperties, CurrentIsTyped, StageNamed
    DEF ApplyCommand, CommandTypes, EventType
  <2>2. CASE ApplySubmit(cmd)
    <3>1. PICK rests \in BOOLEAN : Register(cmd, rests)
      BY <2>2 DEF ApplySubmit
    <3>2. DOMAIN idMap' = DOMAIN idMap \cup {cmd.client} /\ DOMAIN orders' = DOMAIN idMap'
      BY <2>2, <3>1 DEF ApplySubmit, Register, OrderTypes
    <3>3. IsFiniteSet(DOMAIN idMap') /\ DOMAIN idMap' \subseteq Nat
      BY <2>1, <3>2, FS_AddElement DEF OrderTypes, CommandType
    <3>4. idMap' \in [DOMAIN idMap' -> Symbols]
      BY <2>1, <2>2 DEF ApplySubmit, OrderTypes
    <3>5. \A c \in DOMAIN orders' : orders'[c] \in OrderType
      <4> DEFINE late == \E p \in cmd.parent : orders[p].status = "Filled"
                 new == [symbol |-> Current.symbol, parent |-> cmd.parent, late |-> late,
                         status |-> IF rests THEN "Accepted" ELSE "Submitted"]
      <4>1. late \in BOOLEAN
        OBVIOUS
      <4>2. \A c \in DOMAIN orders' : orders'[c] = IF c = cmd.client THEN new ELSE orders[c]
        BY <3>1 DEF Register
      <4> HIDE DEF late
      <4>3. new \in OrderType
        BY <2>1, <4>1 DEF OrderType, CommandType, Statuses
      <4> HIDE DEF new
      <4>4. QED BY <3>2, <4>2, <4>3 DEF OrderTypes
    <3>6. orders' \in [DOMAIN idMap' -> OrderType]
      BY <3>1, <3>2, <3>5 DEF Register
    <3>7. QED BY <3>3, <3>4, <3>6 DEF OrderTypes
  <2>3. CASE ApplyCancel(cmd)
    BY <2>3, <1>1, MovingOne DEF ApplyCancel, OrderTypes, Statuses, Ended
  <2>4. QED BY <1>3, <2>2, <2>3 DEF ApplyCommand
<1>4. CASE EngineExit \/ EngineEnter
  BY <1>4, <1>1 DEF EngineExit, EngineEnter, StepUnchanged
<1>5. ASSUME NEW c \in DOMAIN orders, EngineReject(c) \/ EngineOrphan(c) PROVE OrderTypes'
  BY <1>5, MovingOne DEF EngineReject, EngineOrphan, StepUnchanged, Statuses, Ended
<1>6. ASSUME NEW c \in DOMAIN orders, NEW done \in BOOLEAN, EngineFill(c, done)
      PROVE  OrderTypes'
  <2>1. UNCHANGED idMap
    BY <1>6 DEF EngineFill, StepUnchanged
  <2> DEFINE to == IF orders[c].late THEN orders[c].status
                   ELSE IF done THEN "Filled" ELSE "PartiallyFilled"
  <2>2. \A k \in DOMAIN orders : orders[k] \in OrderType
    BY DEF OrderTypes
  <2>3. to \in Statuses /\ "Accepted" \in Statuses
    BY <2>2 DEF OrderType, Statuses, Ended
  <2>4. DOMAIN orders' = DOMAIN orders
    BY <1>6 DEF EngineFill
  <2>5. \A k \in DOMAIN orders : \/ orders'[k] = orders[k]
                                 \/ orders'[k] = [orders[k] EXCEPT !.status = to]
                                 \/ orders'[k] = [orders[k] EXCEPT !.status = "Accepted"]
    BY <1>6 DEF EngineFill
  <2> HIDE DEF to
  <2>6. \A k \in DOMAIN orders : orders'[k] \in OrderType
    <3> TAKE k \in DOMAIN orders
    <3>1. [orders[k] EXCEPT !.status = to] \in OrderType
      BY <2>2, <2>3, MovedIsTyped
    <3>2. [orders[k] EXCEPT !.status = "Accepted"] \in OrderType
      BY <2>2, <2>3, MovedIsTyped
    <3>3. QED BY <2>2, <2>5, <3>1, <3>2
  <2>7. orders' \in [DOMAIN idMap -> OrderType]
    BY <1>6, <2>4, <2>6 DEF EngineFill, OrderTypes
  <2>8. QED BY <2>1, <2>7 DEF OrderTypes
<1>7. QED BY <1>2, <1>3, <1>4, <1>5, <1>6, StepsByKind DEF Engine

\* The sequence of a finite set's elements holds them all, and nothing else.
LEMMA SetToSeqIsASeq ==
  ASSUME NEW S, IsFiniteSet(S)
  PROVE  /\ SetToSeq(S) \in Seq(S)
         /\ \A x \in S : \E k \in DOMAIN SetToSeq(S) : SetToSeq(S)[k] = x
         /\ \A k, l \in DOMAIN SetToSeq(S) : SetToSeq(S)[k] = SetToSeq(S)[l] => k = l
<1>1. Cardinality(S) \in Nat /\ ExistsBijection(1..Cardinality(S), S)
  BY FS_CardinalityType
<1>2. \E f \in [1..Cardinality(S) -> S] : IsInjective(f)
  BY <1>1 DEF ExistsBijection, Bijection, Injection
<1>3. SetToSeq(S) \in [1..Cardinality(S) -> S] /\ IsInjective(SetToSeq(S))
  BY <1>2 DEF SetToSeq
<1>4. SetToSeq(S) \in Injection(1..Cardinality(S), S)
  BY <1>3 DEF Injection
<1>5. Cardinality(1..Cardinality(S)) = Cardinality(S)
  BY <1>1, FS_Interval
<1>6. SetToSeq(S) \in Surjection(1..Cardinality(S), S)
  BY <1>4, <1>5, FS_Injection
<1>7. SetToSeq(S) \in Seq(S)
  BY <1>1, <1>3
<1>8. \A k, l \in DOMAIN SetToSeq(S) : SetToSeq(S)[k] = SetToSeq(S)[l] => k = l
  BY <1>3 DEF IsInjective
<1>9. QED BY <1>3, <1>6, <1>7, <1>8 DEF Surjection

\* The children an order lets start are as many as the set of their notices.
LEMMA StartsAreFinite ==
  ASSUME OrderTypes, NEW starts, starts \subseteq DOMAIN orders
  PROVE  LET notices == {Notice("Accepted", k) : k \in starts} IN
         IsFiniteSet(notices) /\ notices \subseteq NoticeType
<1> DEFINE notices == {Notice("Accepted", k) : k \in starts}
           notice == [k \in starts |-> Notice("Accepted", k)]
<1>1. IsFiniteSet(starts) /\ starts \subseteq Nat
  BY FS_Subset DEF OrderTypes
<1>2. notice \in Surjection(starts, notices)
  BY DEF Surjection
<1>3. IsFiniteSet(notices)
  BY <1>1, <1>2, FS_Surjection
<1>4. notices \subseteq NoticeType
  BY <1>1 DEF Notice, NoticeType, Kinds, OrderKinds
<1>5. QED BY <1>3, <1>4

-----------------------------------------------------------------------------
(* Fills among the engine's notices *)

PositionKinds == {"Entered", "Exited"}
Positions(s) == {k \in DOMAIN s : s[k].kind \in PositionKinds}

\* An order's fill has its position event right behind it.
Paired(s) ==
  \A k \in DOMAIN s :
    s[k].kind = "Filled" => k + 1 \in DOMAIN s /\ s[k + 1].kind \in PositionKinds

\* Notices that no position event is due for.
Quiet(s) == \A k \in DOMAIN s : s[k].kind \notin PositionKinds \cup {"Filled"}

LEMMA PositionsAreFinite ==
  ASSUME NEW s \in Seq(NoticeType)
  PROVE  IsFiniteSet(Positions(s)) /\ Cardinality(Positions(s)) \in Nat
<1>1. IsFiniteSet(DOMAIN s)
  BY LenProperties, FS_Interval
<1>2. QED BY <1>1, FS_Subset, FS_CardinalityType DEF Positions

LEMMA PositionsAddUp ==
  ASSUME NEW s \in Seq(NoticeType), NEW t \in Seq(NoticeType)
  PROVE  Cardinality(Positions(s \o t)) = Cardinality(Positions(s)) + Cardinality(Positions(t))
<1> DEFINE shifted == {k \in DOMAIN (s \o t) : k > Len(s) /\ (s \o t)[k].kind \in PositionKinds}
           shift == [k \in Positions(t) |-> Len(s) + k]
<1>1. /\ DOMAIN s = 1..Len(s) /\ DOMAIN t = 1..Len(t) /\ Len(s) \in Nat /\ Len(t) \in Nat
      /\ DOMAIN (s \o t) = 1..(Len(s) + Len(t))
      /\ \A k \in 1..Len(s) : (s \o t)[k] = s[k]
      /\ \A k \in 1..Len(t) : (s \o t)[Len(s) + k] = t[k]
  OBVIOUS
<1>2. Positions(s \o t) = Positions(s) \cup shifted
  BY <1>1 DEF Positions
<1>3. Positions(s) \cap shifted = {}
  BY <1>1 DEF Positions
<1>4. shift \in [Positions(t) -> shifted]
  BY <1>1 DEF Positions
<1>5. \A a, b \in Positions(t) : shift[a] = shift[b] => a = b
  BY <1>1 DEF Positions
<1>6. \A k \in shifted : \E a \in Positions(t) : shift[a] = k
  <2> TAKE k \in shifted
  <2>1. k - Len(s) \in 1..Len(t) /\ Len(s) + (k - Len(s)) = k
    BY <1>1
  <2>2. k - Len(s) \in Positions(t)
    BY <2>1, <1>1 DEF Positions
  <2>3. QED BY <2>1, <2>2
<1> HIDE DEF shift, shifted
<1>7. shift \in Bijection(Positions(t), shifted)
  BY <1>4, <1>5, <1>6 DEF Bijection, Injection, Surjection, IsInjective
<1>8. IsFiniteSet(shifted) /\ Cardinality(shifted) = Cardinality(Positions(t))
  BY <1>7, PositionsAreFinite, FS_Bijection DEF ExistsBijection
<1>9. Cardinality(Positions(s) \cap shifted) = 0
  BY <1>3, FS_EmptySet
<1>10. /\ Cardinality(Positions(s)) \in Nat /\ Cardinality(Positions(t)) \in Nat
       /\ IsFiniteSet(Positions(s))
  BY PositionsAreFinite
<1>11. Cardinality(Positions(s) \cup shifted)
         = Cardinality(Positions(s)) + Cardinality(shifted) - Cardinality(Positions(s) \cap shifted)
  BY <1>8, <1>10, FS_Union
<1>12. QED BY <1>2, <1>8, <1>9, <1>10, <1>11

LEMMA QuietHasNone ==
  ASSUME NEW s, Quiet(s)
  PROVE  Cardinality(Positions(s)) = 0 /\ Paired(s)
<1>1. Positions(s) = {}
  BY DEF Quiet, Positions
<1>2. QED BY <1>1, FS_EmptySet DEF Quiet, Paired

LEMMA OneNotice ==
  ASSUME NEW e \in NoticeType
  PROVE  /\ <<e>> \in Seq(NoticeType)
         /\ e.kind \in PositionKinds => Cardinality(Positions(<<e>>)) = 1 /\ Paired(<<e>>)
         /\ e.kind \notin PositionKinds => Cardinality(Positions(<<e>>)) = 0
<1>1. <<e>> \in Seq(NoticeType) /\ DOMAIN <<e>> = {1} /\ <<e>>[1] = e
  OBVIOUS
<1>2. e.kind \in PositionKinds => Positions(<<e>>) = {1} /\ Paired(<<e>>)
  BY <1>1 DEF Positions, Paired, PositionKinds
<1>3. e.kind \notin PositionKinds => Positions(<<e>>) = {}
  BY <1>1 DEF Positions
<1>4. QED BY <1>1, <1>2, <1>3, FS_EmptySet, FS_Singleton

LEMMA PairedAddUp ==
  ASSUME NEW s \in Seq(NoticeType), NEW t \in Seq(NoticeType), Paired(s), Paired(t)
  PROVE  Paired(s \o t)
<1>1. /\ DOMAIN s = 1..Len(s) /\ DOMAIN t = 1..Len(t) /\ Len(s) \in Nat /\ Len(t) \in Nat
      /\ DOMAIN (s \o t) = 1..(Len(s) + Len(t))
      /\ \A k \in 1..Len(s) : (s \o t)[k] = s[k]
      /\ \A k \in 1..Len(t) : (s \o t)[Len(s) + k] = t[k]
  OBVIOUS
<1>2. ASSUME NEW k \in DOMAIN (s \o t), (s \o t)[k].kind = "Filled"
      PROVE  k + 1 \in DOMAIN (s \o t) /\ (s \o t)[k + 1].kind \in PositionKinds
  <2>1. CASE k <= Len(s)
    <3>1. k \in DOMAIN s /\ s[k].kind = "Filled"
      BY <1>1, <1>2, <2>1
    <3>2. k + 1 \in DOMAIN s /\ s[k + 1].kind \in PositionKinds
      BY <3>1 DEF Paired
    <3>3. QED BY <1>1, <3>2
  <2>2. CASE k > Len(s)
    <3> DEFINE j == k - Len(s)
    <3>1. j \in DOMAIN t /\ k = Len(s) + j
      BY <1>1, <2>2
    <3>2. t[j].kind = "Filled"
      BY <1>1, <1>2, <3>1
    <3>3. j + 1 \in DOMAIN t /\ t[j + 1].kind \in PositionKinds
      BY <3>1, <3>2 DEF Paired
    <3>4. Len(s) + (j + 1) = k + 1
      BY <1>1, <3>1
    <3>5. QED BY <1>1, <3>3, <3>4
  <2>3. QED BY <1>1, <2>1, <2>2
<1>3. QED BY <1>2 DEF Paired

\* What a step of the engine adds to the step's events: one position event for
\* each fill, right behind the order's own notice of it.
Tells(new) ==
  /\ new \in Seq(NoticeType) /\ events' = events \o new
  /\ Paired(new) /\ fills' = fills + Cardinality(Positions(new))

LEMMA FillTells ==
  ASSUME TypeInv, NEW c \in DOMAIN orders, NEW done \in BOOLEAN, EngineFill(c, done)
  PROVE  \E new : Tells(new)
<1> DEFINE enters == opener[Current.symbol] \in {Flat, c}
           starts == IF done THEN Children(c) ELSE {}
           notices == {Notice("Accepted", k) : k \in starts}
           a == Acknowledgment(c)
           f == <<Notice("Filled", c)>>
           p == PositionEvent(enters)
           q == SetToSeq(notices)
<1>1. /\ events' = events \o a \o f \o p \o q /\ fills' = fills + 1
      /\ starts \subseteq DOMAIN orders /\ c \in Nat
  BY DEF EngineFill, Children, TypeInv, OrderTypes
<1>2. events \in Seq(NoticeType) /\ fills \in Nat /\ OrderTypes
  BY DEF TypeInv, NoticeTypes, CountTypes
<1>3. a \in Seq(NoticeType) /\ Quiet(a)
  <2>1. Notice("Accepted", c) \in NoticeType /\ Notice("Accepted", c).kind = "Accepted"
    BY <1>1 DEF Notice, NoticeType, Kinds, OrderKinds
  <2>2. a = <<>> \/ a = <<Notice("Accepted", c)>>
    BY DEF Acknowledgment
  <2> DEFINE n == Notice("Accepted", c)
  <2> HIDE DEF a, n
  <2>3. a = <<>> \/ a = <<n>>
    BY <2>2 DEF n
  <2>4. n \in NoticeType /\ n.kind = "Accepted"
    BY <2>1 DEF n
  <2>5. <<n>> \in Seq(NoticeType) /\ Quiet(<<n>>)
    BY <2>4 DEF Quiet, PositionKinds
  <2>6. <<>> \in Seq(NoticeType) /\ Quiet(<<>>)
    BY DEF Quiet
  <2>7. QED BY <2>3, <2>5, <2>6
<1>4. f \o p \in Seq(NoticeType) /\ f \in Seq(NoticeType) /\ p \in Seq(NoticeType)
      /\ Paired(f \o p) /\ Cardinality(Positions(f \o p)) = 1
  <2> DEFINE F == Notice("Filled", c)
             P == Notice(IF enters THEN "Entered" ELSE "Exited", Signal)
  <2>1. F \in NoticeType /\ F.kind = "Filled"
    BY <1>1 DEF Notice, NoticeType, Kinds, OrderKinds
  <2>2. P \in NoticeType /\ P.kind \in PositionKinds
    BY DEF Notice, NoticeType, Kinds, OrderKinds, PositionKinds
  <2>3. f = <<F>> /\ p = <<P>>
    BY DEF PositionEvent
  <2> HIDE DEF F, P, f, p
  <2>4. f \in Seq(NoticeType) /\ p \in Seq(NoticeType) /\ f \o p \in Seq(NoticeType)
    BY <2>1, <2>2, <2>3
  <2> DEFINE g == f \o p
  <2>5. DOMAIN g = {1, 2} /\ g[1] = F /\ g[2] = P
    BY <2>1, <2>2, <2>3
  <2> HIDE DEF g
  <2>6. Paired(g)
    BY <2>1, <2>2, <2>5 DEF Paired, PositionKinds
  <2>7. Positions(g) = {2}
    BY <2>1, <2>2, <2>5 DEF Positions, PositionKinds
  <2>8. QED BY <2>4, <2>6, <2>7, FS_Singleton DEF g
<1>5. q \in Seq(NoticeType) /\ Quiet(q)
  <2>1. IsFiniteSet(notices) /\ notices \subseteq NoticeType
    BY <1>1, <1>2, StartsAreFinite
  <2>2. \A n \in notices : n.kind = "Accepted"
    BY DEF Notice
  <2> HIDE DEF notices
  <2>3. q \in Seq(notices)
    BY <2>1, SetToSeqIsASeq
  <2> HIDE DEF q
  <2>4. \A k \in DOMAIN q : q[k] \in notices
    BY <2>3
  <2>5. q \in Seq(NoticeType)
    BY <2>1, <2>3, SeqMonotonic
  <2>6. QED BY <2>2, <2>4, <2>5 DEF Quiet, PositionKinds
<1> HIDE DEF a, f, p, q
<1>6. events' = events \o ((a \o (f \o p)) \o q)
  <2> DEFINE ea == events \o a
             fp == f \o p
             afp == a \o fp
  <2>1. ea \in Seq(NoticeType) /\ fp \in Seq(NoticeType) /\ afp \in Seq(NoticeType)
    BY <1>2, <1>3, <1>4, <1>5
  <2>2. (ea \o f) \o p = ea \o (f \o p)
    <3> HIDE DEF ea
    <3>1. QED BY <2>1, <1>4
  <2>3. (events \o a) \o fp = events \o (a \o fp)
    <3> HIDE DEF fp
    <3>1. QED BY <2>1, <1>2, <1>3
  <2>4. (events \o afp) \o q = events \o (afp \o q)
    <3> HIDE DEF afp
    <3>1. QED BY <2>1, <1>2, <1>5
  <2>5. QED BY <1>1, <2>2, <2>3, <2>4, Zenon
<1>7. a \o (f \o p) \in Seq(NoticeType) /\ (a \o (f \o p)) \o q \in Seq(NoticeType)
  BY <1>3, <1>4, <1>5
<1> DEFINE g == f \o p
           h == a \o g
<1> HIDE DEF g, h
<1>8. /\ g \in Seq(NoticeType) /\ Paired(g) /\ Cardinality(Positions(g)) = 1
      /\ h \in Seq(NoticeType) /\ h = a \o g /\ h \o q \in Seq(NoticeType)
  BY <1>4, <1>7 DEF g, h
<1>9. Paired(h) /\ Cardinality(Positions(h)) = 1
  BY <1>3, <1>8, QuietHasNone, PositionsAddUp, PairedAddUp
<1>10. Paired(h \o q) /\ Cardinality(Positions(h \o q)) = 1
  <2>1. Paired(q) /\ Cardinality(Positions(q)) = 0
    BY <1>5, QuietHasNone
  <2>2. Paired(h \o q)
    BY <1>5, <1>8, <1>9, <2>1, PairedAddUp
  <2>3. Cardinality(Positions(h \o q)) = 1 + 0
    BY <1>5, <1>8, <1>9, <2>1, PositionsAddUp
  <2>4. QED BY <2>2, <2>3
<1>11. events' = events \o (h \o q)
  BY <1>6 DEF g, h
<1>12. QED BY <1>1, <1>8, <1>10, <1>11 DEF Tells

LEMMA EngineTells ==
  ASSUME TypeInv, Engine
  PROVE  \E new : Tells(new)
<1>1. events \in Seq(NoticeType) /\ fills \in Nat
  BY DEF TypeInv, NoticeTypes, CountTypes
<1>2. ASSUME NEW entered \in BOOLEAN, events' = events \o PositionEvent(entered), fills' = fills + 1
      PROVE  \E new : Tells(new)
  <2> DEFINE e == Notice(IF entered THEN "Entered" ELSE "Exited", Signal)
  <2>1. e \in NoticeType /\ e.kind \in PositionKinds
    BY DEF Notice, NoticeType, Kinds, OrderKinds, PositionKinds
  <2>2. events' = events \o <<e>>
    BY <1>2 DEF PositionEvent
  <2> HIDE DEF e
  <2>3. Tells(<<e>>)
    BY <1>2, <2>1, <2>2, OneNotice DEF Tells
  <2>4. QED BY <2>3
<1>3. ASSUME NEW new \in Seq(NoticeType), Quiet(new), events' = events \o new, UNCHANGED fills
      PROVE  \E any : Tells(any)
  <2>1. Tells(new)
    BY <1>1, <1>3, QuietHasNone DEF Tells
  <2>2. QED BY <2>1
<1>4. ASSUME NEW kind \in {"Canceled", "EntryRejected"}, NEW c \in Nat \cup {Signal},
             events' = Append(events, Notice(kind, c)), UNCHANGED fills
      PROVE  \E new : Tells(new)
  <2> DEFINE e == Notice(kind, c)
  <2>1. e \in NoticeType /\ e.kind = kind
    BY DEF Notice, NoticeType, Kinds, OrderKinds
  <2>2. events' = Append(events, e)
    BY <1>4
  <2> HIDE DEF e
  <2>3. events' = events \o <<e>> /\ <<e>> \in Seq(NoticeType) /\ Quiet(<<e>>)
    BY <1>1, <2>1, <2>2 DEF Quiet, PositionKinds
  <2>4. QED BY <1>3, <1>4, <2>3
<1>5. CASE EngineExit
  <2>1. events' = events \o PositionEvent(FALSE) /\ fills' = fills + 1
    BY <1>5 DEF EngineExit
  <2>2. QED BY <2>1, <1>2
<1>6. CASE EngineEnter
  <2>1. \/ events' = events \o PositionEvent(TRUE) /\ fills' = fills + 1
        \/ events' = Append(events, Notice("EntryRejected", Signal)) /\ UNCHANGED fills
    BY <1>6 DEF EngineEnter
  <2>2. QED BY <2>1, <1>2, <1>4
<1>7. ASSUME NEW c \in DOMAIN orders, EngineReject(c) PROVE \E new : Tells(new)
  <2> DEFINE a == Acknowledgment(c)
             r == Notice("Rejected", c)
             n == Notice("Accepted", c)
  <2>1. c \in Nat
    BY DEF TypeInv, OrderTypes
  <2>2. r \in NoticeType /\ r.kind = "Rejected" /\ n \in NoticeType /\ n.kind = "Accepted"
    BY <2>1 DEF Notice, NoticeType, Kinds, OrderKinds
  <2>3. a = <<>> \/ a = <<n>>
    BY DEF Acknowledgment
  <2>4. events' = events \o a \o <<r>> /\ UNCHANGED fills
    BY <1>7 DEF EngineReject
  <2> HIDE DEF a, r, n
  <2>5. CASE a = <<>>
    <3>1. events' = events \o <<r>> /\ <<r>> \in Seq(NoticeType)
      BY <1>1, <2>2, <2>4, <2>5
    <3>2. Quiet(<<r>>)
      BY <2>2 DEF Quiet, PositionKinds
    <3>3. QED BY <2>4, <3>1, <3>2, <1>3
  <2>6. CASE a = <<n>>
    <3> DEFINE g == a \o <<r>>
    <3>1. a \in Seq(NoticeType) /\ <<r>> \in Seq(NoticeType)
      BY <2>2, <2>6
    <3>2. events' = events \o g /\ g \in Seq(NoticeType)
      BY <1>1, <2>4, <3>1
    <3>3. DOMAIN g = {1, 2} /\ g[1] = n /\ g[2] = r
      BY <2>2, <2>6
    <3> HIDE DEF g
    <3>4. Quiet(g)
      BY <2>2, <3>3 DEF Quiet, PositionKinds
    <3>5. QED BY <2>4, <3>2, <3>4, <1>3
  <2>7. QED BY <2>3, <2>5, <2>6
<1>8. ASSUME NEW c \in DOMAIN orders, EngineOrphan(c) PROVE \E new : Tells(new)
  <2>1. c \in Nat
    BY DEF TypeInv, OrderTypes
  <2>2. events' = Append(events, Notice("Canceled", c)) /\ UNCHANGED fills
    BY <1>8 DEF EngineOrphan
  <2>3. QED BY <2>1, <2>2, <1>4
<1>9. QED BY <1>5, <1>6, <1>7, <1>8, FillTells DEF Engine

LEMMA QueuesNotice ==
  ASSUME queued \in [Symbols -> Seq(NoticeType)], NEW at \in Symbols, NEW n \in NoticeType,
         queued' = [queued EXCEPT ![at] = Append(queued[at], n)]
  PROVE  queued' \in [Symbols -> Seq(NoticeType)]
<1> DEFINE more == Append(queued[at], n)
<1>1. more \in Seq(NoticeType)
  OBVIOUS
<1>2. queued' = [queued EXCEPT ![at] = more]
  OBVIOUS
<1> HIDE DEF more
<1>3. QED BY <1>1, <1>2

LEMMA StepOfNotices ==
  ASSUME TypeInv, [Next]_vars
  PROVE  NoticeTypes'
<1>1. /\ queued \in [Symbols -> Seq(NoticeType)] /\ events \in Seq(NoticeType)
      /\ events # <<>> => Stage \in {"step", "dispatch"}
      /\ AgendaOK /\ ScheduleTypes /\ CommandTypes
  BY DEF TypeInv, NoticeTypes
<1>2. ASSUME UNCHANGED queued, UNCHANGED events, events = <<>> PROVE NoticeTypes'
  BY <1>1, <1>2 DEF NoticeTypes
<1>3. CASE NextEvent \/ OnTimeEvent \/ OnData \/ EndTime \/ EndApply \/ EndDispatch
  <2>1. events = <<>>
    BY <1>1, <1>3 DEF NextEvent, OnTimeEvent, OnData, EndTime, EndApply, EndDispatch
  <2>2. UNCHANGED <<queued, events>>
    BY <1>3 DEF NextEvent, OnTimeEvent, OnData, EndTime, EndApply, EndDispatch, engine
  <2>3. QED BY <2>1, <2>2, <1>2
<1>4. CASE DispatchEvent
  <2>1. UNCHANGED <<queued, agenda>> /\ events' = Tail(events) /\ events # <<>>
        /\ Stage = "dispatch"
    BY <1>4 DEF DispatchEvent, engine
  <2>2. events' \in Seq(NoticeType)
    BY <1>1, <2>1
  <2>3. QED BY <1>1, <2>1, <2>2 DEF NoticeTypes, Stage
<1>5. CASE ApplyCommand
  <2> DEFINE cmd == Head(commands)
  <2>1. cmd \in CommandType /\ UNCHANGED <<events, agenda>> /\ Stage = "apply"
    BY <1>1, <1>5, HeadTailProperties DEF ApplyCommand, CommandTypes
  <2>2. Current.symbol \in Symbols /\ \A c \in DOMAIN idMap : idMap[c] \in Symbols
    BY <1>1, <1>5, CurrentIsTyped, StageNamed DEF ApplyCommand, EventType, TypeInv, OrderTypes
  <2>3. \A kind \in OrderKinds : [kind |-> kind, client |-> cmd.client] \in NoticeType
    BY <2>1 DEF CommandType, NoticeType, Kinds
  <2>4. ASSUME ApplySubmit(cmd)
        PROVE  queued' \in [Symbols -> Seq(NoticeType)]
    <3> DEFINE n == [kind |-> "Accepted", client |-> cmd.client]
    <3>1. UNCHANGED queued \/ queued' = [queued EXCEPT ![Current.symbol] = Append(@, n)]
      BY <2>4 DEF ApplySubmit, Register
    <3>2. n \in NoticeType
      BY <2>3 DEF OrderKinds
    <3> HIDE DEF n
    <3>3. QED BY <1>1, <2>2, <3>1, <3>2, QueuesNotice
  <2>5. ASSUME ApplyCancel(cmd)
        PROVE  queued' \in [Symbols -> Seq(NoticeType)]
    <3> DEFINE n == [kind |-> "Canceled", client |-> cmd.client]
               at == idMap[cmd.client]
    <3>1. UNCHANGED queued \/ (at \in Symbols /\ queued' = [queued EXCEPT ![at] = Append(@, n)])
      BY <2>2, <2>5 DEF ApplyCancel
    <3>2. n \in NoticeType
      BY <2>3 DEF OrderKinds
    <3> HIDE DEF n, at
    <3>3. QED BY <1>1, <3>1, <3>2, QueuesNotice
  <2>6. ApplySubmit(cmd) \/ ApplyCancel(cmd)
    BY <1>5 DEF ApplyCommand
  <2>7. queued' \in [Symbols -> Seq(NoticeType)]
    BY <2>4, <2>5, <2>6
  <2>8. QED BY <1>1, <2>1, <2>7 DEF NoticeTypes, Stage
<1>6. CASE Engine
  <2>1. PICK new : Tells(new)
    BY <1>6, EngineTells
  <2>2. UNCHANGED <<queued, agenda>> /\ Stage = "step"
    BY <1>1, <1>6, EngineRuns DEF StepUnchanged
  <2>3. QED BY <1>1, <2>1, <2>2 DEF NoticeTypes, Tells, Stage
<1>7. CASE EndStep
  <2>1. Stage = "step" /\ EndStage /\ agenda # <<>>
    BY <1>1, <1>7, StageNamed DEF EndStep
  <2>2. Stage' = "dispatch" /\ Current.symbol \in Symbols
    BY <1>1, <2>1, StageEnds, CurrentIsTyped DEF EventType
  <2>3. /\ events' = queued[Current.symbol] \o events
        /\ queued' = [queued EXCEPT ![Current.symbol] = <<>>]
    BY <1>7 DEF EndStep
  <2>4. QED BY <1>1, <2>2, <2>3 DEF NoticeTypes
<1>8. CASE UNCHANGED vars
  BY <1>1, <1>8 DEF vars, engine, NoticeTypes, Stage
<1>9. QED BY <1>3, <1>4, <1>5, <1>6, <1>7, <1>8, StepsByKind DEF Handling, Ending

LEMMA StepOfCounts ==
  ASSUME TypeInv, [Next]_vars
  PROVE  CountTypes'
<1>1. fills \in Nat /\ told \in Nat /\ preceded \in BOOLEAN /\ AgendaOK
  BY DEF TypeInv, CountTypes
<1>2. CASE NextEvent
  BY <1>1, <1>2 DEF NextEvent, CountTypes
<1>3. CASE OnTimeEvent \/ OnData \/ EndTime \/ EndApply \/ EndStep \/ EndDispatch \/ UNCHANGED vars
  BY <1>1, <1>3 DEF OnTimeEvent, OnData, EndTime, EndApply, EndStep, EndDispatch, vars, engine,
     strategyView, CountTypes
<1>4. CASE DispatchEvent
  <2>1. UNCHANGED fills /\ told' \in {told, told + 1} /\ preceded' = PrecededAfter(Head(events).kind)
    BY <1>4 DEF DispatchEvent, engine
  <2>2. preceded' \in BOOLEAN
    BY <1>1, <2>1 DEF PrecededAfter
  <2>3. QED BY <1>1, <2>1, <2>2 DEF CountTypes
<1>5. CASE ApplyCommand
  BY <1>1, <1>5 DEF ApplyCommand, ApplySubmit, ApplyCancel, strategyView, CountTypes
<1>6. CASE Engine
  <2>1. PICK new : Tells(new)
    BY <1>6, EngineTells
  <2>2. UNCHANGED <<told, preceded>>
    BY <1>1, <1>6, EngineRuns DEF StepUnchanged, strategyView
  <2>3. QED BY <1>1, <2>1, <2>2, PositionsAreFinite DEF CountTypes, Tells
<1>7. QED BY <1>2, <1>3, <1>4, <1>5, <1>6, StepsByKind DEF Handling, Ending

LEMMA InitIsTyped == Init => TypeInv
<1> SUFFICES ASSUME Init PROVE TypeInv
  OBVIOUS
<1> USE DEF Init
<1>1. ScheduleTypes
  <2>1. Tape \in Seq(EventType)
    BY RunsAssumption DEF Tape, EventType
  <2>2. QED BY <2>1 DEF ScheduleTypes
<1>2. AgendaOK
  BY DEF AgendaOK
<1>3. CommandTypes
  BY DEF CommandTypes
<1>4. ClockTypes
  <2>1. PICK started \in SUBSET run.started :
          clocks = [s \in Symbols |-> [now |-> 0, alerts |-> {}, timer |-> started]]
    OBVIOUS
  <2>2. started \subseteq TimerType
    BY RunsAssumption DEF TimerType
  <2>3. [now |-> 0, alerts |-> {}, timer |-> started] \in ClockType
    BY <2>2 DEF ClockType
  <2>4. QED BY <2>1, <2>3 DEF ClockTypes
<1>5. OrderTypes
  BY FS_EmptySet DEF OrderTypes
<1>6. NoticeTypes
  BY DEF NoticeTypes
<1>7. CountTypes
  BY DEF CountTypes
<1>8. QED BY <1>1, <1>2, <1>3, <1>4, <1>5, <1>6, <1>7 DEF TypeInv

\* Whatever the handlers ask for and the engine does, the runner's queues, maps
\* and clocks stay well formed, and an event's stages stay in their order.
THEOREM DriverTypes == Spec => []TypeInv
<1>1. TypeInv /\ [Next]_vars => TypeInv'
  BY StepOfSchedule, StepOfCommands, StepOfClocks, StepOfOrders, StepOfNotices, StepOfCounts
  DEF TypeInv
<1>2. QED BY <1>1, InitIsTyped, PTL DEF Spec

-----------------------------------------------------------------------------
(* Where orders go *)

\* What a data or time handler asked for is still this event's, and its
\* "apply" is still to come: that is why it goes home.
RoutesInv ==
  /\ DataHandlersRouteHome
  /\ \A k \in DOMAIN commands :
       ~commands[k].hook => /\ commands[k].asked = Current.symbol
                            /\ \E l \in DOMAIN agenda : agenda[l] = "apply"

LEMMA ApplyStays ==
  ASSUME AgendaOK, agenda # <<>>, EndStage, NEW l \in DOMAIN agenda, agenda[l] = "apply",
         l # 1 \/ Stage # "apply"
  PROVE  \E m \in DOMAIN agenda' : agenda'[m] = "apply"
<1>1. l # 1
  BY StageNamed
<1>2. agenda \in Seq(StageNames)
  BY DEF AgendaOK
<1>3. l - 1 \in DOMAIN agenda' /\ agenda'[l - 1] = agenda[(l - 1) + 1]
  BY <1>1, <1>2, HeadTailProperties DEF EndStage
<1>4. (l - 1) + 1 = l
  BY <1>2
<1>5. QED BY <1>3, <1>4

\* A handler that asks at a data or time stage asks before an "apply".
LEMMA AskedInTime ==
  ASSUME AgendaOK, Handling, Stage # "dispatch"
  PROVE  \E m \in DOMAIN agenda' : agenda'[m] = "apply"
<1>1. Stage \in {"time", "composite", "data"} /\ agenda # <<>>
  BY HandlingRuns
<1>2. PICK l \in DOMAIN agenda : agenda[l] = "apply"
  BY <1>1, StageNamed
<1>3. UNCHANGED agenda \/ EndStage
  BY DEF Handling, OnTimeEvent, OnData, DispatchEvent
<1>4. QED BY <1>1, <1>2, <1>3, ApplyStays

LEMMA StepOfRoutes ==
  ASSUME TypeInv, RoutesInv, [Next]_vars
  PROVE  RoutesInv'
<1>1. AgendaOK /\ commands \in Seq(CommandType)
  BY DEF TypeInv, CommandTypes
<1>2. ASSUME UNCHANGED <<run, cursor, agenda, commands, routed>> PROVE RoutesInv'
  BY <1>2 DEF RoutesInv, DataHandlersRouteHome, Current, Tape
<1>3. CASE NextEvent
  <2>1. agenda = <<>> /\ UNCHANGED <<commands, routed>>
    BY <1>1, <1>3, StageNamed DEF NextEvent, queues
  <2>2. \A k \in DOMAIN commands : commands[k].hook
    BY <2>1 DEF RoutesInv
  <2>3. QED BY <2>1, <2>2 DEF RoutesInv, DataHandlersRouteHome
<1>4. CASE Handling
  <2>1. PICK new : Queues(new)
    BY <1>1, <1>4, HandlingRuns, HandlerQueues
  <2>2. UNCHANGED <<Current, routed>> /\ (Stage = "dispatch" => UNCHANGED agenda)
    BY <1>1, <1>4, HandlingRuns DEF Handling, OnTimeEvent, OnData, DispatchEvent, Current, Tape
  <2>3. ASSUME NEW k \in DOMAIN commands', ~commands'[k].hook
        PROVE  /\ commands'[k].asked = Current.symbol
               /\ \E m \in DOMAIN agenda' : agenda'[m] = "apply"
    <3>1. CASE k \in DOMAIN commands
      <4>1. commands'[k] = commands[k]
        BY <1>1, <2>1, <3>1 DEF Queues
      <4>2. QED BY <1>1, <1>4, <2>2, <2>3, <3>1, <4>1, AskedInTime DEF RoutesInv
    <3>2. CASE k \notin DOMAIN commands
      <4>1. k - Len(commands) \in DOMAIN new /\ commands'[k] = new[k - Len(commands)]
        BY <1>1, <2>1, <2>3, <3>2 DEF Queues
      <4>2. QED BY <1>1, <1>4, <2>1, <2>3, <4>1, AskedInTime DEF Queues
    <3>3. QED BY <3>1, <3>2
  <2>4. QED BY <2>2, <2>3 DEF RoutesInv, DataHandlersRouteHome
<1>5. CASE ApplyCommand
  <2> DEFINE cmd == Head(commands)
  <2>1. UNCHANGED <<run, cursor, agenda>> /\ commands # <<>> /\ commands' = Tail(commands)
    BY <1>5 DEF ApplyCommand
  <2>2. routed' = routed \/ routed' = routed \cup {Route(cmd)}
    BY <1>5 DEF ApplyCommand, ApplySubmit, ApplyCancel
  <2>3. cmd = commands[1] /\ 1 \in DOMAIN commands
    BY <1>1, <2>1
  <2>4. ~Route(cmd).hook => Route(cmd).to = Route(cmd).asked
    BY <2>3 DEF Route, RoutesInv
  <2> HIDE DEF cmd
  <2>5. DataHandlersRouteHome'
    BY <2>2, <2>4 DEF RoutesInv, DataHandlersRouteHome
  <2>6. \A k \in DOMAIN commands' : k + 1 \in DOMAIN commands /\ commands'[k] = commands[k + 1]
    BY <1>1, <2>1, HeadTailProperties
  <2>7. QED BY <2>1, <2>5, <2>6 DEF RoutesInv, Current, Tape
<1>6. CASE Engine
  BY <1>1, <1>2, <1>6, EngineRuns DEF StepUnchanged, queues
<1>7. CASE Ending
  <2>1. EndStage /\ agenda # <<>> /\ UNCHANGED <<run, cursor, commands>>
        /\ (Stage = "apply" => commands = <<>>)
    BY <1>1, <1>7, EndingRuns DEF Ending, EndTime, EndApply, EndStep, EndDispatch
  <2>2. DataHandlersRouteHome'
    BY <1>7 DEF RoutesInv, DataHandlersRouteHome, Ending, EndTime, EndApply, EndStep, EndDispatch
  <2>3. \A k \in DOMAIN commands : ~commands[k].hook =>
          \E m \in DOMAIN agenda' : agenda'[m] = "apply"
    BY <1>1, <2>1, ApplyStays DEF RoutesInv
  <2>4. QED BY <2>1, <2>2, <2>3 DEF RoutesInv, Current, Tape
<1>8. CASE UNCHANGED vars
  BY <1>2, <1>8 DEF vars, queues
<1>9. QED BY <1>3, <1>4, <1>5, <1>6, <1>7, <1>8, StepsByKind

\* An order a data or time handler asked for goes to the instrument of that
\* handler's event, on every schedule.
THEOREM RoutesHome == Spec => []DataHandlersRouteHome
<1>1. Init => RoutesInv
  BY DEF Init, RoutesInv, DataHandlersRouteHome
<1>2. TypeInv /\ RoutesInv /\ [Next]_vars => RoutesInv'
  BY StepOfRoutes
<1>3. RoutesInv => DataHandlersRouteHome
  BY DEF RoutesInv
<1>4. QED BY <1>1, <1>2, <1>3, DriverTypes, PTL DEF Spec

-----------------------------------------------------------------------------
(* Brackets *)

\* A bracket's child is right behind its parent in the queue until the parent
\* has been submitted, at the same event.
BracketsInv ==
  \A k \in DOMAIN commands :
    commands[k].bracket => IF k = 1 THEN Stage = "apply" /\ Routable(commands[1])
                           ELSE Follows(commands[k], commands[k - 1])

LEMMA StepOfBrackets ==
  ASSUME TypeInv, BracketsInv, [Next]_vars
  PROVE  BracketsInv'
<1>1. AgendaOK /\ commands \in Seq(CommandType)
  BY DEF TypeInv, CommandTypes
<1>2. ASSUME UNCHANGED commands, Stage # "apply" \/ commands = <<>> PROVE BracketsInv'
  BY <1>2 DEF BracketsInv, Follows
<1>3. CASE NextEvent \/ Engine \/ Ending
  BY <1>1, <1>2, <1>3, EngineRuns, EndingRuns
  DEF NextEvent, StepUnchanged, queues, Ending, EndTime, EndApply, EndStep, EndDispatch
<1>4. CASE Handling
  <2>1. PICK new : Queues(new)
    BY <1>1, <1>4, HandlingRuns, HandlerQueues
  <2>2. \A k \in DOMAIN commands : commands[k].bracket => k # 1
    BY <1>1, <1>4, HandlingRuns DEF BracketsInv
  <2>3. /\ DOMAIN commands = 1..Len(commands) /\ DOMAIN new = 1..Len(new)
        /\ Len(commands) \in Nat /\ Len(new) \in Nat
        /\ DOMAIN commands' = 1..(Len(commands) + Len(new))
        /\ \A k \in 1..Len(commands) : commands'[k] = commands[k]
        /\ \A k \in 1..Len(new) : commands'[Len(commands) + k] = new[k]
    BY <1>1, <2>1 DEF Queues
  <2>4. ASSUME NEW k \in DOMAIN commands', commands'[k].bracket
        PROVE  k # 1 /\ Follows(commands'[k], commands'[k - 1])
    <3>1. CASE k \in DOMAIN commands
      <4>1. k # 1 /\ commands'[k] = commands[k] /\ commands'[k - 1] = commands[k - 1]
        BY <2>2, <2>3, <2>4, <3>1
      <4>2. QED BY <2>4, <3>1, <4>1 DEF BracketsInv
    <3>2. CASE k \notin DOMAIN commands
      <4> DEFINE j == k - Len(commands)
      <4>1. j \in DOMAIN new /\ commands'[k] = new[j]
        BY <2>3, <3>2
      <4>2. j = 2 /\ Follows(new[2], new[1])
        BY <2>1, <2>4, <4>1 DEF Queues
      <4>3. 1 \in 1..Len(new) /\ k - 1 = Len(commands) + 1 /\ k # 1
        BY <2>3, <4>1, <4>2
      <4>4. commands'[k - 1] = new[1]
        BY <2>3, <4>3
      <4>5. QED BY <4>1, <4>2, <4>3, <4>4
    <3>3. QED BY <3>1, <3>2
  <2>5. QED BY <2>4 DEF BracketsInv, Follows
<1>5. CASE ApplyCommand
  <2>1. /\ Stage = "apply" /\ UNCHANGED <<run, cursor, agenda>> /\ commands # <<>>
        /\ commands' = Tail(commands) /\ Head(commands) = commands[1]
    BY <1>1, <1>5 DEF ApplyCommand
  <2>2. \A k \in DOMAIN commands' : k + 1 \in DOMAIN commands /\ commands'[k] = commands[k + 1]
    BY <1>1, <2>1, HeadTailProperties
  <2>3. ASSUME NEW k \in DOMAIN commands', commands'[k].bracket
        PROVE  Follows(commands[k + 1], commands[k])
    <3>1. k + 1 \in DOMAIN commands /\ k + 1 # 1 /\ (k + 1) - 1 = k
      BY <1>1, <2>1, <2>2
    <3>2. QED BY <2>2, <2>3, <3>1 DEF BracketsInv
  <2>4. ASSUME NEW k \in DOMAIN commands', commands'[k].bracket, k # 1
        PROVE  Follows(commands'[k], commands'[k - 1])
    <3>1. k - 1 \in DOMAIN commands' /\ (k - 1) + 1 = k
      BY <1>1, <2>1, <2>4
    <3>2. QED BY <2>2, <2>3, <2>4, <3>1
  <2>5. ASSUME 1 \in DOMAIN commands', commands'[1].bracket
        PROVE  Routable(commands[1])'
    <3>1. 1 + 1 = 2
      OBVIOUS
    <3>2. Follows(commands[2], commands[1])
      BY <2>3, <2>5, <3>1
    <3>3. ApplySubmit(commands[1])
      BY <1>5, <2>1, <3>2 DEF ApplyCommand, ApplyCancel, Follows
    <3>4. commands[1].client \in DOMAIN idMap' /\ idMap'[commands[1].client] = Current.symbol
      BY <3>3 DEF ApplySubmit
    <3>5. commands'[1] = commands[2] /\ Current' = Current
      BY <2>1, <2>2, <2>5, <3>1 DEF Current, Tape
    <3>6. QED BY <3>2, <3>4, <3>5 DEF Routable, Follows
  <2>6. QED BY <2>1, <2>2, <2>4, <2>5 DEF BracketsInv, Stage
<1>6. CASE UNCHANGED vars
  BY <1>6 DEF vars, queues, BracketsInv, Stage, Routable, Follows, Current, Tape
<1>7. QED BY <1>3, <1>4, <1>5, <1>6, StepsByKind

\* A bracket queued in one call is never torn: its parent is known, on the same
\* instrument, when the child's turn comes.
THEOREM BracketsHold == Spec => []BracketsStayWhole
<1>1. Init => BracketsInv
  BY DEF Init, BracketsInv
<1>2. TypeInv /\ BracketsInv /\ [Next]_vars => BracketsInv'
  BY StepOfBrackets
<1>3. TypeInv /\ BracketsInv => BracketsStayWhole
  <2>1. ASSUME TypeInv, commands # <<>> PROVE 1 \in DOMAIN commands /\ Head(commands) = commands[1]
    BY <2>1 DEF TypeInv, CommandTypes
  <2>2. QED BY <2>1 DEF BracketsInv, BracketsStayWhole
<1>4. QED BY <1>1, <1>2, <1>3, DriverTypes, PTL DEF Spec

-----------------------------------------------------------------------------
(* Fills told *)

\* Every fill is told already, or is a position event still to be dispatched;
\* while an order's fill precedes the one at the head, that one is told.
FillsInv ==
  /\ told + Cardinality(Positions(events)) - (IF preceded THEN 1 ELSE 0) = fills
  /\ Paired(events)
  /\ preceded => events # <<>> /\ events[1].kind \in PositionKinds
  /\ \A s \in Symbols : Quiet(queued[s])
  /\ Stage # "dispatch" => ~preceded

LEMMA QueuesQuietly ==
  ASSUME queued \in [Symbols -> Seq(NoticeType)], NEW at \in Symbols, NEW n \in NoticeType,
         n.kind \in {"Accepted", "Canceled"}, \A s \in Symbols : Quiet(queued[s]),
         queued' = [queued EXCEPT ![at] = Append(queued[at], n)]
  PROVE  \A s \in Symbols : Quiet(queued'[s])
<1> DEFINE more == Append(queued[at], n)
<1>1. /\ DOMAIN more = 1..(Len(queued[at]) + 1) /\ more[Len(queued[at]) + 1] = n
      /\ DOMAIN queued[at] = 1..Len(queued[at]) /\ Len(queued[at]) \in Nat
      /\ \A k \in DOMAIN queued[at] : more[k] = queued[at][k]
  OBVIOUS
<1>2. queued' = [queued EXCEPT ![at] = more]
  OBVIOUS
<1> HIDE DEF more
<1>3. Quiet(more)
  BY <1>1 DEF Quiet, PositionKinds
<1>4. QED BY <1>2, <1>3

LEMMA StepOfFills ==
  ASSUME TypeInv, FillsInv, [Next]_vars
  PROVE  FillsInv'
<1>1. /\ events \in Seq(NoticeType) /\ queued \in [Symbols -> Seq(NoticeType)]
      /\ fills \in Nat /\ told \in Nat /\ preceded \in BOOLEAN /\ AgendaOK /\ ScheduleTypes
      /\ CommandTypes /\ Cardinality(Positions(events)) \in Nat
  BY PositionsAreFinite DEF TypeInv, NoticeTypes, CountTypes
<1>2. ASSUME UNCHANGED <<told, events, preceded, fills, queued>>, Stage # "dispatch" \/ UNCHANGED agenda
      PROVE  FillsInv'
  BY <1>2 DEF FillsInv, Paired, Quiet, Positions, Stage
<1>3. CASE NextEvent
  <2>1. ~preceded /\ ~preceded' /\ UNCHANGED <<told, events, fills, queued>>
    BY <1>3 DEF NextEvent, FillsInv
  <2>2. QED BY <2>1 DEF FillsInv, Paired, Quiet, Positions
<1>4. CASE OnTimeEvent \/ OnData \/ EndTime \/ EndApply \/ UNCHANGED vars
  BY <1>4, <1>2 DEF OnTimeEvent, OnData, EndTime, EndApply, vars, engine, strategyView
<1>5. CASE EndDispatch
  <2>1. events = <<>> /\ UNCHANGED <<told, events, preceded, fills, queued>>
    BY <1>5 DEF EndDispatch, engine, strategyView
  <2>2. ~preceded
    BY <2>1 DEF FillsInv
  <2>3. QED BY <2>1, <2>2 DEF FillsInv, Paired, Quiet, Positions
<1>6. CASE DispatchEvent
  <2> DEFINE event == Head(events)
             rest == Tail(events)
  <2>1. /\ Stage = "dispatch" /\ events # <<>> /\ UNCHANGED <<fills, queued, agenda>>
        /\ events' = rest /\ preceded' = PrecededAfter(event.kind)
        /\ told' = IF event.kind = "Filled" \/ (event.kind \in PositionKinds /\ ~preceded)
                   THEN told + 1 ELSE told
    BY <1>6 DEF DispatchEvent, engine, PositionKinds
  <2>2. /\ event \in NoticeType /\ event = events[1] /\ 1 \in DOMAIN events
        /\ rest \in Seq(NoticeType) /\ events = <<event>> \o rest
    BY <1>1, <2>1
  <2>3. \A k \in DOMAIN rest : k + 1 \in DOMAIN events /\ rest[k] = events[k + 1]
    BY <1>1, <2>1, HeadTailProperties
  <2>4. \A k \in DOMAIN events : k # 1 => k - 1 \in DOMAIN rest /\ rest[k - 1] = events[k]
    BY <1>1, <2>1
  <2>5. Cardinality(Positions(events))
          = (IF event.kind \in PositionKinds THEN 1 ELSE 0) + Cardinality(Positions(rest))
    <3> HIDE DEF event, rest
    <3>1. <<event>> \in Seq(NoticeType)
      BY <2>2
    <3>2. Cardinality(Positions(<<event>> \o rest))
            = Cardinality(Positions(<<event>>)) + Cardinality(Positions(rest))
      BY <2>2, <3>1, PositionsAddUp
    <3>3. QED BY <2>2, <3>2, OneNotice
  <2>6. Cardinality(Positions(rest)) \in Nat
    BY <2>2, PositionsAreFinite
  <2> HIDE DEF event, rest
  <2>7. Paired(rest)
    <3>1. SUFFICES ASSUME NEW k \in DOMAIN rest, rest[k].kind = "Filled"
                   PROVE  k + 1 \in DOMAIN rest /\ rest[k + 1].kind \in PositionKinds
      BY DEF Paired
    <3>2. (k + 1) + 1 \in DOMAIN events /\ events[(k + 1) + 1].kind \in PositionKinds
      BY <2>3, <3>1 DEF FillsInv, Paired
    <3>3. k \in Nat /\ (k + 1) + 1 # 1 /\ ((k + 1) + 1) - 1 = k + 1
      BY <2>2, <3>1
    <3>4. QED BY <2>4, <3>2, <3>3
  <2>8. event.kind = "Filled" => 1 \in DOMAIN rest /\ rest[1].kind \in PositionKinds
    <3>1. SUFFICES ASSUME event.kind = "Filled" PROVE 1 \in DOMAIN rest /\ rest[1].kind \in PositionKinds
      OBVIOUS
    <3>2. 1 + 1 \in DOMAIN events /\ events[1 + 1].kind \in PositionKinds
      BY <2>2, <3>1 DEF FillsInv, Paired
    <3>3. 1 + 1 # 1 /\ (1 + 1) - 1 = 1
      OBVIOUS
    <3>4. QED BY <2>4, <3>2, <3>3
  <2>9. preceded => event.kind \in PositionKinds
    BY <2>2 DEF FillsInv
  <2>10. preceded' <=> event.kind = "Filled"
    BY <2>1, <2>9 DEF PrecededAfter, PositionKinds
  <2>11. told' + Cardinality(Positions(rest)) - (IF preceded' THEN 1 ELSE 0) = fills
    <3>1. told + Cardinality(Positions(events)) - (IF preceded THEN 1 ELSE 0) = fills
      BY DEF FillsInv
    <3>2. CASE event.kind \in PositionKinds
      <4>1. ~preceded' /\ told' = IF preceded THEN told ELSE told + 1
        BY <2>1, <2>10, <3>2 DEF PositionKinds
      <4>2. Cardinality(Positions(events)) = 1 + Cardinality(Positions(rest))
        BY <2>5, <3>2
      <4>3. CASE preceded
        BY <1>1, <2>6, <3>1, <4>1, <4>2, <4>3
      <4>4. CASE ~preceded
        BY <1>1, <2>6, <3>1, <4>1, <4>2, <4>4
      <4>5. QED BY <4>3, <4>4
    <3>3. CASE event.kind \notin PositionKinds
      <4>1. ~preceded /\ told' = IF preceded' THEN told + 1 ELSE told
        BY <2>1, <2>9, <2>10, <3>3
      <4>2. QED BY <1>1, <2>5, <2>6, <2>10, <3>1, <3>3, <4>1
    <3>4. QED BY <3>2, <3>3
  <2>12. preceded' => events' # <<>> /\ events'[1].kind \in PositionKinds
    BY <2>1, <2>2, <2>8, <2>10
  <2>13. \A s \in Symbols : Quiet(queued[s])'
    BY <2>1 DEF FillsInv, Quiet
  <2>14. Stage' = "dispatch"
    BY <2>1 DEF Stage
  <2>15. QED BY <2>1, <2>7, <2>11, <2>12, <2>13, <2>14 DEF FillsInv
<1>7. CASE ApplyCommand
  <2> DEFINE cmd == Head(commands)
  <2>1. cmd \in CommandType /\ Stage = "apply" /\ UNCHANGED <<agenda, told, preceded, events, fills>>
    BY <1>1, <1>7, HeadTailProperties
    DEF ApplyCommand, CommandTypes, ApplySubmit, ApplyCancel, strategyView
  <2>2. Current.symbol \in Symbols /\ \A c \in DOMAIN idMap : idMap[c] \in Symbols
    BY <1>1, <2>1, CurrentIsTyped, StageNamed DEF EventType, TypeInv, OrderTypes
  <2>3. \A s \in Symbols : Quiet(queued[s])
    BY DEF FillsInv
  <2>4. ASSUME ApplySubmit(cmd) PROVE \A s \in Symbols : Quiet(queued'[s])
    <3> DEFINE n == [kind |-> "Accepted", client |-> cmd.client]
    <3>1. UNCHANGED queued \/ queued' = [queued EXCEPT ![Current.symbol] = Append(@, n)]
      BY <2>4 DEF ApplySubmit, Register
    <3>2. n \in NoticeType /\ n.kind = "Accepted"
      BY <2>1 DEF CommandType, NoticeType, Kinds, OrderKinds
    <3> HIDE DEF n
    <3>3. QED BY <1>1, <2>2, <2>3, <3>1, <3>2, QueuesQuietly
  <2>5. ASSUME ApplyCancel(cmd) PROVE \A s \in Symbols : Quiet(queued'[s])
    <3> DEFINE n == [kind |-> "Canceled", client |-> cmd.client]
               at == idMap[cmd.client]
    <3>1. UNCHANGED queued \/ (at \in Symbols /\ queued' = [queued EXCEPT ![at] = Append(@, n)])
      BY <2>2, <2>5 DEF ApplyCancel
    <3>2. n \in NoticeType /\ n.kind = "Canceled"
      BY <2>1 DEF CommandType, NoticeType, Kinds, OrderKinds
    <3> HIDE DEF n, at
    <3>3. QED BY <1>1, <2>3, <3>1, <3>2, QueuesQuietly
  <2>6. \A s \in Symbols : Quiet(queued[s])'
    BY <1>7, <2>4, <2>5 DEF ApplyCommand, Quiet
  <2>7. QED BY <2>1, <2>6 DEF FillsInv, Paired, Positions, Stage
<1>8. CASE Engine
  <2>1. PICK new : Tells(new)
    BY <1>8, EngineTells
  <2>2. Stage = "step" /\ UNCHANGED <<told, preceded, queued, agenda>>
    BY <1>1, <1>8, EngineRuns DEF StepUnchanged, strategyView
  <2>3. ~preceded
    BY <2>2 DEF FillsInv
  <2>4. /\ Cardinality(Positions(events')) = Cardinality(Positions(events)) + Cardinality(Positions(new))
        /\ Paired(events')
    BY <1>1, <2>1, PositionsAddUp, PairedAddUp DEF FillsInv, Tells
  <2>5. fills' = fills + Cardinality(Positions(new)) /\ Cardinality(Positions(new)) \in Nat
    BY <2>1, PositionsAreFinite DEF Tells
  <2>6. told + Cardinality(Positions(events)) = fills
    BY <1>1, <2>3 DEF FillsInv
  <2>7. told' + Cardinality(Positions(events')) = fills'
    BY <1>1, <2>2, <2>4, <2>5, <2>6
  <2>8. told' + Cardinality(Positions(events')) \in Int
    BY <1>1, <2>2, <2>4, <2>5
  <2>9. told' + Cardinality(Positions(events')) - (IF preceded' THEN 1 ELSE 0) = fills'
    <3>1. ~preceded'
      BY <2>2, <2>3, Zenon
    <3>2. /\ told' \in Int /\ fills' \in Int /\ Cardinality(Positions(events')) \in Int
          /\ told' + Cardinality(Positions(events')) = fills'
      BY <1>1, <2>2, <2>4, <2>5, <2>7
    <3>3. told' + Cardinality(Positions(events')) - 0 = fills'
      BY <3>2
    <3>4. QED BY <3>1, <3>3
  <2>10. QED BY <2>2, <2>3, <2>4, <2>9 DEF FillsInv, Quiet, Stage
<1>9. CASE EndStep
  <2> DEFINE q == queued[Current.symbol]
  <2>1. /\ Stage = "step" /\ events' = q \o events /\ UNCHANGED <<told, preceded, fills>>
        /\ queued' = [queued EXCEPT ![Current.symbol] = <<>>]
    BY <1>9 DEF EndStep, strategyView
  <2>2. Current.symbol \in Symbols /\ ~preceded
    BY <1>1, <2>1, CurrentIsTyped, StageNamed DEF EventType, FillsInv
  <2>3. q \in Seq(NoticeType) /\ Quiet(q)
    BY <1>1, <2>2 DEF FillsInv
  <2> HIDE DEF q
  <2>4. /\ Cardinality(Positions(events')) = 0 + Cardinality(Positions(events))
        /\ Paired(events')
    BY <1>1, <2>1, <2>3, QuietHasNone, PositionsAddUp, PairedAddUp DEF FillsInv
  <2>5. \A s \in Symbols : Quiet(queued'[s])
    BY <1>1, <2>1, <2>2 DEF FillsInv, Quiet
  <2>6. told' + Cardinality(Positions(events')) - (IF preceded' THEN 1 ELSE 0) = fills'
    BY <1>1, <2>1, <2>4 DEF FillsInv
  <2>7. QED BY <2>1, <2>2, <2>4, <2>5, <2>6 DEF FillsInv, Quiet
<1>10. QED BY <1>3, <1>4, <1>5, <1>6, <1>7, <1>8, <1>9, StepsByKind DEF Handling, Ending

\* Every fill of the engine is told to the strategy once, whether an order, an
\* intent or a stop made it, however many events a step leaves to dispatch.
THEOREM FillsAreTold == Spec => []FillsToldOnce
<1>1. Init => FillsInv
  <2>1. Init => events = <<>> /\ told = 0 /\ fills = 0 /\ preceded = FALSE
                 /\ queued = [s \in Symbols |-> <<>>]
    BY DEF Init
  <2>2. Quiet(<<>>)
    BY DEF Quiet
  <2>3. Cardinality(Positions(<<>>)) = 0 /\ Paired(<<>>)
    BY <2>2, QuietHasNone
  <2>4. QED BY <2>1, <2>2, <2>3 DEF FillsInv
<1>2. TypeInv /\ FillsInv /\ [Next]_vars => FillsInv'
  BY StepOfFills
<1>3. TypeInv /\ FillsInv => FillsToldOnce
  <2>1. ASSUME TypeInv, FillsInv, Stage = "idle" PROVE told = fills
    <3>1. events = <<>> /\ ~preceded /\ told \in Nat
      BY <2>1 DEF FillsInv, TypeInv, NoticeTypes, CountTypes
    <3>2. Cardinality(Positions(<<>>)) = 0
      BY QuietHasNone DEF Quiet
    <3>3. QED BY <2>1, <3>1, <3>2 DEF FillsInv
  <2>2. QED BY <2>1 DEF FillsToldOnce
<1>4. QED BY <1>1, <1>2, <1>3, DriverTypes, PTL DEF Spec

-----------------------------------------------------------------------------
(* Clocks *)

FiredType == [name : {"alert", "timer"}, at : Nat, ts : Nat, event : Nat]
Now == IF cursor = 0 THEN 0 ELSE Current.ts

\* Nothing scheduled is in the past, and there is one timer at most.
Ahead(c) ==
  /\ \A t \in c.timer : t.next > c.now
  /\ \A a \in c.alerts : a > c.now
  /\ \A t, u \in c.timer : t = u

InOrder(f, i, j) ==
  /\ f[i].event = f[j].event => f[i].at <= f[j].at
  /\ f[i].name = f[j].name => f[i].at < f[j].at
  /\ f[i].name = "timer" /\ f[j].name = "timer" => f[i].event < f[j].event

Handled(f, now, event) ==
  /\ \A i \in DOMAIN f : f[i].at <= f[i].ts /\ f[i].ts <= now /\ f[i].event <= event
  /\ \A i, j \in DOMAIN f : i < j => InOrder(f, i, j)

\* What is due comes behind all that was handled, and a timer is due once.
StillDue(pending, f, now, event) ==
  /\ \A d \in pending :
       /\ d.at <= now
       /\ \A i \in DOMAIN f :
            /\ f[i].event = event => f[i].at <= d.at
            /\ f[i].name = d.name => f[i].at < d.at
            /\ f[i].name = "timer" /\ d.name = "timer" => f[i].event < event
  /\ \A d, e \in pending : d.name = "timer" /\ e.name = "timer" => d = e

ClockInv ==
  /\ fired \in [Symbols -> Seq(FiredType)]
  /\ \A s \in Symbols :
       clocks[s].now <= Now /\ Ahead(clocks[s]) /\ Handled(fired[s], clocks[s].now, cursor)
  /\ due # {} => /\ clocks[Current.symbol].now = Current.ts
                  /\ StillDue(due, fired[Current.symbol], Current.ts, cursor)

LEMMA AdvancedIsAhead ==
  ASSUME NEW c \in ClockType, NEW ts \in Nat, Ahead(c)
  PROVE  Ahead(Advanced(c, ts))
<1>1. Advanced(c, ts).now = ts /\ Advanced(c, ts).alerts = {a \in c.alerts : a > ts}
  BY DEF Advanced
<1>2. ASSUME NEW t \in Advanced(c, ts).timer, NEW u \in Advanced(c, ts).timer PROVE t = u
  BY AdvancedTimer DEF Ahead
<1>3. \A t \in Advanced(c, ts).timer : t.next > ts
  BY AdvancedTimer
<1>4. QED BY <1>1, <1>2, <1>3 DEF Ahead

\* What an advance makes due lies between the clock's old time and its new one.
LEMMA DueIsBetween ==
  ASSUME NEW c \in ClockType, NEW ts \in Nat, Ahead(c)
  PROVE  /\ \A d \in DueAlerts(c, ts) \cup DueTimers(c, ts) : c.now < d.at /\ d.at <= ts
         /\ \A d, e \in DueAlerts(c, ts) \cup DueTimers(c, ts) :
              d.name = "timer" /\ e.name = "timer" => d = e
<1>1. \A d \in DueAlerts(c, ts) : c.now < d.at /\ d.at <= ts /\ d.name = "alert"
  BY DEF DueAlerts, Ahead, ClockType
<1>2. \A d \in DueTimers(c, ts) : c.now < d.at /\ d.at <= ts
  BY DEF DueTimers, Ahead, ClockType, TimerType
<1>3. \A d, e \in DueTimers(c, ts) : d = e
  BY DEF DueTimers, Ahead
<1>4. QED BY <1>1, <1>2, <1>3

LEMMA StepOfClock ==
  ASSUME TypeInv, ClockInv, [Next]_vars
  PROVE  ClockInv'
<1>1. /\ clocks \in [Symbols -> ClockType] /\ due \subseteq TimeEventType
      /\ AgendaOK /\ ScheduleTypes /\ (due # {} => Stage = "time") /\ cursor \in Nat
  BY DEF TypeInv, ClockTypes, ScheduleTypes
<1>2. ASSUME UNCHANGED <<run, cursor, clocks, due, fired>> PROVE ClockInv'
  BY <1>2 DEF ClockInv, Now, Current, Tape, Ahead, Handled, InOrder, StillDue
<1>3. CASE EndTime \/ ApplyCommand \/ EndApply \/ Engine \/ EndStep \/ EndDispatch \/ UNCHANGED vars
  BY <1>1, <1>2, <1>3, EngineRuns
  DEF EndTime, ApplyCommand, EndApply, StepUnchanged, EndStep, EndDispatch, vars
<1>4. ASSUME Handler, agenda # <<>>
      PROVE  /\ clocks' \in [Symbols -> ClockType]
             /\ \A s \in Symbols : clocks'[s].now = clocks[s].now /\ Ahead(clocks'[s])
  <2>1. CASE UNCHANGED clocks
    BY <1>1, <2>1 DEF ClockInv, Ahead
  <2>2. ASSUME NEW c \in ClockType, clocks' = [clocks EXCEPT ![Current.symbol] = c],
               c.now = clocks[Current.symbol].now,
               \A a \in c.alerts : a \in clocks[Current.symbol].alerts \/ a > c.now,
               \/ c.timer = clocks[Current.symbol].timer
               \/ \E t \in TimerType : t.next > c.now /\ c.timer = {t}
        PROVE  /\ clocks' \in [Symbols -> ClockType]
               /\ \A s \in Symbols : clocks'[s].now = clocks[s].now /\ Ahead(clocks'[s])
    <3>1. Current.symbol \in Symbols
      BY <1>1, <1>4, CurrentIsTyped DEF EventType
    <3>2. Ahead(c)
      BY <2>2, <3>1 DEF Ahead, ClockInv
    <3>3. QED BY <1>1, <2>2, <3>1, <3>2 DEF ClockInv, Ahead
  <2>3. QED BY <1>4, <2>1, <2>2, HandlerSetsClock
<1>5. CASE OnData \/ DispatchEvent
  <2>1. Handler /\ agenda # <<>> /\ UNCHANGED <<run, cursor, due, fired>> /\ due = {}
    BY <1>1, <1>5, HandlingRuns DEF Handling, OnData, DispatchEvent
  <2>2. \A s \in Symbols : clocks'[s].now = clocks[s].now /\ Ahead(clocks'[s])
    BY <1>4, <2>1
  <2>3. Now' = Now
    BY <2>1 DEF Now, Current, Tape
  <2>4. \A s \in Symbols : (clocks[s].now <= Now /\ Ahead(clocks[s]) /\ Handled(fired[s], clocks[s].now, cursor))'
    BY <2>1, <2>2, <2>3 DEF ClockInv, Handled, InOrder, Ahead
  <2>5. QED BY <2>1, <2>4 DEF ClockInv
<1>6. CASE OnTimeEvent
  <2>1. /\ Handler /\ agenda # <<>> /\ UNCHANGED <<run, cursor, Current>>
        /\ Current \in EventType /\ cursor # 0
    BY <1>1, <1>6, HandlingRuns, CurrentIsTyped DEF Handling, Current, Tape, ScheduleTypes
  <2>2. \A s \in Symbols : clocks'[s].now = clocks[s].now /\ Ahead(clocks'[s])
    BY <1>4, <2>1
  <2> DEFINE s0 == Current.symbol
             f == fired[s0]
  <2>3. PICK t \in due :
          /\ \A u \in due \ {t} : InScheduledOrder(t, u)
          /\ due' = due \ {t}
          /\ fired' = [fired EXCEPT ![s0] =
                Append(@, [name |-> t.name, at |-> t.at, ts |-> Current.ts, event |-> cursor])]
    BY <1>6 DEF OnTimeEvent
  <2> DEFINE e == [name |-> t.name, at |-> t.at, ts |-> Current.ts, event |-> cursor]
             g == Append(f, e)
  <2>4. s0 \in Symbols /\ t \in TimeEventType /\ e \in FiredType /\ f \in Seq(FiredType)
    BY <1>1, <2>1 DEF EventType, TimeEventType, FiredType, ClockInv
  <2>5. /\ e.name = t.name /\ e.at = t.at /\ e.ts = Current.ts /\ e.event = cursor
        /\ Current.ts \in Nat /\ t.at \in Nat
    BY <2>1, <2>4 DEF EventType, TimeEventType
  <2>6. clocks[s0].now = Current.ts /\ StillDue(due, f, Current.ts, cursor)
    BY <2>3 DEF ClockInv
  <2>7. Handled(f, Current.ts, cursor)
    BY <2>4, <2>6 DEF ClockInv
  <2> HIDE DEF e, f
  <2>8. /\ g \in Seq(FiredType) /\ DOMAIN f = 1..Len(f) /\ Len(f) \in Nat
        /\ DOMAIN g = 1..(Len(f) + 1) /\ g[Len(f) + 1] = e
        /\ \A i \in DOMAIN f : g[i] = f[i]
    BY <2>4
  <2> HIDE DEF g
  <2>9. Handled(g, Current.ts, cursor)
    <3>1. ASSUME NEW i \in DOMAIN g
          PROVE  g[i].at <= g[i].ts /\ g[i].ts <= Current.ts /\ g[i].event <= cursor
      <4>1. CASE i \in DOMAIN f
        BY <2>7, <2>8, <4>1 DEF Handled
      <4>2. CASE i = Len(f) + 1
        BY <1>1, <2>3, <2>5, <2>6, <2>8, <4>2 DEF StillDue
      <4>3. QED BY <2>8, <4>1, <4>2
    <3>2. ASSUME NEW i \in DOMAIN g, NEW j \in DOMAIN g, i < j
          PROVE  InOrder(g, i, j)
      <4>1. CASE j \in DOMAIN f
        <5>1. i \in DOMAIN f
          BY <2>8, <3>2, <4>1
        <5>2. QED BY <2>7, <2>8, <3>2, <4>1, <5>1 DEF Handled, InOrder
      <4>2. CASE j = Len(f) + 1
        <5>1. i \in DOMAIN f /\ g[i] = f[i] /\ g[j] = e
          BY <2>8, <3>2, <4>2
        <5>2. QED BY <2>3, <2>5, <2>6, <5>1 DEF StillDue, InOrder
      <4>3. QED BY <2>8, <4>1, <4>2
    <3>3. QED BY <3>1, <3>2 DEF Handled
  <2>10. ASSUME NEW u \in due \ {t}
         PROVE  /\ u.at <= Current.ts
                /\ \A i \in DOMAIN g :
                     /\ g[i].event = cursor => g[i].at <= u.at
                     /\ g[i].name = u.name => g[i].at < u.at
                     /\ g[i].name = "timer" /\ u.name = "timer" => g[i].event < cursor
    <3>1. u.at <= Current.ts /\ u.at \in Nat /\ InScheduledOrder(t, u)
          /\ (t.name = "timer" /\ u.name = "timer" => FALSE)
      BY <1>1, <2>3, <2>6 DEF StillDue, TimeEventType
    <3>2. ASSUME NEW i \in DOMAIN g
          PROVE  /\ g[i].event = cursor => g[i].at <= u.at
                 /\ g[i].name = u.name => g[i].at < u.at
                 /\ g[i].name = "timer" /\ u.name = "timer" => g[i].event < cursor
      <4>1. CASE i \in DOMAIN f
        BY <2>6, <2>8, <4>1 DEF StillDue
      <4>2. CASE i = Len(f) + 1
        BY <2>5, <2>8, <3>1, <4>2 DEF InScheduledOrder
      <4>3. QED BY <2>8, <4>1, <4>2
    <3>3. QED BY <3>1, <3>2
  <2>11. \A d, u \in due \ {t} : d.name = "timer" /\ u.name = "timer" => d = u
    BY <2>6 DEF StillDue
  <2>12. fired' = [fired EXCEPT ![s0] = g]
    BY <2>3 DEF g, e, f
  <2>13. fired' \in [Symbols -> Seq(FiredType)] /\ fired'[s0] = g
         /\ \A s \in Symbols : s # s0 => fired'[s] = fired[s]
    BY <2>4, <2>8, <2>12 DEF ClockInv
  <2>14. Now' = Now /\ clocks[s0].now = Current.ts /\ clocks'[s0].now = Current.ts
    BY <2>1, <2>2, <2>4, <2>6 DEF Now
  <2>15. StillDue(due \ {t}, g, Current.ts, cursor)
    BY <2>10, <2>11 DEF StillDue
  <2>16. ASSUME NEW s \in Symbols
         PROVE  (clocks[s].now <= Now /\ Ahead(clocks[s]) /\ Handled(fired[s], clocks[s].now, cursor))'
    <3>1. clocks'[s].now <= Now' /\ Ahead(clocks'[s])
      BY <2>2, <2>14 DEF ClockInv
    <3>2. CASE s = s0
      BY <2>1, <2>9, <2>13, <2>14, <3>1, <3>2 DEF Handled, InOrder, Ahead
    <3>3. CASE s # s0
      BY <2>1, <2>2, <2>13, <3>1, <3>3 DEF ClockInv, Handled, InOrder, Ahead
    <3>4. QED BY <3>2, <3>3
  <2>17. /\ clocks'[Current'.symbol].now = Current'.ts
         /\ StillDue(due', fired'[Current'.symbol], Current'.ts, cursor')
    BY <2>1, <2>3, <2>13, <2>14, <2>15
  <2>18. QED BY <2>13, <2>16, <2>17 DEF ClockInv
<1>7. CASE NextEvent
  <2> DEFINE e == Tape[cursor + 1]
             s0 == e.symbol
             c == clocks[s0]
  <2>1. /\ e \in EventType /\ cursor' = cursor + 1 /\ Current' = e /\ UNCHANGED <<run, fired>>
        /\ due' = DueAlerts(c, e.ts) \cup DueTimers(c, e.ts)
        /\ clocks' = [clocks EXCEPT ![s0] = Advanced(c, e.ts)]
    BY <1>1, <1>7, CurrentIsTyped DEF NextEvent, Current, Tape
  <2>2. s0 \in Symbols /\ e.ts \in Nat /\ c \in ClockType /\ Ahead(c) /\ Handled(fired[s0], c.now, cursor)
    BY <1>1, <2>1 DEF EventType, ClockInv
  <2>3. Now' = e.ts /\ Now \in Nat /\ Now <= e.ts
    <3>1. Tape \in Seq(EventType) /\ cursor + 1 \in DOMAIN Tape
      BY <1>1, <1>7, CurrentIsTyped DEF NextEvent, ScheduleTypes
    <3>2. cursor # 0 => cursor \in DOMAIN Tape /\ Current \in EventType
      BY <1>1, <3>1 DEF ScheduleTypes, Current
    <3>3. cursor # 0 => Current.ts <= e.ts
      BY <1>1, <3>1, <3>2, RunsAssumption DEF ScheduleTypes, Current, Tape
    <3>4. QED BY <1>1, <2>1, <2>2, <3>2, <3>3 DEF Now, EventType
  <2> HIDE DEF e
  <2>4. /\ clocks'[s0] = Advanced(c, e.ts) /\ \A s \in Symbols : s # s0 => clocks'[s] = clocks[s]
        /\ Advanced(c, e.ts).now = e.ts /\ Ahead(Advanced(c, e.ts))
    BY <1>1, <2>1, <2>2, AdvancedIsAhead DEF Advanced
  <2>5. c.now \in Nat /\ c.now <= e.ts
    BY <2>2, <2>3 DEF ClockInv, ClockType
  <2>6. ASSUME NEW s \in Symbols
        PROVE  (clocks[s].now <= Now /\ Ahead(clocks[s]) /\ Handled(fired[s], clocks[s].now, cursor))'
    <3>1. /\ clocks[s].now \in Nat /\ clocks[s].now <= clocks'[s].now /\ clocks'[s].now \in Nat
          /\ clocks'[s].now <= e.ts
      <4>1. clocks[s].now \in Nat /\ clocks[s].now <= Now
        BY <1>1 DEF ClockInv, ClockType
      <4>2. clocks'[s].now = IF s = s0 THEN e.ts ELSE clocks[s].now
        BY <2>4
      <4>3. QED BY <2>2, <2>3, <2>5, <4>1, <4>2
    <3>2. Ahead(clocks'[s])
      BY <2>4 DEF ClockInv
    <3>3. Handled(fired[s], clocks[s].now, cursor) /\ fired[s] \in Seq(FiredType)
      BY DEF ClockInv
    <3>4. \A i \in DOMAIN fired[s] : fired[s][i].ts \in Nat /\ fired[s][i].event \in Nat
      <4>1. \A i \in DOMAIN fired[s] : fired[s][i] \in FiredType
        BY <3>3
      <4>2. QED BY <4>1 DEF FiredType
    <3>5. \A i \in DOMAIN fired[s] : /\ fired[s][i].at <= fired[s][i].ts
                                     /\ fired[s][i].ts <= clocks'[s].now
                                     /\ fired[s][i].event <= cursor'
      BY <1>1, <2>1, <3>1, <3>3, <3>4 DEF Handled
    <3>6. QED BY <2>1, <2>3, <3>1, <3>2, <3>3, <3>5 DEF Handled, InOrder, Ahead
  <2>7. StillDue(due', fired[s0], e.ts, cursor')
    <3>1. fired[s0] \in Seq(FiredType)
      BY <2>2 DEF ClockInv
    <3>2. \A i \in DOMAIN fired[s0] :
            /\ fired[s0][i].at \in Nat /\ fired[s0][i].event \in Nat
            /\ fired[s0][i].at <= c.now /\ fired[s0][i].event < cursor'
      <4>1. \A i \in DOMAIN fired[s0] : fired[s0][i] \in FiredType
        BY <3>1
      <4>2. QED BY <1>1, <2>1, <2>2, <2>5, <4>1 DEF Handled, FiredType
    <3>3. /\ \A d \in due' : c.now < d.at /\ d.at <= e.ts /\ d.at \in Nat
          /\ \A d, u \in due' : d.name = "timer" /\ u.name = "timer" => d = u
      BY <2>1, <2>2, DueIsBetween, AdvancedIsTyped DEF TimeEventType
    <3>4. \A d \in due', i \in DOMAIN fired[s0] :
            fired[s0][i].at < d.at /\ fired[s0][i].event # cursor'
      <4>1. TAKE d \in due', i \in DOMAIN fired[s0]
      <4>2. fired[s0][i].at <= c.now /\ c.now < d.at /\ fired[s0][i].event < cursor'
        BY <3>2, <3>3
      <4>3. QED BY <1>1, <2>1, <2>5, <3>2, <3>3, <4>2
    <3>5. QED BY <3>2, <3>3, <3>4 DEF StillDue
  <2>8. /\ clocks'[Current'.symbol].now = Current'.ts
        /\ StillDue(due', fired'[Current'.symbol], Current'.ts, cursor')
    BY <2>1, <2>4, <2>7
  <2>9. fired' \in [Symbols -> Seq(FiredType)]
    BY <2>1 DEF ClockInv
  <2>10. QED BY <2>6, <2>8, <2>9 DEF ClockInv
<1>8. QED BY <1>3, <1>5, <1>6, <1>7, StepsByKind DEF Handling, Ending

\* Scheduled points are handled in order and never early, a timer once per event
\* whatever the gap, each point once; and what is still scheduled lies ahead.
THEOREM ClocksKeepTime == Spec => []ClockKeepsTime
<1>1. Init => ClockInv
  <2>1. ASSUME Init PROVE ClockInv
    <3>1. PICK started \in SUBSET run.started :
            /\ \A t, u \in started : t = u
            /\ clocks = [s \in Symbols |-> [now |-> 0, alerts |-> {}, timer |-> started]]
      BY <2>1 DEF Init
    <3>2. \A t \in started : t.next \in Nat /\ t.next > 0
      BY <2>1, RunsAssumption DEF Init
    <3>3. Ahead([now |-> 0, alerts |-> {}, timer |-> started])
      BY <3>1, <3>2 DEF Ahead
    <3>4. cursor = 0 /\ due = {} /\ fired = [s \in Symbols |-> <<>>]
      BY <2>1 DEF Init
    <3>5. Handled(<<>>, 0, 0)
      BY DEF Handled
    <3>6. QED BY <3>1, <3>3, <3>4, <3>5 DEF ClockInv, Now
  <2>2. QED BY <2>1
<1>2. TypeInv /\ ClockInv /\ [Next]_vars => ClockInv'
  BY StepOfClock
<1>3. ClockInv => ClockKeepsTime
  BY DEF ClockInv, ClockKeepsTime, Ahead, Handled, InOrder
<1>4. QED BY <1>1, <1>2, <1>3, DriverTypes, PTL DEF Spec

-----------------------------------------------------------------------------
(* Client ids *)

\* The ids given out are the first ones; an order still queued has one that no
\* order of the engine and no other queued order has.
ClientsInv ==
  /\ DOMAIN idMap \cup SubmitsQueued = 0..(NewClient - 1)
  /\ \A k \in DOMAIN commands :
       commands[k].op = "submit" =>
         /\ commands[k].client \notin DOMAIN idMap
         /\ \A l \in DOMAIN commands :
              commands[l].op = "submit" /\ commands[l].client = commands[k].client => l = k

LEMMA NextClient ==
  ASSUME NEW n \in Nat, (DOMAIN idMap \cup SubmitsQueued)' = 0..(n - 1)
  PROVE  (DOMAIN idMap \cup SubmitsQueued = 0..(NewClient - 1))' /\ NewClient' = n
<1>1. Cardinality(0..(n - 1)) = n
  BY FS_Interval
<1>2. NewClient' = n
  BY <1>1 DEF NewClient
<1>3. QED BY <1>2

LEMMA StepOfClients ==
  ASSUME TypeInv, ClientsInv, [Next]_vars
  PROVE  ClientsInv'
<1>1. /\ AgendaOK /\ commands \in Seq(CommandType) /\ NewClient \in Nat
      /\ commands' \in Seq(CommandType)
  BY NewClientIsTyped, StepOfCommands DEF TypeInv, CommandTypes
<1>2. ASSUME UNCHANGED <<commands, idMap>> PROVE ClientsInv'
  BY <1>2 DEF ClientsInv, NewClient, SubmitsQueued
<1>3. CASE NextEvent \/ Engine \/ Ending \/ UNCHANGED vars
  BY <1>1, <1>2, <1>3, EngineRuns, EndingRuns DEF NextEvent, StepUnchanged, queues, vars
<1>4. CASE Handling
  <2>1. PICK new : Queues(new)
    BY <1>1, <1>4, HandlingRuns, HandlerQueues DEF TypeInv
  <2>2. UNCHANGED idMap
    BY <1>1, <1>4, HandlingRuns
  <2>3. /\ DOMAIN commands = 1..Len(commands) /\ DOMAIN new = 1..Len(new)
        /\ Len(commands) \in Nat /\ Len(new) \in Nat
        /\ DOMAIN commands' = 1..(Len(commands) + Len(new))
        /\ \A k \in 1..Len(commands) : commands'[k] = commands[k]
        /\ \A k \in 1..Len(new) : commands'[Len(commands) + k] = new[k]
    BY <1>1, <2>1 DEF Queues
  <2>4. \A k \in DOMAIN commands' : k \notin DOMAIN commands =>
          k - Len(commands) \in DOMAIN new /\ commands'[k] = new[k - Len(commands)]
    BY <2>3
  <2>5. \A k \in DOMAIN commands : commands[k].op = "submit" => commands[k].client \in 0..(NewClient - 1)
    BY DEF ClientsInv, SubmitsQueued
  <2>6. DOMAIN idMap \subseteq 0..(NewClient - 1)
    BY DEF ClientsInv
  <2>7. CASE \A k \in DOMAIN new : new[k].op # "submit"
    <3>1. \A k \in DOMAIN commands' :
            commands'[k].op = "submit" => k \in DOMAIN commands /\ commands'[k] = commands[k]
      BY <2>3, <2>4, <2>7
    <3>2. SubmitsQueued' = SubmitsQueued
      BY <2>3, <3>1 DEF SubmitsQueued
    <3>3. NewClient' = NewClient
      BY <2>2, <3>2 DEF NewClient
    <3>4. QED BY <2>2, <2>3, <3>1, <3>2, <3>3 DEF ClientsInv
  <2>8. CASE \A k \in DOMAIN new : new[k].op = "submit" /\ new[k].client = NewClient + k - 1
    <3>1. \A k \in DOMAIN commands' :
            \/ k \in DOMAIN commands /\ commands'[k] = commands[k]
            \/ /\ k \notin DOMAIN commands /\ commands'[k].op = "submit"
               /\ commands'[k].client = NewClient + (k - Len(commands)) - 1
      BY <2>3, <2>4, <2>8
    <3>2. SubmitsQueued' = SubmitsQueued \cup NewClient..(NewClient + Len(new) - 1)
      <4>1. \A c \in SubmitsQueued' : c \in SubmitsQueued \cup NewClient..(NewClient + Len(new) - 1)
        <5>1. SUFFICES ASSUME NEW k \in DOMAIN commands', commands'[k].op = "submit"
                       PROVE  commands'[k].client \in SubmitsQueued \cup NewClient..(NewClient + Len(new) - 1)
          BY DEF SubmitsQueued
        <5>2. CASE k \in DOMAIN commands
          BY <2>3, <5>1, <5>2 DEF SubmitsQueued
        <5>3. CASE k \notin DOMAIN commands
          BY <1>1, <2>3, <3>1, <5>3
        <5>4. QED BY <5>2, <5>3
      <4>2. \A c \in SubmitsQueued : c \in SubmitsQueued'
        BY <2>3 DEF SubmitsQueued
      <4>3. ASSUME NEW c \in NewClient..(NewClient + Len(new) - 1) PROVE c \in SubmitsQueued'
        <5> DEFINE j == c - NewClient + 1
        <5>1. j \in 1..Len(new) /\ NewClient + j - 1 = c
          BY <1>1, <2>3
        <5>2. new[j].op = "submit" /\ new[j].client = c
          BY <2>3, <2>8, <5>1
        <5>3. Len(commands) + j \in DOMAIN commands' /\ commands'[Len(commands) + j] = new[j]
          BY <2>3, <5>1
        <5> HIDE DEF j
        <5>4. QED BY <5>2, <5>3 DEF SubmitsQueued
      <4>4. QED BY <4>1, <4>2, <4>3
    <3>3. (DOMAIN idMap \cup SubmitsQueued)' = 0..((NewClient + Len(new)) - 1)
      BY <1>1, <2>2, <2>3, <3>2 DEF ClientsInv
    <3> DEFINE n == NewClient + Len(new)
    <3>4. (DOMAIN idMap \cup SubmitsQueued = 0..(NewClient - 1))'
      <4>1. n \in Nat /\ (DOMAIN idMap \cup SubmitsQueued)' = 0..(n - 1)
        BY <1>1, <2>3, <3>3
      <4> HIDE DEF n
      <4>2. QED BY <4>1, NextClient
    <3>5. ASSUME NEW k \in DOMAIN commands', commands'[k].op = "submit"
          PROVE  /\ commands'[k].client \notin DOMAIN idMap'
                 /\ \A l \in DOMAIN commands' :
                      commands'[l].op = "submit" /\ commands'[l].client = commands'[k].client => l = k
      <4>1. \A l \in DOMAIN commands' : commands'[l].op = "submit" =>
              \/ /\ l \in DOMAIN commands /\ commands'[l] = commands[l]
                 /\ commands'[l].client \in 0..(NewClient - 1)
              \/ /\ l \notin DOMAIN commands /\ commands'[l].client >= NewClient
                 /\ commands'[l].client = NewClient + (l - Len(commands)) - 1
        BY <1>1, <2>3, <2>5, <3>1
      <4>2. CASE k \in DOMAIN commands
        BY <1>1, <2>2, <2>3, <3>5, <4>1, <4>2 DEF ClientsInv
      <4>3. CASE k \notin DOMAIN commands
        BY <1>1, <2>2, <2>3, <2>6, <3>5, <4>1, <4>3
      <4>4. QED BY <4>2, <4>3
    <3>6. QED BY <3>4, <3>5 DEF ClientsInv
  <2>9. QED BY <2>1, <2>7, <2>8 DEF Queues
<1>5. CASE ApplyCommand
  <2> DEFINE cmd == Head(commands)
  <2>1. /\ commands # <<>> /\ commands' = Tail(commands) /\ cmd = commands[1]
        /\ 1 \in DOMAIN commands
    BY <1>1, <1>5 DEF ApplyCommand
  <2>2. \A k \in DOMAIN commands' : k + 1 \in DOMAIN commands /\ commands'[k] = commands[k + 1]
    BY <1>1, <2>1, HeadTailProperties
  <2>3. \A k \in DOMAIN commands : k # 1 => k - 1 \in DOMAIN commands' /\ commands'[k - 1] = commands[k]
    BY <1>1, <2>1, HeadTailProperties
  <2>4. \A k, l \in DOMAIN commands' : k + 1 = l + 1 => k = l
    BY <1>1
  <2>5. \A k \in DOMAIN commands' : k + 1 # 1
    BY <1>1
  <2>6. SubmitsQueued' \subseteq SubmitsQueued
    BY <2>2 DEF SubmitsQueued
  <2>7. \/ DOMAIN idMap' = DOMAIN idMap /\ cmd.op = "cancel"
        \/ DOMAIN idMap' = DOMAIN idMap \cup {cmd.client} /\ cmd.op = "submit"
    <3>1. ApplySubmit(cmd) \/ ApplyCancel(cmd)
      BY <1>5 DEF ApplyCommand
    <3> HIDE DEF cmd
    <3>2. CASE ApplySubmit(cmd)
      BY <3>2 DEF ApplySubmit
    <3>3. CASE ApplyCancel(cmd)
      BY <3>3 DEF ApplyCancel
    <3>4. QED BY <3>1, <3>2, <3>3
  <2>8. ASSUME NEW c \in SubmitsQueued
        PROVE  c \in SubmitsQueued' \/ (cmd.op = "submit" /\ c = cmd.client)
    <3>1. PICK k \in DOMAIN commands : commands[k].op = "submit" /\ commands[k].client = c
      BY <2>8 DEF SubmitsQueued
    <3>2. CASE k = 1
      BY <2>1, <3>1, <3>2
    <3>3. CASE k # 1
      BY <2>3, <3>1, <3>3 DEF SubmitsQueued
    <3>4. QED BY <3>2, <3>3
  <2>9. cmd.op = "submit" => cmd.client \in SubmitsQueued
    BY <2>1 DEF SubmitsQueued
  <2> HIDE DEF cmd
  <2>10. (DOMAIN idMap \cup SubmitsQueued)' = 0..(NewClient - 1)
    BY <2>6, <2>7, <2>8, <2>9 DEF ClientsInv
  <2>11. (DOMAIN idMap \cup SubmitsQueued = 0..(NewClient - 1))'
    BY <1>1, <2>10, NextClient
  <2>12. ASSUME NEW k \in DOMAIN commands', commands'[k].op = "submit"
         PROVE  /\ commands'[k].client \notin DOMAIN idMap'
                /\ \A l \in DOMAIN commands' :
                     commands'[l].op = "submit" /\ commands'[l].client = commands'[k].client => l = k
    <3>1. /\ k + 1 \in DOMAIN commands /\ commands'[k] = commands[k + 1]
          /\ commands[k + 1].client \notin DOMAIN idMap /\ k + 1 # 1
      BY <2>2, <2>5, <2>12 DEF ClientsInv
    <3>2. cmd.op = "submit" => cmd.client # commands[k + 1].client
      BY <2>1, <2>12, <3>1 DEF ClientsInv
    <3>3. ASSUME NEW l \in DOMAIN commands', commands'[l].op = "submit",
                 commands'[l].client = commands'[k].client
          PROVE  l = k
      <4>1. l + 1 \in DOMAIN commands /\ commands'[l] = commands[l + 1]
        BY <2>2
      <4>2. l + 1 = k + 1
        BY <2>12, <3>1, <3>3, <4>1 DEF ClientsInv
      <4>3. QED BY <2>4, <4>2
    <3>4. QED BY <2>7, <3>1, <3>2, <3>3
  <2>13. QED BY <2>11, <2>12 DEF ClientsInv
<1>6. QED BY <1>3, <1>4, <1>5, StepsByKind
-----------------------------------------------------------------------------
(* Orders the engine holds *)

\* An order keeps its instrument, its parent and whether it came late.
LEMMA OrdersStay ==
  ASSUME TypeInv, ClientsInv, [Next]_vars
  PROVE  \A c \in DOMAIN orders :
           /\ c \in DOMAIN orders' /\ c \in DOMAIN idMap' /\ idMap'[c] = idMap[c]
           /\ orders'[c].symbol = orders[c].symbol /\ orders'[c].parent = orders[c].parent
           /\ orders'[c].late = orders[c].late
<1>1. /\ DOMAIN orders = DOMAIN idMap /\ AgendaOK /\ commands \in Seq(CommandType)
      /\ \A c \in DOMAIN orders : orders[c] \in OrderType
  BY DEF TypeInv, OrderTypes, CommandTypes
<1>2. ASSUME NEW c \in DOMAIN orders, NEW to \in Statuses
      PROVE  LET o == [orders[c] EXCEPT !.status = to] IN
             o.symbol = orders[c].symbol /\ o.parent = orders[c].parent /\ o.late = orders[c].late
  BY <1>1 DEF OrderType
<1> DEFINE Moved(k, to) == orders'[k] = [orders[k] EXCEPT !.status = to]
           Stays(c) == /\ c \in DOMAIN orders' /\ c \in DOMAIN idMap' /\ idMap'[c] = idMap[c]
                       /\ orders'[c].symbol = orders[c].symbol
                       /\ orders'[c].parent = orders[c].parent
                       /\ orders'[c].late = orders[c].late
<1>3. ASSUME UNCHANGED idMap, NEW c \in DOMAIN orders, c \in DOMAIN orders',
             orders'[c] = orders[c] \/ \E to \in Statuses : Moved(c, to)
      PROVE  Stays(c)
  BY <1>1, <1>2, <1>3
<1>4. ASSUME UNCHANGED idMap, NEW c \in DOMAIN orders, NEW to \in Statuses,
             orders' = [orders EXCEPT ![c].status = to]
      PROVE  \A k \in DOMAIN orders : Stays(k)
  <2>1. \A k \in DOMAIN orders : k \in DOMAIN orders' /\ (orders'[k] = orders[k] \/ Moved(k, to))
    BY <1>4
  <2> HIDE DEF Moved, Stays
  <2>2. QED BY <1>3, <1>4, <2>1
<1>5. CASE NextEvent \/ Handling \/ Ending \/ UNCHANGED vars
  <2>1. UNCHANGED <<idMap, orders>>
    BY <1>1, <1>5, HandlingRuns, EndingRuns DEF NextEvent, vars, engine
  <2>2. QED BY <1>1, <2>1
<1>6. CASE ApplyCommand
  <2> DEFINE cmd == Head(commands)
  <2>1. cmd = commands[1] /\ 1 \in DOMAIN commands
    BY <1>1, <1>6 DEF ApplyCommand
  <2>2. cmd.op = "submit" => cmd.client \notin DOMAIN idMap
    BY <2>1 DEF ClientsInv
  <2>3. ApplySubmit(cmd) \/ ApplyCancel(cmd)
    BY <1>6 DEF ApplyCommand
  <2> HIDE DEF cmd
  <2>4. CASE ApplySubmit(cmd)
    <3>1. \E rests \in BOOLEAN : Register(cmd, rests)
      BY <2>4 DEF ApplySubmit
    <3>2. cmd.client \notin DOMAIN idMap
      BY <2>2, <2>4 DEF ApplySubmit
    <3>3. \A c \in DOMAIN orders : c \in DOMAIN orders' /\ orders'[c] = orders[c]
      BY <1>1, <3>1, <3>2 DEF Register
    <3>4. \A c \in DOMAIN idMap : c \in DOMAIN idMap' /\ idMap'[c] = idMap[c]
      BY <2>4, <3>2 DEF ApplySubmit
    <3>5. QED BY <1>1, <3>3, <3>4
  <2>5. CASE ApplyCancel(cmd)
    <3>1. \/ UNCHANGED <<idMap, orders>>
          \/ /\ UNCHANGED idMap /\ cmd.client \in DOMAIN orders
             /\ orders' = [orders EXCEPT ![cmd.client].status = "Canceled"]
      BY <1>1, <2>5 DEF ApplyCancel
    <3>2. "Canceled" \in Statuses
      BY DEF Statuses, Ended
    <3> HIDE DEF Stays
    <3>3. \A c \in DOMAIN orders : Stays(c)
      BY <1>1, <1>3, <1>4, <3>1, <3>2
    <3>4. QED BY <3>3 DEF Stays
  <2>6. QED BY <2>3, <2>4, <2>5
<1>7. CASE Engine
  <2>1. UNCHANGED idMap
    BY <1>1, <1>7, EngineRuns DEF StepUnchanged
  <2>2. CASE EngineExit \/ EngineEnter
    BY <1>1, <2>1, <2>2 DEF EngineExit, EngineEnter
  <2>3. ASSUME NEW c \in DOMAIN orders, EngineReject(c) \/ EngineOrphan(c)
        PROVE  \E to \in Statuses : orders' = [orders EXCEPT ![c].status = to]
    BY <2>3 DEF EngineReject, EngineOrphan, Statuses, Ended
  <2>4. ASSUME NEW c \in DOMAIN orders, NEW done \in BOOLEAN, EngineFill(c, done)
        PROVE  \A k \in DOMAIN orders : k \in DOMAIN orders' /\
                 (orders'[k] = orders[k] \/ \E to \in Statuses : Moved(k, to))
    <3> DEFINE to == IF orders[c].late THEN orders[c].status
                     ELSE IF done THEN "Filled" ELSE "PartiallyFilled"
    <3>1. to \in Statuses /\ "Accepted" \in Statuses
      BY <1>1 DEF OrderType, Statuses, Ended
    <3>2. \A k \in DOMAIN orders : k \in DOMAIN orders' /\
             \/ orders'[k] = orders[k]
             \/ orders'[k] = [orders[k] EXCEPT !.status = to]
             \/ orders'[k] = [orders[k] EXCEPT !.status = "Accepted"]
      BY <2>4 DEF EngineFill
    <3> HIDE DEF to
    <3>3. QED BY <3>1, <3>2
  <2>5. CASE \E c \in DOMAIN orders : EngineReject(c) \/ EngineOrphan(c)
    <3> HIDE DEF Stays
    <3>1. \A c \in DOMAIN orders : Stays(c)
      BY <1>4, <2>1, <2>3, <2>5
    <3>2. QED BY <3>1 DEF Stays
  <2>6. CASE \E c \in DOMAIN orders, done \in BOOLEAN : EngineFill(c, done)
    <3> HIDE DEF Stays, Moved
    <3>1. \A c \in DOMAIN orders : Stays(c)
      BY <1>3, <2>1, <2>4, <2>6
    <3>2. QED BY <3>1 DEF Stays
  <2>7. QED BY <1>7, <2>2, <2>5, <2>6 DEF Engine
<1>8. QED BY <1>5, <1>6, <1>7, StepsByKind

\* The runner routes cancels where the engine's order is, and a child is on its
\* parent's instrument.
LinkInv ==
  \A c \in DOMAIN orders :
    /\ idMap[c] = orders[c].symbol
    /\ \A p \in orders[c].parent : p \in DOMAIN orders /\ orders[p].symbol = orders[c].symbol

LEMMA StepOfLinks ==
  ASSUME TypeInv, ClientsInv, LinkInv, [Next]_vars
  PROVE  LinkInv'
<1>1. DOMAIN orders = DOMAIN idMap /\ AgendaOK
  BY DEF TypeInv, OrderTypes
<1>2. \A c \in DOMAIN orders : LinkInv!(c)'
  BY OrdersStay DEF LinkInv
<1>3. CASE DOMAIN orders' = DOMAIN orders
  BY <1>2, <1>3 DEF LinkInv
<1>4. CASE ApplyCommand
  <2> DEFINE cmd == Head(commands)
  <2>1. ApplySubmit(cmd) \/ ApplyCancel(cmd)
    BY <1>4 DEF ApplyCommand
  <2> HIDE DEF cmd
  <2>2. CASE ApplySubmit(cmd)
    <3>1. PICK rests \in BOOLEAN : Register(cmd, rests)
      BY <2>2 DEF ApplySubmit
    <3>2. /\ DOMAIN orders' = DOMAIN orders \cup {cmd.client}
          /\ orders'[cmd.client].symbol = Current.symbol
          /\ orders'[cmd.client].parent = cmd.parent
      BY <3>1 DEF Register
    <3>3. idMap'[cmd.client] = Current.symbol
      BY <2>2 DEF ApplySubmit
    <3>4. \A p \in cmd.parent : p \in DOMAIN orders /\ orders'[p].symbol = Current.symbol
                                /\ p \in DOMAIN orders'
      BY <1>1, <2>2, OrdersStay DEF ApplySubmit, Routable, LinkInv
    <3>5. QED BY <1>2, <3>2, <3>3, <3>4 DEF LinkInv
  <2>3. CASE ApplyCancel(cmd)
    BY <1>3, <2>3 DEF ApplyCancel
  <2>4. QED BY <2>1, <2>2, <2>3
<1>5. CASE NextEvent \/ Handling \/ Ending \/ Engine \/ UNCHANGED vars
  BY <1>1, <1>3, <1>5, HandlingRuns, EndingRuns, EngineRuns DEF NextEvent, vars, engine
<1>6. QED BY <1>4, <1>5, StepsByKind

-----------------------------------------------------------------------------
(* Last words *)

\* What a sequence of notices says of an order in the end, if anything.
Silent(s, c) == \A k \in DOMAIN s : s[k].client # c
Says(s, c, kind) ==
  \E k \in DOMAIN s : /\ s[k].client = c /\ s[k].kind = kind
                      /\ \A l \in DOMAIN s : s[l].client = c => l <= k

LEMMA SaysIsNotSilent ==
  ASSUME NEW s, NEW c, NEW kind, Says(s, c, kind)
  PROVE  ~Silent(s, c)
BY DEF Says, Silent

LEMMA OneWord ==
  ASSUME NEW n \in NoticeType, NEW c, NEW kind
  PROVE  /\ Silent(<<n>>, c) <=> n.client # c
         /\ Says(<<n>>, c, kind) <=> n.client = c /\ n.kind = kind
         /\ Silent(<<>>, c)
<1>1. DOMAIN <<n>> = {1} /\ <<n>>[1] = n /\ DOMAIN <<>> = {}
  OBVIOUS
<1>2. QED BY <1>1 DEF Silent, Says

LEMMA JoinedWords ==
  ASSUME NEW s \in Seq(NoticeType), NEW t \in Seq(NoticeType), NEW c, NEW kind
  PROVE  /\ Silent(s \o t, c) <=> Silent(s, c) /\ Silent(t, c)
         /\ Says(s \o t, c, kind) <=> Says(t, c, kind) \/ (Silent(t, c) /\ Says(s, c, kind))
<1> DEFINE u == s \o t
<1>1. /\ DOMAIN s = 1..Len(s) /\ DOMAIN t = 1..Len(t) /\ Len(s) \in Nat /\ Len(t) \in Nat
      /\ DOMAIN u = 1..(Len(s) + Len(t))
      /\ \A k \in 1..Len(s) : u[k] = s[k]
      /\ \A k \in 1..Len(t) : u[Len(s) + k] = t[k]
  OBVIOUS
<1> HIDE DEF u
<1>2. \A k \in DOMAIN s : k \in DOMAIN u /\ u[k] = s[k]
  BY <1>1
<1>3. \A k \in DOMAIN t : Len(s) + k \in DOMAIN u /\ u[Len(s) + k] = t[k]
  BY <1>1
<1>4. \A k \in DOMAIN u : \/ k \in DOMAIN s /\ u[k] = s[k] /\ k <= Len(s)
                          \/ /\ k \notin DOMAIN s /\ k - Len(s) \in DOMAIN t
                             /\ u[k] = t[k - Len(s)] /\ k > Len(s)
  <2> TAKE k \in DOMAIN u
  <2>1. CASE k <= Len(s)
    BY <1>1, <2>1
  <2>2. CASE k > Len(s)
    <3>1. k - Len(s) \in 1..Len(t) /\ Len(s) + (k - Len(s)) = k
      BY <1>1, <2>2
    <3>2. QED BY <1>1, <2>2, <3>1
  <2>3. QED BY <1>1, <2>1, <2>2
<1>5. Silent(u, c) <=> Silent(s, c) /\ Silent(t, c)
  BY <1>2, <1>3, <1>4 DEF Silent
<1>6. ASSUME Says(u, c, kind) PROVE Says(t, c, kind) \/ (Silent(t, c) /\ Says(s, c, kind))
  <2>1. PICK k \in DOMAIN u : /\ u[k].client = c /\ u[k].kind = kind
                              /\ \A l \in DOMAIN u : u[l].client = c => l <= k
    BY <1>6 DEF Says
  <2>2. CASE k \in DOMAIN s
    <3>1. Silent(t, c)
      BY <1>1, <1>3, <2>1, <2>2 DEF Silent
    <3>2. Says(s, c, kind)
      BY <1>2, <2>1, <2>2 DEF Says
    <3>3. QED BY <3>1, <3>2
  <2>3. CASE k \notin DOMAIN s
    <3> DEFINE j == k - Len(s)
    <3>1. j \in DOMAIN t /\ t[j].client = c /\ t[j].kind = kind
      BY <1>4, <2>1, <2>3
    <3>2. ASSUME NEW l \in DOMAIN t, t[l].client = c PROVE l <= j
      <4>1. Len(s) + l <= k
        BY <1>3, <2>1, <3>2
      <4>2. QED BY <1>1, <4>1
    <3> HIDE DEF j
    <3>3. QED BY <3>1, <3>2 DEF Says
  <2>4. QED BY <2>2, <2>3
<1>7. ASSUME Says(t, c, kind) PROVE Says(u, c, kind)
  <2>1. PICK k \in DOMAIN t : /\ t[k].client = c /\ t[k].kind = kind
                              /\ \A l \in DOMAIN t : t[l].client = c => l <= k
    BY <1>7 DEF Says
  <2> DEFINE j == Len(s) + k
  <2>2. j \in DOMAIN u /\ u[j].client = c /\ u[j].kind = kind
    BY <1>3, <2>1
  <2>3. ASSUME NEW l \in DOMAIN u, u[l].client = c PROVE l <= j
    BY <1>1, <1>4, <2>1, <2>3
  <2> HIDE DEF j
  <2>4. QED BY <2>2, <2>3 DEF Says
<1>8. ASSUME Silent(t, c), Says(s, c, kind) PROVE Says(u, c, kind)
  <2>1. PICK k \in DOMAIN s : /\ s[k].client = c /\ s[k].kind = kind
                              /\ \A l \in DOMAIN s : s[l].client = c => l <= k
    BY <1>8 DEF Says
  <2>2. ASSUME NEW l \in DOMAIN u, u[l].client = c PROVE l <= k
    BY <1>4, <1>8, <2>1, <2>2 DEF Silent
  <2>3. QED BY <1>2, <2>1, <2>2 DEF Says
<1>9. QED BY <1>5, <1>6, <1>7, <1>8 DEF u
LEMMA AppendedWord ==
  ASSUME NEW s \in Seq(NoticeType), NEW n \in NoticeType, NEW c, NEW kind
  PROVE  /\ s \o <<n>> \in Seq(NoticeType) /\ Append(s, n) = s \o <<n>>
         /\ Silent(s \o <<n>>, c) <=> Silent(s, c) /\ n.client # c
         /\ Says(s \o <<n>>, c, kind)
              <=> IF n.client = c THEN n.kind = kind ELSE Says(s, c, kind)
<1>1. <<n>> \in Seq(NoticeType) /\ s \o <<n>> \in Seq(NoticeType) /\ Append(s, n) = s \o <<n>>
  OBVIOUS
<1>2. QED BY <1>1, OneWord, JoinedWords

SameWord(s, t, c) ==
  /\ Silent(t, c) <=> Silent(s, c)
  /\ \A kind \in OrderKinds : Says(t, c, kind) <=> Says(s, c, kind)

LEMMA AboutAnother ==
  ASSUME NEW s \in Seq(NoticeType), NEW n \in NoticeType, NEW c, n.client # c
  PROVE  SameWord(s, s \o <<n>>, c)
BY AppendedWord DEF SameWord

LEMMA AcknowledgedWord ==
  ASSUME NEW s \in Seq(NoticeType), NEW c \in Nat
  PROVE  /\ s \o Acknowledgment(c) \in Seq(NoticeType)
         /\ \A k \in Nat : k # c => SameWord(s, s \o Acknowledgment(c), k)
<1> DEFINE n == Notice("Accepted", c)
           a == Acknowledgment(c)
<1>1. n \in NoticeType /\ n.client = c
  BY DEF Notice, NoticeType, Kinds, OrderKinds
<1>2. a = <<>> \/ a = <<n>>
  BY DEF Acknowledgment
<1> HIDE DEF n, a
<1>3. CASE a = <<>>
  <2>1. s \o a = s
    BY <1>3
  <2>2. QED BY <2>1 DEF a, SameWord
<1>4. CASE a = <<n>>
  BY <1>1, <1>4, AppendedWord, AboutAnother DEF a
<1>5. QED BY <1>2, <1>3, <1>4

\* The children an order lets start are each told of once.
LEMMA StartedWords ==
  ASSUME OrderTypes, NEW starts, starts \subseteq DOMAIN orders
  PROVE  LET q == SetToSeq({Notice("Accepted", k) : k \in starts}) IN
         /\ q \in Seq(NoticeType)
         /\ \A k \in Nat : k \notin starts => Silent(q, k)
         /\ \A k \in starts : Says(q, k, "Accepted")
<1> DEFINE notices == {Notice("Accepted", k) : k \in starts}
           q == SetToSeq(notices)
<1>1. IsFiniteSet(notices) /\ notices \subseteq NoticeType
  BY StartsAreFinite
<1>2. \A n \in notices : n.client \in starts /\ n = Notice("Accepted", n.client)
  BY DEF Notice
<1>3. \A k \in starts : /\ Notice("Accepted", k) \in notices /\ Notice("Accepted", k).client = k
                        /\ Notice("Accepted", k).kind = "Accepted"
  BY DEF Notice
<1> HIDE DEF notices
<1>4. /\ q \in Seq(notices) /\ \A n \in notices : \E j \in DOMAIN q : q[j] = n
      /\ \A j, l \in DOMAIN q : q[j] = q[l] => j = l
  BY <1>1, SetToSeqIsASeq
<1> HIDE DEF q
<1>5. \A j \in DOMAIN q : q[j] \in notices /\ j \in Nat
  BY <1>4
<1>6. q \in Seq(NoticeType)
  BY <1>1, <1>4, SeqMonotonic
<1>7. \A k \in Nat : k \notin starts => Silent(q, k)
  BY <1>2, <1>5 DEF Silent
<1>8. ASSUME NEW k \in starts PROVE Says(q, k, "Accepted")
  <2>1. PICK j \in DOMAIN q : q[j] = Notice("Accepted", k)
    BY <1>3, <1>4
  <2>2. \A l \in DOMAIN q : q[l].client = k => l = j
    BY <1>2, <1>4, <1>5, <2>1
  <2>3. j <= j
    BY <1>5
  <2>4. QED BY <1>3, <2>1, <2>2, <2>3 DEF Says
<1>9. QED BY <1>6, <1>7, <1>8 DEF q, notices

\* What a step of the engine tells of an order: nothing while it leaves the order
\* alone, and where it moved the order to in the end.
Heard(c) ==
  \/ orders'[c] = orders[c] /\ SameWord(events, events', c)
  \/ orders'[c].status # "Submitted" /\ Says(events', c, Shown(orders'[c].status))

Own(c) == c \in DOMAIN orders /\ orders[c].symbol = Current.symbol

LEMMA FillSays ==
  ASSUME TypeInv, LinkInv, NEW c \in DOMAIN orders, NEW done \in BOOLEAN, EngineFill(c, done)
  PROVE  /\ \A k \in DOMAIN orders : orders[k].late \/ Heard(k)
         /\ \A k \in Nat : Silent(events, k) => Silent(events', k) \/ Own(k)
<1> DEFINE enters == opener[Current.symbol] \in {Flat, c}
           starts == IF done THEN Children(c) ELSE {}
           f == Notice("Filled", c)
           p == Notice(IF enters THEN "Entered" ELSE "Exited", Signal)
           q == SetToSeq({Notice("Accepted", k) : k \in starts})
           e1 == events \o Acknowledgment(c)
           e2 == e1 \o <<f>>
           e3 == e2 \o <<p>>
<1>1. /\ events \in Seq(NoticeType) /\ OrderTypes /\ c \in Nat /\ DOMAIN orders \subseteq Nat
      /\ \A k \in DOMAIN orders : orders[k] \in OrderType
  BY DEF TypeInv, NoticeTypes, OrderTypes
<1>2. events' = e3 \o q
  BY DEF EngineFill, PositionEvent
<1>3. /\ starts \subseteq DOMAIN orders
      /\ \A k \in starts : orders[k].parent = {c} /\ orders[k].status = "Submitted"
  BY DEF Children
<1>4. Workable(c)
  BY DEF EngineFill
<1>5. c \notin starts
  BY <1>3, <1>4 DEF Workable
<1>6. /\ orders[c].symbol = Current.symbol
      /\ \A k \in starts : orders[k].symbol = Current.symbol
  BY <1>3, <1>4 DEF Workable, LinkInv
<1>7. f \in NoticeType /\ f.client = c /\ f.kind = "Filled" /\ p \in NoticeType /\ p.client = Signal
  BY <1>1 DEF Notice, NoticeType, Kinds, OrderKinds
<1>8. /\ q \in Seq(NoticeType)
      /\ \A k \in Nat : k \notin starts => Silent(q, k)
      /\ \A k \in starts : Says(q, k, "Accepted")
  <2> HIDE DEF starts
  <2>1. QED BY <1>1, <1>3, StartedWords
<1>9. /\ orders'[c].status = IF orders[c].late THEN orders[c].status
                             ELSE IF done THEN "Filled" ELSE "PartiallyFilled"
      /\ \A k \in starts : orders'[k].status = "Accepted"
      /\ \A k \in DOMAIN orders : k # c /\ k \notin starts => orders'[k] = orders[k]
  <2>1. \A k \in DOMAIN orders :
          orders'[k] = IF k = c
                       THEN [orders[k] EXCEPT !.status =
                               IF orders[c].late THEN orders[c].status
                               ELSE IF done THEN "Filled" ELSE "PartiallyFilled"]
                       ELSE IF k \in starts THEN [orders[k] EXCEPT !.status = "Accepted"]
                       ELSE orders[k]
    BY DEF EngineFill
  <2> HIDE DEF starts
  <2>2. QED BY <1>1, <1>3, <1>5, <2>1 DEF OrderType
<1> HIDE DEF f, p, q, starts
<1>10. /\ e1 \in Seq(NoticeType)
       /\ \A k \in Nat : k # c => SameWord(events, e1, k)
  BY <1>1, AcknowledgedWord
<1> HIDE DEF e1
<1>11. /\ e2 \in Seq(NoticeType) /\ Says(e2, c, "Filled")
       /\ \A k \in Nat : k # c => SameWord(e1, e2, k)
  BY <1>7, <1>10, AppendedWord, AboutAnother
<1> HIDE DEF e2
<1>12. /\ e3 \in Seq(NoticeType)
       /\ \A k \in Nat : SameWord(e2, e3, k)
  <2>1. Signal \notin Nat
    BY DEF Signal
  <2>2. QED BY <1>7, <1>11, <2>1, AppendedWord, AboutAnother
<1> HIDE DEF e3
<1>13. \A k \in Nat : k \notin starts => SameWord(e3, events', k)
  BY <1>2, <1>8, <1>12, JoinedWords, SaysIsNotSilent DEF SameWord
<1>14. \A k \in Nat : k # c /\ k \notin starts => SameWord(events, events', k)
  BY <1>10, <1>11, <1>12, <1>13 DEF SameWord
<1>15. Says(events', c, "Filled")
  BY <1>1, <1>5, <1>11, <1>12, <1>13 DEF SameWord, OrderKinds
<1>16. \A k \in starts : Says(events', k, "Accepted")
  BY <1>2, <1>8, <1>12, JoinedWords
<1>17. orders[c].late \/ Heard(c)
  BY <1>9, <1>15 DEF Heard, Shown
<1>18. \A k \in starts : Heard(k)
  BY <1>9, <1>16 DEF Heard, Shown
<1>19. \A k \in DOMAIN orders : k # c /\ k \notin starts => Heard(k)
  BY <1>1, <1>9, <1>14 DEF Heard
<1>20. \A k \in Nat : Silent(events, k) => Silent(events', k) \/ Own(k)
  BY <1>3, <1>6, <1>14 DEF SameWord, Own
<1>21. QED BY <1>17, <1>18, <1>19, <1>20

LEMMA EngineSays ==
  ASSUME TypeInv, LinkInv, Engine
  PROVE  /\ \A k \in DOMAIN orders : orders[k].late \/ Heard(k)
         /\ \A k \in Nat : Silent(events, k) => Silent(events', k) \/ Own(k)
<1>1. /\ events \in Seq(NoticeType) /\ OrderTypes /\ DOMAIN orders \subseteq Nat
      /\ \A k \in DOMAIN orders : orders[k] \in OrderType
  BY DEF TypeInv, NoticeTypes, OrderTypes
<1>2. ASSUME UNCHANGED orders, NEW n \in NoticeType, n.client = Signal, events' = events \o <<n>>
      PROVE  /\ \A k \in DOMAIN orders : orders[k].late \/ Heard(k)
             /\ \A k \in Nat : Silent(events, k) => Silent(events', k) \/ Own(k)
  <2>1. \A k \in Nat : n.client # k
    BY <1>2 DEF Signal
  <2>2. \A k \in Nat : SameWord(events, events', k)
    BY <1>1, <1>2, <2>1, AboutAnother
  <2>3. QED BY <1>1, <1>2, <2>2 DEF Heard, SameWord
<1>3. ASSUME NEW s \in Seq(NoticeType), NEW c \in DOMAIN orders, NEW kind \in {"Rejected", "Canceled"},
             \A k \in Nat : k # c => SameWord(events, s, k),
             events' = s \o <<Notice(kind, c)>>, orders[c].symbol = Current.symbol,
             orders' = [orders EXCEPT ![c].status = kind]
      PROVE  /\ \A k \in DOMAIN orders : orders[k].late \/ Heard(k)
             /\ \A k \in Nat : Silent(events, k) => Silent(events', k) \/ Own(k)
  <2> DEFINE n == Notice(kind, c)
  <2>1. n \in NoticeType /\ n.client = c /\ n.kind = kind
    BY <1>1 DEF Notice, NoticeType, Kinds, OrderKinds
  <2>2. events' = s \o <<n>>
    BY <1>3
  <2> HIDE DEF n
  <2>3. Says(events', c, kind) /\ \A k \in Nat : k # c => SameWord(s, events', k)
    BY <2>1, <2>2, AppendedWord, AboutAnother
  <2>4. \A k \in Nat : k # c => SameWord(events, events', k)
    BY <1>3, <2>3 DEF SameWord
  <2>5. orders'[c].status = kind /\ \A k \in DOMAIN orders : k # c => orders'[k] = orders[k]
    BY <1>1, <1>3 DEF OrderType
  <2>6. Heard(c)
    BY <1>3, <2>3, <2>5 DEF Heard, Shown
  <2>7. QED BY <1>1, <1>3, <2>4, <2>5, <2>6 DEF Heard, Own, SameWord
<1>4. CASE EngineExit
  <2> DEFINE n == Notice("Exited", Signal)
  <2>1. n \in NoticeType /\ n.client = Signal
    BY DEF Notice, NoticeType, Kinds
  <2>2. UNCHANGED orders /\ events' = events \o <<n>>
    BY <1>4 DEF EngineExit, PositionEvent
  <2> HIDE DEF n
  <2>3. QED BY <1>2, <2>1, <2>2
<1>5. CASE EngineEnter
  <2>1. \E kind \in {"Entered", "EntryRejected"} :
          UNCHANGED orders /\ events' = events \o <<Notice(kind, Signal)>>
    <3>1. \/ UNCHANGED orders /\ events' = events \o PositionEvent(TRUE)
          \/ UNCHANGED orders /\ events' = Append(events, Notice("EntryRejected", Signal))
      BY <1>5 DEF EngineEnter
    <3>2. PositionEvent(TRUE) = <<Notice("Entered", Signal)>>
      BY DEF PositionEvent
    <3>3. \A n : Append(events, n) = events \o <<n>>
      BY <1>1
    <3>4. QED BY <3>1, <3>2, <3>3
  <2>2. PICK kind \in {"Entered", "EntryRejected"} :
          UNCHANGED orders /\ events' = events \o <<Notice(kind, Signal)>>
    BY <2>1
  <2> DEFINE n == Notice(kind, Signal)
  <2>3. n \in NoticeType /\ n.client = Signal
    BY DEF Notice, NoticeType, Kinds
  <2>4. events' = events \o <<n>>
    BY <2>2
  <2> HIDE DEF n
  <2>5. QED BY <1>2, <2>2, <2>3, <2>4
<1>6. ASSUME NEW c \in DOMAIN orders, EngineReject(c)
      PROVE  /\ \A k \in DOMAIN orders : orders[k].late \/ Heard(k)
             /\ \A k \in Nat : Silent(events, k) => Silent(events', k) \/ Own(k)
  <2> DEFINE s == events \o Acknowledgment(c)
  <2>1. s \in Seq(NoticeType) /\ \A k \in Nat : k # c => SameWord(events, s, k)
    BY <1>1, AcknowledgedWord
  <2>2. /\ events' = s \o <<Notice("Rejected", c)>> /\ orders[c].symbol = Current.symbol
        /\ orders' = [orders EXCEPT ![c].status = "Rejected"]
    BY <1>6 DEF EngineReject, Workable
  <2> HIDE DEF s
  <2>3. QED BY <1>3, <2>1, <2>2
<1>7. ASSUME NEW c \in DOMAIN orders, EngineOrphan(c)
      PROVE  /\ \A k \in DOMAIN orders : orders[k].late \/ Heard(k)
             /\ \A k \in Nat : Silent(events, k) => Silent(events', k) \/ Own(k)
  <2>1. /\ events' = Append(events, Notice("Canceled", c)) /\ orders[c].symbol = Current.symbol
        /\ orders' = [orders EXCEPT ![c].status = "Canceled"]
    BY <1>7 DEF EngineOrphan
  <2>2. events' = events \o <<Notice("Canceled", c)>>
    BY <1>1, <2>1
  <2>3. \A k \in Nat : SameWord(events, events, k)
    BY DEF SameWord
  <2>4. QED BY <1>1, <1>3, <2>1, <2>2, <2>3
<1>8. QED BY <1>4, <1>5, <1>6, <1>7, FillSays DEF Engine
\* What the cache shows of an order nothing is left to be told of.
Seen(c) ==
  IF orders[c].status = "Submitted" THEN c \notin DOMAIN cache
  ELSE c \in DOMAIN cache /\ cache[c] = Shown(orders[c].status)

\* Where the last word on an order is: among the step's events, else in its
\* kernel's queue, else in the cache.
Mirrored(c) ==
  LET waiting == queued[orders[c].symbol]
      told_of(s) == orders[c].status # "Submitted" /\ Says(s, c, Shown(orders[c].status))
  IN  IF ~Silent(events, c) THEN told_of(events)
      ELSE IF ~Silent(waiting, c) THEN told_of(waiting) ELSE Seen(c)

\* The last word on an order is its status; events are of the instrument being
\* handled, each kernel's queue of its own, and empty once its step is over.
MirrorInv ==
  /\ DOMAIN cache \subseteq DOMAIN orders
  /\ \A c \in Nat : Silent(events, c) \/ Own(c)
  /\ \A s \in Symbols : \A c \in Nat :
       Silent(queued[s], c) \/ (c \in DOMAIN orders /\ orders[c].symbol = s)
  /\ Stage = "dispatch" => queued[Current.symbol] = <<>>
  /\ \A c \in DOMAIN orders : orders[c].late \/ Mirrored(c)

LEMMA DispatchMirrors ==
  ASSUME TypeInv, MirrorInv, DispatchEvent
  PROVE  MirrorInv'
<1> DEFINE event == Head(events)
           rest == Tail(events)
<1>1. /\ events \in Seq(NoticeType) /\ events # <<>> /\ Stage = "dispatch"
      /\ UNCHANGED <<run, cursor, agenda, orders, queued>> /\ events' = rest
      /\ cache' = IF event.client # Signal THEN Observed(event) ELSE cache
      /\ DOMAIN orders \subseteq Nat
  BY DEF DispatchEvent, TypeInv, NoticeTypes, OrderTypes, engine
<1>2. event \in NoticeType /\ rest \in Seq(NoticeType) /\ events = <<event>> \o rest
  BY <1>1
<1>3. \A c, kind : /\ Silent(events, c) <=> event.client # c /\ Silent(rest, c)
                   /\ Says(events, c, kind)
                        <=> Says(rest, c, kind)
                            \/ (Silent(rest, c) /\ event.client = c /\ event.kind = kind)
  <2> HIDE DEF event, rest
  <2>1. <<event>> \in Seq(NoticeType)
    BY <1>2
  <2>2. QED BY <1>2, <2>1, OneWord, JoinedWords
<1>4. Current' = Current /\ Stage' = Stage
  BY <1>1 DEF Current, Tape, Stage
<1> HIDE DEF event, rest
<1>5. event.client # Signal => Own(event.client) /\ event.client \in Nat
  BY <1>2, <1>3 DEF MirrorInv, NoticeType
<1>6. DOMAIN cache' \subseteq DOMAIN orders
  BY <1>1, <1>5 DEF MirrorInv, Observed, Own
<1>7. ASSUME NEW c \in DOMAIN orders, ~orders[c].late PROVE Mirrored(c)'
  <2>1. Mirrored(c) /\ c \in Nat /\ c # Signal
    BY <1>1, <1>7 DEF MirrorInv, Signal
  <2>2. CASE event.client # c
    <3>1. c \in DOMAIN cache' <=> c \in DOMAIN cache
      BY <1>1, <2>2 DEF Observed
    <3>2. c \in DOMAIN cache => cache'[c] = cache[c]
      BY <1>1, <2>2 DEF Observed
    <3>3. Seen(c)' <=> Seen(c)
      BY <1>1, <3>1, <3>2 DEF Seen
    <3>4. Silent(events', c) <=> Silent(events, c)
      BY <1>1, <1>3, <2>2
    <3>5. \A kind : Says(events', c, kind) <=> Says(events, c, kind)
      BY <1>1, <1>3, <2>2
    <3>6. QED BY <1>1, <2>1, <3>3, <3>4, <3>5 DEF Mirrored
  <2>3. CASE event.client = c
    <3> DEFINE to == Shown(orders[c].status)
    <3>1. orders[c].status # "Submitted" /\ Says(events, c, to)
      BY <1>3, <2>1, <2>3 DEF Mirrored
    <3>2. queued'[orders[c].symbol] = <<>>
      BY <1>1, <1>5, <2>1, <2>3 DEF MirrorInv, Own
    <3>3. Silent(queued'[orders[c].symbol], c)
      BY <3>2 DEF Silent
    <3>4. CASE Silent(rest, c)
      <4>1. event.kind = to
        BY <1>3, <3>1, <3>4, SaysIsNotSilent
      <4>2. c \in DOMAIN cache' /\ cache'[c] = to
        BY <1>1, <2>1, <2>3, <4>1 DEF Observed
      <4>3. QED BY <1>1, <3>1, <3>3, <3>4, <4>2 DEF Mirrored, Seen
    <3>5. CASE ~Silent(rest, c)
      BY <1>1, <1>3, <3>1, <3>5 DEF Mirrored
    <3>6. QED BY <3>4, <3>5
  <2>4. QED BY <2>2, <2>3
<1>8. \A c \in Nat : Silent(events', c) \/ Own(c)'
  BY <1>1, <1>3, <1>4 DEF MirrorInv, Own
<1>9. QED BY <1>1, <1>4, <1>6, <1>7, <1>8 DEF MirrorInv

\* A notice queued for an order is the last word on it, and on no other.
LEMMA QueuedWord ==
  ASSUME queued \in [Symbols -> Seq(NoticeType)], NEW at \in Symbols, NEW n \in NoticeType,
         queued' = [queued EXCEPT ![at] = Append(queued[at], n)]
  PROVE  /\ \A s \in Symbols, c \in Nat : n.client # c => SameWord(queued[s], queued'[s], c)
         /\ Says(queued'[at], n.client, n.kind)
         /\ \A s \in Symbols : s # at => queued'[s] = queued[s]
<1> DEFINE q == queued[at]
<1>1. q \in Seq(NoticeType)
  OBVIOUS
<1>2. queued' = [queued EXCEPT ![at] = Append(q, n)]
  OBVIOUS
<1> HIDE DEF q
<1>3. Append(q, n) = q \o <<n>>
  BY <1>1, AppendedWord
<1>4. queued'[at] = q \o <<n>> /\ \A s \in Symbols : s # at => queued'[s] = queued[s]
  BY <1>2, <1>3
<1>5. Says(queued'[at], n.client, n.kind)
  <2>1. Says(q \o <<n>>, n.client, n.kind)
    BY <1>1, AppendedWord
  <2>2. QED BY <1>4, <2>1
<1>6. \A c \in Nat : n.client # c => SameWord(q, queued'[at], c)
  BY <1>1, <1>4, AboutAnother
<1>7. \A s, c : SameWord(queued[s], queued[s], c)
  BY DEF SameWord
<1>8. QED BY <1>4, <1>5, <1>6, <1>7 DEF q

\* A command moves one order, or none, and queues what became of it.
LEMMA ApplyMirrors ==
  ASSUME TypeInv, ClientsInv, LinkInv, MirrorInv, ApplyCommand
  PROVE  MirrorInv'
<1> DEFINE cmd == Head(commands)
<1>1. /\ Stage = "apply" /\ UNCHANGED <<run, cursor, agenda, events, cache>>
      /\ queued \in [Symbols -> Seq(NoticeType)] /\ commands \in Seq(CommandType)
      /\ DOMAIN orders = DOMAIN idMap /\ DOMAIN orders \subseteq Nat
      /\ \A c \in DOMAIN orders : orders[c] \in OrderType
      /\ AgendaOK /\ commands # <<>>
  BY DEF ApplyCommand, TypeInv, NoticeTypes, OrderTypes, CommandTypes, strategyView
<1>2. events = <<>>
  BY <1>1 DEF TypeInv, NoticeTypes
<1>3. cmd \in CommandType /\ cmd = commands[1] /\ 1 \in DOMAIN commands /\ Current.symbol \in Symbols
  BY <1>1, HeadTailProperties, CurrentIsTyped, StageNamed DEF TypeInv, EventType
<1>4. cmd.op = "submit" => cmd.client \notin DOMAIN orders
  BY <1>1, <1>3 DEF ClientsInv
<1>5. ApplySubmit(cmd) \/ ApplyCancel(cmd)
  BY DEF ApplyCommand
<1> HIDE DEF cmd
<1>6. Current' = Current /\ Stage' # "dispatch" /\ \A c : Silent(events, c)
  BY <1>1, <1>2 DEF Current, Tape, Stage, Silent
<1>7. cmd.client \in Nat
  BY <1>3 DEF CommandType
\* One notice about one order, which it moved there.
<1>8. ASSUME NEW at \in Symbols, NEW n \in NoticeType, n.client \in DOMAIN orders', n.client \in Nat,
             queued' = [queued EXCEPT ![at] = Append(queued[at], n)],
             orders'[n.client].symbol = at,
             orders'[n.client].status = n.kind, n.kind \in {"Accepted", "Canceled"},
             \A c \in DOMAIN orders : c \in DOMAIN orders' /\ orders'[c].symbol = orders[c].symbol,
             \A c \in DOMAIN orders' : c # n.client => c \in DOMAIN orders /\ orders'[c] = orders[c]
      PROVE  MirrorInv'
  <2>1. /\ \A s \in Symbols, c \in Nat : n.client # c => SameWord(queued[s], queued'[s], c)
        /\ Says(queued'[at], n.client, n.kind)
        /\ \A s \in Symbols : s # at => queued'[s] = queued[s]
    BY <1>1, <1>8, QueuedWord
  <2>2. Mirrored(n.client)'
    BY <1>1, <1>6, <1>8, <2>1, SaysIsNotSilent DEF Mirrored, Shown
  <2>3. ASSUME NEW c \in DOMAIN orders', c # n.client, ~orders'[c].late PROVE Mirrored(c)'
    <3>1. /\ c \in DOMAIN orders /\ orders'[c] = orders[c] /\ Mirrored(c) /\ c \in Nat
          /\ orders[c].symbol \in Symbols
      BY <1>1, <1>8, <2>3 DEF MirrorInv, OrderType
    <3>2. SameWord(queued[orders[c].symbol], queued'[orders[c].symbol], c)
      BY <2>1, <2>3, <3>1
    <3>3. orders[c].status # "Submitted" => Shown(orders[c].status) \in OrderKinds
      BY <1>1, <3>1 DEF OrderType, Statuses, Ended, Shown, OrderKinds
    <3>4. Seen(c)' <=> Seen(c)
      BY <1>1, <3>1 DEF Seen
    <3>5. QED BY <1>1, <1>6, <3>1, <3>2, <3>3, <3>4 DEF Mirrored, SameWord
  <2>4. ASSUME NEW s \in Symbols, NEW c \in Nat
        PROVE  Silent(queued'[s], c) \/ (c \in DOMAIN orders' /\ orders'[c].symbol = s)
    <3>1. Silent(queued[s], c) \/ (c \in DOMAIN orders /\ orders[c].symbol = s)
      BY DEF MirrorInv
    <3>2. CASE c = n.client /\ s = at
      BY <1>8, <3>2
    <3>3. CASE c # n.client
      BY <1>8, <2>1, <3>1, <3>3 DEF SameWord
    <3>4. CASE s # at
      BY <1>8, <2>1, <3>1, <3>4
    <3>5. QED BY <3>2, <3>3, <3>4
  <2>5. DOMAIN cache' \subseteq DOMAIN orders'
    BY <1>1, <1>8 DEF MirrorInv
  <2>6. QED BY <1>1, <1>6, <2>2, <2>3, <2>4, <2>5 DEF MirrorInv
<1>9. CASE ApplySubmit(cmd)
  <2>1. PICK rests \in BOOLEAN : Register(cmd, rests)
    BY <1>9 DEF ApplySubmit
  <2>2. PICK c \in Nat : c = cmd.client
    BY <1>7
  <2>3. /\ c \notin DOMAIN orders /\ DOMAIN orders' = DOMAIN orders \cup {c}
        /\ orders'[c].symbol = Current.symbol
        /\ orders'[c].status = IF rests THEN "Accepted" ELSE "Submitted"
        /\ \A k \in DOMAIN orders : orders'[k] = orders[k]
    BY <1>4, <1>9, <2>1, <2>2 DEF ApplySubmit, Register
  <2>4. CASE rests
    <3> DEFINE n == [kind |-> "Accepted", client |-> c]
    <3>1. queued' = [queued EXCEPT ![Current.symbol] = Append(queued[Current.symbol], n)]
      BY <2>1, <2>4, <2>2 DEF Register
    <3>2. n \in NoticeType /\ n.client = c /\ n.kind = "Accepted"
      BY <1>7 DEF NoticeType, Kinds, OrderKinds
    <3> HIDE DEF n
    <3>3. QED BY <1>3, <1>8, <2>3, <2>4, <3>1, <3>2
  <2>5. CASE ~rests
    <3>1. UNCHANGED queued
      BY <2>1, <2>5 DEF Register
    <3>2. c \notin DOMAIN cache
      BY <2>3 DEF MirrorInv
    <3>3. Silent(queued[Current.symbol], c)
      BY <1>3, <2>3, <3>2 DEF MirrorInv
    <3>4. Mirrored(c)'
      BY <1>1, <1>6, <2>3, <2>5, <3>1, <3>2, <3>3 DEF Mirrored, Seen
    <3>5. \A k \in DOMAIN orders : orders'[k].late \/ Mirrored(k)'
      BY <1>1, <1>6, <2>3, <3>1 DEF MirrorInv, Mirrored, Seen
    <3>6. \A s \in Symbols : \A k \in Nat :
            Silent(queued'[s], k) \/ (k \in DOMAIN orders' /\ orders'[k].symbol = s)
      BY <2>3, <3>1 DEF MirrorInv
    <3>7. QED BY <1>1, <1>6, <2>3, <3>4, <3>5, <3>6 DEF MirrorInv
  <2>6. QED BY <2>4, <2>5
<1>10. CASE ApplyCancel(cmd)
  <2>1. PICK c \in Nat : c = cmd.client
    BY <1>7
  <2> DEFINE n == [kind |-> "Canceled", client |-> c]
             at == idMap[c]
  <2>2. CASE UNCHANGED <<orders, queued>>
    BY <1>1, <1>6, <2>2 DEF MirrorInv, Mirrored, Seen
  <2>3. CASE /\ c \in DOMAIN orders /\ orders' = [orders EXCEPT ![c].status = "Canceled"]
             /\ queued' = [queued EXCEPT ![at] = Append(queued[at], n)]
    <3>1. n \in NoticeType /\ n.client = c /\ n.kind = "Canceled"
      BY <1>7 DEF NoticeType, Kinds, OrderKinds
    <3>2. at \in Symbols /\ at = orders[c].symbol /\ c \in Nat
      BY <1>1, <2>3 DEF LinkInv, OrderType
    <3> HIDE DEF n, at
    <3>3. /\ DOMAIN orders' = DOMAIN orders /\ orders'[c].symbol = at /\ orders'[c].status = "Canceled"
          /\ \A k \in DOMAIN orders : k # c => orders'[k] = orders[k]
      BY <1>1, <2>3, <3>2 DEF OrderType
    <3>4. \A k \in DOMAIN orders : k \in DOMAIN orders' /\ orders'[k].symbol = orders[k].symbol
      BY <3>2, <3>3
    <3>5. \A k \in DOMAIN orders' : k # n.client => k \in DOMAIN orders /\ orders'[k] = orders[k]
      BY <3>1, <3>3
    <3>6. /\ n.client \in DOMAIN orders' /\ n.client \in Nat /\ orders'[n.client].symbol = at
          /\ orders'[n.client].status = n.kind /\ n.kind \in {"Accepted", "Canceled"}
      BY <2>3, <3>1, <3>3
    <3>7. queued' = [queued EXCEPT ![at] = Append(queued[at], n)]
      BY <2>3
    <3>8. QED BY <1>8, <3>1, <3>2, <3>4, <3>5, <3>6, <3>7
  <2>4. QED BY <1>1, <1>10, <2>2, <2>3, <2>1 DEF ApplyCancel
<1>11. QED BY <1>5, <1>9, <1>10
LEMMA EngineMirrors ==
  ASSUME TypeInv, ClientsInv, LinkInv, MirrorInv, [Next]_vars, Engine
  PROVE  MirrorInv'
<1>1. /\ AgendaOK /\ DOMAIN orders = DOMAIN idMap /\ DOMAIN orders \subseteq Nat
      /\ \A c \in DOMAIN orders : orders[c] \in OrderType
  BY DEF TypeInv, OrderTypes
<1>2. /\ Stage = "step" /\ UNCHANGED <<run, cursor, agenda, queued, cache>>
      /\ DOMAIN orders' = DOMAIN orders
  BY <1>1, EngineRuns DEF StepUnchanged, strategyView
<1>3. Current' = Current /\ Stage' = "step"
  BY <1>2 DEF Current, Tape, Stage
<1>4. /\ \A k \in DOMAIN orders : orders[k].late \/ Heard(k)
      /\ \A k \in Nat : Silent(events, k) => Silent(events', k) \/ Own(k)
  BY EngineSays
<1>5. \A c \in DOMAIN orders :
        orders'[c].symbol = orders[c].symbol /\ orders'[c].late = orders[c].late
  BY OrdersStay
<1>6. ASSUME NEW c \in DOMAIN orders, ~orders[c].late PROVE Mirrored(c)'
  <2>1. Mirrored(c) /\ Heard(c)
    BY <1>4, <1>6 DEF MirrorInv
  <2>2. CASE orders'[c] = orders[c] /\ SameWord(events, events', c)
    <3>1. orders[c].status # "Submitted" => Shown(orders[c].status) \in OrderKinds
      BY <1>1 DEF OrderType, Statuses, Ended, Shown, OrderKinds
    <3>2. Seen(c)' <=> Seen(c)
      BY <1>2, <2>2 DEF Seen
    <3>3. QED BY <1>2, <2>1, <2>2, <3>1, <3>2 DEF Mirrored, SameWord
  <2>3. CASE orders'[c].status # "Submitted" /\ Says(events', c, Shown(orders'[c].status))
    BY <2>3, SaysIsNotSilent DEF Mirrored
  <2>4. QED BY <2>1, <2>2, <2>3 DEF Heard
<1>7. \A c \in Nat : Silent(events', c) \/ Own(c)'
  BY <1>2, <1>3, <1>4, <1>5 DEF MirrorInv, Own
<1>8. QED BY <1>2, <1>3, <1>5, <1>6, <1>7 DEF MirrorInv

\* What was pending comes before what the step made, so it is not the last word.
LEMMA EndStepMirrors ==
  ASSUME TypeInv, MirrorInv, EndStep
  PROVE  MirrorInv'
<1> DEFINE q == queued[Current.symbol]
<1>1. /\ queued \in [Symbols -> Seq(NoticeType)] /\ events \in Seq(NoticeType) /\ AgendaOK
      /\ DOMAIN orders \subseteq Nat /\ \A c \in DOMAIN orders : orders[c] \in OrderType
  BY DEF TypeInv, NoticeTypes, OrderTypes
<1>2. /\ UNCHANGED <<run, cursor, orders, cache>> /\ Stage = "step"
      /\ events' = q \o events /\ queued' = [queued EXCEPT ![Current.symbol] = <<>>]
  BY DEF EndStep, strategyView
<1>3. Current.symbol \in Symbols /\ Current' = Current
  BY <1>1, <1>2, CurrentIsTyped, StageNamed DEF TypeInv, EventType, Current, Tape
<1>4. q \in Seq(NoticeType)
  BY <1>1, <1>3
<1>5. \A c \in Nat : Silent(q, c) \/ Own(c)
  BY <1>3 DEF MirrorInv, Own
<1>6. /\ queued'[Current.symbol] = <<>>
      /\ \A s \in Symbols : s # Current.symbol => queued'[s] = queued[s]
  BY <1>1, <1>2, <1>3
<1> HIDE DEF q
<1>7. \A c, kind : /\ Silent(events', c) <=> Silent(q, c) /\ Silent(events, c)
                   /\ Says(events', c, kind)
                        <=> Says(events, c, kind) \/ (Silent(events, c) /\ Says(q, c, kind))
  BY <1>1, <1>2, <1>4, JoinedWords
<1>8. \A c : Silent(<<>>, c)
  BY DEF Silent
<1>9. ASSUME NEW c \in DOMAIN orders, ~orders[c].late PROVE Mirrored(c)'
  <2>1. Mirrored(c) /\ c \in Nat /\ orders[c].symbol \in Symbols
    BY <1>1, <1>9 DEF MirrorInv, OrderType
  <2>2. Seen(c)' <=> Seen(c)
    BY <1>2 DEF Seen
  <2>3. CASE orders[c].symbol = Current.symbol
    BY <1>2, <1>6, <1>7, <1>8, <2>1, <2>2, <2>3 DEF Mirrored, q
  <2>4. CASE orders[c].symbol # Current.symbol
    <3>1. Silent(q, c) /\ Silent(events, c)
      BY <1>5, <2>1, <2>4 DEF Own, MirrorInv
    <3>2. queued'[orders[c].symbol] = queued[orders[c].symbol]
      BY <1>6, <2>1, <2>4
    <3>3. QED BY <1>2, <1>7, <2>1, <2>2, <3>1, <3>2 DEF Mirrored
  <2>5. QED BY <2>3, <2>4
<1>10. \A s \in Symbols : \A c \in Nat :
         Silent(queued'[s], c) \/ (c \in DOMAIN orders' /\ orders'[c].symbol = s)
  BY <1>2, <1>6, <1>8 DEF MirrorInv
<1>11. \A c \in Nat : Silent(events', c) \/ Own(c)'
  BY <1>2, <1>3, <1>5, <1>7 DEF MirrorInv, Own
<1>12. QED BY <1>2, <1>3, <1>6, <1>9, <1>10, <1>11 DEF MirrorInv

LEMMA StepOfMirror ==
  ASSUME TypeInv, ClientsInv, LinkInv, MirrorInv, [Next]_vars
  PROVE  MirrorInv'
<1>1. AgendaOK /\ (events # <<>> => Stage \in {"step", "dispatch"})
  BY DEF TypeInv, NoticeTypes
<1>2. CASE NextEvent \/ OnTimeEvent \/ OnData \/ EndTime \/ EndApply \/ EndDispatch
  <2>1. UNCHANGED <<orders, events, queued, cache>>
    BY <1>2 DEF NextEvent, OnTimeEvent, OnData, EndTime, EndApply, EndDispatch, engine, strategyView
  <2>2. events = <<>>
    BY <1>1, <1>2 DEF NextEvent, OnTimeEvent, OnData, EndTime, EndApply, EndDispatch
  <2>3. Stage' # "dispatch"
    <3>1. CASE NextEvent
      <4>1. \E kind, completes : agenda' = Agenda(kind, completes) /\ kind \in {"bar", "trade", "quote"}
        BY <1>1, <3>1, CurrentIsTyped DEF NextEvent, EventType, TypeInv
      <4>2. Stage' = "time"
        BY <4>1 DEF Agenda, Stage
      <4>3. QED BY <4>2
    <3>2. CASE OnTimeEvent
      BY <3>2 DEF OnTimeEvent, Stage
    <3>3. CASE OnData \/ EndTime \/ EndApply \/ EndDispatch
      BY <1>1, <3>3, StageEnds DEF OnData, EndTime, EndApply, EndDispatch
    <3>4. QED BY <1>2, <3>1, <3>2, <3>3
  <2>4. \A c : Silent(events, c)
    BY <2>2 DEF Silent
  <2>5. QED BY <2>1, <2>3, <2>4 DEF MirrorInv, Mirrored, Seen
<1>3. CASE UNCHANGED vars
  BY <1>3 DEF vars, engine, strategyView, MirrorInv, Mirrored, Seen, Own, Stage, Current, Tape
<1>4. QED BY <1>2, <1>3, DispatchMirrors, ApplyMirrors, EngineMirrors, EndStepMirrors, StepsByKind
          DEF Handling, Ending

\* Between events the cache shows what the engine holds of every order whose
\* notices were all dispatched, though it is folded from the events alone.
THEOREM CacheMirrors == Spec => []CacheMirrorsEngine
<1>1. Init => ClientsInv /\ LinkInv /\ MirrorInv
  <2>1. SUFFICES ASSUME Init PROVE ClientsInv /\ LinkInv /\ MirrorInv
    OBVIOUS
  <2>2. /\ DOMAIN idMap = {} /\ DOMAIN orders = {} /\ DOMAIN cache = {} /\ events = <<>>
        /\ commands = <<>> /\ agenda = <<>> /\ queued = [s \in Symbols |-> <<>>]
    <3>1. /\ idMap = [c \in {} |-> c] /\ orders = [c \in {} |-> c] /\ cache = [c \in {} |-> c]
          /\ events = <<>> /\ commands = <<>> /\ agenda = <<>>
          /\ queued = [s \in Symbols |-> <<>>]
      BY <2>1, Zenon DEF Init
    <3>2. QED BY <3>1
  <2>3. SubmitsQueued = {} /\ NewClient = 0
    BY <2>2, FS_EmptySet DEF SubmitsQueued, NewClient
  <2>4. ClientsInv
    BY <2>2, <2>3 DEF ClientsInv
  <2>5. MirrorInv
    BY <2>2 DEF MirrorInv, Silent, Stage
  <2>6. QED BY <2>2, <2>4, <2>5 DEF LinkInv
<1>2. TypeInv /\ ClientsInv /\ LinkInv /\ MirrorInv /\ [Next]_vars
        => ClientsInv' /\ LinkInv' /\ MirrorInv'
  BY StepOfClients, StepOfLinks, StepOfMirror
<1>3. TypeInv /\ MirrorInv => CacheMirrorsEngine
  <2>1. SUFFICES ASSUME TypeInv, MirrorInv, Stage = "idle", NEW c \in DOMAIN orders,
                        ~orders[c].late, Silent(queued[orders[c].symbol], c)
                 PROVE  Seen(c)
    BY DEF CacheMirrorsEngine, Seen, Silent
  <2>2. events = <<>>
    BY <2>1 DEF TypeInv, NoticeTypes
  <2>3. Silent(events, c) /\ Mirrored(c)
    BY <2>1, <2>2 DEF MirrorInv, Silent
  <2>4. QED BY <2>1, <2>3 DEF Mirrored
<1>4. QED BY <1>1, <1>2, <1>3, DriverTypes, PTL DEF Spec
=============================================================================
