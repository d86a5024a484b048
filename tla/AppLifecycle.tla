---------------------------- MODULE AppLifecycle ----------------------------
(***************************************************************************)
(* The publish/subscribe backbone and the lifetimes around it: EventBus    *)
(* (core/event_bus.cpp), the UI dispatch queue (ui/ui_dispatch.cpp), Task  *)
(* and Timer (platform/firmware, platform/host), and AppCore               *)
(* (ui/app_core.h), whose members are built in the order of their          *)
(* declaration, started, and destroyed in the reverse order.               *)
(*                                                                         *)
(* Of AppCore's members the model keeps one of each kind: a task that      *)
(* publishes (harmony), a subscriber of the UI thread and one of the       *)
(* publishing thread for each kind of event, two of which publish from     *)
(* their own callback, and the clock with its timer.  The two entry points *)
(* never return, so AppCore is destroyed only where a test's scope ends;   *)
(* its destructors promise the same there.                                 *)
(***************************************************************************)
EXTENDS Naturals, Sequences, SequencesExt

CONSTANTS MaxPublishes   \* bound: events published, nested ones included

ASSUME LifecycleAssumption == MaxPublishes \in Nat

VARIABLES
    life_target,      \* "firmware" or "simulator": which thread runs LVGL
    life_main,        \* where the main thread is
    life_built,       \* how many members of AppCore exist
    life_timer,       \* the clock's Timer
    life_task,        \* the connection's Task
    bus_dispatcher,   \* ui_dispatcher_ has been set
    bus_subscribers,  \* subscribers_: ids by event type, in order
    bus_frames,       \* by thread: the PublishImpl() calls under way
    bus_queue,        \* DispatchQueue(): the closures posted to the UI thread
    bus_published,    \* history: events published so far
    bus_delivered,    \* history: the events each subscriber was called with
    bus_late          \* history: calls of a destroyed subscriber, by thread

bus_vars == <<bus_dispatcher, bus_subscribers, bus_frames, bus_queue,
              bus_published, bus_delivered, bus_late>>
thread_vars == <<life_timer, life_task>>
core_vars == <<life_target, life_main, life_built>>
life_vars == <<core_vars, thread_vars, bus_vars>>

BusThreads == {"main", "timer", "task"}
BusTypes == {"tick", "state", "notification"}

\* AppCore's members that take part, in the order of their declaration.
AppMembers == <<"harmony", "banner", "sound", "monitor", "bridge", "power",
                "clock">>

SubscribesTo == [banner |-> "notification", sound |-> "notification",
                 monitor |-> "tick", bridge |-> "state", power |-> "tick"]
Subscribers == DOMAIN SubscribesTo

\* SubscribeUi() rather than Subscribe().
UiSubscribers == {"banner", "power"}

\* The subscribers whose callback may itself publish a notification.
Republishing == {"monitor", "bridge"}

Exists(s) == \E i \in 1..life_built : AppMembers[i] = s

-----------------------------------------------------------------------------
(* EventBus *)

\* SubscribeImpl(): a fresh id at the end of its type's list.
SubscribeImpl(s) ==
    bus_subscribers' = [bus_subscribers EXCEPT
                            ![SubscribesTo[s]] = Append(@, s)]

\* ~ScopedSubscription(), Reset() and Unsubscribe(): the one entry with its id
\* is erased.
Unsubscribe(s) ==
    \E i \in 1..Len(bus_subscribers[SubscribesTo[s]]) :
        /\ bus_subscribers[SubscribesTo[s]][i] = s
        /\ bus_subscribers' = [bus_subscribers EXCEPT
                                   ![SubscribesTo[s]] = RemoveAt(@, i)]

\* Mutant of FindCallback: the closure holds the callback itself.
FindCallbackCaptured(s) == TRUE

\* FindCallback(): the subscriber is still registered.
FindCallback(s) == Contains(bus_subscribers[SubscribesTo[s]], s)

\* PublishImpl() up to the unlock: the list and the dispatcher are copied.
\* A list that is empty leaves nothing to do.
Called(stack, thread, type, n) ==
    IF bus_subscribers[type] = <<>> THEN stack
    ELSE <<[event |-> [n |-> n, by |-> thread, type |-> type],
            dispatcher |-> bus_dispatcher,
            todo |-> bus_subscribers[type]]>> \o stack

\* A thread that is not inside PublishImpl() publishes.
PublishFrom(thread, type) ==
    /\ bus_frames[thread] = <<>>
    /\ bus_published < MaxPublishes
    /\ bus_published' = bus_published + 1
    /\ bus_frames' = [bus_frames EXCEPT
                          ![thread] = Called(@, thread, type, bus_published + 1)]

PostToUiThread(fn) == Append(bus_queue, fn)

\* The frame without the subscriber just served; the last one ends the call.
Served(frame) ==
    IF Len(frame.todo) = 1 THEN <<>>
    ELSE <<[frame EXCEPT !.todo = Tail(@)]>>

\* The loop of PublishImpl(): one copied subscriber.  A UI subscriber's id is
\* posted; any other callback runs here, registered or not, and may publish
\* on the same thread before it returns.
Deliver(thread) ==
    /\ bus_frames[thread] # <<>>
    /\ LET frame == Head(bus_frames[thread])
           s     == Head(frame.todo)
           below == Served(frame) \o Tail(bus_frames[thread])
       IN  IF s \in UiSubscribers
           THEN /\ bus_queue' = IF frame.dispatcher
                                THEN PostToUiThread([to |-> s, event |-> frame.event])
                                ELSE bus_queue
                /\ bus_frames' = [bus_frames EXCEPT ![thread] = below]
                /\ UNCHANGED <<bus_published, bus_delivered, bus_late>>
           ELSE /\ bus_delivered' = [bus_delivered EXCEPT
                                         ![s] = Append(@, frame.event)]
                /\ bus_late' = IF Exists(s) THEN bus_late
                               ELSE bus_late \cup {<<thread, s>>}
                /\ \/ /\ bus_frames' = [bus_frames EXCEPT ![thread] = below]
                      /\ UNCHANGED bus_published
                   \/ /\ s \in Republishing
                      /\ bus_published < MaxPublishes
                      /\ bus_published' = bus_published + 1
                      /\ bus_frames' = [bus_frames EXCEPT
                             ![thread] = Called(below, thread, "notification",
                                                bus_published + 1)]
                /\ UNCHANGED bus_queue
    /\ UNCHANGED <<core_vars, thread_vars, bus_dispatcher, bus_subscribers>>

\* The UI thread runs LVGL: its own task on the firmware, kept out by the
\* display lock while AppCore is built; the main thread in the simulator,
\* from UiTask::Run() on.
UiThreadRuns ==
    \/ life_main \in {"running", "down"}
    \/ life_target = "firmware" /\ life_main \in {"starting", "built"}

\* DrainQueue(): the oldest closure looks its callback up and calls it.
DrainOne ==
    /\ UiThreadRuns
    /\ bus_queue # <<>>
    /\ LET fn == Head(bus_queue)
       IN  /\ bus_queue' = Tail(bus_queue)
           /\ IF FindCallback(fn.to)
              THEN /\ bus_delivered' = [bus_delivered EXCEPT
                                            ![fn.to] = Append(@, fn.event)]
                   /\ bus_late' = IF Exists(fn.to) THEN bus_late
                                  ELSE bus_late \cup {<<"ui", fn.to>>}
              ELSE UNCHANGED <<bus_delivered, bus_late>>
    /\ UNCHANGED <<core_vars, thread_vars, bus_dispatcher, bus_subscribers,
                   bus_frames, bus_published>>

-----------------------------------------------------------------------------
(* The entry points, and AppCore's construction *)

\* InitUiDispatchQueue() creates the drain timer; SetUiDispatcher() follows,
\* before anything subscribes.
InitUiDispatch ==
    /\ life_main = "boot"
    /\ life_main' = "building"
    /\ bus_dispatcher' = TRUE
    /\ UNCHANGED <<life_target, life_built, thread_vars, bus_subscribers,
                   bus_frames, bus_queue, bus_published, bus_delivered, bus_late>>

\* The firmware's LVGL task is already running; both calls take its lock.
InitEventBusAndShowSplash == life_target = "firmware" /\ InitUiDispatch

\* UiTask::UiTask(), on the one thread there is.
StartUiTask == life_target = "simulator" /\ InitUiDispatch

\* AppCore's constructor: the next member.  The clock's timer runs from then.
BuildMember ==
    /\ life_main = "building"
    /\ life_built < Len(AppMembers)
    /\ LET m == AppMembers[life_built + 1]
       IN  /\ life_built' = life_built + 1
           /\ IF m \in Subscribers THEN SubscribeImpl(m)
              ELSE UNCHANGED bus_subscribers
           /\ life_timer' = IF m = "clock" THEN "armed" ELSE life_timer
           /\ life_main' = IF m = "clock" THEN "built" ELSE "building"
    /\ UNCHANGED <<life_target, life_task, bus_dispatcher, bus_frames, bus_queue,
                   bus_published, bus_delivered, bus_late>>

\* AppCore::Start(): the first tick, on the main thread.
StartClock ==
    /\ life_main = "built"
    /\ PublishFrom("main", "tick")
    /\ life_main' = "starting"
    /\ UNCHANGED <<life_target, life_built, thread_vars, bus_dispatcher,
                   bus_subscribers, bus_queue, bus_delivered, bus_late>>

\* The rest of Start(): the connection's task, and the run loop.
StartConnections ==
    /\ life_main = "starting" /\ bus_frames["main"] = <<>>
    /\ life_main' = "running"
    /\ life_task' = "running"
    /\ UNCHANGED <<life_target, life_built, life_timer, bus_vars>>

\* A period of the clock's timer ends.  A stop or delete that has been asked
\* for and not yet been acted on does not prevent it.
TimerFires ==
    /\ life_timer \in {"armed", "stopping"}
    /\ PublishFrom("timer", "tick")
    /\ UNCHANGED <<core_vars, thread_vars, bus_dispatcher, bus_subscribers,
                   bus_queue, bus_delivered, bus_late>>

\* The connection's task publishes a change of state.
TaskPublishes ==
    /\ life_task \in {"running", "stopping"}
    /\ PublishFrom("task", "state")
    /\ UNCHANGED <<core_vars, thread_vars, bus_dispatcher, bus_subscribers,
                   bus_queue, bus_delivered, bus_late>>

-----------------------------------------------------------------------------
(* Destruction, in the reverse order *)

LastMember == AppMembers[life_built]

\* A scope that holds AppCore ends: the destructors of its members follow.
TearDown ==
    /\ life_main = "running"
    /\ life_main' = "destroying"
    /\ UNCHANGED <<life_target, life_built, thread_vars, bus_vars>>

\* A subscriber's member is destroyed: its subscription resets.
DestroySubscriber ==
    /\ life_main = "destroying" /\ life_built > 0
    /\ LastMember \in Subscribers
    /\ Unsubscribe(LastMember)
    /\ life_built' = life_built - 1
    /\ UNCHANGED <<life_target, life_main, thread_vars, bus_dispatcher, bus_frames,
                   bus_queue, bus_published, bus_delivered, bus_late>>

\* ~Timer(): the delete command and the pended call are queued, or the
\* thread is asked to stop.
TimerDestructorAsks ==
    /\ life_main = "destroying" /\ life_built > 0
    /\ LastMember = "clock" /\ life_timer = "armed"
    /\ life_timer' = "stopping"
    /\ UNCHANGED <<core_vars, life_task, bus_vars>>

\* Mutant of TimerStops: the service task has no time for the command.
TimerStopsNever == FALSE /\ UNCHANGED life_vars

\* The timer service task, between callbacks, takes the delete command and
\* then the pended call, which gives the semaphore; or the thread's loop sees
\* the stop request and returns.
TimerStops ==
    /\ life_timer = "stopping"
    /\ bus_frames["timer"] = <<>>
    /\ life_timer' = "stopped"
    /\ UNCHANGED <<core_vars, life_task, bus_vars>>

\* The rest of ~Timer(): the semaphore is taken, the thread is joined.
TimerDestructorWaits ==
    /\ life_main = "destroying" /\ life_built > 0
    /\ LastMember = "clock" /\ life_timer = "stopped"
    /\ life_built' = life_built - 1
    /\ UNCHANGED <<life_target, life_main, thread_vars, bus_vars>>

\* ~Task(): the stop request.
TaskDestructorAsks ==
    /\ life_main = "destroying" /\ life_built > 0
    /\ LastMember = "harmony" /\ life_task = "running"
    /\ life_task' = "stopping"
    /\ UNCHANGED <<core_vars, life_timer, bus_vars>>

\* TaskTrampoline(): the function returns and the task gives the semaphore.
TaskFinishes ==
    /\ life_task = "stopping"
    /\ bus_frames["task"] = <<>>
    /\ life_task' = "stopped"
    /\ UNCHANGED <<core_vars, life_timer, bus_vars>>

\* The rest of ~Task(), and with the first member the whole of AppCore.
TaskDestructorWaits ==
    /\ life_main = "destroying" /\ life_built > 0
    /\ LastMember = "harmony" /\ life_task = "stopped"
    /\ life_built' = life_built - 1
    /\ life_main' = "down"
    /\ UNCHANGED <<life_target, thread_vars, bus_vars>>

-----------------------------------------------------------------------------
LifeInit ==
    /\ life_target \in {"firmware", "simulator"}
    /\ life_main = "boot" /\ life_built = 0
    /\ life_timer = "none" /\ life_task = "none"
    /\ bus_dispatcher = FALSE
    /\ bus_subscribers = [t \in BusTypes |-> <<>>]
    /\ bus_frames = [t \in BusThreads |-> <<>>]
    /\ bus_queue = <<>>
    /\ bus_published = 0
    /\ bus_delivered = [s \in Subscribers |-> <<>>]
    /\ bus_late = {}

DestructorStep ==
    \/ DestroySubscriber \/ TimerDestructorAsks \/ TimerDestructorWaits
    \/ TaskDestructorAsks \/ TaskDestructorWaits

LifeNext ==
    \/ InitEventBusAndShowSplash \/ StartUiTask \/ BuildMember
    \/ StartClock \/ StartConnections
    \/ TimerFires \/ TaskPublishes \/ DrainOne
    \/ \E thread \in BusThreads : Deliver(thread)
    \/ TearDown \/ DestructorStep \/ TimerStops \/ TaskFinishes

LifeSpec == LifeInit /\ [][LifeNext]_life_vars

\* Every thread is scheduled: a publish under way ends, the service task and
\* the task notice that they are to stop, and the destructors go on.
LifeFairness ==
    /\ \A thread \in BusThreads : WF_life_vars(Deliver(thread))
    /\ WF_life_vars(TimerStops) /\ WF_life_vars(TaskFinishes)
    /\ WF_life_vars(DestructorStep)

LifeFairSpec == LifeSpec /\ LifeFairness

-----------------------------------------------------------------------------
(* Properties *)

BusEvents == [n : 1..MaxPublishes, by : BusThreads, type : BusTypes]

\* The types of the state, and the published subscribers are those that
\* exist: construction and ScopedSubscription keep the bus's lists and
\* AppCore's members in step, each in the order they were built.
LifeTypeOK ==
    /\ life_target \in {"firmware", "simulator"}
    /\ life_main \in {"boot", "building", "built", "starting", "running",
                      "destroying", "down"}
    /\ life_built \in 0..Len(AppMembers)
    /\ life_timer \in {"none", "armed", "stopping", "stopped"}
    /\ life_task \in {"none", "running", "stopping", "stopped"}
    /\ bus_dispatcher \in BOOLEAN
    /\ \A t \in BusTypes :
           /\ \A s \in Subscribers :
                 Contains(bus_subscribers[t], s) <=> Exists(s) /\ SubscribesTo[s] = t
           /\ \A i, j \in 1..Len(bus_subscribers[t]) : i < j =>
                 \E a, b \in 1..Len(AppMembers) :
                     /\ a < b /\ AppMembers[a] = bus_subscribers[t][i]
                     /\ AppMembers[b] = bus_subscribers[t][j]
    /\ \A s \in Subscribers : bus_delivered[s] \in Seq(BusEvents)
    /\ bus_published \in 0..MaxPublishes

\* event_bus.h's ScopedSubscription: a callback posted to the UI thread
\* before its subscriber was destroyed is never run afterwards, however long
\* it waited in the queue.
UiNeverLate == \A call \in bus_late : call[1] # "ui"

\* ~Timer() and AppCore's order of declaration: no tick that was in flight
\* calls a monitor, or what the monitor's notification reaches, after it is
\* gone, although PublishImpl() calls its copied list without looking.
TimerNeverLate == \A call \in bus_late : call[1] # "timer"

\* clock.h, app_core.h: the tick that Start() publishes reaches every
\* subscriber of the clock.  When Start() is past it, each has been called
\* with it or has it in the UI queue.
FirstTickReachesAll ==
    life_main = "running" =>
        \A s \in {x \in Subscribers : SubscribesTo[x] = "tick"} :
            \/ \E i \in 1..Len(bus_delivered[s]) : bus_delivered[s][i].by = "main"
            \/ \E i \in 1..Len(bus_queue) :
                   bus_queue[i].to = s /\ bus_queue[i].event.by = "main"

\* ui_dispatch.cpp: what one thread publishes reaches a UI subscriber in the
\* order it was published, whatever the other threads post in between.
UiInOrder ==
    \A s \in UiSubscribers : \A i, j \in 1..Len(bus_delivered[s]) :
        /\ i < j
        /\ bus_delivered[s][i].by = bus_delivered[s][j].by
        => bus_delivered[s][i].n < bus_delivered[s][j].n

\* Construction, publishing and destruction in any order of the threads: no
\* UI subscriber is called after it is gone and no other by a timer callback,
\* none of the clock's misses the first tick, and none sees one thread's
\* events out of order. Not claimed of a module's own publishing task, which
\* may call a copied synchronous subscriber late while AppCore is destroyed.
LifeSafe ==
    LifeTypeOK /\ UiNeverLate /\ TimerNeverLate /\ FirstTickReachesAll /\ UiInOrder

\* The destructors end: neither ~Timer() nor ~Task() waits for a thread that
\* waits for it, also when one is in the middle of a publish.
TearDownEnds == []<>(life_main # "destroying")
=============================================================================
