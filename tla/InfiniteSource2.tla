--------------------------- MODULE InfiniteSource2 -------------------------
(* The packet source of the benchmarks (infinitesource2.cc), as a push source *)
(* in front of a queue or as a pull source of a ToDevice (todevice.cc), with  *)
(* the handlers that change it while it runs.                                 *)
EXTENDS Integers

CONSTANTS
  Limits, Bursts,    \* values of LIMIT and BURST, also given to the handlers
  Modes,             \* subset of {"push", "pull"}: how the output is wired
  QueueCapacity,     \* of the queue behind a push source
  BURSTSIZE,         \* burst of ToDevice::run_task, 128 in the code
  MaxChanges         \* bound: handler calls and reconfigurations

ASSUME SourceAssumption ==
  /\ Limits \subseteq Int /\ Bursts \subseteq Nat \ {0}
  /\ Modes \subseteq {"push", "pull"}
  /\ QueueCapacity \in Nat \ {0} /\ BURSTSIZE \in Nat \ {0} /\ MaxChanges \in Nat

VARIABLES
  _active, _limit, _burstsize, _count,
  mode,              \* wiring
  _end_h,            \* "none", "stop" (STOP), "reset" (END_CALL of the source's own handler),
                     \* "unready" (STOP, but nobody has initialised the HandlerCall)
  task,              \* _task is scheduled
  awake,             \* the notifier of a pull source is active
  queue,             \* packets in the queue behind a push source
  stop,              \* the driver has been asked to stop
  sent, promised,    \* history: packets since _count was reset; the highest limit since
  reached,           \* history: the last packet met the limit, nothing was changed since
  silenced,          \* history: reconfigured while its task was not scheduled
  transmitted, dropped,   \* by ToDevice::run_task in its last run
  changes

sourceVars == <<_active, _limit, _burstsize, _count, mode, _end_h, task, awake, queue, stop,
                sent, promised, reached, silenced, transmitted, dropped, changes>>

Limited == _limit >= 0
Below == ~Limited \/ _count < _limit

SourceInit ==
  /\ _active \in BOOLEAN /\ _limit \in Limits /\ _burstsize \in Bursts /\ _count = 0
  /\ mode \in Modes /\ _end_h \in {"none", "stop", "reset"}
  /\ task = (mode = "push")                 \* ScheduleInfo::initialize_task
  /\ awake = (mode = "pull")
  /\ queue = 0 /\ stop = FALSE
  /\ sent = 0 /\ promised = _limit /\ reached = FALSE /\ silenced = FALSE
  /\ transmitted = 0 /\ dropped = 0 /\ changes = 0

\* _nonfull_signal of the queue (external).
Nonfull == queue < QueueCapacity

Least(a, b) == IF a < b THEN a ELSE b

\* How many packets of a burst the limit lets through.
BurstLeft_bug == _burstsize

BurstLeft ==
  IF Limited /\ _count + _burstsize >= _limit
  THEN IF _count > _limit THEN 0 ELSE _limit - _count
  ELSE _burstsize

\* The queue drops what it has no room for; only the number it holds matters.
run_task_bug ==
  LET n == BurstLeft
  IN /\ mode = "push" /\ task
     /\ IF _active /\ Nonfull /\ n > 0
        THEN /\ queue' = Least(queue + n, QueueCapacity)
             /\ _count' = _count + n /\ sent' = sent + n
             /\ reached' = (reached \/ (Limited /\ _count' >= _limit))
             /\ UNCHANGED task
        ELSE /\ task' = FALSE
             /\ UNCHANGED <<queue, _count, sent, reached>>
     /\ UNCHANGED <<_active, _limit, _burstsize, mode, _end_h, awake, stop, promised, silenced,
                    transmitted, dropped, changes>>

\* _end_h->call_write(): "stop" asks the driver to stop, "reset" is the handler
\* below. An uninitialised HandlerCall calls nothing (external).
EndCall(ends, n) ==
  LET resets == ends /\ _end_h = "reset"
  IN /\ stop' = (stop \/ (ends /\ _end_h = "stop"))
     /\ _count' = IF resets THEN 0 ELSE _count + n
     /\ sent' = IF resets THEN 0 ELSE sent + n
     /\ promised' = IF resets THEN _limit ELSE promised
     /\ reached' = (~resets /\ (reached \/ (n > 0 /\ Limited /\ _count' >= _limit)))

run_task ==
  LET n == BurstLeft
      ends == n = 0 /\ Limited /\ _count >= _limit
  IN /\ mode = "push" /\ task
     /\ IF _active /\ Nonfull
        THEN /\ queue' = Least(queue + n, QueueCapacity)
             /\ EndCall(ends, n)
             /\ task' = (n > 0 \/ (ends /\ _end_h = "reset" /\ _count' < _limit))
        ELSE /\ task' = FALSE
             /\ UNCHANGED <<queue, _count, sent, stop, promised, reached>>
     /\ UNCHANGED <<_active, _limit, _burstsize, mode, _end_h, awake, silenced,
                    transmitted, dropped, changes>>

\* The queue's reader takes a packet; a queue that was full wakes the task.
Dequeue ==
  /\ mode = "push" /\ queue > 0
  /\ queue' = queue - 1
  /\ task' = (task \/ ~Nonfull)
  /\ UNCHANGED <<_active, _limit, _burstsize, _count, mode, _end_h, awake, stop, sent, promised,
                 reached, silenced, transmitted, dropped, changes>>

\* ToDevice::run_task: pulls until there is nothing or the burst is used up, and
\* then has pulled one more, which it neither sends nor kills. Each pull counts;
\* a pull that finds the limit reached calls _end_h and sleeps, whatever that did.
ToDevice_run_task ==
  LET pulled == IF ~_active THEN 0
                ELSE IF Limited
                     THEN Least(BURSTSIZE + 1, IF _count < _limit THEN _limit - _count ELSE 0)
                     ELSE BURSTSIZE + 1
      exhausted == _active /\ pulled < BURSTSIZE + 1
  IN /\ mode = "pull"
     /\ EndCall(exhausted, pulled)
     /\ transmitted' = Least(pulled, BURSTSIZE)
     /\ dropped' = pulled - transmitted'
     /\ awake' = (awake /\ pulled = BURSTSIZE + 1)
     /\ UNCHANGED <<_active, _limit, _burstsize, mode, _end_h, task, queue, silenced, changes>>

-----------------------------------------------------------------------------
(* The write handlers: each ends by scheduling or waking what has something   *)
(* to do again.                                                               *)

WakeUp_bug ==
  /\ task' = task
  /\ awake' = (awake \/ (mode = "pull" /\ _active' /\ Below'))

WakeUp ==
  LET due == _active' /\ Below'
  IN /\ task' = (task \/ (mode = "push" /\ due))
     /\ awake' = (awake \/ (mode = "pull" /\ due))

change_param(param) ==
  /\ changes < MaxChanges
  /\ changes' = changes + 1
  /\ \/ /\ param = "limit"
        /\ _limit' \in Limits
        /\ promised' = IF promised >= 0 /\ _limit' > promised THEN _limit'
                       ELSE IF _limit' < 0 THEN _limit' ELSE promised
        /\ UNCHANGED <<_burstsize, _active, _count, sent>>
     \/ /\ param = "burst"
        /\ _burstsize' \in Bursts
        /\ UNCHANGED <<_limit, _active, _count, sent, promised>>
     \/ /\ param = "active"
        /\ _active' \in BOOLEAN
        /\ UNCHANGED <<_limit, _burstsize, _count, sent, promised>>
     \/ /\ param = "reset"
        /\ _count' = 0 /\ sent' = 0 /\ promised' = _limit
        /\ UNCHANGED <<_limit, _burstsize, _active>>
  /\ WakeUp
  /\ reached' = FALSE
  /\ silenced' = (silenced /\ ~task')
  /\ UNCHANGED <<mode, _end_h, queue, stop, transmitted, dropped>>

\* configure of a running source: the parameters and _count are set, the task is
\* left as it is. ActiveNotifier::initialize leaves the notifier active, also
\* when the arguments are refused. _end_h is replaced, and initialize is not
\* called again: STOP makes a HandlerCall that is not ready; END_CALL's was
\* looked up by Args (external).
configure ==
  /\ changes < MaxChanges
  /\ changes' = changes + 1
  /\ awake' = (mode = "pull")
  /\ \/ /\ _limit' \in Limits /\ _burstsize' \in Bursts /\ _active' \in BOOLEAN
        /\ _end_h' \in {"none", "unready", "reset"}
        /\ _count' = 0 /\ sent' = 0 /\ promised' = _limit'
        /\ reached' = FALSE
        /\ silenced' = (mode = "push" /\ ~task)
     \/ UNCHANGED <<_limit, _burstsize, _active, _end_h, _count, sent, promised, reached, silenced>>
  /\ UNCHANGED <<mode, task, queue, stop, transmitted, dropped>>
=============================================================================
