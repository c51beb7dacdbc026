------------------------------ MODULE EventLog -------------------------------
(* event/EventBus.kt and its two readers: TunnelsViewModel, which waits for   *)
(* NativeProcessExited, and ui/LogsFragment.kt, which shows LogMessages a     *)
(* batch at a time. Events are dispatched from any thread; the readers run    *)
(* on the main thread, which may fall behind. The bus keeps, for each reader, *)
(* the last Capacity events it has not taken (DROP_OLDEST), and nothing for   *)
(* one that does not collect at the time (replay = 0). Events are numbered.   *)
EXTENDS Naturals, Sequences, Functions

CONSTANTS
  Capacity,    \* extraBufferCapacity
  Batch,       \* lines flushPending() shows at once
  MaxEvents

ASSUME LogAssumption == Capacity \in Nat \ {0} /\ Batch \in Nat \ {0} /\ MaxEvents \in Nat

VARIABLES
  dispatched,       \* kind of each event so far: "log" or "exit"
  vm, logs,         \* events buffered for the view model and the fragment
  collecting,       \* the fragment's view exists and collects
  pending, flushScheduled, timer,   \* LogsFragment; timer: the posted runnable
  text,             \* lines on the screen
  seen              \* the exit events the view model was given
\* History: the view model fell more than Capacity behind; a flush left lines over.
VARIABLES vmLagged, burst

vars == <<dispatched, vm, logs, collecting, pending, flushScheduled, timer, text, seen,
          vmLagged, burst>>
bus == <<dispatched, vm, vmLagged, seen>>

Init ==
  /\ dispatched = <<>> /\ vm = <<>> /\ logs = <<>> /\ collecting = FALSE
  /\ pending = <<>> /\ flushScheduled = FALSE /\ timer = FALSE
  /\ text = <<>> /\ seen = <<>>
  /\ vmLagged = FALSE /\ burst = FALSE
-----------------------------------------------------------------------------
OfferOneShort(buffer, e) ==
  IF Len(buffer) + 1 = Capacity THEN Append(Tail(buffer), e) ELSE Append(buffer, e)

Offer(buffer, e) == IF Len(buffer) = Capacity THEN Append(Tail(buffer), e) ELSE Append(buffer, e)

dispatch(kind) ==
  /\ Len(dispatched) < MaxEvents
  /\ LET e == Len(dispatched) + 1
     IN  /\ dispatched' = Append(dispatched, kind)
         /\ vm' = Offer(vm, e) /\ vmLagged' = (vmLagged \/ Len(vm) = Capacity)
         /\ logs' = IF collecting THEN Offer(logs, e) ELSE logs
  /\ UNCHANGED <<collecting, pending, flushScheduled, timer, text, seen, burst>>

\* TunnelsViewModel: collect { if (ev is NativeProcessExited ...) fail(...) }
VmCollects ==
  /\ vm # <<>> /\ vm' = Tail(vm)
  /\ seen' = IF dispatched[Head(vm)] = "exit" THEN Append(seen, Head(vm)) ELSE seen
  /\ UNCHANGED <<dispatched, logs, collecting, pending, flushScheduled, timer, text,
                 vmLagged, burst>>

\* The collector of LogsFragment: enqueue().
LogsCollects ==
  /\ logs # <<>> /\ logs' = Tail(logs)
  /\ IF dispatched[Head(logs)] = "log"
     THEN /\ pending' = Append(pending, Head(logs))
          /\ flushScheduled' = TRUE
          /\ timer' = (timer \/ ~flushScheduled)
     ELSE UNCHANGED <<pending, flushScheduled, timer>>
  /\ UNCHANGED <<bus, collecting, text, burst>>

\* The runnable: flushPending(), then flushScheduled = false. The flag still
\* holds while flushPending() asks for it, so that it never posts another one.
ShowReversed(lines) ==
  LET n == IF Len(lines) < Batch THEN Len(lines) ELSE Batch IN [i \in 1 .. n |-> lines[n + 1 - i]]

Show(lines) == SubSeq(lines, 1, IF Len(lines) < Batch THEN Len(lines) ELSE Batch)

RunnableKeepingFlag ==
  /\ timer /\ timer' = FALSE
  /\ text' = text \o Show(pending)
  /\ pending' = SubSeq(pending, Len(Show(pending)) + 1, Len(pending))
  /\ burst' = (burst \/ pending' # <<>>)
  /\ UNCHANGED <<bus, logs, collecting, flushScheduled>>

Runnable ==
  /\ timer /\ timer' = FALSE /\ flushScheduled' = FALSE
  /\ text' = text \o Show(pending)
  /\ pending' = SubSeq(pending, Len(Show(pending)) + 1, Len(pending))
  /\ burst' = (burst \/ pending' # <<>>)
  /\ UNCHANGED <<bus, logs, collecting>>

\* The clear button.
Clear ==
  /\ collecting /\ (text # <<>> \/ pending # <<>>)
  /\ pending' = <<>> /\ text' = <<>>
  /\ UNCHANGED <<bus, logs, collecting, flushScheduled, timer, burst>>

\* onViewCreated: an empty text view, and a new collector.
onViewCreated ==
  /\ ~collecting /\ collecting' = TRUE
  /\ text' = <<>> /\ logs' = <<>>
  /\ UNCHANGED <<bus, pending, flushScheduled, timer, burst>>

\* The view goes, and viewLifecycleOwner's scope with it; the fragment, its
\* fields and the posted runnable stay.
onDestroyView ==
  /\ collecting /\ collecting' = FALSE /\ logs' = <<>>
  /\ UNCHANGED <<bus, pending, flushScheduled, timer, text, burst>>

Next ==
  \/ \E kind \in {"log", "exit"} : dispatch(kind)
  \/ VmCollects \/ LogsCollects \/ Runnable \/ Clear \/ onViewCreated \/ onDestroyView

Spec == Init /\ [][Next]_vars

-----------------------------------------------------------------------------
Increasing(s) == \A i, j \in DOMAIN s : i < j => s[i] < s[j]

(* enqueue() and flushPending() show lines in the order they were dispatched  *)
(* in and never twice, across batches, overflows of the bus, clear and new    *)
(* views.                                                                     *)
ShownInOrder == Increasing(text \o pending \o logs)

(* The view model is given NativeProcessExited events in the order they were  *)
(* dispatched in and none twice, and unless it falls more than the bus's      *)
(* capacity behind it is given every one: the report of a dead OpenFlux       *)
(* drowns only in a flood of log lines.                                       *)
ExitIsDelivered ==
  /\ Increasing(seen \o vm) /\ \A e \in Range(seen) : dispatched[e] = "exit"
  /\ ~vmLagged =>
       \A e \in DOMAIN dispatched : dispatched[e] = "exit" => e \in Range(seen \o vm)

(* Lines stay pending with no flush to come only when one flushPending() met  *)
(* more lines than a batch: otherwise all are on the screen in the end.       *)
FlushedUnlessBurst == <>[](pending = <<>>) \/ <>burst
=============================================================================
