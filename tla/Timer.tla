------------------------------- MODULE Timer -------------------------------
(***************************************************************************)
(* timer/timer.c: the PIT interrupt turns every timeslice_ticks ticks into *)
(* one schedule event, which the main loop or the interrupt exit path      *)
(* takes.  Each operation is atomic: it runs with interrupts off (an       *)
(* interrupt gate, or interrupt_save_and_disable .. interrupt_restore).    *)
(* timer_ticks, only ever displayed, is left out.  The operators map the   *)
(* timer's state, a record, to its next state.                             *)
(***************************************************************************)
EXTENDS Naturals

CONSTANTS
  DEFAULT_TIMESLICE,  \* the initial timeslice_ticks (10)
  TIMESLICES          \* bound: the arguments of the "slice" command

ASSUME TimerAssumption ==
  DEFAULT_TIMESLICE \in Nat \ {0} /\ TIMESLICES \subseteq Nat

TimerState == [timeslice_ticks : Nat \ {0}, slice_remaining : Nat \ {0},
               schedule_event_pending : Nat]

timer_init == [timeslice_ticks |-> DEFAULT_TIMESLICE,
               slice_remaining |-> DEFAULT_TIMESLICE,
               schedule_event_pending |-> 0]

timer_irq_handler(t) ==
  IF t.slice_remaining <= 1
  THEN [t EXCEPT !.slice_remaining = t.timeslice_ticks,
                 !.schedule_event_pending = @ + 1]
  ELSE [t EXCEPT !.slice_remaining = @ - 1]

timer_has_schedule_event(t) == t.schedule_event_pending # 0

\* Mutant: the event is seen and not taken.
timer_peek_schedule_event(t) == t

\* The state after timer_take_schedule_event; it returned 1 iff there was one.
timer_take_schedule_event(t) ==
  IF timer_has_schedule_event(t)
  THEN [t EXCEPT !.schedule_event_pending = @ - 1]
  ELSE t

\* Mutant: 0 is accepted.
timer_set_any_timeslice(ticks) ==
  [timeslice_ticks |-> ticks, slice_remaining |-> ticks, schedule_event_pending |-> 0]

\* A slice of 0 ticks becomes 1; events already pending are dropped.
timer_set_timeslice(ticks) ==
  LET n == IF ticks = 0 THEN 1 ELSE ticks IN
  [timeslice_ticks |-> n, slice_remaining |-> n, schedule_event_pending |-> 0]
=============================================================================
