-------------------------------- MODULE Timer --------------------------------
(***************************************************************************)
(* The timers of src/src/timer.c as operators on one record, each standing *)
(* for code that runs with interrupts disabled.  The skip list has one     *)
(* level (RT_TIMER_SKIP_LIST_LEVEL), so it is a list sorted by timeout;    *)
(* ticks wrap, so "earlier" is a comparison of a difference with half the  *)
(* range.                                                                  *)
(*                                                                         *)
(* A timer record m has the fields                                         *)
(*   tick    rt_tick                                                       *)
(*   list    rt_timer_list                                                 *)
(*   at, init, active, periodic   timeout_tick, init_tick and the flags    *)
(*           RT_TIMER_FLAG_ACTIVATED and _PERIODIC of each timer           *)
(***************************************************************************)
EXTENDS Integers, RTList

CONSTANTS Timers,   \* the timer objects
          TickMod,  \* 2^32 in the code: rt_tick_t is 32 bits wide
          Delay     \* the times timers are started with

ASSUME TimerAssumption == TickMod \in Nat \ {0} /\ Delay \subseteq Nat \ {0}

TimerRecord == [tick : 0 .. TickMod - 1, list : Seq(Timers),
                at : [Timers -> 0 .. TickMod - 1], init : [Timers -> Delay],
                active : [Timers -> BOOLEAN], periodic : [Timers -> BOOLEAN]]

\* RT_TICK_MAX / 2
HalfTick == (TickMod - 1) \div 2

Minus(x, y) == (x - y + TickMod) % TickMod

_rt_timer_remove(m, x) == [m EXCEPT !.list = RemoveFirst(@, x)]

\* Mutant: timeouts are compared as if ticks did not wrap.
Later_NoWrap(m, y, x) == m.at[y] > m.at[x]

\* Timer y comes after timer x in the list.
Later(m, y, x) == Minus(m.at[y], m.at[x]) \in 1 .. HalfTick - 1

\* The second half of rt_timer_start: before the first timer that is later, so
\* behind those with the same timeout.
Link(m, x) ==
  LET later == {i \in DOMAIN m.list : Later(m, m.list[i], x)}
      pos   == IF later = {} THEN Len(m.list) + 1 ELSE Min(later)
  IN  [m EXCEPT !.list = InsertAt(@, pos, x), !.active[x] = TRUE]

\* Its first half, and the computation between the two.
Unlink(m, x) == [_rt_timer_remove(m, x) EXCEPT !.active[x] = FALSE]

\* Mutant: the sum is computed with more than 32 bits.
SetTimeout_Wide(m, x) == [m EXCEPT !.at[x] = m.tick + m.init[x]]

SetTimeout(m, x) == [m EXCEPT !.at[x] = (m.tick + m.init[x]) % TickMod]

rt_timer_start(m, x) == Link(SetTimeout(Unlink(m, x), x), x)

\* Mutant: the timer is left in the list.
rt_timer_stop_Not(m, x) == m

rt_timer_stop(m, x) == IF m.active[x] THEN Unlink(m, x) ELSE m

\* The condition of rt_timer_check's loop.
Expired(m) == m.list # << >> /\ Minus(m.tick, m.at[Head(m.list)]) < HalfTick

\* What the loop does with a timer after its callback.
AfterCallback(m, x) ==
  IF m.periodic[x] /\ m.active[x] THEN rt_timer_start(m, x)
                                  ELSE [m EXCEPT !.active[x] = FALSE]

=============================================================================
