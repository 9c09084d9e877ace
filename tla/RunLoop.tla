------------------------------- MODULE RunLoop -------------------------------
(***************************************************************************)
(* The periodic work of the game thread: the clock that a thread of its    *)
(* own writes, ticks and timers (src/src/game/game_thread.cpp, run,        *)
(* time_run, handle_tick and handle_timers; GameData::open; start_timer    *)
(* and stop_timer in src/src/lua/script_lua_functions.cpp).                *)
(*                                                                         *)
(* Time is kept relative to the last write of time_run: an age is how long *)
(* ago something was then.  The field now differs from the last write only *)
(* by what handle_tick does to it; skew is its age.  The wall clock goes   *)
(* on between two writes, so that what is read from it has a negative age. *)
(*                                                                         *)
(* There is one game with a script, and lobbies are ids that come and go.  *)
(* A hook has at most one effect.  What handlers do to lobbies is in       *)
(* GameThread, what scripts do to them in Scripts.                         *)
(***************************************************************************)
EXTENDS Integers, FiniteSets

CONSTANTS
  LobbyId,              \* ids of lobbies
  TimerId,              \* ids of timers: naturals, because flat_map orders by id
  Duration,             \* durations of timers
  TickRate,             \* game.tick_rate
  TimerInterval,        \* timer_interval of GameThread::run
  TickHook,             \* the script has _on_lobby_tick
  MaxWrite,             \* bound: how far a write moves the clock on, and how far the wall
                        \* clock is ahead of the last write
  MaxLag,               \* bound: how far the loop and now fall behind
  MaxStarts             \* bound: timers started

ASSUME RunAssumption ==
  /\ TimerId \subseteq Nat
  /\ Duration \subseteq 1..(2 * MaxLag)
  /\ TickRate \in Nat \ {0}
  /\ TimerInterval \in Nat
  /\ TickHook \in BOOLEAN
  /\ MaxWrite \in Nat \ {0}
  /\ MaxLag \in Nat
  /\ MaxLag >= MaxWrite
  /\ MaxLag > TickRate /\ MaxLag > TimerInterval
  /\ MaxStarts \in Nat

VARIABLES
  lobbies,              \* the keys of GameData.lobbies
  timer_data,           \* GameData.timer_data: lobby and time left of each timer
  skew,                 \* age of now
  tick_age,             \* age of GameData.last_tick_time
  timers_age,           \* age of last_timers in run
  pc,                   \* where the game thread is
  tick,                 \* progress of handle_tick
  pass,                 \* progress of handle_timers
  starts,               \* timers started so far
  crashed               \* undefined behaviour has ended the process

clock    == <<skew, tick_age, timers_age>>
game     == <<lobbies, timer_data, starts>>
run_vars == <<clock, game, pc, tick, pass, crashed>>

NoTick == [todo |-> {}, previous |-> 0]
NoPass == [at |-> 0, end |-> 0]

\* No timer is older than this when it matters
Oldest == -(3 * MaxLag + 1)

-----------------------------------------------------------------------------
(* Scripts *)

Without(timers, t) == [u \in DOMAIN timers \ {t} |-> timers[u]]

\* end_time counts from now, and an id belongs to the game: another lobby's timer of
\* this id is replaced
start_timer(timers, l, t, d) ==
  [u \in DOMAIN timers \cup {t} |->
     IF u = t THEN [lobby_id |-> l, left |-> d - skew] ELSE timers[u]]

\* A hook called for l: it may stop a timer, of any lobby, or start one. It may kick all
\* members of l, which erases l, and the end of the call makes an empty one
Hook(l, timers) ==
  \/ timer_data' = timers /\ UNCHANGED starts
  \/ \E t \in TimerId : timer_data' = Without(timers, t) /\ UNCHANGED starts
  \/ /\ starts < MaxStarts
     /\ starts' = starts + 1
     /\ \E t \in TimerId, d \in Duration : timer_data' = start_timer(timers, l, t, d)

-----------------------------------------------------------------------------
(* time_run, on its own thread *)

\* The loop is not further behind now than MaxLag, nor now further behind the clock
KeepsUp(d) ==
  /\ tick_age + d - skew <= MaxLag
  /\ timers_age + d - skew <= MaxLag
  /\ tick.previous + d <= MaxLag

Elapsed(left, d) == IF left - d < Oldest THEN Oldest ELSE left - d

\* The clock goes on by d, which is not always the same
time_run(d) ==
  /\ ~crashed
  /\ KeepsUp(d)
  /\ skew' = 0
  /\ tick_age' = tick_age + d
  /\ timers_age' = timers_age + d
  /\ timer_data' = [t \in DOMAIN timer_data |->
                      [timer_data[t] EXCEPT !.left = Elapsed(@, d)]]
  /\ tick' = IF pc = "tick" THEN [tick EXCEPT !.previous = @ + d] ELSE tick
  /\ UNCHANGED <<lobbies, starts, pc, pass, crashed>>

-----------------------------------------------------------------------------
(* The loop of the game thread *)

At(label) == pc = label /\ ~crashed

\* handle_events: peers open lobbies and call functions of the script
lobby_opens(l) ==
  /\ At("events")
  /\ lobbies' = lobbies \cup {l}
  /\ UNCHANGED <<clock, timer_data, starts, pc, tick, pass, crashed>>

lobby_call(l) ==
  /\ At("events")
  /\ l \in lobbies
  /\ Hook(l, timer_data)
  /\ UNCHANGED <<lobbies, clock, pc, tick, pass, crashed>>

\* The last member leaves, or handle_disconnects removes it
lobby_ends(l) ==
  /\ At("events") \/ At("late")
  /\ lobbies' = lobbies \ {l}
  /\ UNCHANGED <<clock, timer_data, starts, pc, tick, pass, crashed>>

\* Mutant of Due: as soon as the last tick is in the past
Due_Early == tick_age >= skew

\* The time of the next tick has come
Due == tick_age - TickRate >= skew

\* One tick at most, and scripts read its time as now
handle_tick_begin ==
  /\ At("events")
  /\ IF Due
     THEN /\ tick_age' = tick_age - TickRate
          /\ skew' = tick_age'
          /\ tick' = [todo |-> IF TickHook THEN lobbies ELSE {}, previous |-> skew]
          /\ pc' = "tick"
     ELSE pc' = "late" /\ UNCHANGED <<tick_age, skew, tick>>
  /\ UNCHANGED <<timers_age, game, pass, crashed>>

\* In any order: lobbies are hashed. A hook that ends its lobby destroys the node which
\* the iterator is at, so that anything may be left of the iteration
handle_tick_lobby ==
  /\ At("tick")
  /\ \E l \in tick.todo :
       \/ /\ Hook(l, timer_data)
          /\ tick' = [tick EXCEPT !.todo = @ \ {l}]
          /\ UNCHANGED crashed
       \/ /\ \E todo \in SUBSET tick.todo :
               tick' = [tick EXCEPT !.todo = todo \ {l}]
          /\ crashed' \in BOOLEAN
          /\ UNCHANGED <<timer_data, starts>>
  /\ UNCHANGED <<lobbies, clock, pc, pass>>

\* now is set back to what it was before the tick, whatever time_run has written since
handle_tick_end ==
  /\ At("tick")
  /\ tick.todo = {}
  /\ skew' = tick.previous
  /\ tick' = NoTick
  /\ pc' = "late"
  /\ UNCHANGED <<tick_age, timers_age, game, pass, crashed>>

\* GameData::open: ticks count from the last multiple of their rate on the wall clock, which
\* may be ahead of now: a - w, for a wall clock w ahead of the last write
Opened == -MaxWrite..(TickRate - 1)

\* The last thing in a turn of the loop: the script may be reloaded
reload_game == tick_age' \in {tick_age} \cup Opened

handle_timers_begin ==
  /\ At("late")
  /\ IF timers_age - skew > TimerInterval
     THEN /\ timers_age' = skew
          /\ pass' = [at |-> 1, end |-> Cardinality(DOMAIN timer_data)]
          /\ pc' = "timers"
          /\ UNCHANGED tick_age
     ELSE pc' = "events" /\ reload_game /\ UNCHANGED <<timers_age, pass>>
  /\ UNCHANGED <<skew, game, tick, crashed>>

\* The timer the iterator is at. Erasing one moves those behind it forward, so that the
\* next one is passed over
Visited ==
  CHOOSE t \in DOMAIN timer_data : Cardinality({u \in DOMAIN timer_data : u < t}) = pass.at - 1
Overdue(t) == timer_data[t].left + skew < 0

Next_slot ==
  /\ pass.at <= pass.end
  /\ pass' = [pass EXCEPT !.at = @ + 1]
  /\ UNCHANGED <<lobbies, clock, pc, tick>>

InUse == pass.at <= Cardinality(DOMAIN timer_data)

\* The end was read before timers were erased: a destroyed slot is looked at, and what
\* there is in it is not due, or is due for no lobby and stands for no timer, or is fatal
handle_timers_destroyed ==
  /\ At("timers")
  /\ ~InUse
  /\ crashed' \in BOOLEAN
  /\ Next_slot
  /\ UNCHANGED <<timer_data, starts>>

handle_timers_early ==
  /\ At("timers")
  /\ InUse
  /\ ~Overdue(Visited)
  /\ Next_slot
  /\ UNCHANGED <<timer_data, starts, crashed>>


\* The timer of a lobby that is gone is dropped
Abandoned(timers, t) == Without(timers, t)

handle_timers_abandoned ==
  /\ At("timers")
  /\ InUse
  /\ Overdue(Visited)
  /\ timer_data[Visited].lobby_id \notin lobbies
  /\ timer_data' = Abandoned(timer_data, Visited)
  /\ Next_slot
  /\ UNCHANGED <<starts, crashed>>

\* A timer is erased and its hook is called; there is room for the one it may start
handle_timers_fire ==
  /\ At("timers")
  /\ InUse
  /\ Overdue(Visited)
  /\ timer_data[Visited].lobby_id \in lobbies
  /\ Hook(timer_data[Visited].lobby_id, Without(timer_data, Visited))
  /\ Next_slot
  /\ UNCHANGED crashed

handle_timers_end ==
  /\ At("timers")
  /\ pass.at > pass.end
  /\ reload_game
  /\ pass' = NoPass
  /\ pc' = "events"
  /\ UNCHANGED <<skew, timers_age, game, tick, crashed>>

-----------------------------------------------------------------------------
(* Specification *)

RunInit ==
  /\ lobbies = {}
  /\ timer_data = <<>>
  /\ skew = 0
  /\ tick_age \in 0..(TickRate - 1)
  /\ timers_age = 0
  /\ pc = "events"
  /\ tick = NoTick
  /\ pass = NoPass
  /\ starts = 0
  /\ crashed = FALSE

handle_tick == handle_tick_begin \/ handle_tick_lobby \/ handle_tick_end

handle_timers ==
  \/ handle_timers_begin \/ handle_timers_destroyed \/ handle_timers_early
  \/ handle_timers_abandoned \/ handle_timers_fire \/ handle_timers_end

Environment == \E l \in LobbyId : lobby_opens(l) \/ lobby_call(l) \/ lobby_ends(l)

Clock == \E d \in 1..MaxWrite : time_run(d)

RunNext == Clock \/ handle_tick \/ handle_timers \/ Environment

\* Both threads loop until the server stops, and at most 50 events are handled in a turn
RunSpec ==
  RunInit /\ [][RunNext]_run_vars
  /\ WF_run_vars(Clock) /\ WF_run_vars(handle_tick \/ handle_timers)

-----------------------------------------------------------------------------
(* Properties *)

\* Type invariant of the loop's locals, of the clock and of the timers. now, which ticks set
\* and set back while time_run writes it, is never ahead of the last write, although a reload
\* may count ticks from a time that is; a pass is past its last slot only at its end.
RunTypeOK ==
  /\ lobbies \subseteq LobbyId
  /\ DOMAIN timer_data \subseteq TimerId
  /\ \A t \in DOMAIN timer_data :
       timer_data[t] \in [lobby_id : LobbyId, left : Oldest..(2 * MaxLag)]
  /\ skew \in 0..(3 * MaxLag)
  /\ tick_age \in -MaxWrite..(3 * MaxLag)
  /\ timers_age \in 0..(4 * MaxLag)
  /\ pc \in {"events", "tick", "late", "timers"}
  /\ tick.todo \subseteq LobbyId /\ (pc # "tick" => tick = NoTick)
  /\ pass.at <= pass.end + 1 /\ (pc # "timers" => pass = NoPass)
  /\ starts \in 0..MaxStarts
  /\ crashed \in BOOLEAN


=============================================================================
