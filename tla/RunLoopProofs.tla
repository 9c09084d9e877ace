---------------------------- MODULE RunLoopProofs ----------------------------
(***************************************************************************)
(* Proofs about RunLoop, for any lobbies, timers, durations, rates and     *)
(* bounds.  That timers end (TimersFire) is a matter of fairness and is    *)
(* only model-checked.                                                     *)
(***************************************************************************)
EXTENDS RunLoop, FiniteSetTheorems, TLAPS

USE RunAssumption

\* What RunTypeOK needs to be inductive.  A tick may find now as far behind the last write
\* as MaxLag, and itself twice as far behind now; that is where its end sets now back to, so
\* that both ages are kept together, also over the writes in between.
ClockInv ==
  /\ tick \in [todo : SUBSET LobbyId, previous : 0..MaxLag]
  /\ pass \in [at : Nat, end : Nat]
  /\ IsFiniteSet(DOMAIN timer_data)
  /\ pc # "tick" => skew <= MaxLag
  /\ tick_age <= 2 * MaxLag + (IF pc = "tick" THEN tick.previous ELSE skew)

LoopInv == RunTypeOK /\ ClockInv

Timers(timers) ==
  /\ DOMAIN timers \subseteq TimerId
  /\ IsFiniteSet(DOMAIN timers)
  /\ \A t \in DOMAIN timers : timers[t] \in [lobby_id : LobbyId, left : Oldest..(2 * MaxLag)]

\* stop_timer, and the erasure before a timer fires, leave well-formed timers.
LEMMA WithoutTimers ==
  ASSUME NEW timers, Timers(timers), NEW t
  PROVE  Timers(Without(timers, t))
<1>1. DOMAIN Without(timers, t) = DOMAIN timers \ {t}
  BY DEF Without
<1>2. IsFiniteSet(DOMAIN timers \ {t})
  BY FS_RemoveElement DEF Timers
<1> QED BY <1>1, <1>2 DEF Timers, Without

\* start_timer adds a timer whose end is counted from now, which may lie behind the clock.
LEMMA StartTimers ==
  ASSUME NEW timers, Timers(timers), NEW t \in TimerId, NEW d \in Duration,
         NEW l \in LobbyId, skew \in 0..(3 * MaxLag)
  PROVE  Timers(start_timer(timers, l, t, d))
<1>1. DOMAIN start_timer(timers, l, t, d) = DOMAIN timers \cup {t}
  BY DEF start_timer
<1>2. IsFiniteSet(DOMAIN timers \cup {t})
  BY FS_AddElement DEF Timers
<1>3. d - skew \in Oldest..(2 * MaxLag)
  BY DEF Oldest
<1> QED BY <1>1, <1>2, <1>3 DEF Timers, start_timer

\* Whatever a hook of a lobby does to the timers, they stay well-formed.
LEMMA HookTimers ==
  ASSUME NEW timers, Timers(timers), NEW l \in LobbyId, Hook(l, timers),
         skew \in 0..(3 * MaxLag), starts \in 0..MaxStarts
  PROVE  Timers(timer_data') /\ starts' \in 0..MaxStarts
<1>1. CASE timer_data' = timers /\ UNCHANGED starts
  BY <1>1
<1>2. CASE \E t \in TimerId : timer_data' = Without(timers, t) /\ UNCHANGED starts
  BY <1>2, WithoutTimers
<1>3. CASE /\ starts < MaxStarts
           /\ starts' = starts + 1
           /\ \E t \in TimerId, d \in Duration : timer_data' = start_timer(timers, l, t, d)
  BY <1>3, StartTimers
<1> QED BY <1>1, <1>2, <1>3 DEF Hook

\* time_run moves every age on alike and is bounded by how far the loop is behind.
LEMMA TimeStep == LoopInv /\ Clock => LoopInv'
<1> SUFFICES ASSUME LoopInv, NEW d \in 1..MaxWrite, time_run(d) PROVE LoopInv'
  BY DEF Clock
<1> USE DEF LoopInv, RunTypeOK, ClockInv, time_run
<1>0. \A left \in Oldest..(2 * MaxLag) : Elapsed(left, d) \in Oldest..(2 * MaxLag)
  BY DEF Oldest, Elapsed
<1>1. /\ DOMAIN timer_data' = DOMAIN timer_data
      /\ \A t \in DOMAIN timer_data' :
           timer_data'[t] \in [lobby_id : LobbyId, left : Oldest..(2 * MaxLag)]
  BY <1>0
<1>2. skew' = 0 /\ tick_age' = tick_age + d /\ timers_age' = timers_age + d
  OBVIOUS
<1>3. tick_age' \in -MaxWrite..(3 * MaxLag) /\ timers_age' \in 0..(4 * MaxLag)
  BY <1>2 DEF KeepsUp
<1>4. tick' \in [todo : SUBSET LobbyId, previous : 0..MaxLag]
  BY DEF KeepsUp
<1>5. /\ pc # "tick" => tick' = NoTick
      /\ pc = "tick" => tick'.previous = tick.previous + d /\ tick'.todo = tick.todo
  OBVIOUS
<1>6. tick_age' <= 2 * MaxLag + (IF pc = "tick" THEN tick'.previous ELSE skew')
  BY <1>2, <1>5 DEF KeepsUp
<1> QED BY <1>1, <1>2, <1>3, <1>4, <1>5, <1>6

\* A tick is begun only when its time has come, also on a clock that was set back.
LEMMA TickStep == LoopInv /\ handle_tick => LoopInv'
<1> SUFFICES ASSUME LoopInv, handle_tick PROVE LoopInv'
  OBVIOUS
<1> USE DEF LoopInv, RunTypeOK, ClockInv, At
<1>0. NoTick \in [todo : SUBSET LobbyId, previous : 0..MaxLag] /\ NoTick.todo = {}
  BY DEF NoTick
<1>1. CASE handle_tick_begin
  <2>1. CASE Due
    <3>1. tick' \in [todo : SUBSET LobbyId, previous : 0..MaxLag] /\ tick'.previous = skew
      BY <1>1, <2>1 DEF handle_tick_begin
    <3> QED BY <1>1, <2>1, <3>1 DEF handle_tick_begin, Due, game
  <2>2. CASE ~Due
    BY <1>1, <2>2 DEF handle_tick_begin, game
  <2> QED BY <2>1, <2>2
<1>2. CASE handle_tick_lobby
  <2>1. PICK l \in tick.todo :
          \/ /\ Hook(l, timer_data)
             /\ tick' = [tick EXCEPT !.todo = @ \ {l}]
             /\ UNCHANGED crashed
          \/ /\ \E todo \in SUBSET tick.todo : tick' = [tick EXCEPT !.todo = todo \ {l}]
             /\ crashed' \in BOOLEAN
             /\ UNCHANGED <<timer_data, starts>>
    BY <1>2 DEF handle_tick_lobby
  <2>2. tick' \in [todo : SUBSET LobbyId, previous : 0..MaxLag] /\ tick'.previous = tick.previous
    BY <2>1
  <2>3. Timers(timer_data)
    BY DEF Timers
  <2>4. Timers(timer_data') /\ starts' \in 0..MaxStarts /\ crashed' \in BOOLEAN
    BY <2>1, <2>3, HookTimers
  <2> QED BY <1>2, <2>2, <2>4 DEF handle_tick_lobby, clock, Timers
<1>3. CASE handle_tick_end
  BY <1>0, <1>3 DEF handle_tick_end, game
<1> QED BY <1>1, <1>2, <1>3 DEF handle_tick

\* A pass may go beyond the last timer by one slot at most when it ends, whatever it erases.
LEMMA TimersStep == LoopInv /\ handle_timers => LoopInv'
<1> SUFFICES ASSUME LoopInv, handle_timers PROVE LoopInv'
  OBVIOUS
<1> USE DEF LoopInv, RunTypeOK, ClockInv, At
<1>0. /\ NoPass \in [at : Nat, end : Nat] /\ NoPass.at <= NoPass.end + 1
      /\ Timers(timer_data)
  BY DEF NoPass, Timers
<1>1. CASE handle_timers_begin
  <2>1. CASE timers_age - skew > TimerInterval
    <3>1. Cardinality(DOMAIN timer_data) \in Nat
      BY FS_CardinalityType
    <3>2. pass' \in [at : Nat, end : Nat] /\ pass'.at <= pass'.end + 1
      BY <1>1, <2>1, <3>1 DEF handle_timers_begin
    <3> QED BY <1>1, <2>1, <3>2 DEF handle_timers_begin, game
  <2>2. CASE ~(timers_age - skew > TimerInterval)
    <3>1. tick_age' \in -MaxWrite..(3 * MaxLag) /\ tick_age' <= 2 * MaxLag + skew
      BY <1>1, <2>2 DEF handle_timers_begin, reload_game, Opened
    <3> QED BY <1>1, <2>2, <3>1 DEF handle_timers_begin, game
  <2> QED BY <2>1, <2>2
<1>2. ASSUME Next_slot, pc = "timers", Timers(timer_data'), starts' \in 0..MaxStarts,
             crashed' \in BOOLEAN
      PROVE  LoopInv'
  <2>1. pass' \in [at : Nat, end : Nat] /\ pass'.at <= pass'.end + 1
    BY <1>2 DEF Next_slot
  <2> QED BY <1>2, <2>1 DEF Next_slot, clock, Timers
<1>3. CASE handle_timers_destroyed
  BY <1>0, <1>2, <1>3 DEF handle_timers_destroyed
<1>4. CASE handle_timers_early
  BY <1>0, <1>2, <1>4 DEF handle_timers_early
<1>5. CASE handle_timers_abandoned
  BY <1>0, <1>2, <1>5, WithoutTimers DEF handle_timers_abandoned, Abandoned
<1>6. CASE handle_timers_fire
  <2>1. timer_data[Visited].lobby_id \in LobbyId
    BY <1>6 DEF handle_timers_fire
  <2>2. Timers(Without(timer_data, Visited))
    BY <1>0, WithoutTimers
  <2>3. Hook(timer_data[Visited].lobby_id, Without(timer_data, Visited))
    BY <1>6 DEF handle_timers_fire
  <2>4. Timers(timer_data') /\ starts' \in 0..MaxStarts
    BY <2>1, <2>2, <2>3, HookTimers
  <2> QED BY <1>2, <1>6, <2>4 DEF handle_timers_fire
<1>7. CASE handle_timers_end
  <2>1. tick_age' \in -MaxWrite..(3 * MaxLag) /\ tick_age' <= 2 * MaxLag + skew
    BY <1>7 DEF handle_timers_end, reload_game, Opened
  <2> QED BY <1>0, <1>7, <2>1 DEF handle_timers_end, game
<1> QED BY <1>1, <1>3, <1>4, <1>5, <1>6, <1>7 DEF handle_timers

\* Events and the sweep change lobbies and, through the script, timers.
LEMMA EnvironmentStep == LoopInv /\ Environment => LoopInv'
<1> SUFFICES ASSUME LoopInv, NEW l \in LobbyId, lobby_opens(l) \/ lobby_call(l) \/ lobby_ends(l)
             PROVE  LoopInv'
  BY DEF Environment
<1> USE DEF LoopInv, RunTypeOK, ClockInv, At
<1>1. CASE lobby_opens(l)
  BY <1>1 DEF lobby_opens, clock
<1>2. CASE lobby_call(l)
  <2>1. Timers(timer_data') /\ starts' \in 0..MaxStarts
    <3>1. Timers(timer_data)
      BY DEF Timers
    <3> QED BY <1>2, <3>1, HookTimers DEF lobby_call
  <2> QED BY <1>2, <2>1 DEF lobby_call, clock, Timers
<1>3. CASE lobby_ends(l)
  BY <1>3 DEF lobby_ends, clock
<1> QED BY <1>1, <1>2, <1>3

\* The loop starts with no timer, and with ticks counted from a multiple of their rate.
LEMMA RunInitInv == RunInit => LoopInv
<1> SUFFICES ASSUME RunInit PROVE LoopInv
  OBVIOUS
<1>1. timer_data = <<>> /\ DOMAIN <<>> = {} /\ IsFiniteSet({})
  BY FS_EmptySet DEF RunInit
<1>2. tick \in [todo : SUBSET LobbyId, previous : 0..MaxLag] /\ tick.todo = {}
  BY DEF RunInit, NoTick
<1>3. pass \in [at : Nat, end : Nat] /\ pass.at <= pass.end + 1
  BY DEF RunInit, NoPass
<1>4. /\ skew = 0 /\ skew \in 0..(3 * MaxLag) /\ skew <= MaxLag
      /\ tick_age \in -MaxWrite..(3 * MaxLag) /\ timers_age \in 0..(4 * MaxLag)
      /\ tick_age <= 2 * MaxLag + skew
      /\ lobbies \subseteq LobbyId /\ starts \in 0..MaxStarts /\ crashed \in BOOLEAN
  <2>1. skew = 0 /\ timers_age = 0 /\ starts = 0 /\ lobbies = {} /\ crashed = FALSE
    BY DEF RunInit
  <2>2. tick_age \in 0..(TickRate - 1)
    BY DEF RunInit
  <2>3. MaxLag \in Nat /\ MaxStarts \in Nat /\ TickRate \in Nat /\ TickRate < MaxLag
    OBVIOUS
  <2>4. skew \in 0..(3 * MaxLag) /\ skew <= MaxLag /\ timers_age \in 0..(4 * MaxLag)
    BY <2>1, <2>3
  <2>5. tick_age \in -MaxWrite..(3 * MaxLag) /\ tick_age <= 2 * MaxLag + skew
    BY <2>1, <2>2, <2>3
  <2>6. lobbies \subseteq LobbyId /\ starts \in 0..MaxStarts
    BY <2>1, <2>3
  <2> QED BY <2>1, <2>4, <2>5, <2>6
<1>5. pc = "events" /\ tick = NoTick /\ pass = NoPass
  BY DEF RunInit
<1>6. RunTypeOK
  BY <1>1, <1>2, <1>3, <1>4, <1>5 DEF RunTypeOK
<1> QED BY <1>1, <1>2, <1>3, <1>4, <1>5, <1>6 DEF LoopInv, ClockInv

\* Every step of either thread keeps LoopInv.
LEMMA LoopStep == LoopInv /\ [RunNext]_run_vars => LoopInv'
<1>1. LoopInv /\ UNCHANGED run_vars => LoopInv'
  BY DEF LoopInv, RunTypeOK, ClockInv, run_vars, clock, game
<1> QED BY <1>1, TimeStep, TickStep, TimersStep, EnvironmentStep DEF RunNext

\* The locals of the loop, the clock and the timers keep their types.  Whatever time_run
\* writes in the middle of a tick, and wherever a reload has ticks counted from, now is never
\* ahead of the last write, and the iterator of handle_timers never more than one slot beyond
\* the end it has read.
THEOREM RunTypeCorrect == RunSpec => []RunTypeOK
<1>1. LoopInv => RunTypeOK
  BY DEF LoopInv
<1> QED BY <1>1, RunInitInv, LoopStep, PTL DEF RunSpec

=============================================================================
