------------------------------- MODULE Temporal -------------------------------
(***************************************************************************)
(* flight-core's time and temporal contracts: saturating instants, ages,   *)
(* freshness, sequences, deadlines and rates.  A duration is counted in    *)
(* units of which MILLI make a millisecond and SECOND a second, so that the*)
(* divisions lose what they lose.  An Option is a set of at most one; a    *)
(* Result whose error nobody reads is a BOOLEAN.                           *)
(***************************************************************************)
EXTENDS Integers

CONSTANTS
    MILLI, SECOND,   \* 1_000_000 ns and 1_000_000_000 ns
    MAX_U64,         \* the last instant
    MAX_U32          \* the oldest age

OFFBOARD_HEARTBEAT_MAX_AGE_MS == 250
COMMAND_MAX_AGE_MS == 100
ESTIMATE_MAX_AGE_MS == 250

ASSUME TemporalAssumption ==
    /\ {MILLI, SECOND} \subseteq Nat \ {0}
    /\ {MAX_U64, MAX_U32} \subseteq Nat
    /\ ESTIMATE_MAX_AGE_MS <= MAX_U32

-----------------------------------------------------------------------------
(* MonotonicInstant and Duration never leave u64: they stop at its ends. *)

Instant == 0 .. MAX_U64
Saturate(n) == IF n > MAX_U64 THEN MAX_U64 ELSE n
from_millis(ms) == Saturate(ms * MILLI)
saturating_add(now, dt) == Saturate(now + dt)
saturating_sub(now, dt) == IF now > dt THEN now - dt ELSE 0
saturating_duration_since(now, earlier) == saturating_sub(now, earlier)

-----------------------------------------------------------------------------
(* Age and order of evidence. *)

age_ms(stamped_at, now) ==
    LET ms == saturating_duration_since(now, stamped_at) \div MILLI IN
    IF ms > MAX_U32 THEN MAX_U32 ELSE ms

precedes(t, later) == t <= later

\* Fresh::check_age and Fresh::get: Ok or not.
check_age(age, max_age) == age < max_age
get(stamped_at, now, max_age) == check_age(age_ms(stamped_at, now), max_age)

HeartbeatFresh(age) == check_age(age, OFFBOARD_HEARTBEAT_MAX_AGE_MS)
CommandFresh(age) == check_age(age, COMMAND_MAX_AGE_MS)
EstimateFresh(age) == check_age(age, ESTIMATE_MAX_AGE_MS)

heartbeat_revoke_event(age) == IF HeartbeatFresh(age) THEN {} ELSE {"HeartbeatStale"}
estimate_revoke_event(age) == IF EstimateFresh(age) THEN {} ELSE {"EstimatorInvalid"}
\* Estimate::revoke_event: the validity bit's half.
revoke_event(valid) == IF valid THEN {} ELSE {"EstimatorInvalid"}

\* Sequence::observe refuses a number below the last one and keeps that one.
observe(last, seq) ==
    IF \E l \in last : seq < l THEN [ok |-> FALSE, last |-> last]
    ELSE [ok |-> TRUE, last |-> {seq}]

-----------------------------------------------------------------------------
(* Deadlines, leases, stamped commands and rates. *)

\* Deadline::for_command, and Deadline::met of it.
for_command(issued_at) ==
    saturating_add(issued_at, from_millis(COMMAND_MAX_AGE_MS - 1))
met(due, now) == now <= due

\* Lease::live and Command::within.
lease_live(issued_at, max_age, now) == saturating_duration_since(now, issued_at) < max_age

within_command_bound(issued_at, now) == CommandFresh(age_ms(issued_at, now))
within_deadline(issued_at, now) ==
    met(for_command(issued_at), now) /\ within_command_bound(issued_at, now)

\* A rate in whole hertz; the period of 0 Hz is no number (u64::MAX).
from_period_ns(period) == IF period = 0 THEN 0 ELSE SECOND \div period
HasPeriod(hz, period) == hz # 0 /\ SECOND \div hz = period
admits(hz, compute) == hz # 0 /\ compute <= SECOND \div hz
=============================================================================
