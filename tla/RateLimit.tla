------------------------------- MODULE RateLimit -------------------------------
(***************************************************************************)
(* The sliding window rate limiter (titan.api.middleware.rate_limit), for  *)
(* one key: the hash of a token or of an address.  A request takes the     *)
(* time and then runs a Redis transaction, which other requests of the key *)
(* may overtake.  The expiry of the key is left out: it comes a second     *)
(* after the last entry has left the window.                               *)
(***************************************************************************)
EXTENDS Absence, Integers, FiniteSets

CONSTANTS
    Request,        \* requests in flight
    Window,         \* window_seconds
    Limit,          \* requests_per_window
    MaxDelay,       \* bound on the time between the stamp and the transaction
    MaxTime

ASSUME LimiterAssumption ==
    /\ Window \in Nat /\ Limit \in Nat /\ MaxDelay \in Nat /\ MaxTime \in Nat
    /\ Nothing \notin Nat

VARIABLES
    time,
    entries,    \* the sorted set: a member is a stamp, and so is its score
    stamp,      \* [Request -> the time it has taken, or Nothing]
    counted,    \* stamps that were ever added to it (history)
    admitted,   \* stamps of the requests that the limiter let through (history)
    refused     \* stamps of those it did not (history)

rateVars == <<time, entries, stamp, counted, admitted, refused>>

\* No transaction is later than MaxDelay.
Tick ==
    /\ time < MaxTime
    /\ \A r \in Request : stamp[r] # Nothing => time < stamp[r] + MaxDelay
    /\ time' = time + 1
    /\ UNCHANGED <<entries, stamp, counted, admitted, refused>>

\* dispatch, for a path and an address that are not on the bypass lists.
Dispatch(r) ==
    /\ stamp[r] = Nothing
    /\ stamp' = [stamp EXCEPT ![r] = time]
    /\ UNCHANGED <<time, entries, counted, admitted, refused>>

\* zremrangebyscore; the mutant removes nothing.
AllEntries(now) == entries

InWindow(now) == {e \in entries : e > now - Window}

\* Mutant of Admits: one more.
AdmitsOneMore(count) == count <= Limit

Admits(count) == count < Limit

\* The transaction counts and adds the request, whether it is let through or not;
\* requests with the same stamp are one entry.
IsAllowed(r) ==
    LET now == stamp[r] IN
    /\ now # Nothing
    /\ entries' = InWindow(now) \cup {now}
    /\ counted' = counted \cup {now}
    /\ stamp' = [stamp EXCEPT ![r] = Nothing]
    /\ \/ /\ Admits(Cardinality(InWindow(now)))
          /\ admitted' = admitted \cup {now} /\ UNCHANGED refused
       \/ /\ ~Admits(Cardinality(InWindow(now)))
          /\ refused' = refused \cup {now} /\ UNCHANGED admitted
    /\ UNCHANGED time

\* Redis is away, whether or not the transaction was carried out: the request passes
\* unlimited, or is answered with 503, as rate_limit_fail_mode says.
RedisFails(r) ==
    LET now == stamp[r] IN
    /\ now # Nothing
    /\ \/ UNCHANGED <<entries, counted>>
       \/ entries' = InWindow(now) \cup {now} /\ counted' = counted \cup {now}
    /\ stamp' = [stamp EXCEPT ![r] = Nothing]
    /\ UNCHANGED <<time, admitted, refused>>

RateInit ==
    /\ time = 0 /\ entries = {} /\ counted = {}
    /\ stamp = [r \in Request |-> Nothing]
    /\ admitted = {} /\ refused = {}

RateNext == Tick \/ \E r \in Request : Dispatch(r) \/ IsAllowed(r) \/ RedisFails(r)

RateSpec == RateInit /\ [][RateNext]_rateVars

-----------------------------------------------------------------------------
(* Properties.                                                             *)

RateTypeOK ==
    /\ time \in 0 .. MaxTime
    /\ counted \subseteq 0 .. time
    /\ entries \cup admitted \cup refused \subseteq counted
    /\ stamp \in [Request -> {Nothing} \cup 0 .. time]

\* In no window, shortened by what a transaction may be late, does the limiter let
\* more than Limit requests through, but for those that share their stamp with
\* another one and those that pass while Redis is away.  A late transaction may
\* find the entries of its window removed by a request of the next window.
LimitHolds ==
    \A t \in 0 .. time :
        Cardinality({a \in admitted : t - (Window - MaxDelay) < a /\ a <= t}) <= Limit

\* Who is refused is refused for Limit requests that were dispatched less than a
\* window before it, or after it; it may share its stamp with one of them.  Nobody
\* is kept out by what was there earlier, so that it is enough to wait for a window,
\* as the Retry-After header says.
RefusedOnlyWhenFull ==
    \A s \in refused : Cardinality({c \in counted \ {s} : c > s - Window}) >= Limit - 1

LimiterExact == LimitHolds /\ RefusedOnlyWhenFull
=============================================================================
