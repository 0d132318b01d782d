--------------------------- MODULE RequestPermits ---------------------------
(***************************************************************************)
(* What a connector needs for a request: a slot from the rate limiter      *)
(* (_base/rate_limit.py), one caller at a time, and an access token, which *)
(* processes refresh ahead of its expiry and put back into a token storage *)
(* they share (chunkshop/oauth, connectors oauth).  Times are in units.    *)
(***************************************************************************)
EXTENDS Integers, Sequences, FiniteSets, FiniteSetsExt, SequencesExt

CONSTANTS
    MaxCalls, Period,           \* at most MaxCalls requests per Period
    SleepTime, SleepBackoff, MaxNumSleep,
    Processes,                  \* share one stored token
    Leeway, Lifetime,           \* of proactive_refresh, of an access token
    Horizon                     \* bound of the clock

ASSUME PermitsAssumption ==
    /\ {MaxCalls, Period, SleepTime, SleepBackoff, Lifetime} \subseteq Nat \ {0}
    /\ MaxNumSleep \in Nat /\ Leeway \in Nat /\ Horizon \in Nat

VARIABLES
    now,
    callHistory,    \* the limiter's
    caller,         \* where the one caller is in wrapped_func
    sleepCnt,       \* its pauses
    noted,          \* for the properties: all that callHistory ever noted,
    made,           \* and when the service got the requests
    rotates,        \* the provider issues a new refresh token with each refresh
    valid,          \* the refresh token the provider accepts
    stored,         \* token storage: refresh token (0: none) and expiry
    held            \* held[p]: what p read, or got and has yet to store

permitVars == <<now, callHistory, caller, sleepCnt, noted, made, rotates, valid, stored, held>>
limiter == <<callHistory, caller, sleepCnt, noted, made>>
oauth == <<rotates, valid, stored, held>>

Nothing == [state |-> "none", refresh |-> 0, expires |-> 0]

PermitsInit ==
    /\ now = 0 /\ callHistory = <<>> /\ caller = "idle" /\ sleepCnt = 0
    /\ noted = <<>> /\ made = <<>>
    /\ rotates \in BOOLEAN /\ valid = 1
    /\ stored = [refresh |-> 1, expires |-> Lifetime]
    /\ held = [p \in Processes |-> Nothing]

\* Time passes between any two steps of a caller that does not sleep.
Tick ==
    /\ caller # "sleep" /\ now < Horizon
    /\ now' = now + 1
    /\ UNCHANGED <<limiter, oauth>>

-----------------------------------------------------------------------------
\* The calls that came after a time, in their order.
CallsAfter(calls, from) ==
    LET kept[i \in 0 .. Len(calls)] ==
            IF i = 0 THEN <<>>
            ELSE IF calls[i] > from THEN Append(kept[i - 1], calls[i])
                                    ELSE kept[i - 1]
    IN kept[Len(calls)]

\* Faulty variant of Cleaned: the calls of the last period are forgotten too.
CleanedEarly(t) == CallsAfter(callHistory, t - Period + SleepTime)

\* What _cleanup keeps at time t.
Cleaned(t) == CallsAfter(callHistory, t - Period)

Call ==
    /\ caller = "idle"
    /\ caller' = "look" /\ sleepCnt' = 0
    /\ UNCHANGED <<now, callHistory, noted, made, oauth>>

\* _cleanup, by a clock reading of its own, and whether there is room then.
Look ==
    /\ caller = "look"
    /\ callHistory' = Cleaned(now)
    /\ caller' = IF Len(Cleaned(now)) = MaxCalls THEN "sleep" ELSE "note"
    /\ UNCHANGED <<now, sleepCnt, noted, made, oauth>>

\* 2, 4, 8, ... times the first pause.
SleepFor(n) == SleepTime * SleepBackoff ^ n

\* The pause over, which may last longer than asked for, give up or look again.
Sleep ==
    /\ caller = "sleep"
    /\ \E wake \in now .. Horizon :
          wake >= now + SleepFor(sleepCnt) /\ now' = wake
    /\ sleepCnt' = sleepCnt + 1
    /\ caller' = IF MaxNumSleep # 0 /\ sleepCnt' >= MaxNumSleep THEN "idle" ELSE "look"
    /\ UNCHANGED <<callHistory, noted, made, oauth>>

\* The call is noted with another reading of the clock.
Note ==
    /\ caller = "note"
    /\ callHistory' = Append(callHistory, now) /\ noted' = Append(noted, now)
    /\ caller' = "send"
    /\ UNCHANGED <<now, sleepCnt, made, oauth>>

\* The request gets to the service, and only when it is answered does the next
\* call begin.
Send ==
    /\ caller = "send"
    /\ made' = Append(made, now)
    /\ caller' = "idle"
    /\ UNCHANGED <<now, callHistory, sleepCnt, noted, oauth>>

-----------------------------------------------------------------------------
\* A process reads the stored token.
ReadToken(p) ==
    /\ held[p].state = "none"
    /\ held' = [held EXCEPT ![p] =
          [state |-> "read", refresh |-> stored.refresh, expires |-> stored.expires]]
    /\ UNCHANGED <<now, limiter, rotates, valid, stored>>

Expiring(p) == held[p].refresh # 0 /\ held[p].expires - now <= Leeway

\* proactive_refresh: nothing to do yet, or no refresh token.
KeepToken(p) ==
    /\ held[p].state = "read" /\ ~Expiring(p)
    /\ held' = [held EXCEPT ![p] = Nothing]
    /\ UNCHANGED <<now, limiter, rotates, valid, stored>>

\* Faulty variant of TokensFrom: no fallback when the answer omits the token.
TokensFromAlone(answer, prior) == answer

\* _tokens_from_payload: the provider's new refresh token, or the prior one.
TokensFrom(answer, prior) == IF answer = 0 THEN prior ELSE answer

\* The provider accepts the refresh token it issued last and may answer with a
\* new one, 0 stands for an answer without.
Refresh(p) ==
    /\ held[p].state = "read" /\ Expiring(p) /\ held[p].refresh = valid
    /\ valid' = IF rotates THEN valid + 1 ELSE valid
    /\ held' = [held EXCEPT ![p] =
          [state |-> "fresh", expires |-> now + Lifetime,
           refresh |-> TokensFrom(IF rotates THEN valid' ELSE 0, held[p].refresh)]]
    /\ UNCHANGED <<now, limiter, rotates, stored>>

\* Another process was faster: an error for this one.
RefreshRejected(p) ==
    /\ held[p].state = "read" /\ Expiring(p) /\ held[p].refresh # valid
    /\ held' = [held EXCEPT ![p] = Nothing]
    /\ UNCHANGED <<now, limiter, rotates, valid, stored>>

StoreToken(p) ==
    /\ held[p].state = "fresh"
    /\ stored' = [refresh |-> held[p].refresh, expires |-> held[p].expires]
    /\ held' = [held EXCEPT ![p] = Nothing]
    /\ UNCHANGED <<now, limiter, rotates, valid>>

LimiterNext == Tick \/ Call \/ Look \/ Sleep \/ Note \/ Send
OAuthNext ==
    \/ Tick
    \/ \E p \in Processes : ReadToken(p) \/ KeepToken(p) \/ Refresh(p)
                            \/ RefreshRejected(p) \/ StoreToken(p)
PermitsNext == LimiterNext \/ OAuthNext
PermitsSpec == PermitsInit /\ [][PermitsNext]_permitVars

-----------------------------------------------------------------------------
\* Never more than n of the times within a Period.
MostWithin(times, n) ==
    \A i \in 1 .. Len(times) :
        Cardinality({j \in i .. Len(times) : times[j] < times[i] + Period}) <= n

\* Whatever the pauses, however old the history and whatever time passes between
\* looking, noting and the request's arrival: the limiter lets MaxCalls calls go
\* in a Period, and the service gets at most one more than that in any Period,
\* because a request that was slow to arrive is followed by those of a new one.
RateIsHeld == MostWithin(noted, MaxCalls) /\ MostWithin(made, MaxCalls + 1)

\* What the decorator says of itself, that it prevents making more than max_calls
\* requests per period; a request that is slow to arrive refutes it.
RateIsExact == MostWithin(made, MaxCalls)

\* However many processes refresh at once, the token they leave in the storage
\* is one the provider accepts, unless a process is about to store it.
StoredTokenIsValid ==
    stored.refresh = valid \/ \E p \in Processes :
        held[p].state = "fresh" /\ held[p].refresh = valid

\* proactive_refresh "avoids the race": no process has its token refused.
NoRefreshIsRejected == \A p \in Processes : ~ENABLED RefreshRejected(p)
=============================================================================
