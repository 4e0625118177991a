--------------------------- MODULE AttemptLimiter ---------------------------
(***************************************************************************)
(* The sliding-window counter in front of every password hash              *)
(* (modules/auth/attemptLimiter.ts).  A limiter is a function from keys to *)
(* the times of the attempts that count, oldest first; a key the Map does  *)
(* not hold is one with no attempt.                                        *)
(***************************************************************************)
EXTENDS Naturals, Sequences

CONSTANT Window  \* windowMs, in ticks of the model's clock

ASSUME WindowAssumption == Window \in Nat \ {0}

\* The attempts still inside the window, in their order.
Recent(times, now) ==
  LET Upto[i \in 0..Len(times)] ==
        IF i = 0 THEN <<>>
        ELSE IF times[i] + Window > now THEN Append(Upto[i - 1], times[i])
        ELSE Upto[i - 1]
  IN Upto[Len(times)]

\* Mutant: the wait runs from the newest attempt.
RetryAfterNewest(times, limit, now) ==
  LET kept == Recent(times, now)
  IN IF Len(kept) < limit THEN 0 ELSE (kept[Len(kept)] + Window) - now

\* How long until the key may try again, 0 if it may now.
RetryAfter(times, limit, now) ==
  LET kept == Recent(times, now)
  IN IF Len(kept) < limit THEN 0 ELSE (kept[Len(kept) - limit + 1] + Window) - now

Record(attempts, key, now) ==
  [attempts EXCEPT ![key] = Append(Recent(@, now), now)]

\* Mutant: an attempt that turned out legitimate stays counted.
ReleaseNothing(attempts, key, now) == attempts

\* Withdraws the most recent attempt.
Release(attempts, key, now) ==
  LET kept == Recent(attempts[key], now)
  IN [attempts EXCEPT ![key] = IF kept = <<>> THEN <<>> ELSE SubSeq(kept, 1, Len(kept) - 1)]

Reset(attempts, key) == [attempts EXCEPT ![key] = <<>>]

=============================================================================
