------------------------ MODULE ConnectionRateLimiter ------------------------
(***************************************************************************)
(* ConnectionRateLimiter: a sliding window over the attempts of each        *)
(* address and of each token.  An attempt is kept as its age, so that time  *)
(* needs no bound: what has left the window counts as just out of it.       *)
(*                                                                         *)
(* Definitions marked (fault) are plausible slips, as in TaskOrchestrator.  *)
(***************************************************************************)
EXTENDS Naturals, Sequences

CONSTANTS
  Keys,    \* addresses and tokens, of both maps
  Window,  \* windowMs of the limiter that sees the key, in ticks
  Limit    \* its maxAttempts

ASSUME WindowType == Window \in [Keys -> Nat] /\ Limit \in [Keys -> Nat]

VARIABLES
  limiter,  \* attempts and tokenAttempts: the ages each entry holds
  recent    \* (history) the checks this limiter passed within the window, whatever
            \* its maps say

limiterVars == <<limiter, recent>>

Entries(k) == Seq(0 .. Window[k])
LimiterTypeOK ==
  /\ DOMAIN limiter = Keys /\ DOMAIN recent = Keys
  /\ \A k \in Keys : limiter[k] \in Entries(k) /\ recent[k] \in Entries(k)

NoAttempts  == [k \in Keys |-> <<>>]
LimiterInit == limiter = NoAttempts /\ recent = NoAttempts

\* A new limiter takes the place of the old one.
LimiterFresh == limiter' = NoAttempts /\ recent' = NoAttempts

InWindow(k, age) == age < Window[k]

\* The filter on timestamps.  Attempts are pushed as time passes, so those it
\* drops come first.
Expired(k, s) == CHOOSE n \in 0 .. Len(s) : \A i \in 1 .. Len(s) : InWindow(k, s[i]) <=> i > n
Recent(k, s)  == SubSeq(s, Expired(k, s) + 1, Len(s))

\* (fault) what has left the window counts until it is cleaned up
PassesUnfiltered(k) == Len(limiter[k]) < Limit[k]

Passes(k) == Len(Recent(k, limiter[k])) < Limit[k]

Recorded(k) ==
  IF Passes(k) THEN [limiter EXCEPT ![k] = Append(Recent(k, @), 0)] ELSE limiter

\* checkLimit and checkTokenLimit
CheckLimit(k) ==
  /\ limiter' = Recorded(k)
  /\ recent' = IF Passes(k) THEN [recent EXCEPT ![k] = Recent(k, Append(@, 0))] ELSE recent

Older(k, s) == [i \in 1 .. Len(s) |-> IF InWindow(k, s[i]) THEN s[i] + 1 ELSE s[i]]

Tick ==
  /\ limiter' = [k \in Keys |-> Older(k, limiter[k])]
  /\ recent' = [k \in Keys |-> Recent(k, Older(k, recent[k]))]

\* (fault) one attempt out of the window takes the entry with it
CleanedUpWhole(k, s) == IF \A i \in DOMAIN s : InWindow(k, s[i]) THEN s ELSE <<>>

CleanedUp(k, s) == Recent(k, s)

\* cleanup, every few minutes
Cleanup ==
  /\ limiter' = [k \in Keys |-> CleanedUp(k, limiter[k])]
  /\ UNCHANGED recent

-----------------------------------------------------------------------------
\* Never does one limiter pass more attempts of one key than the limit within a
\* window, wherever the window begins and whenever the clean-up runs.  A limiter
\* lives as long as its process: what an earlier one passed is not counted.
WindowHeld == \A k \in Keys : Len(recent[k]) <= Limit[k]
=============================================================================
