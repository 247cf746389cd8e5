------------------------------ MODULE Alerter ------------------------------
(***************************************************************************)
(* The alerter (internal/alert/alert.go): a goroutine that reads the       *)
(* message log at every tick, computes the error rate and the average      *)
(* latency of the last window, and posts to a webhook if one of them is    *)
(* above its threshold and the last alert is more than a window ago.       *)
(*                                                                         *)
(* The code compares times with the present only, so the model keeps ages: *)
(* time passes in steps, without a bound.  The goroutine is assumed to run *)
(* within a step of the moment when it can.  QueryAll reads a snapshot,    *)
(* and what check computes of it is one action.                            *)
(***************************************************************************)
EXTENDS Integers, FiniteSetsExt

CONSTANTS
  Kinds,      \* messages as check sees them: [counted, error, latency]
  Window,     \* the window, in steps of the clock
  Period,     \* the ticker's period (10 s)
  Timeout,    \* the webhook's timeout (5 s)
  MaxLag,     \* the age at which a message can be found in the log
  ErrorRate, Latency,  \* the thresholds; one that is 0 is off
  MaxFailed   \* bound: failures in a row, of the webhook or of QueryAll

ASSUME AlerterAssumption ==
  /\ Kinds \subseteq [counted : BOOLEAN, error : BOOLEAN, latency : Nat]
  /\ Window \in Nat \ {0} /\ Period \in Nat \ {0} /\ Timeout \in Nat /\ MaxLag \in Nat
  /\ ErrorRate \in Nat /\ Latency \in Nat /\ MaxFailed \in Nat

VARIABLES
  log,        \* the messages of the log that are in the window: [age, kind, told]
  next,       \* the time to the ticker's next tick
  tick,       \* a tick waits in its channel
  phase,      \* Start: "waiting", "posting" or "returned"
  posting,    \* how long the post has been under way
  sinceAlert, \* time.Since(lastAlerted), up to Window + 1
  ctxDone,
  failed,     \* history: failures since the last alert that was delivered
  lasting,    \* history: how long the thresholds have been exceeded without a break
  unheard     \* history: how long ago the last alert was delivered

alertVars == <<log, next, tick, phase, posting, sinceAlert, ctxDone, failed, lasting, unheard>>

\* What is waited for in the worst case, from one alert to the next.
Delay == Window + Period + Timeout
Patience == (MaxFailed + 1) * Delay

-----------------------------------------------------------------------------
(***************************************************************************)
(* Slips: what a plausible mistake would make of a definition below.  The  *)
(* specification does not use them; each one breaks a property.            *)
(***************************************************************************)

\* lastAlerted is set whenever a threshold is exceeded, alert or not.
CooldownRestarts == sinceAlert' = 0

\* lastAlerted is set by an alert that was delivered only.
CooldownIfHeard(delivered) == IF delivered THEN sinceAlert' = 0 ELSE UNCHANGED sinceAlert

\* The request has no context and no timeout.
GivesUpNever == FALSE

-----------------------------------------------------------------------------
Capped(n, bound) == IF n > bound THEN bound ELSE n

AlertInit ==
  /\ log = {} /\ next = Period /\ tick = FALSE
  /\ phase = "waiting" /\ posting = 0 /\ sinceAlert = Window + 1
  /\ ctxDone = FALSE
  /\ failed = 0 /\ lasting = 0 /\ unheard = Patience + 1

\* The messages that check counts, for the error rate and for the average latency.
Counted(messages) == {m \in messages : m.kind.counted}
Timed(messages) == {m \in messages : m.kind.latency > 0}

\* Whether a threshold is exceeded.  The average is an integer division.
Breached(messages) ==
  LET total == Cardinality(Counted(messages))
      errors == Cardinality({m \in Counted(messages) : m.kind.error})
      times == Cardinality(Timed(messages))
      latency == MapThenSumSet(LAMBDA m : m.kind.latency, Timed(messages))
      average == IF times > 0 THEN latency \div times ELSE 0
  IN  /\ total > 0
      /\ \/ ErrorRate > 0 /\ 100 * errors > ErrorRate * total
         \/ Latency > 0 /\ average > Latency

\* History: how long a breach has lasted when the log is like this.
Lasts(messages, steps) ==
  lasting' = IF Breached(messages) THEN Capped(lasting + steps, Patience + 1) ELSE 0

\* The goroutine has something to do.
Busy ==
  \/ phase = "waiting" /\ (tick \/ ctxDone)
  \/ phase = "posting" /\ (posting = Timeout \/ ctxDone)

\* Time passes: a message leaves the window, the ticker ticks into a channel of one.
Advance ==
  /\ ~Busy
  /\ log' = {[m EXCEPT !.age = @ + 1] : m \in {n \in log : n.age + 1 < Window}}
  /\ next' = IF next = 1 THEN Period ELSE next - 1
  /\ tick' = (tick \/ next = 1)
  /\ posting' = IF phase = "posting" THEN posting + 1 ELSE 0
  /\ sinceAlert' = Capped(sinceAlert + 1, Window + 1)
  /\ unheard' = Capped(unheard + 1, Patience + 1)
  /\ Lasts(log', 1)
  /\ UNCHANGED <<phase, ctxDone, failed>>

\* The log gets a message, or is cleared.
Stored(kind, age) ==
  /\ age < Window
  /\ \A m \in log : ~(m.kind = kind /\ m.age = age)
  /\ log' = log \union {[age |-> age, kind |-> kind, told |-> FALSE]}
  /\ Lasts(log', 0)
  /\ UNCHANGED <<next, tick, phase, posting, sinceAlert, ctxDone, failed, unheard>>

Cleared ==
  /\ log # {}
  /\ log' = {}
  /\ Lasts(log', 0)
  /\ UNCHANGED <<next, tick, phase, posting, sinceAlert, ctxDone, failed, unheard>>

\* The last alert is far enough in the past.
CooledDown == sinceAlert > Window

\* What a breach does to lastAlerted before an alert is sent.
BreachSeen == UNCHANGED sinceAlert

\* A tick: check reads the log, and begins to post or does nothing.
Check ==
  /\ phase = "waiting" /\ tick
  /\ tick' = FALSE
  /\ \/ /\ Breached(log) /\ CooledDown
        /\ phase' = "posting"
        /\ log' = {[m EXCEPT !.told = TRUE] : m \in log}
        /\ UNCHANGED sinceAlert
     \/ /\ Breached(log) /\ ~CooledDown
        /\ BreachSeen
        /\ UNCHANGED <<phase, log>>
     \/ /\ ~Breached(log)
        /\ UNCHANGED <<phase, log, sinceAlert>>
  /\ UNCHANGED <<next, posting, ctxDone, failed, lasting, unheard>>

\* QueryAll fails.
CheckFails ==
  /\ phase = "waiting" /\ tick
  /\ failed < MaxFailed
  /\ tick' = FALSE
  /\ failed' = failed + 1
  /\ UNCHANGED <<log, next, phase, posting, sinceAlert, ctxDone, lasting, unheard>>

\* lastAlerted is set after fireAlert, whatever came of it.
SetLastAlerted(delivered) == sinceAlert' = 0

\* The post ends without being answered.
GivesUp == posting = Timeout \/ ctxDone

\* The webhook has taken the alert.
PostDelivered ==
  /\ phase = "posting"
  /\ phase' = "waiting" /\ posting' = 0
  /\ SetLastAlerted(TRUE)
  /\ failed' = 0 /\ unheard' = 0
  /\ UNCHANGED <<log, next, tick, ctxDone, lasting>>

\* It refuses it, or cannot be reached.
PostRefused ==
  /\ phase = "posting" /\ failed < MaxFailed
  /\ phase' = "waiting" /\ posting' = 0
  /\ SetLastAlerted(FALSE)
  /\ failed' = failed + 1
  /\ UNCHANGED <<log, next, tick, ctxDone, lasting, unheard>>

\* It does not answer in time, or the context is cancelled.
PostGivenUp ==
  /\ phase = "posting" /\ GivesUp
  /\ failed < MaxFailed \/ ctxDone
  /\ phase' = "waiting" /\ posting' = 0
  /\ SetLastAlerted(FALSE)
  /\ failed' = IF ctxDone THEN failed ELSE failed + 1
  /\ UNCHANGED <<log, next, tick, ctxDone, lasting, unheard>>

Cancel ==
  /\ ~ctxDone
  /\ ctxDone' = TRUE
  /\ UNCHANGED <<log, next, tick, phase, posting, sinceAlert, failed, lasting, unheard>>

Return ==
  /\ phase = "waiting" /\ ctxDone
  /\ phase' = "returned"
  /\ UNCHANGED <<log, next, tick, posting, sinceAlert, ctxDone, failed, lasting, unheard>>

AlertNext ==
  \/ Advance \/ Cleared \/ Cancel
  \/ \E kind \in Kinds, age \in 0 .. MaxLag : Stored(kind, age)
  \/ Check \/ CheckFails \/ PostDelivered \/ PostRefused \/ PostGivenUp \/ Return

AlertSpec == AlertInit /\ [][AlertNext]_alertVars

\* The goroutine is scheduled, and its select takes a ready case at random, so it does
\* not take the other one forever.  The webhook need not answer.
FairAlertSpec == AlertSpec /\ WF_alertVars(PostGivenUp) /\ SF_alertVars(Return)

-----------------------------------------------------------------------------
(***************************************************************************)
(* Properties.                                                             *)
(***************************************************************************)

\* A breach that lasts is told: by a tick that was not lost behind a post, once the
\* cooldown of the alert before it is over, and in spite of MaxFailed failures, for each
\* of which the cooldown runs again (alert.go:50, 110-115).
BreachHeard ==
  ~ctxDone /\ phase # "returned" => ~(lasting > Patience /\ unheard > Patience)

\* No message is told of twice: when the next alert may be sent, what the last one was
\* about has left the window (alert.go:72, 111-113).
ToldOnce == [][phase = "waiting" /\ phase' = "posting" => \A m \in log : ~m.told]_alertVars

\* The alerter ends with the context, also while the webhook does not answer
\* (alert.go:55, 130, 137).
StopsWhenCancelled == ctxDone ~> phase = "returned"
=============================================================================
